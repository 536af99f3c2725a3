---------------------------- MODULE OperationsProofs ----------------------------
(***************************************************************************)
(* Proofs about what an operator and an administrator do to an             *)
(* installation: the table of members, the backups of the console, the     *)
(* token and the credentials, the planet, the status of a member, the      *)
(* system page, the forms of the console and the scripts on the host.      *)
(* MCOperations runs these machines on small instances; each part below    *)
(* states the specification of one machine, the invariant that is          *)
(* inductive for it, and the property that MCOperations checks.            *)
(***************************************************************************)
EXTENDS Planet, SystemPage, ControllerAccess, MemberStatus, WebBackups,
        MemberTable, Console, Host, TLAPS
----------------------------------------------------------------------------
(* The table of members, a proof about MemberTable.                         *)

TableSpec == TableInit /\ [][TableNext]_tableVars

Editor == [id : Members, index : Nat, initial : MemberNames, value : MemberNames]
Update == [id : Members, does : {"update", "set", "remove"}, value : MemberNames, at : {"sent", "done", "failed"}]

TableTypeOK ==
    /\ rows \in Seq(Row) /\ fetched \in Seq(Row) /\ data \in Seq(Row)
    /\ load \in [at : {"idle", "sent"}] \cup [at : {"read"}, rows : Seq(Row)]
    /\ pending = NoRows \/ (pending # NoRows /\ pending \in [at : {"kept"}, rows : Seq(Row)])
    /\ editor = Nobody \/ (editor # Nobody /\ editor \in Editor)
    /\ updates \subseteq Update
    /\ unseen \in BOOLEAN
    /\ editingCount \in {0, 1}

(* Until a change is answered the load under way or the query may lack it.  *)
LoadsFollow ==
    ~unseen /\ (\A s \in updates : s.at # "done") =>
        /\ load = NoLoad => fetched = rows
        /\ load.at = "read" => load.rows = rows

TableInv == TableTypeOK /\ EditorKept /\ LoadsShown /\ LoadsFollow

(* updateData changes the name in one row and leaves the members of all     *)
(* rows as they are (NetworkMembersTable.tsx, updateData).                  *)
LEMMA UpdateDataType ==
    ASSUME NEW t \in Seq(Row), NEW i, NEW v \in MemberNames
    PROVE  /\ UpdateData(t, i, v) \in Seq(Row)
           /\ DOMAIN UpdateData(t, i, v) = DOMAIN t
           /\ \A k \in DOMAIN t : UpdateData(t, i, v)[k].id = t[k].id
           /\ \A k \in DOMAIN t : k # i => UpdateData(t, i, v)[k] = t[k]
<1> DEFINE u == UpdateData(t, i, v)
<1>1. DOMAIN t = 1..Len(t) /\ Len(t) \in Nat
  OBVIOUS
<1>2. \A k \in DOMAIN t : u[k] \in Row /\ u[k].id = t[k].id /\ (k # i => u[k] = t[k])
  <2> SUFFICES ASSUME NEW k \in DOMAIN t PROVE u[k] \in Row /\ u[k].id = t[k].id /\ (k # i => u[k] = t[k])
    OBVIOUS
  <2>1. t[k] \in Row
    BY <1>1
  <2>2. u[k] = IF k = i THEN [id |-> t[k].id, name |-> v] ELSE t[k]
    BY DEF UpdateData
  <2> QED BY <2>1, <2>2 DEF Row
<1>3. u \in [1..Len(t) -> Row]
  BY <1>1, <1>2 DEF UpdateData
<1>4. u \in Seq(Row) /\ DOMAIN u = DOMAIN t
  BY <1>1, <1>3
<1> QED BY <1>2, <1>4

(* A table without one of its rows is a table (NetworkMembersTable.tsx).    *)
LEMMA WithoutType ==
    ASSUME NEW t \in Seq(Row), NEW k \in DOMAIN t PROVE Without(t, k) \in Seq(Row)
<1>1. Len(t) \in Nat /\ k \in 1..Len(t) /\ Len(t) - 1 \in Nat
  OBVIOUS
<1>2. Without(t, k) \in [1..(Len(t) - 1) -> Row]
  BY <1>1 DEF Without
<1> QED BY <1>1, <1>2

(* The inductive invariant of the table of members: the cell that is edited *)
(* belongs to the row it was opened on, and what was loaded follows what is *)
(* stored (NetworkMembersTable.tsx).                                        *)
THEOREM TableKeeps == TableSpec => []TableInv
<1>1. TableInit => TableInv
  <2> SUFFICES ASSUME TableInit PROVE TableInv
    OBVIOUS
  <2>1. rows \in Seq(Row)
    BY TablesAssumption DEF TableInit
  <2>2. TableTypeOK
    BY <2>1 DEF TableInit, TableTypeOK, NoLoad
  <2>3. EditorKept /\ LoadsShown /\ LoadsFollow
    BY <2>1 DEF TableInit, EditorKept, LoadsShown, LoadsFollow, NoLoad
  <2> QED BY <2>2, <2>3 DEF TableInv
<1>2. ASSUME TableInv, [TableNext]_tableVars PROVE TableInv'
  <2> USE <1>2 DEF TableInv, TableTypeOK
  <2>1. CASE ReloadMembers
    BY <2>1 DEF ReloadMembers, Invalidate, EditorKept, LoadsShown, LoadsFollow, NoLoad
  <2>2. CASE GetNetworkMembers
    BY <2>2 DEF GetNetworkMembers, EditorKept, LoadsShown, LoadsFollow, NoLoad
  <2>3. CASE MembersLoaded
    BY <2>3 DEF MembersLoaded, Mirror, EditorKept, LoadsShown, LoadsFollow, NoLoad, NoRows
  <2>4. CASE CommitCell
    <3>1. editor \in Editor /\ editor # Nobody /\ editingCount = 1
      BY <2>4 DEF CommitCell, EditingEnds, EditorKept
    <3>2. Flushed \in Seq(Row) /\ (pending = NoRows => Flushed = data) /\ (pending # NoRows => Flushed = fetched)
      BY <3>1 DEF Flushed, LoadsShown
    <3> DEFINE painting == UpdateData(Flushed, editor.index, editor.value)
    <3>3. /\ painting \in Seq(Row) /\ DOMAIN painting = DOMAIN Flushed
          /\ \A k \in DOMAIN Flushed : painting[k].id = Flushed[k].id
          /\ \A k \in DOMAIN Flushed : k # editor.index => painting[k] = Flushed[k]
      <4>1. editor.value \in MemberNames
        BY <3>1 DEF Editor
      <4> HIDE DEF TableInv, TableTypeOK
      <4> QED BY <3>2, <4>1, UpdateDataType
    <3>4. data' = painting /\ painted' = (IF Flushed = data THEN painted ELSE {}) \cup {editor.index}
      BY <2>4 DEF CommitCell
    <3> HIDE DEF painting
    <3>5. updates' \subseteq Update /\ \A s \in updates : s \in updates'
      BY <2>4, <3>1 DEF CommitCell, SendUpdate, Update, Editor
    <3>6. /\ UNCHANGED <<rows, fetched, load, unseen>>
          /\ editor' = Nobody /\ editingCount' = 0 /\ pending' = NoRows
      BY <2>4, <3>1 DEF CommitCell, EditingEnds
    <3>7. TableTypeOK' /\ EditorKept'
      BY <3>3, <3>4, <3>5, <3>6 DEF EditorKept
    <3>8. LoadsShown'
      BY <3>1, <3>2, <3>3, <3>4, <3>6 DEF LoadsShown
    <3>9. LoadsFollow'
      BY <3>5, <3>6 DEF LoadsFollow
    <3> QED BY <3>7, <3>8, <3>9
  <2>5. CASE LeaveCell
    BY <2>5 DEF LeaveCell, EditingEnds, Flushed, EditorKept, LoadsShown, LoadsFollow
  <2>6. CASE OthersChange
    BY <2>6, TablesAssumption DEF OthersChange, EditorKept, LoadsShown, LoadsFollow
  <2>7. ASSUME NEW i \in DOMAIN data, FocusCell(i) PROVE TableInv'
    <3>1. i \in Nat /\ data[i] \in Row
      OBVIOUS
    <3>2. editor' \in Editor /\ editor'.index = i /\ editor'.id = data[i].id
      BY <2>7, <3>1 DEF FocusCell, Editor, Row
    <3>3. editor' # Nobody
      BY <3>1, <3>2 DEF Nobody
    <3> QED BY <2>7, <3>2, <3>3 DEF FocusCell, EditorKept, LoadsShown, LoadsFollow
  <2>8. ASSUME NEW i \in DOMAIN data, NEW does \in {"set", "remove"}, PressRow(i, does) PROVE TableInv'
    <3>1. data[i] \in Row
      OBVIOUS
    <3>2. updates' \subseteq Update /\ \A s \in updates : s \in updates'
      BY <2>8, <3>1 DEF PressRow, SendUpdate, Update, Row
    <3> QED BY <2>8, <3>2 DEF PressRow, EditorKept, LoadsShown, LoadsFollow
  <2>9. ASSUME NEW v \in MemberNames, TypeInCell(v) PROVE TableInv'
    BY <2>9 DEF TypeInCell, Editor, EditorKept, LoadsShown, LoadsFollow, Nobody
  <2>10. ASSUME NEW s \in updates, UpdateStored(s) PROVE TableInv'
    <3>1. s \in Update /\ UNCHANGED <<fetched, load, data, pending, editingCount, editor, painted, unseen>>
      BY <2>10 DEF UpdateStored
    <3>2. rows' \in Seq(Row)
      <4>1. CASE UNCHANGED rows
        BY <4>1
      <4>2. ASSUME NEW k \in DOMAIN rows, rows' = UpdateData(rows, k, s.value) PROVE rows' \in Seq(Row)
        BY <3>1, <4>2, UpdateDataType DEF Update
      <4>3. ASSUME NEW k \in DOMAIN rows, rows' = Without(rows, k) PROVE rows' \in Seq(Row)
        BY <4>3, WithoutType
      <4> QED BY <2>10, <3>1, <4>1, <4>2, <4>3 DEF UpdateStored, Update
    <3>3. \E t \in Update : t.at \in {"done", "failed"} /\ updates' = (updates \ {s}) \cup {t} /\ (t.at = "failed" => UNCHANGED rows)
      <4> DEFINE answered(at) == [s EXCEPT !.at = at]
      <4>1. \A at \in {"done", "failed"} : answered(at) \in Update /\ answered(at).at = at
        BY <3>1 DEF Update
      <4>2. \/ updates' = (updates \ {s}) \cup {answered("done")}
            \/ UNCHANGED rows /\ updates' = (updates \ {s}) \cup {answered("failed")}
        BY <2>10 DEF UpdateStored
      <4> HIDE DEF answered
      <4> QED BY <4>1, <4>2
    <3>4. TableTypeOK'
      BY <3>1, <3>2, <3>3
    <3>5. LoadsFollow'
      BY <2>10, <3>1, <3>3 DEF UpdateStored, LoadsFollow
    <3> QED BY <3>1, <3>4, <3>5 DEF EditorKept, LoadsShown
  <2>11. ASSUME NEW s \in updates, UpdateAnswered(s) PROVE TableInv'
    BY <2>11 DEF UpdateAnswered, Invalidate, EditorKept, LoadsShown, LoadsFollow, NoLoad
  <2>12. CASE UNCHANGED tableVars
    BY <2>12 DEF tableVars, EditorKept, LoadsShown, LoadsFollow
  <2> QED BY <2>1, <2>2, <2>3, <2>4, <2>5, <2>6, <2>7, <2>8, <2>9, <2>10, <2>11, <2>12
          DEF TableNext, Authorize, DeleteIp, StashOrDelete
<1> QED BY <1>1, <1>2, PTL DEF TableSpec

(* What an administrator types in a cell is stored for the member of that   *)
(* cell, whatever loads and changes come in between (NetworkMembersTable.tsx).*)
THEOREM MemberTableHolds == TableSpec => []TableHolds
<1>1. TableInv => TableHolds
  BY DEF TableInv, TableHolds, LoadsFollow, UpdatesSeen, NoLoad
<1> QED BY <1>1, TableKeeps, PTL

----------------------------------------------------------------------------
(* The backups of the console, a proof about WebBackups.                    *)

BackupSpec == BackupInit /\ [][BackupNext]_backupVars

Creating == [at : {"idle", "failed"}] \cup [at : {"sent"}, name : Names] \cup [at : {"done"}, name : Names, serial : Nat]
Deleting == [at : {"idle", "done", "failed"}] \cup [at : {"sent"}, name : Names]
Listing == [at : {"idle", "sent"}] \cup [at : {"read"}, names : SUBSET Names]

BackupTypeOK ==
    /\ archive \in [Names -> {NoFile} \cup [at : {"file"}, serial : Nat, whole : BOOLEAN]]
    /\ serial \in Nat /\ presses \in 0..MaxPresses
    /\ listed \in [BackupPages -> SUBSET Names] /\ behind \in [BackupPages -> SUBSET Names]
    /\ listing \in [BackupPages -> Listing]
    /\ creating \in [BackupPages -> Creating]
    /\ deleting \in [BackupPages -> Deleting]
    /\ downloads \in [BackupPages -> SUBSET [name : Names, want : Nat]]
    /\ reported \subseteq [name : Names, serial : Nat]
    /\ got \subseteq [name : Names, want : Nat, serial : Nat]
    /\ removed \subseteq Names

(* The archive s of name n, as long as nobody deletes it or uses the name.  *)
Kept(n, s) ==
    /\ s <= serial
    /\ n \notin TypedNames => n <= presses
    /\ archive[n] = NoFile => n \in removed
    /\ archive[n] # NoFile =>
           \/ archive[n].serial = s /\ archive[n].whole
           \/ archive[n].serial > s /\ n \in TypedNames

ArchivesKept ==
    /\ \A t \in reported : Kept(t.name, t.serial)
    /\ \A p \in BackupPages :
           /\ creating[p].at = "done" => Kept(creating[p].name, creating[p].serial)
           /\ \A d \in downloads[p] : d.want # 0 => Kept(d.name, d.want)

(* A name that is made of the time belongs to one creation.                 *)
NamesApart == \A p \in BackupPages :
    creating[p].at = "sent" /\ creating[p].name \notin TypedNames =>
        /\ creating[p].name <= presses
        /\ \A t \in reported : t.name # creating[p].name
        /\ \A q \in BackupPages :
               /\ q # p /\ creating[q].at \in {"sent", "done"} => creating[q].name # creating[p].name
               /\ \A d \in downloads[q] : d.want # 0 => d.name # creating[p].name

ListsFollow == \A p \in BackupPages : creating[p].at # "done" /\ deleting[p].at # "done" =>
    /\ listing[p].at = "idle" => (listed[p] \ Files) \cup (Files \ listed[p]) \subseteq behind[p]
    /\ listing[p].at = "read" => (listing[p].names \ Files) \cup (Files \ listing[p].names) \subseteq behind[p]

BackupInv == BackupTypeOK /\ ArchivesKept /\ NamesApart /\ ListsFollow /\ DownloadsTrue

(* The inductive invariant of the backups of the console: what each page    *)
(* knows of the archives, by the answers it has had (backuprestore).        *)
THEOREM BackupKeeps == BackupSpec => []BackupInv
<1> USE BackupBounds
<1>1. BackupInit => BackupInv
  BY DEF BackupInit, BackupInv, BackupTypeOK, ArchivesKept, NamesApart, ListsFollow, DownloadsTrue, Files, Names,
         Creating, Deleting, Listing, NoBackupCall, NoFile
<1>2. ASSUME BackupInv, [BackupNext]_backupVars PROVE BackupInv'
  <2> USE <1>2 DEF BackupInv
  <2>1. ASSUME NEW p \in BackupPages, PressCreate(p) PROVE BackupInv'
    <3>1. BackupTypeOK'
      BY <2>1 DEF PressCreate, Presses, BackupTypeOK, Creating, Deleting, Listing, NoBackupCall, NoFile, Names, Files
    <3>2. ArchivesKept'
      BY <2>1 DEF PressCreate, Presses, BackupTypeOK, ArchivesKept, NamesApart, Kept, Creating, NoBackupCall, NoFile, Names
    <3>3. NamesApart'
      BY <2>1 DEF PressCreate, Presses, BackupTypeOK, NamesApart, Creating, NoBackupCall, Names, ArchivesKept, Kept
    <3>4. ListsFollow'
      BY <2>1 DEF PressCreate, Presses, BackupTypeOK, ListsFollow, Files, Listing, Creating, Deleting, NoBackupCall, NoFile
    <3>5. DownloadsTrue'
      BY <2>1 DEF PressCreate, Presses, BackupTypeOK, DownloadsTrue, ArchivesKept, Kept, NoFile
    <3> QED BY <3>1, <3>2, <3>3, <3>4, <3>5
  <2>2. ASSUME NEW p \in BackupPages, Relist(p) PROVE BackupInv'
    <3>1. BackupTypeOK'
      BY <2>2 DEF Relist, Presses, RefetchBackups, BackupTypeOK, Creating, Deleting, Listing, NoBackupCall, NoFile, Names, Files
    <3>2. ArchivesKept'
      BY <2>2 DEF Relist, Presses, RefetchBackups, BackupTypeOK, ArchivesKept, NamesApart, Kept, Creating, NoBackupCall, NoFile, Names
    <3>3. NamesApart'
      BY <2>2 DEF Relist, Presses, RefetchBackups, BackupTypeOK, NamesApart, Creating, NoBackupCall, Names, ArchivesKept, Kept
    <3>4. ListsFollow'
      BY <2>2 DEF Relist, Presses, RefetchBackups, BackupTypeOK, ListsFollow, Files, Listing, Creating, Deleting, NoBackupCall, NoFile
    <3>5. DownloadsTrue'
      BY <2>2 DEF Relist, Presses, RefetchBackups, BackupTypeOK, DownloadsTrue, ArchivesKept, Kept, NoFile
    <3> QED BY <3>1, <3>2, <3>3, <3>4, <3>5
  <2>3. ASSUME NEW p \in BackupPages, CreateAnswered(p) PROVE BackupInv'
    <3>1. BackupTypeOK'
      <4>1. creating[p] \in Creating /\ creating[p].at \in {"done", "failed"}
        BY <2>3 DEF CreateAnswered, BackupTypeOK
      <4>2. creating' \in [BackupPages -> Creating]
        BY <2>3 DEF CreateAnswered, BackupTypeOK, Creating, NoBackupCall
      <4>3. CASE creating[p].at = "done"
        <5>1. creating[p].name \in Names /\ creating[p].serial \in Nat
          BY <4>1, <4>3 DEF Creating
        <5>2. listing' \in [BackupPages -> Listing]
          BY <2>3, <4>3 DEF CreateAnswered, RefetchBackups, BackupTypeOK, Listing
        <5>3. /\ reported' = reported \cup {[name |-> creating[p].name, serial |-> creating[p].serial]}
              /\ downloads' = [downloads EXCEPT ![p] = @ \cup {[name |-> creating[p].name, want |-> creating[p].serial]}]
              /\ UNCHANGED <<archive, serial, listed, deleting, got, removed, behind, presses>>
          BY <2>3, <4>3 DEF CreateAnswered
        <5> QED BY <4>2, <5>1, <5>2, <5>3 DEF BackupTypeOK
      <4>4. CASE creating[p].at = "failed"
        BY <2>3, <4>2, <4>4 DEF CreateAnswered, BackupTypeOK
      <4> QED BY <4>1, <4>3, <4>4
    <3>2. ArchivesKept'
      BY <2>3 DEF CreateAnswered, RefetchBackups, BackupTypeOK, ArchivesKept, NamesApart, Kept, Creating, NoBackupCall, NoFile, Names
    <3>3. NamesApart'
      BY <2>3 DEF CreateAnswered, RefetchBackups, BackupTypeOK, NamesApart, Creating, NoBackupCall, Names, ArchivesKept, Kept
    <3>4. ListsFollow'
      BY <2>3 DEF CreateAnswered, RefetchBackups, BackupTypeOK, ListsFollow, Files, Listing, Creating, Deleting, NoBackupCall, NoFile
    <3>5. DownloadsTrue'
      BY <2>3 DEF CreateAnswered, RefetchBackups, BackupTypeOK, DownloadsTrue, ArchivesKept, Kept, NoFile
    <3> QED BY <3>1, <3>2, <3>3, <3>4, <3>5
  <2>4. ASSUME NEW p \in BackupPages, DeleteAnswered(p) PROVE BackupInv'
    <3>1. BackupTypeOK'
      BY <2>4 DEF DeleteAnswered, RefetchBackups, BackupTypeOK, Creating, Deleting, Listing, NoBackupCall, NoFile, Names, Files
    <3>2. ArchivesKept'
      BY <2>4 DEF DeleteAnswered, RefetchBackups, BackupTypeOK, ArchivesKept, NamesApart, Kept, Creating, NoBackupCall, NoFile, Names
    <3>3. NamesApart'
      BY <2>4 DEF DeleteAnswered, RefetchBackups, BackupTypeOK, NamesApart, Creating, NoBackupCall, Names, ArchivesKept, Kept
    <3>4. ListsFollow'
      BY <2>4 DEF DeleteAnswered, RefetchBackups, BackupTypeOK, ListsFollow, Files, Listing, Creating, Deleting, NoBackupCall, NoFile
    <3>5. DownloadsTrue'
      BY <2>4 DEF DeleteAnswered, RefetchBackups, BackupTypeOK, DownloadsTrue, ArchivesKept, Kept, NoFile
    <3> QED BY <3>1, <3>2, <3>3, <3>4, <3>5
  <2>5. ASSUME NEW p \in BackupPages, ListArrives(p) PROVE BackupInv'
    <3>1. BackupTypeOK'
      BY <2>5 DEF ListArrives, BackupTypeOK, Creating, Deleting, Listing, NoBackupCall, NoFile, Names, Files
    <3>2. ArchivesKept'
      BY <2>5 DEF ListArrives, BackupTypeOK, ArchivesKept, NamesApart, Kept, Creating, NoBackupCall, NoFile, Names
    <3>3. NamesApart'
      BY <2>5 DEF ListArrives, BackupTypeOK, NamesApart, Creating, NoBackupCall, Names, ArchivesKept, Kept
    <3>4. ListsFollow'
      BY <2>5 DEF ListArrives, BackupTypeOK, ListsFollow, Files, Listing, Creating, Deleting, NoBackupCall, NoFile
    <3>5. DownloadsTrue'
      BY <2>5 DEF ListArrives, BackupTypeOK, DownloadsTrue, ArchivesKept, Kept, NoFile
    <3> QED BY <3>1, <3>2, <3>3, <3>4, <3>5
  <2>6. ASSUME NEW p \in BackupPages, CreateBackup(p) PROVE BackupInv'
    <3>1. BackupTypeOK'
      BY <2>6 DEF CreateBackup, Reaches, Tar, Unseen, BackupTypeOK, Creating, Deleting, Listing, NoBackupCall, NoFile, Names, Files
    <3>2. ArchivesKept'
      BY <2>6 DEF CreateBackup, Reaches, Tar, Unseen, BackupTypeOK, ArchivesKept, NamesApart, Kept, Creating, NoBackupCall, NoFile, Names
    <3>3. NamesApart'
      BY <2>6 DEF CreateBackup, Reaches, Tar, Unseen, BackupTypeOK, NamesApart, Creating, NoBackupCall, Names, ArchivesKept, Kept
    <3>4. ListsFollow'
      BY <2>6 DEF CreateBackup, Reaches, Tar, Unseen, BackupTypeOK, ListsFollow, Files, Listing, Creating, Deleting, NoBackupCall, NoFile
    <3>5. DownloadsTrue'
      BY <2>6 DEF CreateBackup, Reaches, Tar, Unseen, BackupTypeOK, DownloadsTrue, ArchivesKept, Kept, NoFile
    <3> QED BY <3>1, <3>2, <3>3, <3>4, <3>5
  <2>7. ASSUME NEW p \in BackupPages, CollectFails(p) PROVE BackupInv'
    <3>1. BackupTypeOK'
      BY <2>7 DEF CollectFails, Reaches, BackupTypeOK, Creating, Deleting, Listing, NoBackupCall, NoFile, Names, Files
    <3>2. ArchivesKept'
      BY <2>7 DEF CollectFails, Reaches, BackupTypeOK, ArchivesKept, NamesApart, Kept, Creating, NoBackupCall, NoFile, Names
    <3>3. NamesApart'
      BY <2>7 DEF CollectFails, Reaches, BackupTypeOK, NamesApart, Creating, NoBackupCall, Names, ArchivesKept, Kept
    <3>4. ListsFollow'
      BY <2>7 DEF CollectFails, Reaches, BackupTypeOK, ListsFollow, Files, Listing, Creating, Deleting, NoBackupCall, NoFile
    <3>5. DownloadsTrue'
      BY <2>7 DEF CollectFails, Reaches, BackupTypeOK, DownloadsTrue, ArchivesKept, Kept, NoFile
    <3> QED BY <3>1, <3>2, <3>3, <3>4, <3>5
  <2>8. ASSUME NEW p \in BackupPages, ArchiveFails(p) PROVE BackupInv'
    <3>1. BackupTypeOK'
      BY <2>8 DEF ArchiveFails, Reaches, Tar, Unseen, BackupTypeOK, Creating, Deleting, Listing, NoBackupCall, NoFile, Names, Files
    <3>2. ArchivesKept'
      BY <2>8 DEF ArchiveFails, Reaches, Tar, Unseen, BackupTypeOK, ArchivesKept, NamesApart, Kept, Creating, NoBackupCall, NoFile, Names
    <3>3. NamesApart'
      BY <2>8 DEF ArchiveFails, Reaches, Tar, Unseen, BackupTypeOK, NamesApart, Creating, NoBackupCall, Names, ArchivesKept, Kept
    <3>4. ListsFollow'
      BY <2>8 DEF ArchiveFails, Reaches, Tar, Unseen, BackupTypeOK, ListsFollow, Files, Listing, Creating, Deleting, NoBackupCall, NoFile
    <3>5. DownloadsTrue'
      BY <2>8 DEF ArchiveFails, Reaches, Tar, Unseen, BackupTypeOK, DownloadsTrue, ArchivesKept, Kept, NoFile
    <3> QED BY <3>1, <3>2, <3>3, <3>4, <3>5
  <2>9. ASSUME NEW p \in BackupPages, ListBackups(p) PROVE BackupInv'
    <3>1. BackupTypeOK'
      BY <2>9 DEF ListBackups, BackupTypeOK, Creating, Deleting, Listing, NoBackupCall, NoFile, Names, Files
    <3>2. ArchivesKept'
      BY <2>9 DEF ListBackups, BackupTypeOK, ArchivesKept, NamesApart, Kept, Creating, NoBackupCall, NoFile, Names
    <3>3. NamesApart'
      BY <2>9 DEF ListBackups, BackupTypeOK, NamesApart, Creating, NoBackupCall, Names, ArchivesKept, Kept
    <3>4. ListsFollow'
      BY <2>9 DEF ListBackups, BackupTypeOK, ListsFollow, Files, Listing, Creating, Deleting, NoBackupCall, NoFile
    <3>5. DownloadsTrue'
      BY <2>9 DEF ListBackups, BackupTypeOK, DownloadsTrue, ArchivesKept, Kept, NoFile
    <3> QED BY <3>1, <3>2, <3>3, <3>4, <3>5
  <2>10. ASSUME NEW p \in BackupPages, DeleteBackup(p) PROVE BackupInv'
    <3> DEFINE n == deleting[p].name
    <3>a. n \in Names /\ deleting[p].at = "sent"
      BY <2>10 DEF DeleteBackup, BackupTypeOK, Deleting
    <3>b. archive' = [archive EXCEPT ![n] = NoFile] /\ UNCHANGED <<serial, creating, downloads, reported, got, presses>>
      BY <2>10 DEF DeleteBackup
    <3>c. removed' \subseteq Names /\ removed \subseteq removed' /\ (archive[n] # NoFile => n \in removed')
      BY <2>10, <3>a DEF DeleteBackup, BackupTypeOK, Files
    <3>1. BackupTypeOK'
      <4>1. behind' \in [BackupPages -> SUBSET Names]
        BY <2>10, <3>a DEF DeleteBackup, Unseen, BackupTypeOK
      <4>2. deleting' \in [BackupPages -> Deleting]
        BY <2>10 DEF DeleteBackup, BackupTypeOK, Deleting
      <4>3. archive' \in [Names -> {NoFile} \cup [at : {"file"}, serial : Nat, whole : BOOLEAN]]
        BY <3>b DEF BackupTypeOK
      <4> QED BY <2>10, <3>b, <3>c, <4>1, <4>2, <4>3 DEF DeleteBackup, BackupTypeOK
    <3>2. ArchivesKept'
      <4>1. ASSUME NEW m \in Names, NEW s, Kept(m, s) PROVE Kept(m, s)'
        BY <3>a, <3>b, <3>c, <4>1 DEF Kept, BackupTypeOK
      <4>2. \A q \in BackupPages : creating[q].at = "done" => creating[q].name \in Names
        BY DEF BackupTypeOK, Creating, NoBackupCall
      <4> QED BY <3>b, <4>1, <4>2 DEF ArchivesKept, BackupTypeOK
    <3>3. NamesApart'
      BY <2>10 DEF DeleteBackup, Unseen, BackupTypeOK, NamesApart, Creating, NoBackupCall, Names, ArchivesKept, Kept
    <3>4. ListsFollow'
      BY <2>10 DEF DeleteBackup, Unseen, BackupTypeOK, ListsFollow, Files, Listing, Creating, Deleting, NoBackupCall, NoFile
    <3>5. DownloadsTrue'
      BY <2>10 DEF DeleteBackup, Unseen, BackupTypeOK, DownloadsTrue, ArchivesKept, Kept, NoFile
    <3> QED BY <3>1, <3>2, <3>3, <3>4, <3>5
  <2>11. ASSUME NEW p \in BackupPages, NEW n \in Names, PressDelete(p, n) PROVE BackupInv'
    <3>1. BackupTypeOK'
      BY <2>11 DEF PressDelete, Presses, BackupTypeOK, Creating, Deleting, Listing, NoBackupCall, NoFile, Names, Files
    <3>2. ArchivesKept'
      BY <2>11 DEF PressDelete, Presses, BackupTypeOK, ArchivesKept, NamesApart, Kept, Creating, NoBackupCall, NoFile, Names
    <3>3. NamesApart'
      BY <2>11 DEF PressDelete, Presses, BackupTypeOK, NamesApart, Creating, NoBackupCall, Names, ArchivesKept, Kept
    <3>4. ListsFollow'
      BY <2>11 DEF PressDelete, Presses, BackupTypeOK, ListsFollow, Files, Listing, Creating, Deleting, NoBackupCall, NoFile
    <3>5. DownloadsTrue'
      BY <2>11 DEF PressDelete, Presses, BackupTypeOK, DownloadsTrue, ArchivesKept, Kept, NoFile
    <3> QED BY <3>1, <3>2, <3>3, <3>4, <3>5
  <2>12. ASSUME NEW p \in BackupPages, NEW n \in Names, PressDownload(p, n) PROVE BackupInv'
    <3>1. BackupTypeOK'
      BY <2>12 DEF PressDownload, Presses, BackupTypeOK, Creating, Deleting, Listing, NoBackupCall, NoFile, Names, Files
    <3>2. ArchivesKept'
      BY <2>12 DEF PressDownload, Presses, BackupTypeOK, ArchivesKept, NamesApart, Kept, Creating, NoBackupCall, NoFile, Names
    <3>3. NamesApart'
      BY <2>12 DEF PressDownload, Presses, BackupTypeOK, NamesApart, Creating, NoBackupCall, Names, ArchivesKept, Kept
    <3>4. ListsFollow'
      BY <2>12 DEF PressDownload, Presses, BackupTypeOK, ListsFollow, Files, Listing, Creating, Deleting, NoBackupCall, NoFile
    <3>5. DownloadsTrue'
      BY <2>12 DEF PressDownload, Presses, BackupTypeOK, DownloadsTrue, ArchivesKept, Kept, NoFile
    <3> QED BY <3>1, <3>2, <3>3, <3>4, <3>5
  <2>13. ASSUME NEW p \in BackupPages, NEW d \in downloads[p], DownloadBackup(p, d) PROVE BackupInv'
    <3>1. BackupTypeOK'
      BY <2>13 DEF DownloadBackup, BackupTypeOK, Creating, Deleting, Listing, NoBackupCall, NoFile, Names, Files
    <3>2. ArchivesKept'
      BY <2>13 DEF DownloadBackup, BackupTypeOK, ArchivesKept, NamesApart, Kept, Creating, NoBackupCall, NoFile, Names
    <3>3. NamesApart'
      BY <2>13 DEF DownloadBackup, BackupTypeOK, NamesApart, Creating, NoBackupCall, Names, ArchivesKept, Kept
    <3>4. ListsFollow'
      BY <2>13 DEF DownloadBackup, BackupTypeOK, ListsFollow, Files, Listing, Creating, Deleting, NoBackupCall, NoFile
    <3>5. DownloadsTrue'
      BY <2>13 DEF DownloadBackup, BackupTypeOK, DownloadsTrue, ArchivesKept, Kept, NoFile
    <3> QED BY <3>1, <3>2, <3>3, <3>4, <3>5
  <2>14. CASE UNCHANGED backupVars
    BY <2>14 DEF backupVars, BackupTypeOK, ArchivesKept, NamesApart, ListsFollow, DownloadsTrue, Files, Kept
  <2> QED BY <2>1, <2>2, <2>3, <2>4, <2>5, <2>6, <2>7, <2>8, <2>9, <2>10, <2>11, <2>12, <2>13, <2>14 DEF BackupNext
<1> QED BY <1>1, <1>2, PTL DEF BackupSpec

(* A page offers the archives that exist, and what it downloads is what it  *)
(* created, for any number of pages (backuprestore/index.tsx).              *)
THEOREM WebBackupsHold == BackupSpec => []BackupsHold
<1>1. BackupInv => BackupsHold
  BY DEF BackupInv, BackupTypeOK, ArchivesKept, Kept, ListsFollow, DownloadsTrue, BackupsHold, ToldTrue, ListTrue, NoBackupCall, Names
<1> QED BY <1>1, BackupKeeps, PTL

----------------------------------------------------------------------------
(* The token and the credentials, a proof about ControllerAccess.           *)

AccessSpec == AccessInit /\ [][TokenNext \/ CacheNext]_accessVars

LookupRecord == [at : {"idle", "read", "store"}, now : Nat, cred : Nat]

AccessTypeOK ==
    /\ rotation \in [Rotators -> SUBSET Loaders] /\ halfway \in BOOLEAN
    /\ tokenFile \in Nat /\ loaded \in [Loaders -> Nat] /\ rotations \in Nat
    /\ options \in Nat /\ options >= 1 /\ cacheClock \in Nat
    /\ replaced \in [1..MaxSaves -> Nat]
    /\ credentialsCache \in [cred : Nat, stamp : Nat]
    /\ lookup \in [Lookups -> LookupRecord]

(* A service that has not the token of the file is still to be restarted.   *)
RestartsOwed == ~halfway => \A s \in Loaders : loaded[s] = tokenFile \/ \E r \in Rotators : s \in rotation[r]

(* Credentials that somebody read at now or later were in force at now.     *)
InForceAt(cred, now) ==
    /\ now <= cacheClock /\ cred \in 1..options
    /\ cred # options => cred \in 1..MaxSaves /\ now <= replaced[cred]

ReadsRecent ==
    /\ credentialsCache.cred # 0 => InForceAt(credentialsCache.cred, credentialsCache.stamp)
    /\ \A l \in Lookups : /\ lookup[l].now <= cacheClock
                          /\ lookup[l].at = "store" => InForceAt(lookup[l].cred, lookup[l].now)

AccessInv == AccessTypeOK /\ RestartsOwed /\ ReadsRecent

(* The inductive invariant of the controller's token and of the cached      *)
(* credentials: restarts that are owed, and when credentials were in force  *)
(* (rotateControllerToken, getApiCredentials).                              *)
THEOREM AccessKeeps == AccessSpec => []AccessInv
<1> USE AccessBounds
<1>1. AccessInit => AccessInv
  <2> SUFFICES ASSUME AccessInit PROVE AccessInv
    OBVIOUS
  <2> USE DEF AccessInit
  <2>1. credentialsCache \in [cred : Nat, stamp : Nat] /\ credentialsCache.cred = 0
    BY DEF Uncached
  <2>2. NoLookup \in LookupRecord /\ NoLookup.at = "idle" /\ NoLookup.now = 0
    BY DEF NoLookup, LookupRecord
  <2>3. lookup \in [Lookups -> LookupRecord] /\ \A l \in Lookups : lookup[l].now <= cacheClock /\ lookup[l].at # "store"
    BY <2>2
  <2>4. replaced \in [1..MaxSaves -> Nat] /\ loaded \in [Loaders -> Nat] /\ \A s \in Loaders : loaded[s] = tokenFile
    OBVIOUS
  <2>5. rotation \in [Rotators -> SUBSET Loaders]
    OBVIOUS
  <2>b. halfway \in BOOLEAN
    OBVIOUS
  <2>a. tokenFile \in Nat /\ rotations \in Nat /\ options \in Nat /\ options >= 1 /\ cacheClock \in Nat
    OBVIOUS
  <2>6. AccessTypeOK
    BY ONLY <2>1, <2>3, <2>4, <2>5, <2>a, <2>b DEF AccessTypeOK
  <2>7. RestartsOwed
    BY <2>4 DEF RestartsOwed
  <2>8. ReadsRecent
    BY <2>1, <2>3 DEF ReadsRecent
  <2> QED BY <2>6, <2>7, <2>8 DEF AccessInv
<1>2. ASSUME AccessInv, [TokenNext \/ CacheNext]_accessVars PROVE AccessInv'
  <2> USE <1>2 DEF AccessInv, AccessTypeOK
  <2>1. ASSUME NEW r \in Rotators, RotateControllerToken(r) PROVE AccessInv'
    BY <2>1 DEF RotateControllerToken, cacheVars, RestartsOwed, ReadsRecent, InForceAt
  <2>2. ASSUME NEW r \in Rotators, RotationFails(r) PROVE AccessInv'
    BY <2>2 DEF RotationFails, cacheVars, RestartsOwed, ReadsRecent, InForceAt
  <2>3. ASSUME NEW r \in Rotators, NEW s \in Loaders, RestartService(r, s) PROVE AccessInv'
    BY <2>3 DEF RestartService, cacheVars, RestartsOwed, ReadsRecent, InForceAt
  <2>4. ASSUME NEW s \in Loaders, ServiceStarts(s) PROVE AccessInv'
    BY <2>4 DEF ServiceStarts, cacheVars, RestartsOwed, ReadsRecent, InForceAt
  <2>5. CASE SetLocalZt
    BY <2>5 DEF SetLocalZt, tokenVars, RestartsOwed, ReadsRecent, InForceAt
  <2>6. CASE ClearApiCredentialsCache
    BY <2>6 DEF ClearApiCredentialsCache, tokenVars, RestartsOwed, ReadsRecent, InForceAt, Uncached
  <2>7. CASE ClockTicks
    BY <2>7 DEF ClockTicks, tokenVars, RestartsOwed, ReadsRecent, InForceAt, LookupRecord
  <2>8. ASSUME NEW l \in Lookups, GetApiCredentials(l) PROVE AccessInv'
    BY <2>8 DEF GetApiCredentials, tokenVars, RestartsOwed, ReadsRecent, InForceAt, LookupRecord
  <2>9. ASSUME NEW l \in Lookups, ReadOptions(l) PROVE AccessInv'
    BY <2>9 DEF ReadOptions, tokenVars, RestartsOwed, ReadsRecent, InForceAt, LookupRecord
  <2>10. ASSUME NEW l \in Lookups, StoreCredentials(l) PROVE AccessInv'
    BY <2>10 DEF StoreCredentials, tokenVars, RestartsOwed, ReadsRecent, InForceAt, LookupRecord, NoLookup
  <2>11. CASE UNCHANGED accessVars
    BY <2>11 DEF accessVars, tokenVars, cacheVars, RestartsOwed, ReadsRecent, InForceAt
  <2> QED BY <2>1, <2>2, <2>3, <2>4, <2>5, <2>6, <2>7, <2>8, <2>9, <2>10, <2>11 DEF TokenNext, CacheNext
<1> QED BY <1>1, <1>2, PTL DEF AccessSpec

(* The services have the token of the file once the rotations have ended,   *)
(* and no lookup answers with credentials that were replaced longer ago than*)
(* the cache keeps them (getApiCredentials).                                *)
THEOREM AccessAlwaysCurrent == AccessSpec => []AccessCurrent
<1>1. AccessInv => AccessCurrent
  BY AccessBounds DEF AccessInv, AccessTypeOK, RestartsOwed, ReadsRecent, InForceAt, AccessCurrent, TokensAgree, StaleAtMostTTL, Valid
<1> QED BY <1>1, AccessKeeps, PTL

----------------------------------------------------------------------------
(* The planet, a proof about Planet.                                        *)

PlanetSpec == PlanetInit /\ [][PlanetNext]_planetVars

Making ==
    {Free} \cup [op : {"make"}, at : {"ports", "planet", "row"}, w : Worlds]
           \cup [op : {"upload"}, at : {"ports", "directory", "save", "files", "planet", "row"}, w : Worlds, full : BOOLEAN]
           \cup [op : {"reset"}, at : {"ports", "row"}]

(* What a request that nothing has disturbed has done so far.               *)
Done(m) ==
    /\ m.op = "make" => /\ m.at \in {"ports", "planet"} => workshop = m.w
                        /\ m.at \in {"planet", "row"} => ports = m.w
                        /\ m.at = "row" => planet = m.w
    /\ m.op = "upload" => /\ m.at # "ports" => ports = m.w
                          /\ m.at = "row" => planet = m.w

OneRequest == ~mishap => \A s \in PlanetSlots : making[s] # Free =>
    Done(making[s]) /\ \A t \in PlanetSlots : t # s => making[t] = Free

PlanetInv == making \in [PlanetSlots -> Making] /\ mishap \in BOOLEAN /\ OneRequest /\ WorldAgrees

(* A request that goes on is the request it was (mkworld/config.ts).        *)
LEMMA ProceedType ==
    ASSUME NEW m \in Making, m # Free, NEW at, [m EXCEPT !.at = at] \in Making
    PROVE  LET n == [m EXCEPT !.at = at] IN n # Free /\ n.op = m.op /\ n.at = at /\ (m.op # "reset" => n.w = m.w)
BY DEF Making, Free

(* The inductive invariant of the planet: an undisturbed request finds what *)
(* it has done so far (makeWorld, uploadWorld, resetWorld).                 *)
THEOREM PlanetKeeps == PlanetSpec => []PlanetInv
<1>1. PlanetInit => PlanetInv
  BY DEF PlanetInit, PlanetInv, OneRequest, WorldAgrees, Making
<1>2. ASSUME PlanetInv, [PlanetNext]_planetVars PROVE PlanetInv'
  <2> USE <1>2 DEF PlanetInv
  <2>1. ASSUME NEW s \in PlanetSlots, NEW w \in Worlds, MakeWorld(s, w) PROVE PlanetInv'
    BY <2>1 DEF MakeWorld, Accept, Ask, Quiet, OneRequest, WorldAgrees, Making, Free, Done
  <2>2. ASSUME NEW s \in PlanetSlots, NEW w \in Worlds, NEW full \in BOOLEAN, Upload(s, w, full) PROVE PlanetInv'
    BY <2>2 DEF Upload, Accept, Ask, Quiet, OneRequest, WorldAgrees, Making, Free, Done, files
  <2>3. ASSUME NEW s \in PlanetSlots, MakeWorldRefused(s) PROVE PlanetInv'
    BY <2>3 DEF MakeWorldRefused, Accept, Quiet, OneRequest, WorldAgrees
  <2>4. ASSUME NEW s \in PlanetSlots, ResetWithoutDirectory(s) PROVE PlanetInv'
    BY <2>4 DEF ResetWithoutDirectory, Accept, Quiet, OneRequest, WorldAgrees
  <2>5. ASSUME NEW s \in PlanetSlots, ResetWorld(s) PROVE PlanetInv'
    BY <2>5 DEF ResetWorld, Accept, Ask, Quiet, OneRequest, WorldAgrees, Making, Free, Done
  <2>6. ASSUME NEW s \in PlanetSlots, UpdateLocalConf(s) PROVE PlanetInv'
    BY <2>6 DEF UpdateLocalConf, Proceed, Ask, Quiet, OneRequest, WorldAgrees, Making, Free, Done
  <2>7. ASSUME NEW s \in PlanetSlots, UploadDirectory(s) PROVE PlanetInv'
    BY <2>7 DEF UploadDirectory, At, Proceed, Ask, Quiet, OneRequest, WorldAgrees, Making, Free, Done
  <2>8. ASSUME NEW s \in PlanetSlots, UploadSaves(s) PROVE PlanetInv'
    <3> DEFINE next == [making[s] EXCEPT !.at = "files"]
    <3>1. making[s] \in Making /\ making[s] # Free /\ making[s].op = "upload" /\ making[s].at = "save"
      BY <2>8 DEF UploadSaves, At
    <3>2. making[s] \in [op : {"upload"}, at : {"ports", "directory", "save", "files", "planet", "row"}, w : Worlds, full : BOOLEAN]
      BY <3>1 DEF Making, Free
    <3>3. next \in Making /\ next # Free /\ next.op = "upload" /\ next.at = "files" /\ next.w = making[s].w
      BY <3>2 DEF Making, Free
    <3>4. CASE making' = [making EXCEPT ![s] = next] /\ UNCHANGED mishap
      BY <2>8, <3>1, <3>3, <3>4 DEF UploadSaves, OneRequest, WorldAgrees, Quiet, Done
    <3>5. CASE making' = [making EXCEPT ![s] = Free] /\ mishap'
      BY <2>8, <3>5 DEF UploadSaves, OneRequest, WorldAgrees, Making
    <3> QED BY <2>8, <3>4, <3>5 DEF UploadSaves, Proceed, Ask
  <2>9. ASSUME NEW s \in PlanetSlots, UploadFiles(s) PROVE PlanetInv'
    <3> DEFINE next == [making[s] EXCEPT !.at = "planet"]
    <3>1. making[s] \in Making /\ making[s] # Free /\ making[s].op = "upload" /\ making[s].at = "files"
      BY <2>9 DEF UploadFiles, At
    <3>2. making[s] \in [op : {"upload"}, at : {"ports", "directory", "save", "files", "planet", "row"}, w : Worlds, full : BOOLEAN]
      BY <3>1 DEF Making, Free
    <3>3. next \in Making /\ next # Free /\ next.op = "upload" /\ next.at = "planet" /\ next.w = making[s].w
      BY <3>2 DEF Making, Free
    <3>4. CASE making' = [making EXCEPT ![s] = next] /\ UNCHANGED mishap
      BY <2>9, <3>1, <3>3, <3>4 DEF UploadFiles, OneRequest, WorldAgrees, Quiet, Done
    <3>5. CASE making' = [making EXCEPT ![s] = Free] /\ mishap'
      BY <2>9, <3>5 DEF UploadFiles, OneRequest, WorldAgrees, Making
    <3> QED BY <2>9, <3>4, <3>5 DEF UploadFiles, Proceed, Ask
  <2>10. ASSUME NEW s \in PlanetSlots, InstallPlanet(s) PROVE PlanetInv'
    <3> DEFINE next == [making[s] EXCEPT !.at = "row"]
    <3>1. making[s] \in Making /\ making[s] # Free /\ making[s].op \in {"make", "upload"} /\ making[s].at = "planet"
      BY <2>10 DEF InstallPlanet
    <3>2. next \in Making
      BY <3>1 DEF Making, Free
    <3>3. next # Free /\ next.op = making[s].op /\ next.at = "row" /\ next.w = making[s].w
      BY <3>1, <3>2, ProceedType
    <3>4. CASE planet' = Generated(making[s]) /\ making' = [making EXCEPT ![s] = next] /\ UNCHANGED mishap
      BY <2>10, <3>1, <3>2, <3>3, <3>4 DEF InstallPlanet, Generated, OneRequest, WorldAgrees, Quiet, Done
    <3>5. CASE making' = [making EXCEPT ![s] = Free] /\ mishap' = TRUE
      BY <2>10, <3>5 DEF InstallPlanet, OneRequest, WorldAgrees, Making
    <3> QED BY <2>10, <3>4, <3>5 DEF InstallPlanet, Proceed, Ask
  <2>11. ASSUME NEW s \in PlanetSlots, StoreWorld(s) PROVE PlanetInv'
    BY <2>11 DEF StoreWorld, Ends, Ask, Quiet, OneRequest, WorldAgrees, Making, Free, Done
  <2>12. ASSUME NEW s \in PlanetSlots, RequestFails(s) PROVE PlanetInv'
    BY <2>12 DEF RequestFails, Ask, OneRequest, WorldAgrees, Making
  <2>13. CASE StartContainer
    BY <2>13 DEF StartContainer, Quiet, OneRequest, WorldAgrees, Making
  <2>14. CASE UNCHANGED planetVars
    BY <2>14 DEF planetVars, files, Quiet, OneRequest, WorldAgrees, Done
  <2> QED BY <2>1, <2>2, <2>3, <2>4, <2>5, <2>6, <2>7, <2>8, <2>9, <2>10, <2>11, <2>12, <2>13, <2>14 DEF PlanetNext
<1> QED BY <1>1, <1>2, PTL DEF PlanetSpec

(* The row, the planet file and the ports name one world while no request   *)
(* was disturbed, for any number of requests and worlds (adminRoute.ts).    *)
THEOREM WorldAlwaysAgrees == PlanetSpec => []WorldAgrees
BY PlanetKeeps, PTL DEF PlanetInv

----------------------------------------------------------------------------
(* The status of a member, a proof about MemberStatus.                      *)

StatusSpec == StatusInit /\ [][StatusNext]_statusVars

MemberRecord == [online : BOOLEAN, observedAt : Nat, status : {"none", "relayed", "direct", "offline"},
                 pending : {"none", "relayed", "direct"}, pendingSince : Nat, first : BOOLEAN]
Snapshot == [at : {"row"}, clock : Nat, boot : Nat, available : BOOLEAN, observed : BOOLEAN, online : BOOLEAN,
             path : {"unknown", "relayed", "direct"}]
Cycle == [db : MemberRecord, live : Snapshot, at : {"write"}]

StatusTypeOK ==
    /\ clock \in Nat \ {0} /\ boot \in Nat /\ lastRequest \in Nat /\ sampled \in Nat /\ copies \in Pollers
    /\ path \in Paths /\ record \in MemberRecord
    /\ poll \in [Pollers -> {Resting} \cup Snapshot \cup Cycle]
    /\ told \in SUBSET {"online", "offline"} /\ doubled \in BOOLEAN /\ outrun \in BOOLEAN /\ early \in BOOLEAN
    /\ steady \in [status : {"unknown", "relayed", "direct"}, since : Nat, last : Nat]

Live(p) == IF poll[p].at = "row" THEN poll[p] ELSE poll[p].live
Active(p) == poll[p].at \in {"row", "write"}
Writing(p) == poll[p].at = "write"

(* The clock of a snapshot is in no row before its observation is written.  *)
ClocksFresh ==
    /\ sampled <= clock /\ record.observedAt <= sampled
    /\ \A p \in Pollers : Writing(p) => poll[p].db.observedAt <= sampled
    /\ \A p \in Pollers : Active(p) =>
          /\ Live(p).clock \in 1..sampled /\ Live(p).clock # record.observedAt
          /\ \A q \in Pollers : /\ Active(q) /\ q # p => Live(q).clock # Live(p).clock
                                /\ Writing(q) => poll[q].db.observedAt # Live(p).clock

(* A row that has the revision that was read has the presence that was read.*)
RevisionsTell == \A p \in Pollers : Writing(p) /\ poll[p].db.observedAt = record.observedAt => poll[p].db.online = record.online

(* What was announced last is what the row says.                            *)
ToldLast ==
    /\ told # {} => record.observedAt # 0
    /\ ~outrun => ~doubled /\ told \in {{}, {IF record.online THEN "online" ELSE "offline"}}

(* With one poller the pending path is the one of the run of observations.  *)
OnePoller == copies = 1 =>
    /\ \A p \in Pollers : Active(p) => p = 1 /\ Live(p).clock > steady.last
    /\ \A p \in Pollers : Writing(p) => poll[p].db = record
    /\ steady.since <= steady.last /\ steady.last <= sampled
    /\ record.pending # "none" =>
          steady.status = record.pending /\ steady.since <= record.pendingSince /\ steady.last = record.observedAt
    /\ ~early

StatusInv == StatusTypeOK /\ ClocksFresh /\ RevisionsTell /\ ToldLast /\ OnePoller

(* What is known of the connection of a node.                               *)
LEMMA ConnectionStatus ==
    ASSUME NEW s \in Snapshot
    PROVE  /\ DetermineConnectionStatus(s) \in {"unknown", "relayed", "direct", "offline"}
           /\ DetermineConnectionStatus(s) \in Paths => Known(s) /\ s.online
           /\ DetermineConnectionStatus(s) \notin {"unknown"} \cup Paths => Known(s) /\ ~s.online
BY DEF Snapshot, DetermineConnectionStatus, Known, Paths

(* The three columns that observing a path changes.                         *)
LEMMA SettleEffect ==
    ASSUME NEW db \in MemberRecord, NEW s \in Snapshot
    PROVE  LET con == DetermineConnectionStatus(s)
               new == Settle(db, s)
               continuous == db.observedAt # 0 /\ s.clock - db.observedAt <= Gap
           IN /\ new \in MemberRecord
              /\ new.online = db.online /\ new.observedAt = db.observedAt /\ new.first = db.first
              /\ new.pending # "none" =>
                    /\ con \in Paths /\ new.pending = con
                    /\ new.pendingSince = s.clock \/ (new.pendingSince = db.pendingSince /\ db.pending = con /\ continuous)
              /\ new.status # db.status /\ db.online /\ s.online /\ db.status # "none" =>
                    con \in Paths /\ db.pending = con /\ continuous /\ s.clock - db.pendingSince >= Hold
<1> DEFINE con == DetermineConnectionStatus(s)
           continuous == db.observedAt # 0 /\ s.clock - db.observedAt <= Gap
           moving == db.online /\ s.online /\ db.status \notin {"none", con}
           reset == [db EXCEPT !.pending = "none", !.pendingSince = 0]
           settled == [db EXCEPT !.status = con, !.pending = "none", !.pendingSince = 0]
           waits == [db EXCEPT !.pending = con, !.pendingSince = s.clock]
<1>1. /\ con \in {"unknown", "relayed", "direct", "offline"} /\ (con \in Paths => s.online)
      /\ (s.online /\ con # "unknown" => con \in Paths)
  BY ConnectionStatus
<1> HIDE DEF con
<1>2. reset \in MemberRecord /\ reset.online = db.online /\ reset.observedAt = db.observedAt /\ reset.first = db.first
      /\ reset.pending = "none" /\ reset.status = db.status
  BY DEF MemberRecord
<1>3. con # "unknown" => settled \in MemberRecord /\ settled.online = db.online /\ settled.observedAt = db.observedAt
      /\ settled.first = db.first /\ settled.pending = "none" /\ settled.status = con
  BY <1>1 DEF MemberRecord
<1>4. con \in Paths => waits \in MemberRecord /\ waits.online = db.online /\ waits.observedAt = db.observedAt /\ waits.first = db.first
      /\ waits.pending = con /\ waits.pendingSince = s.clock /\ waits.status = db.status
  BY DEF MemberRecord, Snapshot, Paths
<1>5. Settle(db, s) = IF con = "unknown" THEN reset
                      ELSE IF ~moving \/ (continuous /\ db.pending = con /\ s.clock - db.pendingSince >= Hold) THEN settled
                      ELSE IF ~continuous \/ db.pending # con THEN waits ELSE db
  BY DEF Settle, con
<1> HIDE DEF reset, settled, waits
<1>6. CASE con = "unknown"
  BY <1>2, <1>5, <1>6 DEF con
<1>7. CASE con # "unknown" /\ (~moving \/ (continuous /\ db.pending = con /\ s.clock - db.pendingSince >= Hold))
  <2>1. Settle(db, s) = settled
    BY <1>5, <1>7
  <2>2. settled.status # db.status /\ db.online /\ s.online /\ db.status # "none" => moving
    BY <1>3, <1>7
  <2> QED BY <1>1, <1>3, <1>7, <2>1, <2>2 DEF con
<1>8. CASE con # "unknown" /\ moving /\ ~(continuous /\ db.pending = con /\ s.clock - db.pendingSince >= Hold) /\ (~continuous \/ db.pending # con)
  <2>1. Settle(db, s) = waits
    BY <1>5, <1>8
  <2> QED BY <1>1, <1>4, <1>8, <2>1 DEF con
<1>9. CASE con # "unknown" /\ moving /\ ~(continuous /\ db.pending = con /\ s.clock - db.pendingSince >= Hold) /\ ~(~continuous \/ db.pending # con)
  <2>1. Settle(db, s) = db
    BY <1>5, <1>9
  <2> QED BY <1>1, <1>9, <2>1 DEF con
<1> QED BY <1>6, <1>7, <1>8, <1>9

(* What an observation makes of the row that was read.                      *)
LEMMA ObserveEffect ==
    ASSUME NEW db \in MemberRecord, NEW s \in Snapshot
    PROVE  LET con == DetermineConnectionStatus(s)
               new == ObserveMember(db, s)
               continuous == db.observedAt # 0 /\ s.clock - db.observedAt <= Gap
           IN /\ new \in MemberRecord
              /\ Known(s) => new.online = s.online /\ new.observedAt = s.clock
              /\ ~Known(s) => new.online = db.online /\ new.observedAt = db.observedAt
              /\ new.pending # "none" =>
                    /\ con \in Paths /\ new.pending = con
                    /\ new.pendingSince = s.clock \/ (new.pendingSince = db.pendingSince /\ db.pending = con /\ continuous)
              /\ new.status # db.status /\ db.online /\ s.online /\ db.status # "none" =>
                    con \in Paths /\ db.pending = con /\ continuous /\ s.clock - db.pendingSince >= Hold
<1> DEFINE mid == Settle(db, s)
           seen == [mid EXCEPT !.online = s.online, !.first = FALSE, !.observedAt = s.clock]
<1>1. mid \in MemberRecord
  BY SettleEffect
<1>2. CASE ~Known(s)
  BY <1>2, SettleEffect DEF ObserveMember
<1>3. CASE Known(s)
  <2>1. ObserveMember(db, s) = seen
    BY <1>3 DEF ObserveMember
  <2> HIDE DEF mid
  <2>2. seen \in MemberRecord /\ seen.online = s.online /\ seen.observedAt = s.clock
        /\ seen.pending = mid.pending /\ seen.pendingSince = mid.pendingSince /\ seen.status = mid.status
    BY <1>1 DEF MemberRecord, Snapshot
  <2> HIDE DEF seen
  <2> QED BY <1>3, <2>1, <2>2, SettleEffect DEF mid
<1> QED BY <1>2, <1>3

(* What is written to the row: the columns that observing changed.          *)
LEMMA WrittenEffect ==
    ASSUME record \in MemberRecord, NEW db \in MemberRecord, NEW new \in MemberRecord
    PROVE  LET row == Written(db, new) IN
           /\ row \in MemberRecord
           /\ row.online = IF new.online # db.online THEN new.online ELSE record.online
           /\ row.observedAt = IF new.observedAt # db.observedAt THEN new.observedAt ELSE record.observedAt
           /\ db = record => row = new
BY DEF MemberRecord, Written

(* Which transitions are announced.                                         *)
LEMMA AnnounceEffect ==
    ASSUME NEW db \in MemberRecord, NEW s \in Snapshot, NEW new \in MemberRecord
    PROVE  LET types == StatusEventTypes(db, s, new)
               presence == types \ {"changed"}
           IN /\ presence \in {{}, {IF s.online THEN "online" ELSE "offline"}}
              /\ presence # {} => Known(s) /\ (IF db.observedAt = 0 THEN db.first /\ s.online ELSE db.online # s.online)
              /\ Known(s) /\ db.observedAt # 0 /\ db.online # s.online => presence # {}
              /\ "changed" \in types => Known(s) /\ db.observedAt # 0 /\ s.online /\ db.online /\ new.status # db.status /\ db.status # "none"
BY DEF StatusEventTypes, MemberRecord, Snapshot

(* What a poll that ends writes and announces.                              *)
LEMMA PersistEffect ==
    ASSUME StatusTypeOK, NEW p \in Pollers, PersistObservedMember(p)
    PROVE  LET db == poll[p].db
               s == poll[p].live
               new == ObserveMember(db, s)
               con == DetermineConnectionStatus(s)
               types == StatusEventTypes(db, s, new)
               presence == types \ {"changed"}
               agrees == steady.status = con /\ s.clock - steady.last <= Gap
           IN /\ Writing(p) /\ db \in MemberRecord /\ s \in Snapshot
              /\ poll' = [poll EXCEPT ![p] = Resting] /\ UNCHANGED <<clock, boot, lastRequest, sampled, copies, path>>
              /\ \/ types # {} /\ Loses(db) /\ UNCHANGED <<record, told, doubled, steady, outrun, early>>
                 \/ /\ types = {} \/ ~Loses(db)
                    /\ record' = Written(db, new)
                    /\ told' = IF presence = {} THEN told ELSE presence
                    /\ doubled' = (doubled \/ (presence # {} /\ presence = told))
                    /\ steady' = IF con \notin Paths \/ copies > 1 THEN Unsteady
                                 ELSE [status |-> con, last |-> s.clock, since |-> IF agrees THEN steady.since ELSE s.clock]
                    /\ outrun' = (outrun \/ (db.observedAt = 0 /\ Loses(db)))
                    /\ early' = (early \/ ("changed" \in types /\ steady'.last - steady'.since < Hold))
<1>1. poll[p].at = "write" /\ poll[p] \in {Resting} \cup Snapshot \cup Cycle
  BY DEF PersistObservedMember, StatusTypeOK
<1>2. poll[p] \in Cycle
  BY <1>1 DEF Resting, Snapshot
<1>3. poll[p].db \in MemberRecord /\ poll[p].live \in Snapshot
  BY <1>2 DEF Cycle
<1> QED BY <1>1, <1>3 DEF PersistObservedMember, Writing

(* What a poll that begins takes.                                           *)
LEMMA SnapshotEffect ==
    ASSUME StatusTypeOK, NEW p \in Pollers, ReadLiveObservation(p)
    PROVE  /\ poll[p] = Resting /\ p <= copies /\ sampled # clock /\ sampled' = clock /\ \A q \in Pollers : q < p => poll[q] # Resting
           /\ UNCHANGED <<clock, boot, lastRequest, copies, path, record, told, doubled, steady, outrun, early>>
           /\ \E s \in Snapshot : s.clock = clock /\ s.at = "row" /\ poll' = [poll EXCEPT ![p] = s]
<1>1. PICK missing \in SUBSET {"status", "peers"} : poll' = [poll EXCEPT ![p] =
                 [at |-> "row", clock |-> clock, boot |-> boot, available |-> "status" \notin missing,
                  observed |-> lastRequest # 0, online |-> Online,
                  path |-> IF "peers" \in missing THEN "unknown" ELSE path]]
  BY DEF ReadLiveObservation
<1> DEFINE s == [at |-> "row", clock |-> clock, boot |-> boot, available |-> "status" \notin missing,
                 observed |-> lastRequest # 0, online |-> Online, path |-> IF "peers" \in missing THEN "unknown" ELSE path]
<1>2. Online \in BOOLEAN
  BY DEF Online
<1>3. s \in Snapshot /\ s.clock = clock /\ s.at = "row"
  BY <1>2 DEF Snapshot, StatusTypeOK, Paths
<1> QED BY <1>1, <1>3 DEF ReadLiveObservation

(* The row that a poll reads.                                               *)
LEMMA ReadEffect ==
    ASSUME StatusTypeOK, NEW p \in Pollers, ReadMember(p)
    PROVE  /\ poll[p] \in Snapshot /\ poll[p].at = "row"
           /\ poll' = [poll EXCEPT ![p] = [db |-> record, live |-> poll[p], at |-> "write"]]
           /\ [db |-> record, live |-> poll[p], at |-> "write"] \in Cycle
           /\ UNCHANGED <<clock, boot, lastRequest, sampled, copies, path, record, told, doubled, steady, outrun, early>>
<1>1. poll[p].at = "row" /\ poll[p] \in {Resting} \cup Snapshot \cup Cycle
  BY DEF ReadMember, StatusTypeOK
<1>2. poll[p] \in Snapshot
  BY <1>1 DEF Resting, Cycle
<1> QED BY <1>1, <1>2 DEF ReadMember, StatusTypeOK, Cycle, historyVars

(* Pollers that do not step keep what they have.                            *)
LEMMA OtherPolls ==
    ASSUME StatusTypeOK, NEW p \in Pollers, NEW x, poll' = [poll EXCEPT ![p] = x]
    PROVE  /\ poll'[p] = x
           /\ \A q \in Pollers \ {p} : /\ poll'[q] = poll[q] /\ Active(q)' = Active(q) /\ Writing(q)' = Writing(q)
                                       /\ Live(q)' = Live(q)
BY DEF StatusTypeOK, Active, Writing, Live

(* Every step keeps the types, the clocks of the polls and what the rows    *)
(* and the announcements say of each other.                                 *)
LEMMA StatusStep == ASSUME StatusInv, [StatusNext]_statusVars PROVE StatusInv'
<1> USE StatusBounds DEF StatusInv
<1>a. \A p \in Pollers : poll[p] = Resting => ~Active(p) /\ ~Writing(p)
  BY DEF Resting, Active, Writing
<1>1. CASE TimePasses
  <2>1. UNCHANGED <<sampled, copies, path, record, poll, told, doubled, steady, outrun, early>> /\ clock' = clock + 1 /\ lastRequest' \in {lastRequest, clock'} /\ boot' = boot
    BY <1>1 DEF TimePasses, historyVars
  <2>2. StatusTypeOK'
    BY <2>1 DEF StatusTypeOK
  <2>3. ClocksFresh'
    BY <2>1 DEF ClocksFresh, Active, Writing, Live, StatusTypeOK
  <2> QED BY <2>1, <2>2, <2>3 DEF RevisionsTell, ToldLast, OnePoller, Active, Writing, Live
<1>2. CASE PathChanges
  <2>1. UNCHANGED <<clock, boot, lastRequest, sampled, copies, record, poll, told, doubled, steady, outrun, early>> /\ path' \in Paths
    BY <1>2 DEF PathChanges, historyVars
  <2> QED BY <2>1 DEF StatusTypeOK, ClocksFresh, RevisionsTell, ToldLast, OnePoller, Active, Writing, Live
<1>3. CASE ControllerRestarts
  <2>1. UNCHANGED <<clock, sampled, copies, path, record, poll, told, doubled, steady, outrun, early>> /\ boot' = clock /\ lastRequest' = 0
    BY <1>3 DEF ControllerRestarts, historyVars
  <2> QED BY <2>1 DEF StatusTypeOK, ClocksFresh, RevisionsTell, ToldLast, OnePoller, Active, Writing, Live
<1>4. ASSUME NEW p \in Pollers, ReadLiveObservation(p) PROVE StatusInv'
  <2>1. PICK s \in Snapshot : s.clock = clock /\ s.at = "row" /\ poll' = [poll EXCEPT ![p] = s]
    BY <1>4, SnapshotEffect
  <2>2. /\ poll[p] = Resting /\ p <= copies /\ sampled # clock /\ sampled' = clock /\ \A q \in Pollers : q < p => poll[q] # Resting
        /\ UNCHANGED <<clock, boot, lastRequest, copies, path, record, told, doubled, steady, outrun, early>>
    BY <1>4, SnapshotEffect
  <2>3. poll'[p] = s /\ Active(p)' /\ ~Writing(p)' /\ Live(p)' = s
    BY <2>1, OtherPolls DEF Active, Writing, Live
  <2>4. \A q \in Pollers \ {p} : poll'[q] = poll[q] /\ Active(q)' = Active(q) /\ Writing(q)' = Writing(q) /\ Live(q)' = Live(q)
    BY <2>1, OtherPolls
  <2>5. StatusTypeOK'
    BY <2>1, <2>2 DEF StatusTypeOK
  <2>6. sampled < clock
    BY <2>2 DEF ClocksFresh, StatusTypeOK
  <2>7. ClocksFresh'
    <3>1. sampled \in Nat /\ clock \in Nat /\ record.observedAt \in Nat /\ record.observedAt <= sampled
      BY DEF StatusTypeOK, MemberRecord, ClocksFresh
    <3>2. \A q \in Pollers \ {p} : Writing(q) => poll[q].db.observedAt <= sampled /\ poll[q].db.observedAt \in Nat
      <4> TAKE q \in Pollers \ {p}
      <4> SUFFICES ASSUME Writing(q) PROVE poll[q].db.observedAt <= sampled /\ poll[q].db.observedAt \in Nat
        OBVIOUS
      <4>1. poll[q] \in Cycle
        BY DEF StatusTypeOK, Writing, Resting, Snapshot
      <4> QED BY <4>1 DEF ClocksFresh, Cycle, MemberRecord
    <3>3. \A q \in Pollers \ {p} : Active(q) => Live(q).clock \in 1..sampled
      BY DEF ClocksFresh
    <3>4. sampled' <= clock' /\ record'.observedAt <= sampled' /\ \A q \in Pollers : Writing(q)' => poll'[q].db.observedAt <= sampled'
      BY <2>2, <2>3, <2>4, <2>6, <3>1, <3>2
    <3>5. Live(p)'.clock \in 1..sampled' /\ Live(p)'.clock # record'.observedAt
          /\ \A q \in Pollers : /\ Active(q)' /\ q # p => Live(q)'.clock # Live(p)'.clock
                                /\ Writing(q)' => poll'[q].db.observedAt # Live(p)'.clock
      BY <2>1, <2>2, <2>3, <2>4, <2>6, <3>1, <3>2, <3>3 DEF StatusTypeOK
    <3>6. ASSUME NEW b \in Pollers \ {p}, Active(b)' PROVE
             /\ Live(b)'.clock \in 1..sampled' /\ Live(b)'.clock # record'.observedAt
             /\ \A q \in Pollers : /\ Active(q)' /\ q # b => Live(q)'.clock # Live(b)'.clock
                                   /\ Writing(q)' => poll'[q].db.observedAt # Live(b)'.clock
      <4>1. Active(b) /\ Live(b)' = Live(b)
        BY <2>4, <3>6
      <4>2. Live(b).clock \in 1..sampled'
        BY <2>2, <2>6, <3>1, <3>3, <4>1
      <4>3. \A q \in Pollers \ {p} : /\ Active(q)' /\ q # b => Live(q)'.clock # Live(b).clock
                                     /\ Writing(q)' => poll'[q].db.observedAt # Live(b).clock
        BY <2>4, <4>1 DEF ClocksFresh
      <4>4. Live(b).clock # record'.observedAt
        BY <2>2, <4>1 DEF ClocksFresh
      <4> QED BY <2>3, <3>5, <3>6, <4>1, <4>2, <4>3, <4>4
    <3> QED BY <3>4, <3>5, <3>6 DEF ClocksFresh
  <2>8. RevisionsTell' /\ ToldLast'
    BY <2>2, <2>3, <2>4 DEF RevisionsTell, ToldLast
  <2>9. OnePoller'
    BY <2>1, <2>2, <2>3, <2>4, <2>6 DEF OnePoller, StatusTypeOK, Pollers
  <2> QED BY <2>5, <2>7, <2>8, <2>9
<1>5. ASSUME NEW p \in Pollers, ReadMember(p) PROVE StatusInv'
  <2> DEFINE cycle == [db |-> record, live |-> poll[p], at |-> "write"]
  <2>1. /\ poll[p] \in Snapshot /\ poll[p].at = "row" /\ poll' = [poll EXCEPT ![p] = cycle] /\ cycle \in Cycle
        /\ UNCHANGED <<clock, boot, lastRequest, sampled, copies, path, record, told, doubled, steady, outrun, early>>
    BY <1>5, ReadEffect
  <2>2. poll'[p].db = record /\ Active(p)' /\ Writing(p)' /\ Live(p)' = Live(p) /\ Active(p)
    <3>1. poll'[p] = cycle
      BY <2>1, OtherPolls
    <3> QED BY <2>1, <3>1 DEF Active, Writing, Live
  <2>3. \A q \in Pollers \ {p} : poll'[q] = poll[q] /\ Active(q)' = Active(q) /\ Writing(q)' = Writing(q) /\ Live(q)' = Live(q)
    BY <2>1, OtherPolls
  <2>4. StatusTypeOK'
    BY <2>1 DEF StatusTypeOK
  <2>5. ClocksFresh'
    BY <2>1, <2>2, <2>3 DEF ClocksFresh
  <2>6. RevisionsTell' /\ ToldLast'
    BY <2>1, <2>2, <2>3 DEF RevisionsTell, ToldLast
  <2>7. OnePoller'
    BY <2>1, <2>2, <2>3 DEF OnePoller
  <2> QED BY <2>4, <2>5, <2>6, <2>7
<1>6. ASSUME NEW p \in Pollers, PersistFails(p) PROVE StatusInv'
  <2>1. poll' = [poll EXCEPT ![p] = Resting] /\ UNCHANGED <<clock, boot, lastRequest, sampled, copies, path, record, told, doubled, steady, outrun, early>>
    BY <1>6 DEF PersistFails, historyVars
  <2>2. ~Active(p)' /\ ~Writing(p)'
    <3>1. poll'[p] = Resting
      BY <2>1, OtherPolls
    <3> QED BY <3>1 DEF Active, Writing, Resting
  <2>3. \A q \in Pollers \ {p} : poll'[q] = poll[q] /\ Active(q)' = Active(q) /\ Writing(q)' = Writing(q) /\ Live(q)' = Live(q)
    BY <2>1, OtherPolls
  <2>4. StatusTypeOK'
    BY <2>1 DEF StatusTypeOK
  <2> QED BY <2>1, <2>2, <2>3, <2>4 DEF ClocksFresh, RevisionsTell, ToldLast, OnePoller
<1>7. ASSUME NEW p \in Pollers, PersistObservedMember(p) PROVE StatusInv'
  <2> DEFINE db == poll[p].db
             s == poll[p].live
             new == ObserveMember(db, s)
             con == DetermineConnectionStatus(s)
             types == StatusEventTypes(db, s, new)
             presence == types \ {"changed"}
             agrees == steady.status = con /\ s.clock - steady.last <= Gap
  <2>1. /\ Writing(p) /\ db \in MemberRecord /\ s \in Snapshot
        /\ poll' = [poll EXCEPT ![p] = Resting] /\ UNCHANGED <<clock, boot, lastRequest, sampled, copies, path>>
    BY <1>7, PersistEffect
  <2>2. ~Active(p)' /\ ~Writing(p)' /\ Active(p) /\ Live(p) = s
    <3>1. poll'[p] = Resting
      BY <2>1, OtherPolls
    <3> QED BY <2>1, <3>1 DEF Active, Writing, Resting, Live
  <2>3. \A q \in Pollers \ {p} : poll'[q] = poll[q] /\ Active(q)' = Active(q) /\ Writing(q)' = Writing(q) /\ Live(q)' = Live(q)
    BY <2>1, OtherPolls
  <2>4. CASE UNCHANGED <<record, told, doubled, steady, outrun, early>>
    <3>1. StatusTypeOK'
      BY <2>1, <2>4 DEF StatusTypeOK
    <3> QED BY <2>1, <2>2, <2>3, <2>4, <3>1 DEF ClocksFresh, RevisionsTell, ToldLast, OnePoller
  <2>5. CASE /\ types = {} \/ ~Loses(db)
             /\ record' = Written(db, new)
             /\ told' = IF presence = {} THEN told ELSE presence
             /\ doubled' = (doubled \/ (presence # {} /\ presence = told))
             /\ steady' = IF con \notin Paths \/ copies > 1 THEN Unsteady
                          ELSE [status |-> con, last |-> s.clock, since |-> IF agrees THEN steady.since ELSE s.clock]
             /\ outrun' = (outrun \/ (db.observedAt = 0 /\ Loses(db)))
             /\ early' = (early \/ ("changed" \in types /\ steady'.last - steady'.since < Hold))
    <3>1. /\ new \in MemberRecord
          /\ Known(s) => new.online = s.online /\ new.observedAt = s.clock
          /\ ~Known(s) => new.online = db.online /\ new.observedAt = db.observedAt
      BY <2>1, ObserveEffect
    <3>2. new.pending # "none" =>
             /\ con \in Paths /\ new.pending = con
             /\ new.pendingSince = s.clock \/ (new.pendingSince = db.pendingSince /\ db.pending = con
                                               /\ db.observedAt # 0 /\ s.clock - db.observedAt <= Gap)
      BY <2>1, ObserveEffect
    <3>3. new.status # db.status /\ db.online /\ s.online /\ db.status # "none" =>
             con \in Paths /\ db.pending = con /\ db.observedAt # 0 /\ s.clock - db.observedAt <= Gap /\ s.clock - db.pendingSince >= Hold
      BY <2>1, ObserveEffect
    <3>4. con \in Paths => Known(s) /\ s.online
      BY <2>1, ConnectionStatus
    <3> HIDE DEF new, con
    <3>5. /\ presence \in {{}, {IF s.online THEN "online" ELSE "offline"}}
          /\ presence # {} => Known(s) /\ (IF db.observedAt = 0 THEN db.first /\ s.online ELSE db.online # s.online)
          /\ Known(s) /\ db.observedAt # 0 /\ db.online # s.online => presence # {}
          /\ "changed" \in types => Known(s) /\ db.observedAt # 0 /\ s.online /\ db.online /\ new.status # db.status /\ db.status # "none"
      BY <2>1, <3>1, AnnounceEffect
    <3>t. presence # {} => types # {}
      OBVIOUS
    <3> HIDE DEF types, presence
    <3>6. s.clock \in 1..sampled /\ s.clock # record.observedAt /\ db.observedAt # s.clock /\ db.observedAt <= sampled
          /\ \A q \in Pollers \ {p} : /\ Active(q) => Live(q).clock # s.clock /\ Live(q).clock # db.observedAt
                                      /\ Writing(q) => poll[q].db.observedAt # s.clock
      BY <2>1, <2>2 DEF ClocksFresh
    <3>7. /\ record' \in MemberRecord
          /\ record'.online = IF new.online # db.online THEN new.online ELSE record.online
          /\ record'.observedAt = IF new.observedAt # db.observedAt THEN new.observedAt ELSE record.observedAt
          /\ db = record => record' = new
      BY <2>1, <2>5, <3>1, WrittenEffect DEF StatusTypeOK
    <3>8. /\ record'.observedAt = IF Known(s) THEN s.clock ELSE record.observedAt
          /\ record'.online = IF Known(s) /\ s.online # db.online THEN s.online ELSE record.online
      BY <3>1, <3>6, <3>7
    <3>9. StatusTypeOK'
      <4>1. told' \in SUBSET {"online", "offline"}
        BY <2>5, <3>5 DEF StatusTypeOK
      <4>2. steady' \in [status : {"unknown", "relayed", "direct"}, since : Nat, last : Nat]
        BY <2>1, <2>5 DEF StatusTypeOK, Unsteady, Snapshot, Paths
      <4>3. doubled' \in BOOLEAN /\ outrun' \in BOOLEAN /\ early' \in BOOLEAN
        BY <2>5
      <4> QED BY <2>1, <3>7, <4>1, <4>2, <4>3 DEF StatusTypeOK
    <3>10. ClocksFresh'
      BY <2>1, <2>2, <2>3, <3>6, <3>8 DEF ClocksFresh
    <3>11. RevisionsTell'
      BY <2>1, <2>2, <2>3, <3>6, <3>8 DEF RevisionsTell, ClocksFresh
    <3>12. ToldLast'
      <4>1. Known(s) => record'.observedAt # 0
        BY <3>6, <3>8
      <4>2. told' # {} => record'.observedAt # 0
        BY <2>5, <3>5, <3>8, <4>1 DEF ToldLast
      <4>3. ASSUME ~outrun', presence # {} PROVE ~doubled' /\ told' = {IF record'.online THEN "online" ELSE "offline"}
        <5>1. ~outrun /\ ~Loses(db) /\ record.observedAt = db.observedAt
          BY <2>5, <3>t, <4>3 DEF Loses
        <5>2. db.online = record.online
          BY <2>1, <5>1 DEF RevisionsTell
        <5>3. Known(s) /\ presence = {IF s.online THEN "online" ELSE "offline"}
          BY <3>5, <4>3
        <5>4. record'.online = s.online
          <6>1. CASE s.online # db.online
            BY <3>8, <5>3, <6>1
          <6>2. CASE s.online = db.online
            BY <3>8, <5>2, <6>2
          <6> QED BY <6>1, <6>2
        <5>5. presence # told
          <6>1. CASE db.observedAt = 0
            BY <4>3, <5>1, <6>1 DEF ToldLast
          <6>2. CASE db.observedAt # 0
            <7>1. db.online # s.online
              BY <3>5, <4>3, <6>2
            <7>2. told \in {{}, {IF record.online THEN "online" ELSE "offline"}}
              BY <5>1 DEF ToldLast
            <7>3. record.online \in BOOLEAN /\ s.online \in BOOLEAN
              BY <2>1 DEF StatusTypeOK, MemberRecord, Snapshot
            <7> QED BY <4>3, <5>2, <5>3, <7>1, <7>2, <7>3
          <6> QED BY <6>1, <6>2
        <5> QED BY <2>5, <4>3, <5>1, <5>3, <5>4, <5>5 DEF ToldLast
      <4>4. ASSUME ~outrun', presence = {} PROVE ~doubled' /\ told' \in {{}, {IF record'.online THEN "online" ELSE "offline"}}
        <5>1. ~outrun /\ ~doubled /\ told' = told /\ ~doubled' /\ told \in {{}, {IF record.online THEN "online" ELSE "offline"}}
          BY <2>5, <4>4 DEF ToldLast
        <5>2. CASE record'.online = record.online
          BY <5>1, <5>2
        <5>3. CASE record'.online # record.online
          <6>1. Known(s) /\ s.online # db.online
            BY <3>8, <5>3
          <6>2. db.observedAt = 0
            BY <3>5, <4>4, <6>1
          <6>3. record.observedAt = 0
            BY <2>5, <4>4, <6>2 DEF Loses
          <6> QED BY <5>1, <6>3 DEF ToldLast
        <5> QED BY <5>2, <5>3
      <4> QED BY <4>2, <4>3, <4>4 DEF ToldLast
    <3>13. OnePoller'
      <4> SUFFICES ASSUME copies = 1 PROVE OnePoller'
        BY <2>1 DEF OnePoller
      <4>1. /\ p = 1 /\ s.clock > steady.last /\ db = record /\ steady.since <= steady.last /\ steady.last <= sampled /\ ~early
            /\ record.pending # "none" =>
                 steady.status = record.pending /\ steady.since <= record.pendingSince /\ steady.last = record.observedAt
        BY <2>1, <2>2 DEF OnePoller
      <4>2. steady.since \in Nat /\ steady.last \in Nat /\ sampled \in Nat /\ s.clock \in Nat /\ s.clock <= sampled
            /\ db.pendingSince \in Nat /\ new.pendingSince \in Nat
        BY <2>1, <3>1, <3>6 DEF StatusTypeOK, Snapshot, MemberRecord
      <4>3. \A q \in Pollers : ~Active(q)' /\ ~Writing(q)'
        BY <2>2, <2>3, <4>1 DEF OnePoller, Active, Writing
      <4>4. record' = new
        BY <3>7, <4>1
      <4>5. CASE con \notin Paths
        <5>1. steady' = Unsteady /\ new.pending = "none" /\ ~early'
          BY <2>5, <3>2, <3>3, <3>5, <4>1, <4>5
        <5> QED BY <2>1, <4>2, <4>3, <4>4, <5>1 DEF OnePoller, Unsteady
      <4>6. CASE con \in Paths
        <5>1. steady' = [status |-> con, last |-> s.clock, since |-> IF agrees THEN steady.since ELSE s.clock]
          BY <2>5, <4>6
        <5>2. steady'.status = con /\ steady'.last = s.clock /\ steady'.since <= s.clock /\ (agrees => steady'.since = steady.since)
          BY <4>1, <4>2, <5>1
        <5>3. db.pending = con /\ db.observedAt # 0 /\ s.clock - db.observedAt <= Gap => agrees /\ steady.since <= db.pendingSince
          BY <4>1, <4>6 DEF Paths
        <5>4. new.pending # "none" => new.pending = con /\ steady'.since <= new.pendingSince
          BY <3>2, <4>2, <5>2, <5>3
        <5>5. record'.observedAt = s.clock
          BY <3>4, <3>8, <4>6
        <5>6. "changed" \in types => steady'.last - steady'.since >= Hold
          BY <3>3, <3>5, <4>2, <5>2, <5>3
        <5>7. ~early'
          <6>1. steady'.since \in Nat /\ steady'.last \in Nat
            BY <3>9 DEF StatusTypeOK
          <6>2. ~("changed" \in types /\ steady'.last - steady'.since < Hold)
            BY <5>6, <6>1
          <6> HIDE DEF types
          <6> QED BY <2>5, <4>1, <6>2
        <5> HIDE DEF agrees
        <5> QED BY <2>1, <4>2, <4>3, <4>4, <5>2, <5>4, <5>5, <5>7 DEF OnePoller
      <4> QED BY <4>5, <4>6
    <3> QED BY <3>9, <3>10, <3>11, <3>12, <3>13
  <2> QED BY <1>7, <2>4, <2>5, PersistEffect
<1>8. CASE UNCHANGED statusVars
  BY <1>8 DEF statusVars, historyVars, StatusTypeOK, ClocksFresh, RevisionsTell, ToldLast, OnePoller, Active, Writing, Live
<1> QED BY <1>1, <1>2, <1>3, <1>4, <1>5, <1>6, <1>7, <1>8 DEF StatusNext

(* Every reachable row, poll and announcement agrees with the others.       *)
THEOREM StatusKeeps == StatusSpec => []StatusInv
<1>1. StatusInit => StatusInv
  <2> SUFFICES ASSUME StatusInit PROVE StatusInv
    OBVIOUS
  <2> USE StatusBounds DEF StatusInit
  <2>1. \A p \in Pollers : ~Active(p) /\ ~Writing(p) /\ poll[p] = Resting
    BY DEF Active, Writing, Resting
  <2>2. record \in MemberRecord /\ record.observedAt = 0 /\ record.pending = "none"
    BY DEF NewMember, MemberRecord
  <2>3. steady \in [status : {"unknown", "relayed", "direct"}, since : Nat, last : Nat] /\ steady.since = 0 /\ steady.last = 0
    BY DEF Unsteady
  <2>4. StatusTypeOK
    <3>1. poll \in [Pollers -> {Resting} \cup Snapshot \cup Cycle]
      OBVIOUS
    <3>2. told \in SUBSET {"online", "offline"} /\ doubled \in BOOLEAN /\ outrun \in BOOLEAN /\ early \in BOOLEAN
      OBVIOUS
    <3>3. clock \in Nat \ {0} /\ boot \in Nat /\ lastRequest \in Nat /\ sampled \in Nat /\ copies \in Pollers /\ path \in Paths
      BY DEF Paths
    <3> QED BY <2>2, <2>3, <3>1, <3>2, <3>3 DEF StatusTypeOK
  <2>5. ClocksFresh /\ RevisionsTell /\ ToldLast /\ OnePoller
    BY <2>1, <2>2, <2>3 DEF ClocksFresh, RevisionsTell, ToldLast, OnePoller
  <2> QED BY <2>4, <2>5 DEF StatusInv
<1> QED BY <1>1, StatusStep, PTL DEF StatusSpec

(* What is announced of a member has happened, once and for long enough     *)
(* (persistObservedMember), for any window, holding time and gap.           *)
THEOREM MemberStatusHolds == StatusSpec => []StatusHolds
<1>1. StatusInv => StatusHolds
  BY DEF StatusInv, ToldLast, OnePoller, StatusHolds, AnnouncedInTurn, ChangesHeld
<1> QED BY <1>1, StatusKeeps, PTL

----------------------------------------------------------------------------
(* The system page, a proof about SystemPage.                               *)

SystemSpec == SystemInit /\ [][SystemNext]_systemVars

View == [mode : {"none", "agent", "compose-read-only"}, rev : Nat, base : Values, dirty : BOOLEAN, crossed : BOOLEAN]
ValidateCall == [at : {"sent"}, base : Values, rev : Nat, dirty : BOOLEAN]
ApplyCall == [at : {"check", "save"}, cfg : RegConfigs, expected : Nat, base : Values, clean : BOOLEAN, confirmed : BOOLEAN]
Trials == {NoTrial} \cup [by : SysPages, button : {"apply"}, req : Requests]
                    \cup [by : SysPages, button : {"rollback"}, req : {NoRequest}]
Installing == [at : {"certificate", "key"}, kind : Kinds, crt : Nat, key : Nat]

PressTypeOK ==
    /\ press \in [SysPages -> [Buttons -> {NoCall} \cup ValidateCall \cup ApplyCall \cup [at : {"save"}]]]
    /\ \A p \in SysPages : /\ press[p]["validate"] \in {NoCall} \cup ValidateCall
                           /\ press[p]["apply"] \in {NoCall} \cup ApplyCall

PageTypeOK ==
    /\ reg \in Values /\ shown \in Values /\ past \in SUBSET Values
    /\ asked \in [SysPages -> Requests \cup {NoRequest}]
    /\ agentUp \in BOOLEAN /\ view \in [SysPages -> View]
    /\ PressTypeOK
    /\ trial \in Trials
    /\ cert \in [Kinds -> [crt : Nat, key : Nat]] /\ tlsCall \in [SysPages -> {NoCall} \cup Installing]
    /\ tlsMishap \in BOOLEAN /\ pageCalls \in Nat

(* Revisions name the values the register had, and a trial takes the next.  *)
Register ==
    /\ reg \in past /\ reg.rev > 0
    /\ \A e \in past : e.rev <= reg.rev
    /\ \A e, f \in past : e.rev = f.rev => e = f
    /\ IF trial = NoTrial THEN shown = reg ELSE shown.rev = reg.rev + 1

(* A clean draft was made from the value that its revision names.           *)
Based(base, rev) == base \in past /\ base.rev = rev

DraftOf(p) ==
    /\ view[p].mode = "none" => press[p]["validate"] = NoCall
    /\ ~view[p].dirty =>
          view[p].rev <= reg.rev /\ (~view[p].crossed /\ view[p].rev > 0 => Based(view[p].base, view[p].rev))

ValidationOf(p) == LET c == press[p]["validate"] IN c # NoCall /\ ~c.dirty =>
    /\ ~view[p].dirty /\ c.rev <= reg.rev
    /\ ~view[p].crossed /\ c.rev = view[p].rev /\ c.rev > 0 => Based(c.base, c.rev)

ApplyOf(p) == LET c == press[p]["apply"] IN c # NoCall /\ c.clean => Based(c.base, c.expected)

DraftsBased == \A p \in SysPages : DraftOf(p) /\ ValidationOf(p) /\ ApplyOf(p)

(* The comparison of the router was with the value that is replaced.        *)
Checked(r) == \E v \in past : v.rev = r.expected /\ (Risky(r.cfg) \/ v.cfg.exposure # r.cfg.exposure => r.confirmed)

AskOf(p) == asked[p] # NoRequest =>
    /\ asked[p].clean => Based(asked[p].base, asked[p].expected)
    /\ asked[p].checked => Checked(asked[p])

AsksBased == \A p \in SysPages : AskOf(p)

TrialBased == Applying =>
    /\ trial.req.clean => trial.req.base = reg
    /\ shown.cfg = trial.req.cfg
    /\ trial.req.checked /\ (Risky(shown.cfg) \/ shown.cfg.exposure # reg.cfg.exposure) => trial.req.confirmed

(* Of one kind one installation is under way, and its halves belong together.*)
HalvesMatch == ~tlsMishap =>
    /\ \A p, q \in SysPages : tlsCall[p] # NoCall /\ tlsCall[q] # NoCall /\ tlsCall[p].kind = tlsCall[q].kind => p = q
    /\ \A p \in SysPages : tlsCall[p] # NoCall =>
          /\ tlsCall[p].crt = tlsCall[p].key
          /\ tlsCall[p].at = "key" => cert[tlsCall[p].kind].crt = tlsCall[p].crt
    /\ \A kind \in Kinds : (\A p \in SysPages : tlsCall[p] # NoCall /\ tlsCall[p].kind = kind => tlsCall[p].at = "certificate")
          => cert[kind].crt = cert[kind].key

PageInv == PageTypeOK /\ Register /\ DraftsBased /\ AsksBased /\ TrialBased /\ HalvesMatch

(* The first status fills the draft, a later one changes the mode only      *)
(* (systemExposure.tsx, the query of the status).                           *)
LEMMA UpdatedView ==
    ASSUME NEW v \in View, reg \in Values, shown \in Values
    PROVE  /\ Updated(v) \in View /\ Updated(v).mode # "none"
           /\ v.mode # "none" => /\ Updated(v).rev = v.rev /\ Updated(v).base = v.base
                                 /\ Updated(v).dirty = v.dirty /\ Updated(v).crossed = v.crossed
           /\ v.mode = "none" => /\ Updated(v).dirty = ~Settled /\ ~Updated(v).crossed
                                 /\ Updated(v).rev = 0 \/ (Updated(v).rev = shown.rev /\ Updated(v).base = shown)
<1>1. /\ Status.mode \in {"agent", "compose-read-only"} /\ Status.rev \in Nat
      /\ Status.cfg \in RegConfigs \cup {FirstRegConfig, ComposeEnv}
      /\ Status.rev = 0 \/ [rev |-> Status.rev, cfg |-> Status.cfg] = shown
  BY DEF Status, Values
<1>2. Settled \in BOOLEAN
  BY DEF Settled
<1> HIDE DEF Status, Settled
<1>3. CASE v.mode = "none"
  <2>1. Updated(v) = [mode |-> Status.mode, rev |-> Status.rev,
                      base |-> [rev |-> Status.rev, cfg |-> Status.cfg], dirty |-> ~Settled, crossed |-> FALSE]
    BY <1>3 DEF Updated
  <2>2. [rev |-> Status.rev, cfg |-> Status.cfg] \in Values
    BY <1>1 DEF Values
  <2>3. Updated(v) \in View
    BY <1>1, <1>2, <2>1, <2>2 DEF View
  <2>4. Status.rev = 0 \/ Status.rev = shown.rev
    BY <1>1
  <2> QED BY <1>1, <1>3, <2>1, <2>3, <2>4
<1>4. CASE v.mode # "none"
  BY <1>1, <1>4 DEF View, Updated
<1> QED BY <1>3, <1>4

(* A validation puts its draft back under the revision the page has by now  *)
(* (systemExposure.tsx, validate.onSuccess).                                *)
LEMMA RefilledView ==
    ASSUME NEW v \in View, NEW c \in ValidateCall
    PROVE  /\ Refilled(v, c) \in View /\ Refilled(v, c).mode = v.mode /\ Refilled(v, c).rev = v.rev
           /\ Refilled(v, c).base = c.base /\ Refilled(v, c).dirty = c.dirty
           /\ Refilled(v, c).crossed = (v.crossed \/ c.rev # v.rev)
BY DEF View, ValidateCall, Refilled

(* An answer to apply or rollback becomes the draft (systemExposure.tsx).   *)
LEMMA AdoptedView ==
    ASSUME NEW v \in View, shown \in Values
    PROVE  /\ Adopted(v) \in View /\ Adopted(v).mode = v.mode /\ Adopted(v).rev = shown.rev
           /\ Adopted(v).base = shown /\ ~Adopted(v).dirty /\ ~Adopted(v).crossed
BY DEF View, Values, Adopted

(* A call that the router has checked is the call it was (systemRouter.ts). *)
LEMMA CallMoves ==
    ASSUME NEW c \in ApplyCall
    PROVE  LET w == [c EXCEPT !.at = "save"] IN
           w \in ApplyCall /\ w.clean = c.clean /\ w.base = c.base /\ w.expected = c.expected
BY DEF ApplyCall

(* No call, no trial and no installation is one of the calls, the trials or *)
(* the installations (systemExposure.tsx).                                  *)
LEMMA CallKinds ==
    /\ NoCall \notin ValidateCall \cup ApplyCall \cup [at : {"save"}] \cup Installing
    /\ NoTrial \notin [by : SysPages, button : {"apply"}, req : Requests] \cup [by : SysPages, button : {"rollback"}, req : {NoRequest}]
BY DEF NoCall, ValidateCall, ApplyCall, Installing, NoTrial

(* Pressing or answering one button leaves the calls of the others alone    *)
(* (systemExposure.tsx: one mutation for each button).                      *)
LEMMA PressEffect ==
    ASSUME PressTypeOK, NEW p \in SysPages, NEW b \in Buttons, NEW call, Press(p, b, call)
    PROVE  /\ press'[p][b] = call
           /\ \A q \in SysPages, a \in Buttons : q # p \/ a # b => press'[q][a] = press[q][a]
BY DEF PressTypeOK, Press

(* Each button has calls of its kind (systemExposure.tsx).                  *)
LEMMA PressTypes ==
    ASSUME PressTypeOK, NEW p \in SysPages, NEW b \in Buttons, NEW call, Press(p, b, call),
           \/ call = NoCall
           \/ b = "validate" /\ call \in ValidateCall
           \/ b = "apply" /\ call \in ApplyCall
           \/ b = "rollback" /\ call \in [at : {"save"}]
    PROVE  PressTypeOK'
<1>1. press' \in [SysPages -> [Buttons -> {NoCall} \cup ValidateCall \cup ApplyCall \cup [at : {"save"}]]]
  BY DEF PressTypeOK, Press
<1>2. \A q \in SysPages : /\ press'[q]["validate"] \in {press[q]["validate"]} \cup {NoCall} \cup ValidateCall
                          /\ press'[q]["apply"] \in {press[q]["apply"]} \cup {NoCall} \cup ApplyCall
  BY PressEffect DEF Buttons
<1> QED BY <1>1, <1>2 DEF PressTypeOK

(* Replacing the certificate leaves the key, and the other way round        *)
(* (ztplanet_agent.py, the two files of a certificate).                     *)
LEMMA HalfReplaced ==
    ASSUME NEW old \in [crt : Nat, key : Nat], NEW n \in Nat
    PROVE  /\ LET w == [old EXCEPT !.crt = n] IN w \in [crt : Nat, key : Nat] /\ w.crt = n /\ w.key = old.key
           /\ LET w == [old EXCEPT !.key = n] IN w \in [crt : Nat, key : Nat] /\ w.key = n /\ w.crt = old.crt
OBVIOUS

(* An installation that goes on to its key is the installation it was.      *)
LEMMA InstallMoves ==
    ASSUME NEW c \in Installing
    PROVE  LET w == [c EXCEPT !.at = "key"] IN
           w \in Installing /\ w.at = "key" /\ w.crt = c.crt /\ w.key = c.key /\ w.kind = c.kind
BY DEF Installing

(* A step that leaves the register alone keeps what its revisions name.     *)
LEMMA RegisterStill == ASSUME Register, UNCHANGED <<reg, shown, past, trial>> PROVE Register'
BY DEF Register

(* Dropping requests, and values that join the past, keep what the requests *)
(* that are left were based on (callAgent).                                 *)
LEMMA AsksStill ==
    ASSUME AsksBased, \A p \in SysPages : asked'[p] \in {asked[p], NoRequest}, past \subseteq past'
    PROVE  AsksBased'
BY DEF AsksBased, AskOf, Based, Checked, Risky

(* A step that leaves the register and the trial alone keeps the trial based*)
(* on what it replaces.                                                     *)
LEMMA TrialStill == ASSUME TrialBased, UNCHANGED <<reg, shown, trial>> PROVE TrialBased'
BY DEF TrialBased, Applying, Risky

(* A step of another part leaves certificates and keys as they were.        *)
LEMMA HalvesStill == ASSUME HalvesMatch, UNCHANGED <<cert, tlsCall, tlsMishap>> PROVE HalvesMatch'
BY DEF HalvesMatch

(* A request that joins the others leaves them based on what they were.     *)
LEMMA AsksOne ==
    ASSUME AsksBased, NEW p \in SysPages, \A q \in SysPages \ {p} : asked'[q] = asked[q], past \subseteq past', AskOf(p)'
    PROVE  AsksBased'
<1>1. ASSUME NEW q \in SysPages \ {p} PROVE AskOf(q)'
  BY <1>1 DEF AsksBased, AskOf, Based, Checked, Risky
<1> QED BY <1>1 DEF AsksBased

(* What was tried becomes the value, and its revision is new                *)
(* (ztplanet_agent.py).                                                     *)
LEMMA RegisterMoves ==
    ASSUME Register, reg \in Values, shown \in Values, past \in SUBSET Values,
           reg' = shown, past' = past \cup {shown}, UNCHANGED shown, trial' = NoTrial
    PROVE  Register' /\ past \subseteq past' /\ reg.rev <= reg'.rev
<1>1. reg.rev \in Nat /\ shown.rev \in Nat /\ \A e \in past : e.rev \in Nat
  BY DEF Values
<1>2. shown \in past \/ \A e \in past : e.rev < shown.rev
  BY <1>1 DEF Register
<1>3. reg.rev <= shown.rev
  BY <1>1 DEF Register
<1> QED BY <1>1, <1>2, <1>3 DEF Register

(* A step of one page, or an answer to it, leaves the drafts and the calls of*)
(* the others based on the values their revisions name.                     *)
LEMMA DraftsOne ==
    ASSUME DraftsBased, PageTypeOK, PageTypeOK', past \subseteq past', reg.rev <= reg'.rev, NEW p \in SysPages,
           \A q \in SysPages \ {p} : /\ view'[q] = view[q]
                                     /\ \A b \in {"validate", "apply"} : press'[q][b] \in {press[q][b], NoCall},
           DraftOf(p)' /\ ValidationOf(p)' /\ ApplyOf(p)'
    PROVE  DraftsBased'
<1>1. reg.rev \in Nat /\ reg'.rev \in Nat /\ \A q \in SysPages : view[q].rev \in Nat
  BY DEF PageTypeOK, Values, View
<1>2. ASSUME NEW q \in SysPages \ {p} PROVE DraftOf(q)'
  BY <1>1, <1>2 DEF DraftsBased, DraftOf, Based
<1>3. ASSUME NEW q \in SysPages \ {p} PROVE ApplyOf(q)'
  BY <1>3 DEF DraftsBased, ApplyOf, Based
<1>4. ASSUME NEW q \in SysPages \ {p} PROVE ValidationOf(q)'
  <2>1. press[q]["validate"] # NoCall => press[q]["validate"].rev \in Nat
    BY DEF PageTypeOK, PressTypeOK, ValidateCall
  <2> QED BY <1>1, <1>4, <2>1 DEF DraftsBased, ValidationOf, Based
<1> QED BY <1>2, <1>3, <1>4 DEF DraftsBased

(* A step that changes no draft, and at most ends calls, leaves all drafts  *)
(* based on the values their revisions name.                                *)
LEMMA DraftsStill ==
    ASSUME DraftsBased, PageTypeOK, PageTypeOK', past \subseteq past', reg.rev <= reg'.rev, UNCHANGED view,
           \A q \in SysPages, b \in {"validate", "apply"} : press'[q][b] \in {press[q][b], NoCall}
    PROVE  DraftsBased'
<1>1. reg.rev \in Nat /\ reg'.rev \in Nat /\ \A q \in SysPages : view[q].rev \in Nat
  BY DEF PageTypeOK, Values, View
<1>2. ASSUME NEW q \in SysPages PROVE DraftOf(q)'
  BY <1>1, <1>2 DEF DraftsBased, DraftOf, Based
<1>3. ASSUME NEW q \in SysPages PROVE ApplyOf(q)'
  BY <1>3 DEF DraftsBased, ApplyOf, Based
<1>4. ASSUME NEW q \in SysPages PROVE ValidationOf(q)'
  <2>1. press[q]["validate"] # NoCall => press[q]["validate"].rev \in Nat
    BY DEF PageTypeOK, PressTypeOK, ValidateCall
  <2> QED BY <1>1, <1>4, <2>1 DEF DraftsBased, ValidationOf, Based
<1> QED BY <1>2, <1>3, <1>4 DEF DraftsBased

(* Every step of every page, of the agent and of its callers keeps what the *)
(* drafts, the calls and the trial are based on (systemExposure.tsx,        *)
(* systemRouter.ts, ztplanet_agent.py).                                     *)
LEMMA PageStep == ASSUME PageInv, [SystemNext]_systemVars PROVE PageInv'
<1> USE PagesSave DEF PageInv
<1>0. /\ "validate" \in Buttons /\ "apply" \in Buttons /\ "rollback" \in Buttons
      /\ reg \in Values /\ shown \in Values /\ reg.rev \in Nat /\ shown.rev \in Nat
      /\ \A p \in SysPages : /\ view[p] \in View /\ view[p].rev \in Nat /\ view[p].base \in Values
                             /\ view[p].dirty \in BOOLEAN /\ view[p].crossed \in BOOLEAN
                             /\ asked[p] \in Requests \cup {NoRequest}
  BY DEF Buttons, PageTypeOK, Values, View
<1>t. trial = NoTrial <=> Settled
  BY <1>0 DEF Settled, Register
<1>r. reg \in past /\ reg.rev > 0 /\ (trial = NoTrial => shown = reg) /\ (trial # NoTrial => shown.rev = reg.rev + 1)
  BY DEF Register
<1>d. \A p \in SysPages : DraftOf(p) /\ ValidationOf(p) /\ ApplyOf(p)
  BY DEF DraftsBased
<1>c. \A p \in SysPages : /\ press[p]["validate"] # NoCall => press[p]["validate"] \in ValidateCall
                          /\ press[p]["apply"] # NoCall => press[p]["apply"] \in ApplyCall
  BY DEF PageTypeOK, PressTypeOK
<1>p. PressTypeOK
  BY DEF PageTypeOK
<1>1. ASSUME NEW p \in SysPages, StatusArrives(p) PROVE PageInv'
  <2>1. UNCHANGED <<reg, shown, past, asked, agentUp, press, trial, cert, tlsCall, tlsMishap, pageCalls>>
    BY <1>1 DEF StatusArrives, regVars, tlsVars
  <2> DEFINE w == Updated(view[p])
  <2>2. view' = [view EXCEPT ![p] = w]
    BY <1>1 DEF StatusArrives
  <2>w. /\ w \in View /\ w.mode # "none"
        /\ view[p].mode # "none" => w.rev = view[p].rev /\ w.base = view[p].base /\ w.dirty = view[p].dirty /\ w.crossed = view[p].crossed
        /\ view[p].mode = "none" => w.dirty = ~Settled /\ ~w.crossed /\ (w.rev = 0 \/ (w.rev = shown.rev /\ w.base = shown))
    BY <1>0, UpdatedView
  <2> HIDE DEF w
  <2>3. PageTypeOK'
    BY <2>1, <2>2, <2>w DEF PageTypeOK, PressTypeOK
  <2>4. view'[p] = w /\ \A q \in SysPages \ {p} : view'[q] = view[q]
    BY <2>2 DEF PageTypeOK
  <2>5. DraftOf(p)' /\ ValidationOf(p)' /\ ApplyOf(p)'
    <3>1. CASE view[p].mode = "none"
      <4>1. press[p]["validate"] = NoCall
        BY <1>d, <3>1 DEF DraftOf
      <4>2. ~w.dirty => shown = reg
        BY <2>w, <3>1 DEF Settled
      <4>3. ~w.dirty => w.rev <= reg.rev /\ (w.rev > 0 => Based(w.base, w.rev))
        BY <1>0, <1>r, <2>w, <3>1, <4>2 DEF Based
      <4>4. DraftOf(p)'
        BY <2>1, <2>w, <2>4, <4>3 DEF DraftOf, Based
      <4>5. ValidationOf(p)' /\ ApplyOf(p)'
        BY <1>d, <2>1, <4>1 DEF ValidationOf, ApplyOf, Based
      <4> QED BY <4>4, <4>5
    <3>2. CASE view[p].mode # "none"
      BY <1>d, <2>1, <2>w, <2>4, <3>2 DEF DraftOf, ValidationOf, ApplyOf, Based
    <3> QED BY <3>1, <3>2
  <2>6. DraftsBased'
    BY <1>0, <2>1, <2>3, <2>4, <2>5, DraftsOne
  <2> QED BY <2>1, <2>3, <2>6, RegisterStill, AsksStill, TrialStill, HalvesStill
<1>2. ASSUME NEW p \in SysPages, Reload(p) PROVE PageInv'
  <2>1. /\ UNCHANGED <<reg, shown, past, asked, agentUp, press, trial, cert, tlsCall, tlsMishap, pageCalls>>
        /\ view' = [view EXCEPT ![p] = Blank] /\ \A b \in Buttons : press[p][b] = NoCall
    BY <1>2 DEF Reload, regVars, tlsVars
  <2>2. Blank \in View /\ Blank.rev = 0 /\ ~Blank.dirty
    BY DEF Blank, View, Values
  <2>3. PageTypeOK'
    BY <2>1, <2>2 DEF PageTypeOK, PressTypeOK
  <2>4. view'[p] = Blank /\ \A q \in SysPages \ {p} : view'[q] = view[q]
    BY <2>1 DEF PageTypeOK
  <2>5. DraftOf(p)' /\ ValidationOf(p)' /\ ApplyOf(p)'
    BY <1>0, <2>1, <2>2, <2>4 DEF DraftOf, ValidationOf, ApplyOf
  <2>6. DraftsBased'
    BY <1>0, <2>1, <2>3, <2>4, <2>5, DraftsOne
  <2> QED BY <2>1, <2>3, <2>6, RegisterStill, AsksStill, TrialStill, HalvesStill
<1>3. ASSUME NEW p \in SysPages, PressValidate(p) PROVE PageInv'
  <2> DEFINE c == [at |-> "sent", base |-> view[p].base, rev |-> view[p].rev, dirty |-> view[p].dirty]
  <2>1. /\ UNCHANGED <<reg, shown, past, asked, agentUp, view, trial, cert, tlsCall, tlsMishap>>
        /\ pageCalls' = pageCalls + 1 /\ Press(p, "validate", c) /\ view[p].mode = "agent"
    BY <1>3 DEF PressValidate, Enabled, Count, regVars, tlsVars
  <2>2. c \in ValidateCall /\ c.base = view[p].base /\ c.rev = view[p].rev /\ c.dirty = view[p].dirty
    BY <1>0 DEF ValidateCall
  <2> HIDE DEF c
  <2>3. press'[p]["validate"] = c /\ \A q \in SysPages, a \in Buttons : q # p \/ a # "validate" => press'[q][a] = press[q][a]
    BY <1>0, <1>p, <2>1, PressEffect
  <2>4. PressTypeOK'
    BY <1>0, <1>p, <2>1, <2>2, PressTypes
  <2>5. PageTypeOK'
    BY <2>1, <2>4 DEF PageTypeOK
  <2>6. DraftOf(p)' /\ ValidationOf(p)' /\ ApplyOf(p)'
    BY <1>0, <1>d, <2>1, <2>2, <2>3 DEF DraftOf, ValidationOf, ApplyOf, Based
  <2>7. DraftsBased'
    BY <1>0, <2>1, <2>3, <2>5, <2>6, DraftsOne
  <2> QED BY <2>1, <2>5, <2>7, RegisterStill, AsksStill, TrialStill, HalvesStill
<1>4. ASSUME NEW p \in SysPages, ValidateAnswers(p) PROVE PageInv'
  <2> DEFINE c == press[p]["validate"]
             w == Refilled(view[p], c)
  <2>1. /\ UNCHANGED <<reg, shown, past, asked, agentUp, trial, cert, tlsCall, tlsMishap, pageCalls>>
        /\ Press(p, "validate", NoCall) /\ c.at = "sent"
        /\ view' = view \/ view' = [view EXCEPT ![p] = w]
    <3>1. /\ UNCHANGED <<reg, shown, past, asked, agentUp, trial, cert, tlsCall, tlsMishap, pageCalls>>
          /\ Press(p, "validate", NoCall) /\ c.at = "sent"
      BY <1>4 DEF ValidateAnswers, regVars, tlsVars
    <3>2. CASE agentUp
      BY <1>4, <3>1, <3>2 DEF ValidateAnswers
    <3>3. CASE ~agentUp
      BY <1>4, <3>1, <3>3 DEF ValidateAnswers
    <3> QED BY <3>1, <3>2, <3>3
  <2>2. c \in ValidateCall /\ c # NoCall /\ c.base \in Values /\ c.dirty \in BOOLEAN /\ c.rev \in Nat
    BY <1>c, <2>1, CallKinds DEF NoCall, ValidateCall
  <2>3. press'[p]["validate"] = NoCall /\ \A q \in SysPages, a \in Buttons : q # p \/ a # "validate" => press'[q][a] = press[q][a]
    BY <1>0, <1>p, <2>1, PressEffect
  <2>4. PressTypeOK'
    BY <1>0, <1>p, <2>1, PressTypes
  <2>5. w \in View /\ w.rev = view[p].rev /\ w.base = c.base /\ w.dirty = c.dirty /\ w.crossed = (view[p].crossed \/ c.rev # view[p].rev)
    BY <1>0, <2>2, RefilledView
  <2> HIDE DEF w
  <2>6. PageTypeOK'
    BY <2>1, <2>4, <2>5 DEF PageTypeOK
  <2>7. (view'[p] = view[p] \/ view'[p] = w) /\ \A q \in SysPages \ {p} : view'[q] = view[q]
    BY <2>1 DEF PageTypeOK
  <2>8. DraftOf(p)' /\ ValidationOf(p)' /\ ApplyOf(p)'
    <3>1. ValidationOf(p)' /\ ApplyOf(p)'
      BY <1>0, <1>d, <2>1, <2>3 DEF ValidationOf, ApplyOf, Based
    <3>2. CASE view'[p] = view[p]
      BY <1>d, <2>1, <2>3, <3>1, <3>2 DEF DraftOf, Based
    <3>3. CASE view'[p] = w
      <4>1. ~c.dirty => view[p].rev <= reg.rev
        BY <1>d, <2>2 DEF ValidationOf, DraftOf
      <4>2. ~c.dirty /\ ~view[p].crossed /\ c.rev = view[p].rev /\ c.rev > 0 => Based(c.base, c.rev)
        BY <1>d, <2>2 DEF ValidationOf
      <4> HIDE DEF c
      <4>3. DraftOf(p)'
        BY <1>0, <2>1, <2>2, <2>3, <2>5, <3>3, <4>1, <4>2 DEF DraftOf, Based
      <4> QED BY <3>1, <4>3
    <3> QED BY <2>7, <3>2, <3>3
  <2>9. DraftsBased'
    BY <1>0, <2>1, <2>3, <2>6, <2>7, <2>8, DraftsOne
  <2> QED BY <2>1, <2>6, <2>9, RegisterStill, AsksStill, TrialStill, HalvesStill
<1>5. ASSUME NEW p \in SysPages, NEW d \in Drafts(p), NEW confirmed \in BOOLEAN, PressApply(p, d, confirmed) PROVE PageInv'
  <2> DEFINE c == [at |-> "check", cfg |-> d, expected |-> view[p].rev, base |-> view[p].base,
                   clean |-> ~view[p].dirty /\ ~view[p].crossed, confirmed |-> confirmed]
  <2>1. /\ UNCHANGED <<reg, shown, past, asked, agentUp, view, trial, cert, tlsCall, tlsMishap>>
        /\ pageCalls' = pageCalls + 1 /\ Press(p, "apply", c) /\ view[p].rev > 0
    BY <1>5 DEF PressApply, Enabled, Count, regVars, tlsVars
  <2>2. d \in RegConfigs
    BY DEF Drafts
  <2>3. c \in ApplyCall /\ c.base = view[p].base /\ c.expected = view[p].rev /\ (c.clean => ~view[p].dirty /\ ~view[p].crossed)
    BY <1>0, <2>2 DEF ApplyCall
  <2> HIDE DEF c
  <2>4. press'[p]["apply"] = c /\ \A q \in SysPages, a \in Buttons : q # p \/ a # "apply" => press'[q][a] = press[q][a]
    BY <1>0, <1>p, <2>1, PressEffect
  <2>5. PressTypeOK'
    BY <1>0, <1>p, <2>1, <2>3, PressTypes
  <2>6. PageTypeOK'
    BY <2>1, <2>4, <2>5 DEF PageTypeOK
  <2>7. DraftOf(p)' /\ ValidationOf(p)' /\ ApplyOf(p)'
    BY <1>0, <1>d, <2>1, <2>3, <2>4 DEF DraftOf, ValidationOf, ApplyOf, Based
  <2>8. DraftsBased'
    BY <1>0, <2>1, <2>4, <2>6, <2>7, DraftsOne
  <2> QED BY <2>1, <2>6, <2>8, RegisterStill, AsksStill, TrialStill, HalvesStill
<1>6. ASSUME NEW p \in SysPages, ApplyChecks(p) PROVE PageInv'
  <2> DEFINE c == press[p]["apply"]
  <2>1. c.at = "check" /\ UNCHANGED <<reg, shown, past, agentUp, view, trial, cert, tlsCall, tlsMishap, pageCalls>>
    BY <1>6 DEF ApplyChecks, tlsVars
  <2>2. c \in ApplyCall /\ c # NoCall
    BY <1>c, <2>1, CallKinds DEF NoCall
  <2>3. CASE ~agentUp \/ (NeedsPassword(c.cfg) /\ ~c.confirmed)
    <3>1. Press(p, "apply", NoCall) /\ asked' = asked
      BY <1>6, <2>3 DEF ApplyChecks
    <3>2. press'[p]["apply"] = NoCall /\ \A q \in SysPages, a \in Buttons : q # p \/ a # "apply" => press'[q][a] = press[q][a]
      BY <1>0, <1>p, <3>1, PressEffect
    <3>3. PressTypeOK'
      BY <1>0, <1>p, <3>1, PressTypes
    <3>4. PageTypeOK'
      BY <2>1, <3>1, <3>3 DEF PageTypeOK
    <3>5. DraftsBased'
      BY <1>0, <2>1, <3>2, <3>4, DraftsStill
    <3> QED BY <2>1, <3>1, <3>4, <3>5, RegisterStill, AsksStill, TrialStill, HalvesStill
  <2>4. CASE ~(~agentUp \/ (NeedsPassword(c.cfg) /\ ~c.confirmed))
    <3> DEFINE d == [c EXCEPT !.at = "save"]
               r == [expected |-> c.expected, cfg |-> c.cfg, base |-> c.base, clean |-> c.clean,
                     confirmed |-> c.confirmed, checked |-> Settled /\ shown.rev = c.expected]
    <3>1. Press(p, "apply", d) /\ asked' = [asked EXCEPT ![p] = r]
      BY <1>6, <2>4 DEF ApplyChecks
    <3>2. d \in ApplyCall /\ d.clean = c.clean /\ d.base = c.base /\ d.expected = c.expected
      BY <2>2, CallMoves
    <3>3. r \in Requests
      BY <2>2 DEF ApplyCall, Requests, Settled
    <3>4. (r.clean => Based(r.base, r.expected)) /\ (r.checked => Checked(r))
      <4>1. r.clean => Based(r.base, r.expected)
        BY <1>d, <2>2 DEF ApplyOf
      <4>2. r.checked => shown = reg /\ reg.rev = r.expected
        BY DEF Settled
      <4>3. Risky(r.cfg) \/ shown.cfg.exposure # r.cfg.exposure => r.confirmed
        BY <2>4 DEF NeedsPassword, Risky
      <4>4. r.checked => Checked(r)
        BY <1>r, <4>2, <4>3 DEF Checked
      <4> QED BY <4>1, <4>4
    <3> HIDE DEF d, r
    <3>5. press'[p]["apply"] = d /\ \A q \in SysPages, a \in Buttons : q # p \/ a # "apply" => press'[q][a] = press[q][a]
      BY <1>0, <1>p, <3>1, PressEffect
    <3>6. PressTypeOK'
      BY <1>0, <1>p, <3>1, <3>2, PressTypes
    <3>7. PageTypeOK'
      BY <2>1, <3>1, <3>3, <3>6 DEF PageTypeOK
    <3>8. asked'[p] = r /\ \A q \in SysPages \ {p} : asked'[q] = asked[q]
      BY <3>1 DEF PageTypeOK
    <3>9. DraftOf(p)' /\ ValidationOf(p)' /\ ApplyOf(p)'
      BY <1>0, <1>d, <2>1, <2>2, <3>2, <3>5 DEF DraftOf, ValidationOf, ApplyOf, Based
    <3>10. DraftsBased'
      BY <1>0, <2>1, <3>5, <3>7, <3>9, DraftsOne
    <3>11. AskOf(p)'
      BY <2>1, <3>4, <3>8 DEF AskOf, Based, Checked, Risky
    <3> QED BY <2>1, <3>7, <3>8, <3>10, <3>11, RegisterStill, AsksOne, TrialStill, HalvesStill
  <2> QED BY <2>3, <2>4
<1>7. ASSUME NEW p \in SysPages, PressRollback(p) PROVE PageInv'
  <2> DEFINE c == [at |-> "save"]
  <2>1. /\ UNCHANGED <<reg, shown, past, asked, agentUp, view, trial, cert, tlsCall, tlsMishap>>
        /\ pageCalls' = pageCalls + 1 /\ Press(p, "rollback", c)
    BY <1>7 DEF PressRollback, Enabled, Count, regVars, tlsVars
  <2>2. c \in [at : {"save"}]
    OBVIOUS
  <2> HIDE DEF c
  <2>3. \A q \in SysPages, a \in {"validate", "apply"} : press'[q][a] = press[q][a]
    BY <1>0, <1>p, <2>1, PressEffect
  <2>4. PressTypeOK'
    BY <1>0, <1>p, <2>1, <2>2, PressTypes
  <2>5. PageTypeOK'
    BY <2>1, <2>4 DEF PageTypeOK
  <2>6. DraftsBased'
    BY <1>0, <2>1, <2>3, <2>5, DraftsStill
  <2> QED BY <2>1, <2>5, <2>6, RegisterStill, AsksStill, TrialStill, HalvesStill
<1>8. ASSUME NEW p \in SysPages, AgentTries(p) PROVE PageInv'
  <2> DEFINE r == asked[p]
  <2>1. /\ UNCHANGED <<reg, past, asked, agentUp, view, press, cert, tlsCall, tlsMishap, pageCalls>>
        /\ r # NoRequest /\ r.expected = reg.rev /\ shown = reg
        /\ shown' = [rev |-> reg.rev + 1, cfg |-> r.cfg]
        /\ trial' = [by |-> p, button |-> "apply", req |-> r]
    BY <1>8 DEF AgentTries, TrySave, Try, Settled, pageVars, tlsVars
  <2>2. r \in Requests /\ r.cfg \in RegConfigs
    BY <1>0, <2>1 DEF Requests
  <2>3. AskOf(p)
    BY DEF AsksBased
  <2> HIDE DEF r
  <2>4. shown' \in Values /\ shown'.rev = reg.rev + 1 /\ shown'.cfg = r.cfg
    BY <1>0, <2>1, <2>2 DEF Values
  <2>5. trial' \in Trials /\ trial' # NoTrial /\ trial'.req = r /\ trial'.button = "apply"
    BY <2>1, <2>2, CallKinds DEF Trials
  <2>6. PageTypeOK'
    BY <2>1, <2>4, <2>5 DEF PageTypeOK, PressTypeOK
  <2>7. Register'
    BY <2>1, <2>4, <2>5 DEF Register
  <2>8. \A v \in past : v.rev = reg.rev => v = reg
    BY <1>r DEF Register
  <2>9. r.clean => r.base = reg
    BY <2>1, <2>3, <2>8 DEF r, AskOf, Based
  <2>10. r.checked /\ (Risky(r.cfg) \/ r.cfg.exposure # reg.cfg.exposure) => r.confirmed
    BY <2>1, <2>3, <2>8 DEF r, AskOf, Checked
  <2>11. TrialBased'
    BY <2>1, <2>4, <2>5, <2>9, <2>10 DEF TrialBased, Risky
  <2>12. DraftsBased'
    BY <1>0, <2>1, <2>6, DraftsStill
  <2> QED BY <2>1, <2>6, <2>7, <2>11, <2>12, AsksStill, HalvesStill
<1>9. ASSUME NEW p \in SysPages, AgentRefuses(p) PROVE PageInv'
  <2>1. /\ UNCHANGED <<reg, shown, past, agentUp, view, trial, cert, tlsCall, tlsMishap, pageCalls>>
        /\ asked' = [asked EXCEPT ![p] = NoRequest] /\ Press(p, "apply", NoCall)
    BY <1>9 DEF AgentRefuses, Drop, tlsVars
  <2>2. \A q \in SysPages, a \in {"validate", "apply"} : press'[q][a] \in {press[q][a], NoCall}
    BY <1>0, <1>p, <2>1, PressEffect
  <2>3. PressTypeOK'
    BY <1>0, <1>p, <2>1, PressTypes
  <2>4. PageTypeOK' /\ \A q \in SysPages : asked'[q] \in {asked[q], NoRequest}
    BY <2>1, <2>3 DEF PageTypeOK
  <2>5. DraftsBased'
    BY <1>0, <2>1, <2>2, <2>4, DraftsStill
  <2> QED BY <2>1, <2>4, <2>5, RegisterStill, AsksStill, TrialStill, HalvesStill
<1>10. ASSUME NEW p \in SysPages, AgentRollsBack(p) PROVE PageInv'
  <2>1. UNCHANGED <<reg, past, asked, agentUp, view, cert, tlsCall, tlsMishap, pageCalls>>
    BY <1>10 DEF AgentRollsBack, TryRollback, Try, regVars, tlsVars
  <2>2. CASE past = {reg}
    <3>1. Press(p, "rollback", NoCall) /\ UNCHANGED <<shown, trial>>
      BY <1>10, <2>2 DEF AgentRollsBack, regVars
    <3>2. \A q \in SysPages, a \in {"validate", "apply"} : press'[q][a] = press[q][a]
      BY <1>0, <1>p, <3>1, PressEffect
    <3>3. PressTypeOK'
      BY <1>0, <1>p, <3>1, PressTypes
    <3>4. PageTypeOK'
      BY <2>1, <3>1, <3>3 DEF PageTypeOK
    <3>5. DraftsBased'
      BY <1>0, <2>1, <3>2, <3>4, DraftsStill
    <3> QED BY <2>1, <3>1, <3>4, <3>5, RegisterStill, AsksStill, TrialStill, HalvesStill
  <2>3. CASE past # {reg}
    <3>1. /\ press' = press /\ trial' = [by |-> p, button |-> "rollback", req |-> NoRequest]
          /\ \E e \in past : shown' = [rev |-> reg.rev + 1, cfg |-> e.cfg]
      BY <1>10, <2>3 DEF AgentRollsBack, TryRollback, Try
    <3>2. shown' \in Values /\ shown'.rev = reg.rev + 1
      BY <1>0, <3>1 DEF PageTypeOK, Values
    <3>3. trial' \in Trials /\ trial' # NoTrial /\ trial'.button = "rollback"
      BY <3>1, CallKinds DEF Trials
    <3>4. PageTypeOK'
      BY <2>1, <3>1, <3>2, <3>3 DEF PageTypeOK, PressTypeOK
    <3>5. Register'
      BY <2>1, <3>2, <3>3 DEF Register
    <3>6. TrialBased'
      BY <3>3 DEF TrialBased, Applying
    <3>7. DraftsBased'
      BY <1>0, <2>1, <3>1, <3>4, DraftsStill
    <3> QED BY <2>1, <3>4, <3>5, <3>6, <3>7, AsksStill, HalvesStill
  <2> QED BY <2>2, <2>3
<1>11. ASSUME AgentAnswers PROVE PageInv'
  <2> DEFINE p == trial.by
             b == trial.button
  <2>1. /\ trial # NoTrial /\ trial' = NoTrial /\ asked' = [asked EXCEPT ![p] = NoRequest] /\ Press(p, b, NoCall)
        /\ UNCHANGED <<agentUp, cert, tlsCall, tlsMishap, pageCalls>>
    BY <1>11 DEF AgentAnswers, Drop, tlsVars
  <2>2. p \in SysPages /\ b \in Buttons
    BY <1>0, <2>1 DEF PageTypeOK, Trials
  <2>3. \/ /\ reg' = shown /\ past' = past \cup {shown} /\ UNCHANGED shown
           /\ view' = [view EXCEPT ![p] = Adopted(view[p])] \/ view' = view
        \/ shown' = reg /\ UNCHANGED <<reg, past, view>>
    BY <1>11 DEF AgentAnswers
  <2> HIDE DEF p, b
  <2>4. /\ \A q \in SysPages, a \in Buttons : press'[q][a] \in {press[q][a], NoCall}
        /\ PressTypeOK'
    BY <1>p, <2>1, <2>2, PressEffect, PressTypes
  <2>5. \A q \in SysPages : asked'[q] \in {asked[q], NoRequest}
    BY <2>1, <2>2 DEF PageTypeOK
  <2>6. TrialBased'
    BY <2>1 DEF TrialBased, Applying
  <2>7. CASE /\ reg' = shown /\ past' = past \cup {shown} /\ UNCHANGED shown
             /\ view' = [view EXCEPT ![p] = Adopted(view[p])] \/ view' = view
    <3> DEFINE w == Adopted(view[p])
    <3>1. w \in View /\ w.mode = view[p].mode /\ w.rev = shown.rev /\ w.base = shown /\ ~w.dirty /\ ~w.crossed
      BY <1>0, <2>2, AdoptedView
    <3>2. view' = [view EXCEPT ![p] = w] \/ view' = view
      BY <2>7
    <3> HIDE DEF w
    <3>3. PageTypeOK'
      BY <1>0, <2>1, <2>2, <2>4, <2>7, <3>1, <3>2 DEF PageTypeOK, Trials
    <3>4. Register' /\ past \subseteq past' /\ reg.rev <= reg'.rev
      BY <1>0, <2>1, <2>7, RegisterMoves DEF PageTypeOK
    <3>5. DraftsBased'
      <4>1. CASE view' = view
        BY <1>0, <2>4, <3>3, <3>4, <4>1, DraftsStill
      <4>2. CASE view' = [view EXCEPT ![p] = w]
        <5> PICK o \in SysPages : o = p
          BY <2>2
        <5>1. view'[o] = w /\ \A q \in SysPages \ {o} : view'[q] = view[q]
          BY <2>2, <4>2 DEF PageTypeOK
        <5>2. press'[o]["validate"] \in {press[o]["validate"], NoCall} /\ press'[o]["apply"] \in {press[o]["apply"], NoCall}
          BY <1>0, <2>4
        <5>3. w.mode = view[o].mode
          BY <3>1
        <5>4. DraftOf(o)'
          BY <1>0, <1>d, <2>7, <3>1, <5>1, <5>2, <5>3 DEF DraftOf, Based
        <5>5. ApplyOf(o)'
          BY <1>d, <3>4, <5>2 DEF ApplyOf, Based
        <5>6. ValidationOf(o)'
          <6> DEFINE c == press[o]["validate"]
          <6>1. c # NoCall /\ ~c.dirty => c.rev \in Nat /\ c.rev <= reg.rev
            BY <1>d, <1>c DEF ValidationOf, ValidateCall
          <6> HIDE DEF c
          <6>2. press'[o]["validate"] = c \/ press'[o]["validate"] = NoCall
            BY <5>2 DEF c
          <6>3. shown.rev = reg.rev + 1
            BY <1>r, <2>1
          <6> QED BY <1>0, <2>7, <3>1, <5>1, <6>1, <6>2, <6>3 DEF ValidationOf
        <5> QED BY <1>0, <2>4, <3>3, <3>4, <5>1, <5>4, <5>5, <5>6, DraftsOne
      <4> QED BY <3>2, <4>1, <4>2
    <3> QED BY <2>1, <2>5, <2>6, <3>3, <3>4, <3>5, AsksStill, HalvesStill
  <2>8. CASE shown' = reg /\ UNCHANGED <<reg, past, view>>
    <3>1. PageTypeOK'
      BY <1>0, <2>1, <2>2, <2>4, <2>8 DEF PageTypeOK, Trials
    <3>2. Register'
      BY <2>1, <2>8 DEF Register
    <3>3. DraftsBased'
      BY <1>0, <2>4, <2>8, <3>1, DraftsStill
    <3> QED BY <2>1, <2>5, <2>6, <2>8, <3>1, <3>2, <3>3, AsksStill, HalvesStill
  <2> QED BY <2>3, <2>7, <2>8
<1>12. ASSUME NEW p \in SysPages, NEW b \in Buttons, CallerLeaves(p, b) PROVE PageInv'
  <2>1. /\ UNCHANGED <<reg, shown, past, agentUp, view, trial, cert, tlsCall, tlsMishap, pageCalls>>
        /\ asked' = asked \/ asked' = [asked EXCEPT ![p] = NoRequest]
        /\ Press(p, b, NoCall)
    BY <1>12 DEF CallerLeaves, tlsVars
  <2>2. /\ \A q \in SysPages, a \in Buttons : press'[q][a] \in {press[q][a], NoCall}
        /\ PressTypeOK'
    BY <1>p, <2>1, PressEffect, PressTypes
  <2>3. PageTypeOK' /\ \A q \in SysPages : asked'[q] \in {asked[q], NoRequest}
    BY <2>1, <2>2 DEF PageTypeOK
  <2>4. DraftsBased'
    BY <1>0, <2>1, <2>2, <2>3, DraftsStill
  <2> QED BY <2>1, <2>3, <2>4, RegisterStill, AsksStill, TrialStill, HalvesStill
<1>13. ASSUME AgentGoes PROVE PageInv'
  <2>1. /\ reg' = shown /\ past' = past \cup {shown} /\ UNCHANGED <<shown, view, cert, pageCalls>>
        /\ agentUp' = FALSE /\ trial' = NoTrial /\ asked' = [p \in SysPages |-> NoRequest]
        /\ press' = [p \in SysPages |-> [b \in Buttons |-> NoCall]]
        /\ tlsCall' = [p \in SysPages |-> NoCall]
        /\ tlsMishap' = (tlsMishap \/ \E p \in SysPages : tlsCall[p] # NoCall)
    BY <1>13 DEF AgentGoes
  <2>2. PressTypeOK'
    BY <1>0, <2>1 DEF PressTypeOK
  <2>3. PageTypeOK'
    BY <1>0, <2>1, <2>2 DEF PageTypeOK, Trials
  <2>4. Register' /\ past \subseteq past' /\ reg.rev <= reg'.rev
    BY <1>0, <2>1, RegisterMoves DEF PageTypeOK
  <2>5. DraftsBased'
    BY <1>0, <2>1, <2>3, <2>4, DraftsStill
  <2>6. AsksBased' /\ TrialBased'
    BY <2>1 DEF AsksBased, AskOf, TrialBased, Applying
  <2>7. HalvesMatch'
    BY <2>1 DEF HalvesMatch
  <2> QED BY <2>3, <2>4, <2>5, <2>6, <2>7
<1>14. ASSUME AgentReturns PROVE PageInv'
  <2>1. /\ UNCHANGED <<reg, shown, past, asked, view, press, trial, cert, tlsCall, tlsMishap, pageCalls>>
        /\ agentUp' = TRUE
    BY <1>14 DEF AgentReturns, regVars, pageVars, tlsVars
  <2>2. PageTypeOK'
    BY <2>1 DEF PageTypeOK, PressTypeOK
  <2>3. DraftsBased'
    BY <1>0, <2>1, <2>2, DraftsStill
  <2> QED BY <2>1, <2>2, <2>3, RegisterStill, AsksStill, TrialStill, HalvesStill
<1>15. ASSUME NEW p \in SysPages, NEW kind \in Kinds, TlsStarts(p, kind, pageCalls + 1, pageCalls + 1) PROVE PageInv'
  <2> DEFINE c == [at |-> "certificate", kind |-> kind, crt |-> pageCalls + 1, key |-> pageCalls + 1]
  <2>1. /\ UNCHANGED <<reg, shown, past, asked, agentUp, view, press, trial, cert>>
        /\ tlsCall[p] = NoCall /\ pageCalls' = pageCalls + 1 /\ tlsCall' = [tlsCall EXCEPT ![p] = c]
        /\ tlsMishap' = (tlsMishap \/ \E q \in SysPages : tlsCall[q] # NoCall /\ tlsCall[q].kind = kind)
    BY <1>15 DEF TlsStarts, Count, regVars, pageVars
  <2>2. c \in Installing /\ c.at = "certificate" /\ c.kind = kind /\ c.crt = c.key
    BY DEF Installing, PageTypeOK
  <2> HIDE DEF c
  <2>3. PageTypeOK'
    BY <2>1, <2>2 DEF PageTypeOK, PressTypeOK
  <2>4. tlsCall'[p] = c /\ \A q \in SysPages \ {p} : tlsCall'[q] = tlsCall[q]
    BY <2>1 DEF PageTypeOK
  <2>5. HalvesMatch'
    <3> SUFFICES ASSUME ~tlsMishap' PROVE HalvesMatch'
      BY DEF HalvesMatch
    <3>1. ~tlsMishap /\ \A q \in SysPages : tlsCall[q] # NoCall => tlsCall[q].kind # kind
      BY <2>1
    <3>2. \A q, r \in SysPages : tlsCall'[q] # NoCall /\ tlsCall'[r] # NoCall /\ tlsCall'[q].kind = tlsCall'[r].kind => q = r
      BY <2>2, <2>4, <3>1 DEF HalvesMatch
    <3>3. \A q \in SysPages : tlsCall'[q] # NoCall =>
             tlsCall'[q].crt = tlsCall'[q].key /\ (tlsCall'[q].at = "key" => cert'[tlsCall'[q].kind].crt = tlsCall'[q].crt)
      BY <2>1, <2>2, <2>4, <3>1 DEF HalvesMatch
    <3>4. ASSUME NEW m \in Kinds, \A q \in SysPages : tlsCall'[q] # NoCall /\ tlsCall'[q].kind = m => tlsCall'[q].at = "certificate"
          PROVE  cert'[m].crt = cert'[m].key
      <4>1. \A q \in SysPages : tlsCall[q] # NoCall /\ tlsCall[q].kind = m => tlsCall[q].at = "certificate"
        BY <2>1, <2>4, <3>4
      <4> QED BY <2>1, <3>1, <4>1 DEF HalvesMatch
    <3> QED BY <3>2, <3>3, <3>4 DEF HalvesMatch
  <2>6. DraftsBased'
    BY <1>0, <2>1, <2>3, DraftsStill
  <2> QED BY <2>1, <2>3, <2>5, <2>6, RegisterStill, AsksStill, TrialStill
<1>16. ASSUME NEW p \in SysPages, ReplaceFile(p) PROVE PageInv'
  <2> DEFINE c == tlsCall[p]
             k == c.kind
  <2>1. UNCHANGED <<reg, shown, past, asked, agentUp, view, press, trial, tlsMishap, pageCalls>> /\ c # NoCall
    BY <1>16 DEF ReplaceFile, regVars, pageVars
  <2>2. c \in Installing /\ k \in Kinds /\ cert[k] \in [crt : Nat, key : Nat] /\ c.crt \in Nat /\ c.key \in Nat
    BY <2>1 DEF PageTypeOK, Installing
  <2>3. /\ \A m \in Kinds \ {k} : cert'[m] = cert[m]
        /\ \A q \in SysPages \ {p} : tlsCall'[q] = tlsCall[q]
        /\ cert' \in [Kinds -> [crt : Nat, key : Nat]] /\ tlsCall' \in [SysPages -> {NoCall} \cup Installing]
        /\ \/ /\ c.at = "certificate" /\ cert'[k].crt = c.crt
              /\ tlsCall'[p].at = "key" /\ tlsCall'[p].kind = k /\ tlsCall'[p].crt = c.crt /\ tlsCall'[p].key = c.key
           \/ c.at = "key" /\ cert'[k].crt = cert[k].crt /\ cert'[k].key = c.key /\ tlsCall'[p] = NoCall
    <3>1. CASE c.at = "certificate" /\ cert' = [cert EXCEPT ![k] = [cert[k] EXCEPT !.crt = c.crt]]
                                   /\ tlsCall' = [tlsCall EXCEPT ![p] = [c EXCEPT !.at = "key"]]
      <4> DEFINE w == [cert[k] EXCEPT !.crt = c.crt]
                 d == [c EXCEPT !.at = "key"]
      <4>1. w \in [crt : Nat, key : Nat] /\ w.crt = c.crt
        BY <2>2, HalfReplaced
      <4>2. d \in Installing /\ d.at = "key" /\ d.crt = c.crt /\ d.key = c.key /\ d.kind = k
        BY <2>2, InstallMoves
      <4> HIDE DEF w, d
      <4>3. cert' = [cert EXCEPT ![k] = w] /\ tlsCall' = [tlsCall EXCEPT ![p] = d]
        BY <3>1 DEF w, d
      <4> QED BY <2>2, <3>1, <4>1, <4>2, <4>3 DEF PageTypeOK
    <3>2. CASE c.at = "key" /\ cert' = [cert EXCEPT ![k] = [cert[k] EXCEPT !.key = c.key]]
                           /\ tlsCall' = [tlsCall EXCEPT ![p] = NoCall]
      <4> DEFINE w == [cert[k] EXCEPT !.key = c.key]
      <4>1. w \in [crt : Nat, key : Nat] /\ w.key = c.key /\ w.crt = cert[k].crt
        BY <2>2, HalfReplaced
      <4> HIDE DEF w
      <4>2. cert' = [cert EXCEPT ![k] = w]
        BY <3>2 DEF w
      <4> QED BY <2>2, <3>2, <4>1, <4>2 DEF PageTypeOK
    <3> QED BY <1>16, <3>1, <3>2 DEF ReplaceFile
  <2>4. PageTypeOK'
    BY <2>1, <2>3 DEF PageTypeOK, PressTypeOK
  <2>5. HalvesMatch'
    <3> SUFFICES ASSUME ~tlsMishap' PROVE HalvesMatch'
      BY DEF HalvesMatch
    <3>1. /\ c.crt = c.key /\ (c.at = "key" => cert[k].crt = c.crt)
          /\ \A q \in SysPages \ {p} : tlsCall[q] # NoCall => tlsCall[q].kind # k
      BY <2>1 DEF HalvesMatch
    <3>2. \A q, r \in SysPages \ {p} : tlsCall[q] # NoCall /\ tlsCall[r] # NoCall /\ tlsCall[q].kind = tlsCall[r].kind => q = r
      BY <2>1 DEF HalvesMatch
    <3>3. \A q \in SysPages \ {p} : tlsCall[q] # NoCall =>
             /\ tlsCall[q].crt = tlsCall[q].key /\ tlsCall[q].kind \in Kinds
             /\ tlsCall[q].at = "key" => cert[tlsCall[q].kind].crt = tlsCall[q].crt
      BY <2>1 DEF HalvesMatch, PageTypeOK, Installing
    <3>4. ASSUME NEW m \in Kinds \ {k}, \A q \in SysPages \ {p} : tlsCall[q] # NoCall /\ tlsCall[q].kind = m => tlsCall[q].at = "certificate"
          PROVE  cert[m].crt = cert[m].key
      BY <2>1, <3>4 DEF HalvesMatch
    <3> HIDE DEF c, k
    <3>5. tlsCall'[p] # NoCall => tlsCall'[p].kind = k
      BY <2>3
    <3>6. \A q, r \in SysPages : tlsCall'[q] # NoCall /\ tlsCall'[r] # NoCall /\ tlsCall'[q].kind = tlsCall'[r].kind => q = r
      BY <2>3, <3>1, <3>2, <3>5
    <3>7. \A q \in SysPages : tlsCall'[q] # NoCall =>
             tlsCall'[q].crt = tlsCall'[q].key /\ (tlsCall'[q].at = "key" => cert'[tlsCall'[q].kind].crt = tlsCall'[q].crt)
      BY <2>3, <3>1, <3>3
    <3>8. ASSUME NEW m \in Kinds, \A q \in SysPages : tlsCall'[q] # NoCall /\ tlsCall'[q].kind = m => tlsCall'[q].at = "certificate"
          PROVE  cert'[m].crt = cert'[m].key
      <4>1. CASE m = k
        <5>1. ~(tlsCall'[p].at = "key" /\ tlsCall'[p].kind = k /\ tlsCall'[p] # NoCall)
          BY <3>8, <4>1
        <5>2. tlsCall'[p].at = "key" /\ tlsCall'[p].kind = k => tlsCall'[p] # NoCall
          BY CallKinds DEF NoCall
        <5> QED BY <2>3, <3>1, <4>1, <5>1, <5>2
      <4>2. CASE m # k
        BY <2>3, <3>4, <3>8, <4>2
      <4> QED BY <4>1, <4>2
    <3> QED BY <3>6, <3>7, <3>8 DEF HalvesMatch
  <2>6. DraftsBased'
    BY <1>0, <2>1, <2>4, DraftsStill
  <2> QED BY <2>1, <2>4, <2>5, <2>6, RegisterStill, AsksStill, TrialStill
<1>17. ASSUME UNCHANGED systemVars PROVE PageInv'
  <2>1. UNCHANGED <<reg, shown, past, asked, agentUp, view, press, trial, cert, tlsCall, tlsMishap, pageCalls>>
    BY <1>17 DEF systemVars, regVars, pageVars, tlsVars
  <2>2. PageTypeOK'
    BY <2>1 DEF PageTypeOK, PressTypeOK
  <2>3. DraftsBased'
    BY <1>0, <2>1, <2>2, DraftsStill
  <2> QED BY <2>1, <2>2, <2>3, RegisterStill, AsksStill, TrialStill, HalvesStill
<1>18. ASSUME PageNext PROVE PageInv'
  BY <1>1, <1>2, <1>3, <1>4, <1>5, <1>6, <1>7, <1>8, <1>9, <1>10, <1>11, <1>12, <1>18 DEF PageNext
<1>19. ASSUME TlsNext PROVE PageInv'
  BY <1>1, <1>15, <1>16, <1>19 DEF TlsNext, GenerateCertificate, InstallCustom, Kinds
<1> QED BY <1>13, <1>14, <1>17, <1>18, <1>19 DEF SystemNext

(* The inductive invariant of the system page: a clean draft is the value its*)
(* revision names, through calls, requests and trials.                      *)
THEOREM PageKeeps == SystemSpec => []PageInv
<1>1. SystemInit => PageInv
  <2> SUFFICES ASSUME SystemInit PROVE PageInv
    OBVIOUS
  <2>1. Blank \in View /\ Blank.mode = "none" /\ Blank.rev = 0
    BY DEF Blank, View, Values
  <2>2. /\ reg = [rev |-> 1, cfg |-> FirstRegConfig] /\ shown = reg /\ past = {reg}
        /\ asked = [p \in SysPages |-> NoRequest] /\ view = [p \in SysPages |-> Blank]
        /\ press = [p \in SysPages |-> [b \in Buttons |-> NoCall]] /\ trial = NoTrial /\ agentUp \in BOOLEAN
        /\ cert = [kind \in Kinds |-> [crt |-> 0, key |-> 0]] /\ tlsCall = [p \in SysPages |-> NoCall]
        /\ tlsMishap = FALSE /\ pageCalls = 0
    BY PagesSave DEF SystemInit, RegInit
  <2>3. reg \in Values
    BY <2>2 DEF Values
  <2>4. PageTypeOK
    BY <2>1, <2>2, <2>3 DEF PageTypeOK, PressTypeOK, Buttons, Trials
  <2>5. Register
    BY <2>2 DEF Register
  <2>6. DraftsBased
    BY <2>1, <2>2, <2>5 DEF DraftsBased, DraftOf, ValidationOf, ApplyOf, Register, Buttons
  <2>7. AsksBased /\ TrialBased
    BY <2>2 DEF AsksBased, AskOf, TrialBased, Applying
  <2>8. HalvesMatch
    BY <2>2 DEF HalvesMatch
  <2> QED BY <2>4, <2>5, <2>6, <2>7, <2>8 DEF PageInv
<1>2. PageInv /\ [SystemNext]_systemVars => PageInv'
  BY PageStep
<1> QED BY <1>1, <1>2, PTL DEF SystemSpec

(* No page undoes a change it has not seen, what has to be confirmed was, and*)
(* keys belong to their certificates, for any number of pages that press    *)
(* their buttons in any order (systemExposure.tsx, systemRouter.ts).        *)
THEOREM SystemPageHolds == SystemSpec => []PageHolds
<1>1. PageInv => PageHolds
  <2> SUFFICES ASSUME PageInv PROVE PageHolds
    OBVIOUS
  <2>1. PageEditsKept /\ ChangesConfirmed
    BY DEF PageInv, TrialBased, PageEditsKept, ChangesConfirmed
  <2>2. CertificatesMatch
    BY DEF PageInv, HalvesMatch, CertificatesMatch
  <2> QED BY <2>1, <2>2 DEF PageHolds
<1> QED BY <1>1, PageKeeps, PTL

----------------------------------------------------------------------------
(* The forms, a proof about Console.                                        *)

ConsoleSpec == ConsoleInit /\ [][ConsoleNext]_consoleVars

(* What the proof needs of the particulars of a form.                       *)
FormFacts(f) ==
    /\ f.resync \in {"field", "form", "once", "never"}
    /\ f.default => f.fields \subseteq f.drafts
    /\ f.resync = "once" => ~f.flags

Record == [form.fields -> Texts]
Payloads == UNION {[S -> Texts] : S \in SUBSET form.fields}
SaveKinds ==
    {NoSave} \cup [at : {"sent"}, payload : Payloads, copy : Record, touched : SUBSET form.fields]
             \cup [at : {"done", "error"}, answer : Record]
LoadKinds == {NotLoading} \cup [at : {"sent"}] \cup [at : {"read"}, data : Record]

ConsoleTypes ==
    /\ FormFacts(form)
    /\ stored \in Record
    /\ cached \in [Tabs -> Record] /\ draft \in [Tabs -> Record]
    /\ flagged \in [Tabs -> SUBSET form.fields] /\ touched \in [Tabs -> SUBSET form.fields]
    /\ saves \in [Tabs -> [Calls -> SaveKinds]]
    /\ loading \in [Tabs -> LoadKinds]
    /\ fetching \in [Tabs -> BOOLEAN]
    /\ typed \in Nat

(* Only a form that fetches the default waits for it.  What the user has    *)
(* not touched shows the copy, if the draft follows it; a secret that is    *)
(* flagged was touched, and a draft that starts with the first edit has a   *)
(* flag for it.                                                             *)
PageOK(d, c, fl, t) ==
    /\ t \subseteq form.drafts
    /\ \A x \in form.fields \ t : form.resync \in {"field", "form"} => d[x] = c[x]
    /\ fl \cap form.secrets \subseteq t
    /\ form.resync = "once" => t \subseteq fl
PagesOK == \A p \in Tabs : PageOK(draft[p], cached[p], flagged[p], touched[p]) /\ (fetching[p] => form.default)

(* A save carries, of what its user has not touched, what the copy had.     *)
SaveOK(c) ==
    c.at = "sent" => \A x \in DOMAIN c.payload \ c.touched :
        x \notin form.secrets /\ form.sends # "field" /\ (form.resync \in {"field", "form"} => c.payload[x] = c.copy[x])
SavesOK == \A p \in Tabs, i \in Calls : SaveOK(saves[p][i])

ConsoleInv == ConsoleTypes /\ PagesOK /\ SavesOK

(* The particulars of each form.                                            *)
LEMMA FormsFacts == ASSUME NEW f \in Forms PROVE FormFacts(f)
<1> USE DEF FormFacts, Switches
<1>1. CASE f \in {VerifyEmailTemplate, ForgotPasswordMailTemplate, MailUserInviteTemplate, NotificationTemplate,
                  OrganizationInviteTemplate, NewDeviceNotificationTemplate, DeviceIpChangeNotificationTemplate,
                  OrganizationNotificationTemplateEditor}
  <2>1. f = Template
    BY <1>1 DEF VerifyEmailTemplate, ForgotPasswordMailTemplate, MailUserInviteTemplate, NotificationTemplate,
                OrganizationInviteTemplate, NewDeviceNotificationTemplate, DeviceIpChangeNotificationTemplate,
                OrganizationNotificationTemplateEditor
  <2> QED BY <2>1, Zenon DEF Template
<1>2. CASE f = EventNotifications
  BY <1>2, Zenon DEF EventNotifications, Template
<1>3. CASE f = Mail
  BY <1>3, Zenon DEF Mail
<1>4. CASE f = NetworkName
  BY <1>4, Zenon DEF NetworkName, InputField
<1>5. CASE f = NetworkDescription
  BY <1>5, Zenon DEF NetworkDescription, InputField
<1>6. CASE f = NetworkMTU
  BY <1>6, Zenon DEF NetworkMTU, InputField
<1>7. CASE f = NetworkMulticast
  BY <1>7, Zenon DEF NetworkMulticast
<1>8. CASE f = NetworkDns
  BY <1>8, Zenon DEF NetworkDns
<1>9. CASE f = NetworkPrivatePublic
  BY <1>9, Zenon DEF NetworkPrivatePublic
<1>10. CASE f = MemberAddresses
  BY <1>10, Zenon DEF MemberAddresses
<1>11. CASE f = CapabilityCheckboxes
  BY <1>11, Zenon DEF CapabilityCheckboxes
<1>12. CASE f = UserIsActive
  BY <1>12, Zenon DEF UserIsActive
<1>13. CASE f = CentralAccess
  BY <1>13, Zenon DEF CentralAccess, InputField
<1>14. CASE f = ZerotierUrl
  BY <1>14, Zenon DEF ZerotierUrl, InputField
<1>15. CASE f = UserGroups
  BY <1>15, Zenon DEF UserGroups
<1>16. CASE f = SiteSettings
  BY <1>16, Zenon DEF SiteSettings, InputField
<1>17. CASE f = OrganizationSettings
  BY <1>17, Zenon DEF OrganizationSettings, InputField
<1>18. CASE f = Account
  BY <1>18, Zenon DEF Account, InputField
<1>19. CASE f \in {Ipv6Assignment, Anotation, OrganizationNotification, AdminNotification, UserNetworkSetting,
                   UserSettingsNotification, UserGroupAndRole, UserGroup, OrgUserRole}
  <2>1. PICK F : f = Switches(F)
    BY <1>19, Zenon DEF Ipv6Assignment, Anotation, OrganizationNotification, AdminNotification, UserNetworkSetting,
                 UserSettingsNotification, UserGroupAndRole, UserGroup, OrgUserRole
  <2> QED BY <2>1, Zenon
<1> QED BY <1>1, <1>2, <1>3, <1>4, <1>5, <1>6, <1>7, <1>8, <1>9, <1>10, <1>11, <1>12, <1>13, <1>14, <1>15, <1>16,
     <1>17, <1>18, <1>19, Zenon DEF Forms

(* What may be loaded of a record is one.                                   *)
LEMMA LoadableIs == ASSUME NEW rec \in Record PROVE Loadable(rec) \in Record /\ \A x \in form.fields \ form.secrets : Loadable(rec)[x] = rec[x]
BY DEF Loadable, Record, Blanked, Texts

(* A save under way has the fields of its stage.                            *)
LEMMA SaveFields ==
    ASSUME NEW c \in SaveKinds
    PROVE  /\ c.at = "sent" => c.payload \in Payloads /\ c.copy \in Record /\ c.touched \in SUBSET form.fields
           /\ c.at \in {"done", "error"} => c.answer \in Record
           /\ c.at = "idle" <=> c = NoSave
BY DEF SaveKinds, NoSave

(* A payload is of some of the fields.                                      *)
LEMMA PayloadOf == ASSUME NEW b \in Payloads PROVE DOMAIN b \subseteq form.fields /\ \A x \in DOMAIN b : b[x] \in Texts
BY DEF Payloads

(* A loading page has the record once the query has read it.                *)
LEMMA LoadFields == ASSUME NEW c \in LoadKinds, c.at = "read" PROVE c.data \in Record
BY DEF LoadKinds, NotLoading

(* The effects of a page when a record takes the place of its copy: what    *)
(* was not touched follows it, and what was touched is overwritten only by  *)
(* a change.                                                                *)
LEMMA CopyTaken ==
    ASSUME ConsoleTypes, PagesOK, NEW p \in Tabs, NEW new \in Record, TakeCopy(p, new)
    PROVE  /\ cached' = [cached EXCEPT ![p] = new] /\ draft' \in [Tabs -> Record] /\ cached' \in [Tabs -> Record]
           /\ flagged' \in [Tabs -> SUBSET form.fields] /\ touched' \in [Tabs -> SUBSET form.fields]
           /\ \A q \in Tabs : q # p => UNCHANGED <<draft[q], cached[q], flagged[q], touched[q]>>
           /\ PageOK(draft'[p], cached'[p], flagged'[p], touched'[p])
           /\ \A x \in touched[p] : draft'[p][x] # draft[p][x] =>
                new # cached[p] /\ (form.resync = "field" => new[x] # cached[p][x])
<1> DEFINE d == Resync(p, new)
           f == IF form.flags /\ new # cached[p] THEN {} ELSE flagged[p]
           t == {x \in touched[p] : d[x] # new[x] \/ x \in form.secrets \cap f}
<1>1. /\ cached \in [Tabs -> Record] /\ draft \in [Tabs -> Record] /\ FormFacts(form)
      /\ flagged \in [Tabs -> SUBSET form.fields] /\ touched \in [Tabs -> SUBSET form.fields]
  BY DEF ConsoleTypes
<1>2. \A x \in form.fields : d[x] = IF \/ form.resync = "field" /\ new[x] # cached[p][x]
                                       \/ form.resync = "form" /\ new # cached[p]
                                       \/ form.resync = "once" /\ flagged[p] = {}
                                       \/ x \notin form.drafts
                                    THEN new[x] ELSE draft[p][x]
  BY DEF Resync
<1>3. d \in Record
  <2>1. \A x \in form.fields : new[x] \in Texts /\ draft[p][x] \in Texts
    BY <1>1 DEF Record
  <2> QED BY <2>1 DEF Resync, Record
<1>4. draft' = [draft EXCEPT ![p] = d] /\ flagged' = [flagged EXCEPT ![p] = f] /\ cached' = [cached EXCEPT ![p] = new]
  BY DEF TakeCopy
<1>5. draft'[p] = d /\ flagged'[p] = f /\ cached'[p] = new
  BY <1>1, <1>4
<1>6. touched' = [touched EXCEPT ![p] = {x \in touched[p] : draft'[p][x] # new[x] \/ x \in form.secrets \cap flagged'[p]}]
  BY DEF TakeCopy
<1>7. touched' = [touched EXCEPT ![p] = t]
  BY <1>5, <1>6
<1>8. PageOK(draft[p], cached[p], flagged[p], touched[p])
  BY DEF PagesOK
<1>9. f \subseteq flagged[p] /\ t \subseteq touched[p] /\ touched[p] \subseteq form.fields
      /\ (form.resync = "once" => f = flagged[p])
  BY <1>1 DEF FormFacts
<1> HIDE DEF d, f
<1>10. PageOK(d, new, f, t)
  <2>1. t \subseteq form.drafts /\ (form.resync = "once" => t \subseteq f)
    BY <1>8, <1>9 DEF PageOK
  <2>2. f \cap form.secrets \subseteq t
    BY <1>8, <1>9 DEF PageOK
  <2>3. ASSUME NEW x \in form.fields \ t, form.resync \in {"field", "form"} PROVE d[x] = new[x]
    <3>1. CASE x \in touched[p]
      BY <2>3, <3>1
    <3>2. CASE x \notin touched[p]
      <4>1. draft[p][x] = cached[p][x]
        BY <1>8, <2>3, <3>2 DEF PageOK
      <4> QED BY <1>2, <2>3, <4>1
    <3> QED BY <3>1, <3>2
  <2> QED BY <2>1, <2>2, <2>3 DEF PageOK
<1>11. ASSUME NEW x \in touched[p], d[x] # draft[p][x]
       PROVE  new # cached[p] /\ (form.resync = "field" => new[x] # cached[p][x])
  <2>1. x \in form.fields /\ x \in form.drafts /\ (form.resync = "once" => x \in flagged[p])
    BY <1>1, <1>8 DEF PageOK
  <2>2. \/ form.resync = "field" /\ new[x] # cached[p][x]
        \/ form.resync = "form" /\ new # cached[p]
    BY <1>2, <1>11, <2>1
  <2> QED BY <2>2
<1>12. \A q \in Tabs : q # p => UNCHANGED <<draft[q], cached[q], flagged[q], touched[q]>>
  BY <1>1, <1>4, <1>7
<1>13. draft' \in [Tabs -> Record] /\ cached' \in [Tabs -> Record]
  BY <1>1, <1>3, <1>4
<1>14. flagged' \in [Tabs -> SUBSET form.fields] /\ touched' \in [Tabs -> SUBSET form.fields] /\ touched'[p] = t
  BY <1>1, <1>4, <1>7, <1>9
<1> QED BY <1>4, <1>5, <1>10, <1>11, <1>12, <1>13, <1>14

(* What happens on one page leaves the other pages alone, and a page that   *)
(* shows what it should goes on to.                                         *)
LEMMA DraftStep ==
    ASSUME ConsoleInv, NEW p \in Tabs, UNCHANGED <<form, stored, saves, loading>>,
           cached' \in [Tabs -> Record], draft' \in [Tabs -> Record],
           flagged' \in [Tabs -> SUBSET form.fields], touched' \in [Tabs -> SUBSET form.fields],
           fetching' \in [Tabs -> BOOLEAN], typed' \in Nat,
           \A q \in Tabs : q # p => UNCHANGED <<draft[q], cached[q], flagged[q], touched[q], fetching[q]>>,
           PageOK(draft'[p], cached'[p], flagged'[p], touched'[p]), fetching'[p] => form.default
    PROVE  ConsoleInv'
<1>1. ConsoleTypes'
  BY DEF ConsoleInv, ConsoleTypes, Record, LoadKinds, SaveKinds, Payloads
<1>2. PagesOK'
  <2> SUFFICES ASSUME NEW q \in Tabs
               PROVE  PageOK(draft[q], cached[q], flagged[q], touched[q])' /\ (fetching[q] => form.default)'
    BY DEF PagesOK
  <2>1. CASE q = p
    BY <2>1 DEF PageOK
  <2>2. CASE q # p
    BY <2>2 DEF ConsoleInv, PagesOK, PageOK
  <2> QED BY <2>1, <2>2
<1>3. SavesOK'
  BY DEF ConsoleInv, SavesOK, SaveOK
<1> QED BY <1>1, <1>2, <1>3 DEF ConsoleInv

(* A field is typed into (onChange of the pages).                           *)
LEMMA TypeStep == ASSUME ConsoleInv, NEW p \in Tabs, NEW x \in form.fields, NEW v \in Texts, Type(p, x, v) PROVE ConsoleInv'
<1>1. /\ cached \in [Tabs -> Record] /\ draft \in [Tabs -> Record] /\ fetching \in [Tabs -> BOOLEAN] /\ typed \in Nat
      /\ flagged \in [Tabs -> SUBSET form.fields] /\ touched \in [Tabs -> SUBSET form.fields]
      /\ PageOK(draft[p], cached[p], flagged[p], touched[p]) /\ (fetching[p] => form.default)
  BY DEF ConsoleInv, ConsoleTypes, PagesOK
<1>2. /\ UNCHANGED <<form, stored, cached, saves, loading, fetching>> /\ typed' \in Nat /\ x \in form.drafts
      /\ draft' = [draft EXCEPT ![p] = [draft[p] EXCEPT ![x] = v]]
      /\ flagged' = [flagged EXCEPT ![p] = flagged[p] \cup {x}]
      /\ touched' = [touched EXCEPT ![p] = touched[p] \cup {x}]
  BY <1>1 DEF Type
<1>3. [draft[p] EXCEPT ![x] = v] \in Record
  BY <1>1 DEF Record
<1>4. /\ draft' \in [Tabs -> Record] /\ flagged' \in [Tabs -> SUBSET form.fields] /\ touched' \in [Tabs -> SUBSET form.fields]
      /\ \A q \in Tabs : q # p => UNCHANGED <<draft[q], cached[q], flagged[q], touched[q], fetching[q]>>
  BY <1>1, <1>2, <1>3
<1>5. \A y \in form.fields \ (touched[p] \cup {x}) : draft'[p][y] = draft[p][y]
  BY <1>1, <1>2 DEF Record
<1>6. PageOK(draft'[p], cached'[p], flagged'[p], touched'[p])
  BY <1>1, <1>2, <1>5 DEF PageOK
<1> QED BY <1>1, <1>2, <1>4, <1>6, DraftStep

(* A dialogue, or another type of event, is opened.                         *)
LEMMA ReopenStep == ASSUME ConsoleInv, NEW p \in Tabs, Reopen(p) PROVE ConsoleInv'
<1>1. /\ cached \in [Tabs -> Record] /\ draft \in [Tabs -> Record] /\ fetching \in [Tabs -> BOOLEAN] /\ typed \in Nat
      /\ flagged \in [Tabs -> SUBSET form.fields] /\ touched \in [Tabs -> SUBSET form.fields]
      /\ (fetching[p] => form.default)
  BY DEF ConsoleInv, ConsoleTypes, PagesOK
<1>2. /\ UNCHANGED <<form, stored, cached, saves, loading, fetching>> /\ typed' \in Nat
      /\ draft' = [draft EXCEPT ![p] = cached[p]] /\ flagged' = [flagged EXCEPT ![p] = {}]
      /\ touched' = [touched EXCEPT ![p] = {}]
  BY <1>1 DEF Reopen
<1>3. /\ draft' \in [Tabs -> Record] /\ flagged' \in [Tabs -> SUBSET form.fields] /\ touched' \in [Tabs -> SUBSET form.fields]
      /\ \A q \in Tabs : q # p => UNCHANGED <<draft[q], cached[q], flagged[q], touched[q], fetching[q]>>
  BY <1>1, <1>2
<1>4. PageOK(draft'[p], cached'[p], flagged'[p], touched'[p])
  BY <1>1, <1>2 DEF PageOK
<1> QED BY <1>1, <1>2, <1>3, <1>4, DraftStep

(* The default of a template is asked for and shown                         *)
(* (getDefaultMailTemplate).                                                *)
LEMMA DefaultStep == ASSUME ConsoleInv, NEW p \in Tabs, GetDefault(p) \/ DefaultArrives(p) PROVE ConsoleInv'
<1>1. /\ cached \in [Tabs -> Record] /\ draft \in [Tabs -> Record] /\ fetching \in [Tabs -> BOOLEAN] /\ typed \in Nat
      /\ flagged \in [Tabs -> SUBSET form.fields] /\ touched \in [Tabs -> SUBSET form.fields] /\ FormFacts(form)
      /\ PageOK(draft[p], cached[p], flagged[p], touched[p]) /\ (fetching[p] => form.default)
  BY DEF ConsoleInv, ConsoleTypes, PagesOK
<1>2. CASE GetDefault(p)
  <2>1. /\ UNCHANGED <<form, stored, cached, draft, flagged, touched, saves, loading>> /\ typed' \in Nat /\ form.default
        /\ fetching' = [fetching EXCEPT ![p] = TRUE]
    BY <1>1, <1>2 DEF GetDefault
  <2>2. fetching' \in [Tabs -> BOOLEAN] /\ \A q \in Tabs : q # p => UNCHANGED <<draft[q], cached[q], flagged[q], touched[q], fetching[q]>>
    BY <1>1, <2>1
  <2> QED BY <1>1, <2>1, <2>2, DraftStep
<1>3. CASE DefaultArrives(p)
  <2> DEFINE d == [x \in form.fields |-> 2]
  <2>1. /\ UNCHANGED <<form, stored, cached, saves, loading, typed>> /\ fetching[p]
        /\ fetching' = [fetching EXCEPT ![p] = FALSE] /\ draft' = [draft EXCEPT ![p] = d]
        /\ flagged' = [flagged EXCEPT ![p] = form.fields] /\ touched' = [touched EXCEPT ![p] = form.fields]
    BY <1>3 DEF DefaultArrives
  <2>2. d \in Record
    BY DEF Record, Texts
  <2>3. /\ draft' \in [Tabs -> Record] /\ flagged' \in [Tabs -> SUBSET form.fields] /\ touched' \in [Tabs -> SUBSET form.fields]
        /\ fetching' \in [Tabs -> BOOLEAN] /\ fetching'[p] = FALSE
        /\ \A q \in Tabs : q # p => UNCHANGED <<draft[q], cached[q], flagged[q], touched[q], fetching[q]>>
    <3> HIDE DEF d
    <3> QED BY <1>1, <2>1, <2>2
  <2>4. flagged[p] \subseteq form.fields /\ flagged'[p] = form.fields /\ touched'[p] = form.fields
    BY <1>1, <2>1
  <2>5. PageOK(draft'[p], cached'[p], flagged'[p], touched'[p])
    BY <1>1, <2>1, <2>4 DEF PageOK, FormFacts
  <2> QED BY <1>1, <2>1, <2>3, <2>5, DraftStep
<1> QED BY <1>2, <1>3

(* A save is sent, answered or refused, or a reload goes on; the page shows *)
(* what it did.                                                             *)
LEMMA CallsStep ==
    ASSUME ConsoleInv, UNCHANGED <<form, cached, draft, touched, fetching, typed>>,
           stored' \in Record, flagged' \in [Tabs -> SUBSET form.fields],
           \A p \in Tabs : flagged'[p] = flagged[p] \/ (form.flags /\ flagged'[p] = {}),
           loading' \in [Tabs -> LoadKinds], saves' \in [Tabs -> [Calls -> SaveKinds]], SavesOK'
    PROVE  ConsoleInv'
<1>1. ConsoleTypes'
  BY DEF ConsoleInv, ConsoleTypes, Record, LoadKinds, SaveKinds, Payloads
<1>2. PagesOK'
  <2> SUFFICES ASSUME NEW q \in Tabs
               PROVE  PageOK(draft[q], cached[q], flagged[q], touched[q])' /\ (fetching[q] => form.default)'
    BY DEF PagesOK
  <2>1. PageOK(draft[q], cached[q], flagged[q], touched[q]) /\ (fetching[q] => form.default) /\ FormFacts(form)
    BY DEF ConsoleInv, PagesOK, ConsoleTypes
  <2> QED BY <2>1 DEF PageOK, FormFacts
<1> QED BY <1>1, <1>2 DEF ConsoleInv

(* One save changes.                                                        *)
LEMMA SavesChanged ==
    ASSUME ConsoleInv, NEW p \in Tabs, NEW i \in Calls, NEW c \in SaveKinds, SaveOK(c), UNCHANGED form,
           saves' = [saves EXCEPT ![p] = [saves[p] EXCEPT ![i] = c]]
    PROVE  /\ saves' \in [Tabs -> [Calls -> SaveKinds]] /\ SavesOK'
           /\ \A q \in Tabs, j \in Calls : saves'[q][j] = IF q = p /\ j = i THEN c ELSE saves[q][j]
<1>1. saves \in [Tabs -> [Calls -> SaveKinds]]
  BY DEF ConsoleInv, ConsoleTypes
<1>2. saves' \in [Tabs -> [Calls -> SaveKinds]]
  BY <1>1
<1>3. \A q \in Tabs, j \in Calls : saves'[q][j] = IF q = p /\ j = i THEN c ELSE saves[q][j]
  BY <1>1
<1>4. SavesOK'
  <2> SUFFICES ASSUME NEW q \in Tabs, NEW j \in Calls PROVE SaveOK(saves[q][j])'
    BY DEF SavesOK
  <2>1. CASE q = p /\ j = i
    BY <1>3, <2>1 DEF SaveOK
  <2>2. CASE ~(q = p /\ j = i)
    BY <1>3, <2>2 DEF SaveOK, ConsoleInv, SavesOK
  <2> QED BY <2>1, <2>2
<1> QED BY <1>2, <1>3, <1>4

(* A save is sent; what its user has not touched is as the copy has it.     *)
LEMMA SendStep ==
    ASSUME ConsoleInv, NEW p \in Tabs, NEW fields \in SUBSET form.fields, NEW payload \in Payloads, Send(p, fields, payload),
           \A x \in DOMAIN payload \ fields :
               x \notin form.secrets /\ form.sends # "field" /\ (form.resync \in {"field", "form"} => payload[x] = cached[p][x])
    PROVE  ConsoleInv'
<1> DEFINE c == [at |-> "sent", payload |-> payload, copy |-> cached[p], touched |-> fields]
<1>1. /\ stored \in Record /\ cached \in [Tabs -> Record] /\ flagged \in [Tabs -> SUBSET form.fields] /\ loading \in [Tabs -> LoadKinds]
      /\ saves \in [Tabs -> [Calls -> SaveKinds]]
  BY DEF ConsoleInv, ConsoleTypes
<1>2. c \in SaveKinds
  BY <1>1 DEF SaveKinds
<1>3. SaveOK(c)
  BY DEF SaveOK
<1>4. PICK i \in Calls : saves' = [saves EXCEPT ![p][i] = c]
  BY DEF Send
<1>5. saves' = [saves EXCEPT ![p] = [saves[p] EXCEPT ![i] = c]]
  BY <1>1, <1>4
<1>6. /\ UNCHANGED <<form, stored, cached, draft, loading, fetching, touched, typed>>
      /\ flagged' = [flagged EXCEPT ![p] = IF form.flags THEN {} ELSE flagged[p]]
  BY <1>1 DEF Send
<1> HIDE DEF c
<1>7. saves' \in [Tabs -> [Calls -> SaveKinds]] /\ SavesOK'
  BY <1>2, <1>3, <1>5, <1>6, SavesChanged
<1>8. flagged' \in [Tabs -> SUBSET form.fields] /\ \A q \in Tabs : flagged'[q] = flagged[q] \/ (form.flags /\ flagged'[q] = {})
  BY <1>1, <1>6
<1> QED BY <1>1, <1>6, <1>7, <1>8, CallsStep

(* A form is submitted: of the draft, secrets that are not flagged stay     *)
(* out.                                                                     *)
LEMMA SaveFormStep == ASSUME ConsoleInv, NEW p \in Tabs, SaveForm(p) PROVE ConsoleInv'
<1>1. /\ draft[p] \in Record /\ touched[p] \in SUBSET form.fields /\ PageOK(draft[p], cached[p], flagged[p], touched[p])
  BY DEF ConsoleInv, ConsoleTypes, PagesOK
<1> DEFINE S == {x \in form.fields : /\ x \in form.secrets => x \in flagged[p]
                                     /\ x \in form.keeps => draft[p][x] # Blanked}
<1>2. Payload(p) = [x \in S |-> draft[p][x]] /\ S \in SUBSET form.fields
  BY DEF Payload
<1> HIDE DEF S
<1>3. Payload(p) \in [S -> Texts]
  BY <1>1, <1>2 DEF Record
<1>4. Payload(p) \in Payloads
  BY <1>2, <1>3 DEF Payloads
<1>5. \A x \in S \ touched[p] : x \notin form.secrets
  BY <1>1 DEF S, PageOK
<1>6. \A x \in S \ touched[p] : form.resync \in {"field", "form"} => Payload(p)[x] = cached[p][x]
  BY <1>1, <1>2 DEF PageOK
<1>7. DOMAIN Payload(p) = S /\ form.sends = "draft" /\ Send(p, touched[p], Payload(p))
  BY <1>3 DEF SaveForm
<1> QED BY <1>1, <1>4, <1>5, <1>6, <1>7, SendStep

(* A field is submitted, or a switch or an item of a list changed.          *)
LEMMA SaveFieldStep ==
    ASSUME ConsoleInv, NEW p \in Tabs, NEW x \in form.fields, NEW v \in Texts, SaveField(p, x, v) PROVE ConsoleInv'
<1> DEFINE others == IF form.sends = "copy" THEN form.fields \ form.secrets ELSE {}
           payload == [y \in others \cup {x} |-> IF y = x THEN v ELSE cached[p][y]]
<1>1. cached[p] \in Record
  BY DEF ConsoleInv, ConsoleTypes
<1>2. Send(p, {x}, payload)
  BY DEF SaveField
<1>3. others \cup {x} \in SUBSET form.fields /\ payload \in [others \cup {x} -> Texts]
  BY <1>1 DEF Record
<1>4. payload \in Payloads
  BY <1>3 DEF Payloads
<1>5. \A y \in DOMAIN payload \ {x} : y \notin form.secrets /\ form.sends # "field" /\ payload[y] = cached[p][y]
  OBVIOUS
<1> HIDE DEF payload
<1> QED BY <1>2, <1>4, <1>5, SendStep

(* A record takes the place of a copy, as an answer or a reload brings it.  *)
LEMMA TakenStep ==
    ASSUME ConsoleInv, NEW p \in Tabs, NEW new \in Record, TakeCopy(p, new), UNCHANGED <<form, stored, fetching, typed>>,
           loading' \in [Tabs -> LoadKinds], saves' \in [Tabs -> [Calls -> SaveKinds]], SavesOK'
    PROVE  ConsoleInv'
<1>1. ConsoleTypes /\ PagesOK
  BY DEF ConsoleInv
<1>2. /\ draft' \in [Tabs -> Record] /\ cached' \in [Tabs -> Record]
      /\ flagged' \in [Tabs -> SUBSET form.fields] /\ touched' \in [Tabs -> SUBSET form.fields]
      /\ \A q \in Tabs : q # p => UNCHANGED <<draft[q], cached[q], flagged[q], touched[q]>>
      /\ PageOK(draft'[p], cached'[p], flagged'[p], touched'[p])
  BY <1>1, CopyTaken
<1>3. ConsoleTypes'
  BY <1>1, <1>2 DEF ConsoleTypes, Record, LoadKinds, SaveKinds, Payloads
<1>4. PagesOK'
  <2> SUFFICES ASSUME NEW q \in Tabs
               PROVE  PageOK(draft[q], cached[q], flagged[q], touched[q])' /\ (fetching[q] => form.default)'
    BY DEF PagesOK
  <2>1. CASE q = p
    BY <1>1, <1>2, <2>1 DEF PageOK, PagesOK
  <2>2. CASE q # p
    BY <1>1, <1>2, <2>2 DEF PagesOK, PageOK
  <2> QED BY <2>1, <2>2
<1> QED BY <1>3, <1>4 DEF ConsoleInv

(* The server stores the payload and leaves the other fields (update of     *)
(* the routers).                                                            *)
LEMMA StoresStep ==
    ASSUME ConsoleInv, NEW p \in Tabs, NEW i \in Calls, Stores(p, i)
    PROVE  ConsoleInv' /\ \A q \in Tabs, j \in Calls : (q # p \/ j # i) => saves'[q][j] = saves[q][j]
<1>1. /\ stored \in Record /\ flagged \in [Tabs -> SUBSET form.fields] /\ loading \in [Tabs -> LoadKinds]
      /\ saves \in [Tabs -> [Calls -> SaveKinds]]
  BY DEF ConsoleInv, ConsoleTypes
<1>2. PICK c : c = saves[p][i]
  OBVIOUS
<1>3. c \in SaveKinds /\ c.at = "sent"
  BY <1>1, <1>2 DEF Stores
<1>4. c.payload \in Payloads
  BY <1>3, SaveFields
<1>5. \A x \in DOMAIN c.payload : c.payload[x] \in Texts
  BY <1>4, PayloadOf
<1>6. stored' = [x \in form.fields |-> IF x \in DOMAIN c.payload THEN c.payload[x] ELSE stored[x]]
  BY <1>2 DEF Stores
<1>7. stored' \in Record
  BY <1>1, <1>5, <1>6 DEF Record
<1>8. Loadable(stored') \in Record
  BY <1>7, LoadableIs
<1>9. PICK at \in {"done", "error"} : saves' = [saves EXCEPT ![p][i] = [at |-> at, answer |-> Loadable(stored')]]
  BY DEF Stores
<1>10. PICK d : d = [at |-> at, answer |-> Loadable(stored')]
  OBVIOUS
<1>11. d \in SaveKinds /\ SaveOK(d)
  BY <1>8, <1>10 DEF SaveKinds, SaveOK
<1>12. UNCHANGED <<form, cached, draft, flagged, loading, fetching, touched, typed>>
  BY DEF Stores
<1>13. saves' = [saves EXCEPT ![p] = [saves[p] EXCEPT ![i] = d]]
  BY <1>1, <1>9, <1>10
<1>14. /\ saves' \in [Tabs -> [Calls -> SaveKinds]] /\ SavesOK'
       /\ \A q \in Tabs, j \in Calls : saves'[q][j] = IF q = p /\ j = i THEN d ELSE saves[q][j]
  BY <1>11, <1>12, <1>13, SavesChanged
<1>15. ConsoleInv'
  BY <1>1, <1>7, <1>12, <1>14, CallsStep
<1> QED BY <1>14, <1>15

(* A save is over.                                                          *)
LEMMA SaveOver ==
    ASSUME ConsoleInv, NEW p \in Tabs, NEW i \in Calls, UNCHANGED form, NEW c, c = NoSave,
           saves' = [saves EXCEPT ![p] = [saves[p] EXCEPT ![i] = c]]
    PROVE  saves' \in [Tabs -> [Calls -> SaveKinds]] /\ SavesOK'
<1>1. c \in SaveKinds /\ SaveOK(c)
  BY DEF SaveKinds, SaveOK, NoSave
<1> QED BY <1>1, SavesChanged

(* A save that fails leaves the page as it is.                              *)
LEMMA RefusesStep == ASSUME ConsoleInv, NEW p \in Tabs, NEW i \in Calls, Refuses(p, i) PROVE ConsoleInv'
<1>1. stored \in Record /\ flagged \in [Tabs -> SUBSET form.fields] /\ loading \in [Tabs -> LoadKinds]
      /\ saves \in [Tabs -> [Calls -> SaveKinds]]
  BY DEF ConsoleInv, ConsoleTypes
<1>2. UNCHANGED <<form, stored, cached, draft, flagged, loading, fetching, touched, typed>>
  BY DEF Refuses
<1>3. saves' \in [Tabs -> [Calls -> SaveKinds]] /\ SavesOK'
  <2>1. PICK c : c = NoSave
    OBVIOUS
  <2>2. saves' = [saves EXCEPT ![p] = [saves[p] EXCEPT ![i] = c]]
    BY <1>1, <2>1 DEF Refuses
  <2> QED BY <1>2, <2>1, <2>2, SaveOver
<1> QED BY <1>1, <1>2, <1>3, CallsStep

(* A reload is sent, or reads the record: the page shows what it did.       *)
LEMMA ReloadStep == ASSUME ConsoleInv, NEW p \in Tabs, Refetch(p) \/ ReadsRecord(p) PROVE ConsoleInv'
<1>1. /\ stored \in Record /\ flagged \in [Tabs -> SUBSET form.fields] /\ loading \in [Tabs -> LoadKinds]
      /\ saves \in [Tabs -> [Calls -> SaveKinds]]
  BY DEF ConsoleInv, ConsoleTypes
<1>2. UNCHANGED <<form, stored, cached, draft, flagged, saves, fetching, touched, typed>>
  BY DEF Refetch, ReadsRecord
<1>3. SavesOK'
  BY <1>2 DEF ConsoleInv, SavesOK, SaveOK
<1>4. Loadable(stored) \in Record
  BY <1>1, LoadableIs
<1>5. [at |-> "sent"] \in LoadKinds /\ [at |-> "read", data |-> Loadable(stored)] \in LoadKinds
  BY <1>4 DEF LoadKinds
<1>6. PICK c \in LoadKinds : loading' = [loading EXCEPT ![p] = c]
  BY <1>5 DEF Refetch, ReadsRecord
<1>7. loading' \in [Tabs -> LoadKinds]
  BY <1>1, <1>6
<1> QED BY <1>1, <1>2, <1>3, <1>7, CallsStep

(* The answer to a save becomes the copy where the form takes it            *)
(* (setQueryData), and starts a reload where it does not (refetch).         *)
LEMMA AnsweredStep == ASSUME ConsoleInv, NEW p \in Tabs, NEW i \in Calls, Answered(p, i) PROVE ConsoleInv'
<1>1. /\ stored \in Record /\ flagged \in [Tabs -> SUBSET form.fields] /\ loading \in [Tabs -> LoadKinds]
      /\ saves \in [Tabs -> [Calls -> SaveKinds]]
  BY DEF ConsoleInv, ConsoleTypes
<1>2. UNCHANGED <<form, stored, fetching, typed>>
  BY DEF Answered
<1>3. saves' \in [Tabs -> [Calls -> SaveKinds]] /\ SavesOK'
  <2>1. PICK c : c = NoSave
    OBVIOUS
  <2>2. saves' = [saves EXCEPT ![p] = [saves[p] EXCEPT ![i] = c]]
    BY <1>1, <2>1 DEF Answered
  <2> QED BY <1>2, <2>1, <2>2, SaveOver
<1>4. [at |-> "sent"] \in LoadKinds
  BY DEF LoadKinds
<1>5. loading' = (IF form.reloads THEN [loading EXCEPT ![p] = [at |-> "sent"]] ELSE loading)
  BY DEF Answered
<1>6. loading' \in [Tabs -> LoadKinds]
  <2>1. CASE form.reloads
    <3>1. loading' = [loading EXCEPT ![p] = [at |-> "sent"]]
      BY <1>5, <2>1
    <3> QED BY <1>1, <1>4, <3>1
  <2>2. CASE ~form.reloads
    BY <1>1, <1>5, <2>2
  <2> QED BY <2>1, <2>2
<1>7. PICK c : c = saves[p][i]
  OBVIOUS
<1>8. c \in SaveKinds /\ c.at \in {"done", "error"}
  BY <1>1, <1>7 DEF Answered
<1>9. c.answer \in Record
  BY <1>8, SaveFields
<1>10. IF form.answers /\ c.at = "done" THEN TakeCopy(p, c.answer) ELSE KeepPage
  BY <1>7 DEF Answered
<1>11. CASE form.answers /\ c.at = "done"
  BY <1>2, <1>3, <1>6, <1>9, <1>10, <1>11, TakenStep
<1>12. CASE ~(form.answers /\ c.at = "done")
  <2>1. UNCHANGED <<cached, draft, flagged, touched>>
    BY <1>10, <1>12 DEF KeepPage
  <2> QED BY <1>1, <1>2, <1>3, <1>6, <2>1, CallsStep
<1> QED BY <1>11, <1>12

(* A reload arrives and its record becomes the copy.                        *)
LEMMA LoadedStep == ASSUME ConsoleInv, NEW p \in Tabs, Loaded(p) PROVE ConsoleInv'
<1>1. loading \in [Tabs -> LoadKinds] /\ saves \in [Tabs -> [Calls -> SaveKinds]] /\ SavesOK
  BY DEF ConsoleInv, ConsoleTypes
<1>2. PICK new : new = loading[p].data
  OBVIOUS
<1>3. new \in Record
  BY <1>1, <1>2, LoadFields DEF Loaded
<1>4. UNCHANGED <<form, stored, saves, fetching, typed>> /\ loading' = [loading EXCEPT ![p] = NotLoading] /\ TakeCopy(p, new)
  BY <1>2 DEF Loaded
<1>5. NotLoading \in LoadKinds
  BY DEF LoadKinds
<1>6. loading' \in [Tabs -> LoadKinds] /\ saves' \in [Tabs -> [Calls -> SaveKinds]]
  BY <1>1, <1>4, <1>5
<1>7. SavesOK'
  BY <1>1, <1>4 DEF SavesOK, SaveOK
<1> QED BY <1>3, <1>4, <1>6, <1>7, TakenStep

(* A form is opened on a record that its pages have loaded.                 *)
LEMMA ConsoleStart == ConsoleInit => ConsoleInv
<1> SUFFICES ASSUME ConsoleInit PROVE ConsoleInv
  OBVIOUS
<1>1. /\ form \in Forms /\ stored = [x \in form.fields |-> 1] /\ cached = [p \in Tabs |-> Loadable(stored)] /\ draft = cached
      /\ flagged = [p \in Tabs |-> {}] /\ touched = [p \in Tabs |-> {}] /\ saves = [p \in Tabs |-> [i \in Calls |-> NoSave]]
      /\ loading = [p \in Tabs |-> NotLoading] /\ fetching = [p \in Tabs |-> FALSE] /\ typed = 0
  BY DEF ConsoleInit
<1>2. FormFacts(form)
  BY <1>1, FormsFacts
<1>3. stored \in Record
  BY <1>1 DEF Record, Texts
<1>4. Loadable(stored) \in Record
  BY <1>3, LoadableIs
<1>5. cached \in [Tabs -> Record] /\ draft \in [Tabs -> Record]
  BY <1>1, <1>4
<1>6. NoSave \in SaveKinds /\ SaveOK(NoSave) /\ NotLoading \in LoadKinds
  BY DEF SaveKinds, SaveOK, NoSave, LoadKinds
<1>7. saves \in [Tabs -> [Calls -> SaveKinds]] /\ loading \in [Tabs -> LoadKinds]
  BY <1>1, <1>6
<1>8. ConsoleTypes
  <2>1. typed \in Nat /\ fetching \in [Tabs -> BOOLEAN] /\ flagged \in [Tabs -> SUBSET form.fields]
        /\ touched \in [Tabs -> SUBSET form.fields]
    BY <1>1
  <2> QED BY <1>2, <1>3, <1>5, <1>7, <2>1 DEF ConsoleTypes
<1>9. PagesOK
  BY <1>1 DEF PagesOK, PageOK
<1>10. SavesOK
  BY <1>1, <1>6 DEF SavesOK
<1> QED BY <1>8, <1>9, <1>10 DEF ConsoleInv

(* Every step of a form keeps what its proof needs.                         *)
LEMMA ConsoleStep == ConsoleInv /\ [ConsoleNext]_consoleVars => ConsoleInv'
<1> SUFFICES ASSUME ConsoleInv, [ConsoleNext]_consoleVars PROVE ConsoleInv'
  OBVIOUS
<1>1. CASE ConsoleNext
  <2> PICK p \in Tabs :
        \/ \E x \in form.fields, v \in Texts : Type(p, x, v) \/ SaveField(p, x, v)
        \/ Reopen(p) \/ GetDefault(p) \/ DefaultArrives(p) \/ SaveForm(p) \/ Refetch(p)
        \/ \E i \in Calls : Stores(p, i) \/ Refuses(p, i) \/ Answered(p, i)
        \/ ReadsRecord(p) \/ Loaded(p)
    BY <1>1 DEF ConsoleNext
  <2>1. CASE \E x \in form.fields, v \in Texts : Type(p, x, v)
    BY <2>1, TypeStep
  <2>2. CASE \E x \in form.fields, v \in Texts : SaveField(p, x, v)
    BY <2>2, SaveFieldStep
  <2>3. CASE Reopen(p)
    BY <2>3, ReopenStep
  <2>4. CASE GetDefault(p) \/ DefaultArrives(p)
    BY <2>4, DefaultStep
  <2>5. CASE SaveForm(p)
    BY <2>5, SaveFormStep
  <2>6. CASE Refetch(p) \/ ReadsRecord(p)
    BY <2>6, ReloadStep
  <2>7. CASE \E i \in Calls : Stores(p, i)
    BY <2>7, StoresStep
  <2>8. CASE \E i \in Calls : Refuses(p, i)
    BY <2>8, RefusesStep
  <2>9. CASE \E i \in Calls : Answered(p, i)
    BY <2>9, AnsweredStep
  <2>10. CASE Loaded(p)
    BY <2>10, LoadedStep
  <2> QED BY <2>1, <2>2, <2>3, <2>4, <2>5, <2>6, <2>7, <2>8, <2>9, <2>10
<1>2. CASE UNCHANGED consoleVars
  <2>1. UNCHANGED <<form, stored, cached, draft, flagged, saves, loading, fetching, touched, typed>>
    BY <1>2 DEF consoleVars
  <2>2. ConsoleTypes'
    BY <2>1 DEF ConsoleInv, ConsoleTypes, Record, LoadKinds, SaveKinds, Payloads
  <2>3. PagesOK' /\ SavesOK'
    BY <2>1 DEF ConsoleInv, PagesOK, PageOK, SavesOK, SaveOK
  <2> QED BY <2>2, <2>3 DEF ConsoleInv
<1> QED BY <1>1, <1>2

(* Among the steps of a form only the server's stores answer a save.        *)
LEMMA OnlyStores ==
    ASSUME ConsoleInv, ConsoleNext, NEW p \in Tabs, NEW i \in Calls, saves[p][i].at = "sent", saves'[p][i].at \in {"done", "error"}
    PROVE  Stores(p, i)
<1>1. saves \in [Tabs -> [Calls -> SaveKinds]] /\ "sent" \notin {"done", "error"} /\ NoSave.at = "idle"
  BY DEF ConsoleInv, ConsoleTypes, NoSave
<1>2. saves'[p][i] # saves[p][i] /\ saves'[p][i] # NoSave
  BY <1>1
<1>3. PICK q \in Tabs :
        \/ \E x \in form.fields, v \in Texts : Type(q, x, v) \/ SaveField(q, x, v)
        \/ Reopen(q) \/ GetDefault(q) \/ DefaultArrives(q) \/ SaveForm(q) \/ Refetch(q)
        \/ \E j \in Calls : Stores(q, j) \/ Refuses(q, j) \/ Answered(q, j)
        \/ ReadsRecord(q) \/ Loaded(q)
  BY DEF ConsoleNext
<1>4. ASSUME NEW fields, NEW payload, Send(q, fields, payload) PROVE FALSE
  <2>1. PICK c : c = [at |-> "sent", payload |-> payload, copy |-> cached[q], touched |-> fields]
    OBVIOUS
  <2>2. PICK j \in Calls : saves[q][j] = NoSave /\ saves' = [saves EXCEPT ![q][j] = c]
    BY <1>4, <2>1 DEF Send
  <2>3. saves' = [saves EXCEPT ![q] = [saves[q] EXCEPT ![j] = c]]
    BY <1>1, <2>2
  <2>4. saves'[p][i] = IF p = q /\ i = j THEN c ELSE saves[p][i]
    BY <1>1, <2>3
  <2>5. c.at = "sent"
    BY <2>1
  <2> QED BY <1>1, <1>2, <2>4, <2>5
<1>5. ASSUME NEW j \in Calls, saves' = [saves EXCEPT ![q][j] = NoSave] PROVE FALSE
  <2>1. saves' = [saves EXCEPT ![q] = [saves[q] EXCEPT ![j] = NoSave]]
    BY <1>1, <1>5
  <2>2. saves'[p][i] = IF p = q /\ i = j THEN NoSave ELSE saves[p][i]
    BY <1>1, <2>1
  <2> QED BY <1>2, <2>2
<1>6. ASSUME NEW j \in Calls, Stores(q, j) PROVE p = q /\ i = j
  <2>1. (p # q \/ i # j) => saves'[p][i] = saves[p][i]
    BY <1>6, StoresStep
  <2> QED BY <1>2, <2>1
<1>7. ~UNCHANGED saves
  BY <1>2
<1>8. ~\E x \in form.fields, v \in Texts : SaveField(q, x, v)
  BY <1>4 DEF SaveField
<1>9. ~SaveForm(q)
  BY <1>4 DEF SaveForm
<1>10. ~\E j \in Calls : Refuses(q, j) \/ Answered(q, j)
  BY <1>5 DEF Refuses, Answered
<1>11. /\ ~\E x \in form.fields, v \in Texts : Type(q, x, v)
       /\ ~Reopen(q) /\ ~GetDefault(q) /\ ~DefaultArrives(q) /\ ~Refetch(q) /\ ~ReadsRecord(q) /\ ~Loaded(q)
  BY <1>7 DEF Type, Reopen, GetDefault, DefaultArrives, Refetch, ReadsRecord, Loaded
<1>12. PICK j \in Calls : Stores(q, j)
  BY <1>3, <1>8, <1>9, <1>10, <1>11
<1> QED BY <1>6, <1>12

(* A save changes no field that its user had not touched, unless the page   *)
(* sends the whole of a copy that was out of date.                          *)
LEMMA UntouchedStep ==
    ASSUME ConsoleInv, NEW p \in Tabs, NEW i \in Calls, Stores(p, i), NEW x \in form.fields \ saves[p][i].touched
    PROVE  \/ stored'[x] = stored[x]
           \/ /\ x \notin form.secrets /\ form.sends # "field"
              /\ saves[p][i].copy # Loadable(stored) \/ form.resync \in {"once", "never"}
<1>1. stored \in Record /\ saves \in [Tabs -> [Calls -> SaveKinds]] /\ FormFacts(form)
  BY DEF ConsoleInv, ConsoleTypes
<1>2. PICK c : c = saves[p][i]
  OBVIOUS
<1>3. c \in SaveKinds /\ c.at = "sent" /\ SaveOK(c)
  BY <1>1, <1>2 DEF Stores, ConsoleInv, SavesOK
<1>4. stored' = [y \in form.fields |-> IF y \in DOMAIN c.payload THEN c.payload[y] ELSE stored[y]]
  BY <1>2 DEF Stores
<1>5. CASE x \notin DOMAIN c.payload
  BY <1>4, <1>5
<1>6. CASE x \in DOMAIN c.payload
  <2>1. x \notin form.secrets /\ form.sends # "field" /\ (form.resync \in {"field", "form"} => c.payload[x] = c.copy[x])
    BY <1>2, <1>3, <1>6 DEF SaveOK
  <2>2. Loadable(stored)[x] = stored[x]
    BY <1>1, <2>1, LoadableIs
  <2>3. stored'[x] = c.payload[x]
    BY <1>4, <1>6
  <2>4. ASSUME c.copy = Loadable(stored), form.resync \in {"field", "form"} PROVE stored'[x] = stored[x]
    BY <2>1, <2>2, <2>3, <2>4
  <2>5. form.resync \in {"field", "form", "once", "never"}
    BY <1>1 DEF FormFacts
  <2> QED BY <1>2, <2>1, <2>4, <2>5
<1> QED BY <1>5, <1>6

(* What was typed and not seen stored is replaced by the user, by the       *)
(* default, or by a copy that differs.                                      *)
LEMMA TypedStep ==
    ASSUME ConsoleInv, ConsoleNext, NEW p \in Tabs, NEW x \in touched[p], draft'[p][x] # draft[p][x]
    PROVE  \/ typed' # typed \/ fetching'[p] # fetching[p]
           \/ cached'[p] # cached[p] /\ (form.resync = "field" => cached'[p][x] # cached[p][x])
<1>1. /\ ConsoleTypes /\ PagesOK /\ typed \in Nat /\ draft \in [Tabs -> Record] /\ cached \in [Tabs -> Record]
      /\ fetching \in [Tabs -> BOOLEAN] /\ loading \in [Tabs -> LoadKinds] /\ saves \in [Tabs -> [Calls -> SaveKinds]]
  BY DEF ConsoleInv, ConsoleTypes
<1>2. PICK q \in Tabs :
        \/ \E y \in form.fields, v \in Texts : Type(q, y, v) \/ SaveField(q, y, v)
        \/ Reopen(q) \/ GetDefault(q) \/ DefaultArrives(q) \/ SaveForm(q) \/ Refetch(q)
        \/ \E j \in Calls : Stores(q, j) \/ Refuses(q, j) \/ Answered(q, j)
        \/ ReadsRecord(q) \/ Loaded(q)
  BY DEF ConsoleNext
<1>3. ASSUME NEW new \in Record, TakeCopy(q, new)
      PROVE  cached'[p] # cached[p] /\ (form.resync = "field" => cached'[p][x] # cached[p][x])
  <2>1. /\ cached' = [cached EXCEPT ![q] = new]
        /\ \A r \in Tabs : r # q => UNCHANGED <<draft[r], cached[r], flagged[r], touched[r]>>
        /\ \A y \in touched[q] : draft'[q][y] # draft[q][y] =>
             new # cached[q] /\ (form.resync = "field" => new[y] # cached[q][y])
    BY <1>1, <1>3, CopyTaken
  <2>2. p = q
    BY <2>1
  <2>3. cached'[p] = new
    BY <1>1, <2>1, <2>2
  <2> QED BY <2>1, <2>2, <2>3
<1>4. CASE (\E y \in form.fields, v \in Texts : Type(q, y, v)) \/ Reopen(q)
  BY <1>1, <1>4 DEF Type, Reopen
<1>5. CASE DefaultArrives(q)
  <2>1. fetching[q] /\ fetching' = [fetching EXCEPT ![q] = FALSE] /\ draft' = [draft EXCEPT ![q] = [y \in form.fields |-> 2]]
    BY <1>5 DEF DefaultArrives
  <2>2. p = q
    BY <1>1, <2>1
  <2> QED BY <1>1, <2>1, <2>2
<1>6. CASE \E j \in Calls : Answered(q, j)
  <2>1. PICK j \in Calls : Answered(q, j)
    BY <1>6
  <2>2. PICK c : c = saves[q][j]
    OBVIOUS
  <2>3. c \in SaveKinds /\ c.at \in {"done", "error"}
    BY <1>1, <2>1, <2>2 DEF Answered
  <2>4. c.answer \in Record
    BY <2>3, SaveFields
  <2>5. TakeCopy(q, c.answer) \/ KeepPage
    BY <2>1, <2>2 DEF Answered
  <2>6. ~KeepPage
    BY DEF KeepPage
  <2> QED BY <1>3, <2>4, <2>5, <2>6
<1>7. CASE Loaded(q)
  <2>1. PICK new : new = loading[q].data
    OBVIOUS
  <2>2. new \in Record
    BY <1>1, <1>7, <2>1, LoadFields DEF Loaded
  <2>3. TakeCopy(q, new)
    BY <1>7, <2>1 DEF Loaded
  <2> QED BY <1>3, <2>2, <2>3
<1>8. /\ ~\E y \in form.fields, v \in Texts : SaveField(q, y, v)
      /\ ~GetDefault(q) /\ ~SaveForm(q) /\ ~Refetch(q) /\ ~ReadsRecord(q)
      /\ ~\E j \in Calls : Stores(q, j) \/ Refuses(q, j)
  <2>1. ~UNCHANGED draft
    OBVIOUS
  <2> QED BY <2>1 DEF SaveField, SaveForm, Send, GetDefault, Refetch, ReadsRecord, Stores, Refuses
<1> QED BY <1>2, <1>4, <1>5, <1>6, <1>7, <1>8

(* A form of the console keeps what its user typed and what others stored:  *)
(* a save changes no field that was not touched, but where the form sends   *)
(* its whole copy and that was out of date, and a reload replaces no text   *)
(* unless the record changed (the effects and mutations of the pages).      *)
THEOREM FormsAlwaysKeep == ConsoleSpec => FormsKeep
<1> DEFINE A == \A p \in Tabs, i \in Calls :
                  saves[p][i].at = "sent" /\ saves'[p][i].at \in {"done", "error"} =>
                      \A x \in form.fields \ saves[p][i].touched :
                          \/ stored'[x] = stored[x]
                          \/ /\ x \notin form.secrets /\ form.sends # "field"
                             /\ saves[p][i].copy # Loadable(stored) \/ form.resync \in {"once", "never"}
           B == \A p \in Tabs : \A x \in touched[p] :
                  draft'[p][x] # draft[p][x] =>
                      \/ typed' # typed \/ fetching'[p] # fetching[p]
                      \/ cached'[p] # cached[p] /\ (form.resync = "field" => cached'[p][x] # cached[p][x])
<1>1. ConsoleInv /\ [ConsoleNext]_consoleVars => [A]_consoleVars
  BY OnlyStores, UntouchedStep
<1>2. ConsoleInv /\ [ConsoleNext]_consoleVars => [B]_consoleVars
  BY TypedStep
<1> QED BY <1>1, <1>2, ConsoleStart, ConsoleStep, PTL DEF ConsoleSpec, FormsKeep, UntouchedKept, TypedKept

----------------------------------------------------------------------------
(* Scripts on the host, a proof about Host.                                 *)

HostSpec == HostInit /\ [][HostNext]_hostVars

BackupStages == {"dump", "stop", "postgres", "zerotier", "config", "up"}
RestoreStages == {"pre", "stop", "empty-postgres", "fill-postgres", "empty-zerotier", "fill-zerotier",
                  "drop-config", "put-config", "postgres", "load", "up"}
UpgradeStages == {"backup", "release", "copy", "secrets", "build", "up", "ps"}
InstallStages == {"copy", "secrets", "legacy", "import", "mark", "build", "up", "ps"}
RecoverStages == {"move", "unpack", "rebuild"}
FrameKinds ==
    [op : {"backup", "restore", "upgrade", "install", "recover"},
     at : BackupStages \cup RestoreStages \cup UpgradeStages \cup InstallStages \cup RecoverStages,
     id : Nat, pre : Nat, auto : BOOLEAN, restart : BOOLEAN, legacyRan : BOOLEAN]

Directories == [pg : SUBSET Nat, zt : SUBSET Nat]
BackupKinds == [dump : SUBSET Nat, pg : SUBSET Nat, zt : SUBSET Nat, schema : Nat, dumped : Nat,
                sums : BOOLEAN, release : Nat, hot : Directories]
FailedKinds == [pg : SUBSET Nat, zt : SUBSET Nat, schema : Nat]

HostTypes ==
    /\ services \in {"down", "postgres", "all"}
    /\ runs \in Nat /\ image \in Nat /\ release \in Nat /\ schema \in Nat /\ hostFaults \in Nat
    /\ pg \in SUBSET Nat /\ zt \in SUBSET Nat
    /\ generated \in BOOLEAN /\ legacy \in {"none", "running", "stopped"} /\ imported \in {"no", "partly", "yes"}
    /\ saved \in Seq(BackupKinds) /\ failed \in Seq(FailedKinds)
    /\ mounted \in 0 .. Len(failed)
    /\ stack \in Seq(FrameKinds)
    /\ apart \in SUBSET {"restore", "images"}
    /\ window \in SUBSET Nat

(* Changes are numbered, and nothing contains one that was not made.        *)
HistoryOK ==
    /\ \E n \in Nat : done = 1 .. n
    /\ pg \subseteq done /\ zt \subseteq done
    /\ \A k \in DOMAIN saved :
           /\ saved[k].pg \subseteq done /\ saved[k].zt \subseteq done /\ saved[k].dump \subseteq done
           /\ saved[k].hot.pg \subseteq done /\ saved[k].hot.zt \subseteq done
    /\ \A k \in DOMAIN failed : failed[k].pg \subseteq done /\ failed[k].zt \subseteq done

Complete(k) == k \in DOMAIN saved /\ saved[k].sums

(* A script works with backups that are there, and all but the one that is  *)
(* being written are complete.                                              *)
FrameOK(f) ==
    /\ f.op = "backup" => f.at \in BackupStages /\ (f.at # "dump" => f.id \in DOMAIN saved /\ (saved[f.id].sums <=> f.at = "up"))
    /\ f.op = "restore" => f.at \in RestoreStages /\ Complete(f.id) /\ (f.at = "pre" \/ f.auto \/ Complete(f.pre)) /\ (f.auto => f.pre = 0)
    /\ f.op = "upgrade" => f.at \in UpgradeStages /\ (f.at = "backup" \/ Complete(f.pre))
    /\ f.op = "install" => f.at \in InstallStages
    /\ f.op = "recover" => f.at \in RecoverStages /\ Complete(f.pre)
ScriptsOK ==
    /\ Len(stack) \in 0 .. 2
    /\ \A i \in DOMAIN stack : FrameOK(stack[i])
    /\ Len(stack) = 2 => /\ stack[1].op = "backup"
                         /\ \/ stack[2].op = "restore" /\ stack[2].at = "pre" /\ ~stack[2].auto
                            \/ stack[2].op = "upgrade" /\ stack[2].at = "backup"

(* A change is in a complete backup or in a directory that was moved away.  *)
Elsewhere(w) ==
    \/ \E k \in DOMAIN saved : saved[k].sums /\ w \in saved[k].pg \cap saved[k].zt
    \/ \E k \in DOMAIN failed : w \in failed[k].pg \cap failed[k].zt
AllElsewhere == \A w \in done \ window : Elsewhere(w)

(* Before a script empties a directory, all that it holds is elsewhere and  *)
(* stays so, because nobody works or the work goes to what was moved away.  *)
TopKeeps(f) ==
    /\ f.op = "backup" /\ f.at \in {"postgres", "zerotier", "config", "up"} =>
           /\ services = "down"
           /\ f.at # "postgres" => saved[f.id].pg = pg
           /\ f.at \in {"config", "up"} => saved[f.id].zt = zt
    /\ f.op = "restore" =>
           /\ f.at = "stop" /\ ~f.auto => pg \cap zt \cap saved[f.pre].pg \subseteq saved[f.pre].zt
           /\ f.at \notin {"pre", "stop"} => services # "all" /\ AllElsewhere
    /\ (f.op = "restore" /\ f.auto) \/ (f.op = "recover" /\ f.at # "move") =>
           AllElsewhere /\ (services = "all" => mounted # 0)
StagesKeep == stack # <<>> => TopKeeps(stack[1])

(* Backups and directories have both halves of every change.                *)
TopJoins(f) ==
    /\ f.op = "restore" =>
           /\ f.at \in {"empty-zerotier", "fill-zerotier", "drop-config", "put-config", "postgres", "load"} => pg = saved[f.id].pg
           /\ f.at \in {"drop-config", "put-config", "postgres", "load", "up"} => zt = saved[f.id].zt
    /\ (f.op = "upgrade" /\ f.at \notin {"backup", "release"}) \/ f.op = "recover" => saved[f.pre].hot.pg = saved[f.pre].hot.zt
HalvesOK ==
    "restore" \notin apart =>
        /\ \A k \in DOMAIN saved : saved[k].sums => saved[k].pg = saved[k].zt
        /\ stack # <<>> => TopJoins(stack[1])
        /\ \/ pg = zt
           \/ /\ stack # <<>> /\ stack[1].op = "restore"
              /\ stack[1].at \in {"fill-postgres", "empty-zerotier", "fill-zerotier"}

(* No migration is newer than the images, which are not newer than the      *)
(* release, and a rollback finds a release for which no backup is too new.  *)
TopSchema(f) ==
    /\ f.op \in {"install", "upgrade"} /\ f.at \in {"secrets", "legacy", "import", "mark", "build", "up", "ps"} =>
           release = NewRelease
    /\ (f.op = "upgrade" /\ f.at \notin {"backup", "release"}) \/ f.op = "recover" =>
           /\ saved[f.pre].release \in 1 .. NewRelease
           /\ \A k \in DOMAIN saved : saved[k].schema <= saved[f.pre].release
    /\ f.op = "recover" /\ f.at = "unpack" => release = 0
    /\ f.op = "recover" /\ f.at = "rebuild" => release = saved[f.pre].release /\ schema <= release
SchemaOK ==
    apart = {} =>
        /\ image <= NewRelease /\ release <= NewRelease
        /\ schema <= image /\ \A k \in DOMAIN saved : saved[k].schema <= image
        /\ release # 0 /\ ~Running("recover", "rebuild") => image <= release
        /\ \A i \in DOMAIN stack : stack[i].op = "upgrade" => release # 0
        /\ stack # <<>> => TopSchema(stack[1])
        /\ services = "all" /\ mounted = 0 => schema <= runs

(* Until a command fails the legacy container runs only before the first    *)
(* install has stopped it, and nothing of the new stack can be started.     *)
LegacyOK ==
    hostFaults = 0 =>
        /\ legacy = "running" =>
               /\ services = "down" /\ zt = {} /\ imported = "no" /\ saved = <<>>
               /\ stack = <<>> => ~generated /\ release = 0
               /\ stack # <<>> =>
                      \/ Running("backup", "dump") /\ Len(stack) = 1 /\ ~generated /\ release = 0
                      \/ Running("install", "copy") /\ ~generated /\ release = 0
                      \/ Running("install", "secrets") /\ ~generated
                      \/ Running("install", "legacy")
        /\ Running("install", "import") /\ stack[1].legacyRan => services = "down" /\ zt = {} /\ imported = "no"

HostInv == HostTypes /\ HistoryOK /\ ScriptsOK /\ Recoverable /\ StagesKeep /\ HalvesOK /\ SchemaOK /\ LegacyOK

(* The frame that runs, in one place.                                       *)
LEMMA TopFacts ==
    ASSUME HostInv, stack # <<>>, NEW f, f = stack[1]
    PROVE  /\ stack \in Seq(FrameKinds) /\ 1 \in DOMAIN stack /\ Len(stack) \in {1, 2} /\ f \in FrameKinds
           /\ FrameOK(f) /\ TopKeeps(f)
           /\ ("restore" \notin apart => TopJoins(f)) /\ (apart = {} => TopSchema(f))
           /\ f.op # "backup" => Len(stack) = 1
<1>1. stack \in Seq(FrameKinds) /\ Len(stack) \in 0 .. 2
  BY DEF HostInv, HostTypes, ScriptsOK
<1>2. 1 \in DOMAIN stack /\ Len(stack) \in {1, 2} /\ f \in FrameKinds
  BY <1>1
<1>3. FrameOK(f) /\ (f.op # "backup" => Len(stack) = 1)
  BY <1>2 DEF HostInv, ScriptsOK
<1>4. TopKeeps(f)
  BY DEF HostInv, StagesKeep
<1>5. ("restore" \notin apart => TopJoins(f)) /\ (apart = {} => TopSchema(f))
  BY DEF HostInv, HalvesOK, SchemaOK
<1> QED BY <1>1, <1>2, <1>3, <1>4, <1>5

(* A backup has the parts that backup.sh and upgrade_stack put into it.     *)
LEMMA SavedFields ==
    ASSUME HostTypes, NEW k \in DOMAIN saved
    PROVE  /\ saved[k] \in BackupKinds /\ saved[k].schema \in Nat /\ saved[k].dumped \in Nat /\ saved[k].release \in Nat
           /\ saved[k].sums \in BOOLEAN /\ saved[k].pg \in SUBSET Nat /\ saved[k].zt \in SUBSET Nat /\ saved[k].dump \in SUBSET Nat
           /\ saved[k].hot \in Directories /\ saved[k].hot.pg \in SUBSET Nat /\ saved[k].hot.zt \in SUBSET Nat
<1>1. saved[k] \in BackupKinds
  BY DEF HostTypes
<1>2. \A b \in BackupKinds : /\ b.schema \in Nat /\ b.dumped \in Nat /\ b.release \in Nat /\ b.sums \in BOOLEAN
                             /\ b.pg \in SUBSET Nat /\ b.zt \in SUBSET Nat /\ b.dump \in SUBSET Nat /\ b.hot \in Directories
  BY DEF BackupKinds
<1>3. \A h \in Directories : h.pg \in SUBSET Nat /\ h.zt \in SUBSET Nat
  BY DEF Directories
<1> QED BY <1>1, <1>2, <1>3

(* A script goes on with another frame in the place of its own.             *)
LEMMA Replaced ==
    ASSUME stack \in Seq(FrameKinds), stack # <<>>, NEW g \in FrameKinds, stack' = <<g>> \o Tail(stack)
    PROVE  /\ stack' \in Seq(FrameKinds) /\ stack' # <<>> /\ Len(stack') = Len(stack) /\ stack'[1] = g
           /\ \A i \in 2 .. Len(stack) : stack'[i] = stack[i]
OBVIOUS

(* A script calls another.                                                  *)
LEMMA Pushed ==
    ASSUME stack \in Seq(FrameKinds), Len(stack) = 1, NEW g \in FrameKinds, stack' = <<g>> \o stack
    PROVE  /\ stack' \in Seq(FrameKinds) /\ stack' # <<>> /\ Len(stack') = 2 /\ stack'[1] = g /\ stack'[2] = stack[1]
           /\ DOMAIN stack' = {1, 2}
<1>1. <<g>> \in Seq(FrameKinds) /\ Len(<<g>>) = 1 /\ <<g>>[1] = g
  OBVIOUS
<1>2. \A t, u \in Seq(FrameKinds) : /\ t \o u \in Seq(FrameKinds) /\ Len(t \o u) = Len(t) + Len(u)
                                    /\ \A i \in 1 .. Len(t) + Len(u) : (t \o u)[i] = IF i <= Len(t) THEN t[i] ELSE u[i - Len(t)]
  OBVIOUS
<1>3. stack' \in Seq(FrameKinds) /\ Len(stack') = 2
  BY <1>1, <1>2
<1>4. stack'[1] = g
  BY <1>1, <1>2
<1>5. stack'[2] = stack[1]
  BY <1>1, <1>2
<1>6. stack' # <<>> /\ DOMAIN stack' = {1, 2}
  BY <1>3
<1> QED BY <1>3, <1>4, <1>5, <1>6

AllStages == BackupStages \cup RestoreStages \cup UpgradeStages \cup InstallStages \cup RecoverStages

(* A script goes on: only the command of its frame changes.                 *)
LEMMA Goes ==
    ASSUME stack \in Seq(FrameKinds), stack # <<>>, NEW f, f = stack[1], NEW at \in AllStages, Goto(at)
    PROVE  \E g \in FrameKinds :
             /\ g.op = f.op /\ g.at = at /\ g.id = f.id /\ g.pre = f.pre /\ g.auto = f.auto /\ g.restart = f.restart
             /\ g.legacyRan = f.legacyRan
             /\ stack' = <<g>> \o Tail(stack)
<1> DEFINE g == [f EXCEPT !.at = at]
<1>1. f \in FrameKinds
  OBVIOUS
<1>2. /\ g \in FrameKinds /\ g.op = f.op /\ g.at = at /\ g.id = f.id /\ g.pre = f.pre /\ g.auto = f.auto /\ g.restart = f.restart
      /\ g.legacyRan = f.legacyRan
  BY <1>1 DEF FrameKinds, AllStages
<1>3. stack' = <<g>> \o Tail(stack)
  BY DEF Goto, Top
<1> QED BY <1>2, <1>3

(* A script starts with its first command and no backup.                    *)
LEMMA FrameIs ==
    ASSUME NEW op \in {"backup", "restore", "upgrade", "install", "recover"}, NEW at \in AllStages
    PROVE  /\ Frame(op, at) \in FrameKinds /\ Frame(op, at).op = op /\ Frame(op, at).at = at
           /\ Frame(op, at).id = 0 /\ Frame(op, at).pre = 0 /\ ~Frame(op, at).auto /\ ~Frame(op, at).restart /\ ~Frame(op, at).legacyRan
BY DEF Frame, FrameKinds, AllStages

(* A step that leaves the data alone.                                       *)
LEMMA DataStill ==
    ASSUME HostInv, UNCHANGED <<pg, zt, saved, failed, done, window>>
    PROVE  /\ HistoryOK' /\ Recoverable' /\ (AllElsewhere => AllElsewhere')
           /\ \A f \in FrameKinds : FrameOK(f) => FrameOK(f)'
<1>1. HistoryOK'
  BY DEF HostInv, HistoryOK
<1>2. Recoverable' /\ (AllElsewhere => AllElsewhere')
  BY DEF HostInv, Recoverable, AllElsewhere, Elsewhere
<1>3. \A f \in FrameKinds : FrameOK(f) => FrameOK(f)'
  BY DEF FrameOK, Complete
<1> QED BY <1>1, <1>2, <1>3

(* One frame takes the place of the one that ran, or the first one starts.  *)
LEMMA ScriptsGo ==
    ASSUME HostInv, stack # <<>>, stack' \in Seq(FrameKinds), Len(stack') = Len(stack), \A i \in 2 .. Len(stack) : stack'[i] = stack[i],
           NEW g, g = stack'[1], FrameOK(g)', g.op = stack[1].op \/ Len(stack) = 1,
           \A k \in DOMAIN saved : Complete(k) => Complete(k)'
    PROVE  ScriptsOK'
<1>1. stack \in Seq(FrameKinds) /\ Len(stack) \in {1, 2}
  BY DEF HostInv, HostTypes, ScriptsOK
<1>2. Len(stack) = 2 => /\ FrameOK(stack[2])' /\ stack'[1].op = "backup"
                        /\ \/ stack'[2].op = "restore" /\ stack'[2].at = "pre" /\ ~stack'[2].auto
                           \/ stack'[2].op = "upgrade" /\ stack'[2].at = "backup"
  <2> SUFFICES ASSUME Len(stack) = 2
               PROVE  /\ FrameOK(stack[2])' /\ stack'[1].op = "backup"
                      /\ \/ stack'[2].op = "restore" /\ stack'[2].at = "pre" /\ ~stack'[2].auto
                         \/ stack'[2].op = "upgrade" /\ stack'[2].at = "backup"
    OBVIOUS
  <2> PICK h : h = stack[2]
    OBVIOUS
  <2>1. /\ FrameOK(h) /\ stack[1].op = "backup"
        /\ \/ h.op = "restore" /\ h.at = "pre" /\ ~h.auto
           \/ h.op = "upgrade" /\ h.at = "backup"
    BY <1>1 DEF HostInv, ScriptsOK
  <2>2. stack'[2] = h
    BY <1>1
  <2>3. FrameOK(h)'
    <3>1. CASE h.op = "restore" /\ h.at = "pre" /\ ~h.auto
      BY <2>1, <3>1 DEF FrameOK, Complete
    <3>2. CASE h.op = "upgrade" /\ h.at = "backup"
      BY <3>2 DEF FrameOK, UpgradeStages
    <3> QED BY <2>1, <3>1, <3>2
  <2> QED BY <2>1, <2>2, <2>3
<1>3. \A i \in DOMAIN stack' : i = 1 \/ (i = 2 /\ Len(stack) = 2)
  BY <1>1
<1>4. \A i \in DOMAIN stack' : FrameOK(stack[i])'
  BY <1>2, <1>3
<1>5. Len(stack') \in 0 .. 2
  BY <1>1
<1> QED BY <1>1, <1>2, <1>4, <1>5 DEF ScriptsOK

(* The administrator starts a script: backup.sh, restore.sh or manage.sh.   *)
LEMMA StartStep ==
    ASSUME HostInv, NEW g \in FrameKinds, Start(g), ~g.auto, ~g.restart, g.op = "upgrade" => release # 0,
           \/ g.op = "backup" /\ g.at = "dump"
           \/ g.op = "restore" /\ g.at = "pre" /\ Complete(g.id) /\ g.pre = 0
           \/ g.op = "upgrade" /\ g.at = "backup"
           \/ g.op = "install" /\ g.at = "copy"
    PROVE  HostInv'
<1>1. /\ stack = <<>> /\ stack' = <<g>>
      /\ UNCHANGED <<services, runs, image, release, pg, zt, schema, generated, imported, saved, failed, legacy,
                     mounted, done, apart, window, hostFaults>>
  BY DEF Start, disk
<1>2. stack' \in Seq(FrameKinds) /\ stack' # <<>> /\ Len(stack') = 1 /\ stack'[1] = g /\ DOMAIN stack' = {1}
  BY <1>1
<1>3. HostTypes'
  BY <1>1, <1>2 DEF HostInv, HostTypes
<1>4. HistoryOK' /\ Recoverable'
  BY <1>1, DataStill
<1>5. FrameOK(g)'
  BY <1>1 DEF FrameOK, Complete, BackupStages, RestoreStages, UpgradeStages, InstallStages
<1>6. ScriptsOK'
  BY <1>2, <1>5 DEF ScriptsOK
<1>7. StagesKeep'
  BY <1>2 DEF StagesKeep, TopKeeps
<1>8. HalvesOK'
  BY <1>1, <1>2 DEF HostInv, HalvesOK, TopJoins
<1>9. SchemaOK'
  BY <1>1, <1>2 DEF HostInv, SchemaOK, TopSchema, Running, Top
<1>10. LegacyOK'
  <2>1. Complete(g.id) => saved # <<>>
    BY DEF Complete
  <2> QED BY <1>1, <1>2, <2>1 DEF HostInv, LegacyOK, Running, Top
<1> QED BY <1>3, <1>4, <1>6, <1>7, <1>8, <1>9, <1>10 DEF HostInv

(* One script calls another: restore.sh and upgrade_stack take a backup.    *)
LEMMA CallStep == ASSUME HostInv, TakeRecoveryPoint \/ UpgradeBackup PROVE HostInv'
<1>1. PICK f : f = stack[1]
  OBVIOUS
<1>2. /\ stack # <<>>
      /\ UNCHANGED <<services, runs, image, release, pg, zt, schema, generated, imported, saved, failed, legacy,
                     mounted, done, apart, window, hostFaults>>
      /\ \/ f.op = "restore" /\ f.at = "pre"
         \/ f.op = "upgrade" /\ f.at = "backup"
  BY <1>1 DEF TakeRecoveryPoint, UpgradeBackup, Running, Top, disk
<1>3. /\ stack \in Seq(FrameKinds) /\ 1 \in DOMAIN stack /\ Len(stack) \in {1, 2} /\ f \in FrameKinds
      /\ FrameOK(f) /\ TopKeeps(f)
      /\ ("restore" \notin apart => TopJoins(f)) /\ (apart = {} => TopSchema(f))
      /\ Len(stack) = 1
  BY <1>1, <1>2, TopFacts
<1>4. HistoryOK' /\ Recoverable' /\ (AllElsewhere => AllElsewhere')
  BY <1>2, DataStill
<1>5. CASE stack' = <<Frame("backup", "dump")>> \o stack /\ (f.op = "restore" => ~f.auto)
  <2> PICK g : g = Frame("backup", "dump")
    OBVIOUS
  <2>1. "dump" \in AllStages
    BY DEF AllStages, BackupStages
  <2>2. g \in FrameKinds /\ g.op = "backup" /\ g.at = "dump" /\ ~g.restart
    BY <2>1, FrameIs
  <2>3. stack' \in Seq(FrameKinds) /\ stack' # <<>> /\ Len(stack') = 2 /\ stack'[1] = g /\ stack'[2] = f /\ DOMAIN stack' = {1, 2}
    <3>1. stack' = <<g>> \o stack
      BY <1>5
    <3> QED BY <1>1, <1>3, <2>2, <3>1, Pushed
  <2>4. HostTypes'
    BY <1>2, <2>3 DEF HostInv, HostTypes
  <2>5. FrameOK(g)' /\ FrameOK(f)'
    BY <1>2, <1>3, <2>2, DataStill DEF FrameOK, BackupStages
  <2>6. ScriptsOK'
    BY <1>2, <1>5, <2>2, <2>3, <2>5 DEF ScriptsOK
  <2>7. StagesKeep'
    BY <2>2, <2>3 DEF StagesKeep, TopKeeps
  <2>8. HalvesOK'
    BY <1>1, <1>2, <2>2, <2>3 DEF HostInv, HalvesOK, TopJoins
  <2>9. SchemaOK'
    BY <1>1, <1>2, <1>3, <2>2, <2>3 DEF HostInv, SchemaOK, TopSchema, Running, Top
  <2>10. LegacyOK'
    BY <1>1, <1>2, <2>2, <2>3 DEF HostInv, LegacyOK, Running, Top
  <2> QED BY <1>4, <2>4, <2>6, <2>7, <2>8, <2>9, <2>10 DEF HostInv
<1>6. CASE stack' = <<[f EXCEPT !.at = "stop"]>> \o Tail(stack) /\ f.op = "restore" /\ f.auto
  <2>1. "stop" \in AllStages /\ Goto("stop")
    BY <1>1, <1>6 DEF AllStages, BackupStages, Goto, Top
  <2>2. PICK g \in FrameKinds :
             /\ g.op = f.op /\ g.at = "stop" /\ g.id = f.id /\ g.pre = f.pre /\ g.auto = f.auto
             /\ stack' = <<g>> \o Tail(stack)
    BY <1>1, <1>2, <1>3, <2>1, Goes
  <2>3. /\ stack' \in Seq(FrameKinds) /\ stack' # <<>> /\ Len(stack') = Len(stack) /\ stack'[1] = g
        /\ \A i \in 2 .. Len(stack) : stack'[i] = stack[i]
    BY <1>2, <1>3, <2>2, Replaced
  <2>4. HostTypes'
    BY <1>2, <2>3 DEF HostInv, HostTypes
  <2>5. FrameOK(g)'
    BY <1>2, <1>3, <1>6, <2>2 DEF FrameOK, Complete, RestoreStages
  <2>6. ScriptsOK'
    BY <1>2, <1>3, <2>3, <2>5, ScriptsGo DEF Complete
  <2>7. StagesKeep'
    BY <1>2, <1>3, <1>4, <1>6, <2>2, <2>3 DEF StagesKeep, TopKeeps
  <2>8. HalvesOK'
    BY <1>1, <1>2, <1>3, <1>6, <2>2, <2>3 DEF HostInv, HalvesOK, TopJoins
  <2>9. DOMAIN stack' = {1}
    BY <1>3, <2>3
  <2>10. SchemaOK'
    BY <1>1, <1>2, <1>6, <2>2, <2>3, <2>9 DEF HostInv, SchemaOK, TopSchema, Running, Top
  <2>11. LegacyOK'
    BY <1>1, <1>2, <1>6, <2>2, <2>3 DEF HostInv, LegacyOK, Running, Top
  <2> QED BY <1>4, <2>4, <2>6, <2>7, <2>8, <2>10, <2>11 DEF HostInv
<1> QED BY <1>1, <1>2, <1>5, <1>6 DEF TakeRecoveryPoint, UpgradeBackup, Top, Running

(* A script goes on to another of its commands.                             *)
LEMMA Moves ==
    ASSUME HostInv, stack # <<>>, NEW f, f = stack[1], NEW at \in AllStages, Goto(at)
    PROVE  \E g \in FrameKinds :
             /\ g.op = f.op /\ g.at = at /\ g.id = f.id /\ g.pre = f.pre /\ g.auto = f.auto /\ g.restart = f.restart
             /\ g.legacyRan = f.legacyRan
             /\ stack' \in Seq(FrameKinds) /\ stack' # <<>> /\ Len(stack') = Len(stack) /\ stack'[1] = g
             /\ \A i \in 2 .. Len(stack) : stack'[i] = stack[i]
<1>1. stack \in Seq(FrameKinds)
  BY TopFacts
<1>2. PICK g \in FrameKinds :
             /\ g.op = f.op /\ g.at = at /\ g.id = f.id /\ g.pre = f.pre /\ g.auto = f.auto /\ g.restart = f.restart
             /\ g.legacyRan = f.legacyRan
             /\ stack' = <<g>> \o Tail(stack)
  BY <1>1, Goes
<1>3. /\ stack' \in Seq(FrameKinds) /\ stack' # <<>> /\ Len(stack') = Len(stack) /\ stack'[1] = g
      /\ \A i \in 2 .. Len(stack) : stack'[i] = stack[i]
  BY <1>1, <1>2, Replaced
<1> QED BY <1>2, <1>3

(* An install or an upgrade goes on and leaves the data alone.              *)
LEMMA ManageGoes ==
    ASSUME HostInv, stack # <<>>, NEW f, f = stack[1], NEW g \in FrameKinds, g.op = f.op, g.pre = f.pre,
           stack' \in Seq(FrameKinds), stack' # <<>>, Len(stack') = Len(stack), stack'[1] = g,
           \/ f.op = "install" /\ g.at \in InstallStages
           \/ f.op = "upgrade" /\ f.at \notin {"backup", "release"} /\ g.at \in UpgradeStages \ {"backup", "release"},
           UNCHANGED <<pg, zt, saved, failed, done, apart, window>>
    PROVE  HistoryOK' /\ Recoverable' /\ ScriptsOK' /\ StagesKeep' /\ HalvesOK' /\ DOMAIN stack' = {1}
<1>1. /\ stack \in Seq(FrameKinds) /\ 1 \in DOMAIN stack /\ FrameOK(f) /\ ("restore" \notin apart => TopJoins(f)) /\ Len(stack) = 1
  BY TopFacts
<1>2. HistoryOK' /\ Recoverable'
  BY DataStill
<1>3. FrameOK(g)'
  BY <1>1 DEF FrameOK, Complete
<1>4. DOMAIN stack' = {1}
  BY <1>1
<1>5. ScriptsOK'
  BY <1>1, <1>3, ScriptsGo DEF Complete
<1>6. StagesKeep'
  BY DEF StagesKeep, TopKeeps
<1>7. HalvesOK'
  BY <1>1 DEF HostInv, HalvesOK, TopJoins
<1> QED BY <1>2, <1>4, <1>5, <1>6, <1>7

(* manage.sh: the release is copied, the secrets are initialised, the       *)
(* legacy container is stopped and imported, the images are built.          *)
LEMMA ManageStep ==
    ASSUME HostInv, CopyRelease \/ InitializeSecrets \/ StopLegacy \/ LegacyImport \/ BuildImages PROVE HostInv'
<1>1. PICK f : f = stack[1]
  OBVIOUS
<1>2. /\ stack # <<>>
      /\ UNCHANGED <<services, runs, pg, zt, schema, saved, failed, mounted, done, apart, window, hostFaults>>
      /\ f.op \in {"install", "upgrade"}
  BY <1>1 DEF CopyRelease, InitializeSecrets, StopLegacy, LegacyImport, BuildImages, Running, Top, disk
<1>3. /\ f \in FrameKinds /\ FrameOK(f) /\ Len(stack) = 1 /\ (apart = {} => TopSchema(f)) /\ 1 \in DOMAIN stack
  BY <1>1, <1>2, TopFacts
<1>4. /\ image \in Nat /\ release \in Nat /\ schema \in Nat /\ apart \in SUBSET {"restore", "images"}
      /\ legacy \in {"none", "running", "stopped"} /\ imported \in {"no", "partly", "yes"} /\ generated \in BOOLEAN
  BY DEF HostInv, HostTypes
<1>5. {"copy", "secrets", "legacy", "import", "mark", "build", "up", "ps"} \subseteq AllStages
  BY DEF AllStages, InstallStages
<1>6. CASE CopyRelease
  <2>1. f.at = "copy" /\ Goto("secrets") /\ release' = NewRelease /\ UNCHANGED <<image, generated, imported, legacy>>
    BY <1>1, <1>6 DEF CopyRelease, Top
  <2>2. PICK g \in FrameKinds : g.op = f.op /\ g.at = "secrets" /\ g.pre = f.pre
             /\ stack' \in Seq(FrameKinds) /\ stack' # <<>> /\ Len(stack') = Len(stack) /\ stack'[1] = g
    BY <1>1, <1>2, <1>5, <2>1, Moves
  <2>3. HistoryOK' /\ Recoverable' /\ ScriptsOK' /\ StagesKeep' /\ HalvesOK' /\ DOMAIN stack' = {1}
    BY <1>1, <1>2, <2>1, <2>2, ManageGoes DEF InstallStages, UpgradeStages
  <2>4. HostTypes'
    BY <1>2, <2>1, <2>2 DEF HostInv, HostTypes, NewRelease
  <2>5. SchemaOK'
    BY <1>1, <1>2, <1>3, <1>4, <2>1, <2>2, <2>3 DEF HostInv, SchemaOK, TopSchema, NewRelease, Running, Top
  <2>6. LegacyOK'
    BY <1>1, <1>2, <1>4, <2>1, <2>2 DEF HostInv, LegacyOK, Running, Top
  <2> QED BY <2>3, <2>4, <2>5, <2>6 DEF HostInv
<1>7. CASE InitializeSecrets
  <2> DEFINE at == IF f.op = "install" THEN "legacy" ELSE "build"
  <2>1. f.at = "secrets" /\ Goto(at) /\ generated' = TRUE /\ UNCHANGED <<image, release, imported, legacy>>
    BY <1>1, <1>7 DEF InitializeSecrets, Top
  <2>2. at \in AllStages /\ (f.op = "install" => at = "legacy") /\ (f.op = "upgrade" => at = "build")
    BY <1>5
  <2> HIDE DEF at
  <2>3. PICK g \in FrameKinds : g.op = f.op /\ g.at = at /\ g.pre = f.pre
             /\ stack' \in Seq(FrameKinds) /\ stack' # <<>> /\ Len(stack') = Len(stack) /\ stack'[1] = g
    BY <1>1, <1>2, <2>1, <2>2, Moves
  <2>4. HistoryOK' /\ Recoverable' /\ ScriptsOK' /\ StagesKeep' /\ HalvesOK' /\ DOMAIN stack' = {1}
    BY <1>1, <1>2, <2>1, <2>2, <2>3, ManageGoes DEF InstallStages, UpgradeStages
  <2>5. HostTypes'
    BY <1>2, <2>1, <2>3 DEF HostInv, HostTypes
  <2>6. SchemaOK'
    BY <1>1, <1>2, <1>3, <1>4, <2>1, <2>2, <2>3, <2>4 DEF HostInv, SchemaOK, TopSchema, Running, Top
  <2>7. LegacyOK'
    BY <1>1, <1>2, <1>4, <2>1, <2>2, <2>3 DEF HostInv, LegacyOK, Running, Top
  <2> QED BY <2>4, <2>5, <2>6, <2>7 DEF HostInv
<1>8. CASE StopLegacy
  <2>1. /\ f.op = "install" /\ f.at = "legacy" /\ UNCHANGED <<image, release, generated, imported>>
        /\ legacy' = IF legacy = "running" THEN "stopped" ELSE legacy
        /\ stack' = <<[f EXCEPT !.at = "import", !.legacyRan = legacy = "running"]>>
    BY <1>1, <1>8 DEF StopLegacy, Running, Top, disk
  <2> DEFINE h == [f EXCEPT !.at = "import", !.legacyRan = legacy = "running"]
  <2>2. h \in FrameKinds /\ h.op = f.op /\ h.at = "import" /\ h.pre = f.pre /\ h.legacyRan = (legacy = "running")
    BY <1>3, Zenon DEF FrameKinds, InstallStages
  <2> PICK g \in FrameKinds : g = h
    BY <2>2
  <2>3. g.op = f.op /\ g.at = "import" /\ g.pre = f.pre /\ g.legacyRan = (legacy = "running") /\ stack' = <<g>>
    BY <2>1, <2>2
  <2> HIDE DEF h
  <2>4. stack' \in Seq(FrameKinds) /\ stack' # <<>> /\ Len(stack') = Len(stack) /\ stack'[1] = g
    BY <1>3, <2>3
  <2>5. HistoryOK' /\ Recoverable' /\ ScriptsOK' /\ StagesKeep' /\ HalvesOK' /\ DOMAIN stack' = {1}
    BY <1>1, <1>2, <2>1, <2>3, <2>4, ManageGoes DEF InstallStages, UpgradeStages
  <2>6. legacy' \in {"none", "stopped"} /\ UNCHANGED <<image, release, generated, imported>>
    BY <1>4, <2>1
  <2>7. HostTypes'
    BY <1>2, <2>6, <2>4 DEF HostInv, HostTypes
  <2>8. SchemaOK'
    BY <1>1, <1>2, <1>3, <1>4, <2>1, <2>3, <2>4, <2>5, <2>6 DEF HostInv, SchemaOK, TopSchema, Running, Top
  <2>9. LegacyOK'
    BY <1>1, <1>2, <1>4, <2>1, <2>3, <2>4, <2>6 DEF HostInv, LegacyOK, Running, Top
  <2> QED BY <2>5, <2>7, <2>8, <2>9 DEF HostInv
<1>9. CASE LegacyImport
  <2>1. /\ f.op = "install" /\ f.at \in {"import", "mark"} /\ UNCHANGED <<image, release, generated, legacy>>
        /\ imported' \in {"no", "partly", "yes"} /\ (Goto("build") \/ Goto("mark"))
    BY <1>1, <1>4, <1>9 DEF LegacyImport, Top
  <2>2. PICK g \in FrameKinds : g.op = f.op /\ g.at \in {"build", "mark"} /\ g.pre = f.pre
             /\ stack' \in Seq(FrameKinds) /\ stack' # <<>> /\ Len(stack') = Len(stack) /\ stack'[1] = g
    <3>1. CASE Goto("build")
      <4> QED BY <1>1, <1>2, <1>5, <3>1, Moves
    <3>2. CASE Goto("mark")
      <4> QED BY <1>1, <1>2, <1>5, <3>2, Moves
    <3> QED BY <2>1, <3>1, <3>2
  <2>3. HistoryOK' /\ Recoverable' /\ ScriptsOK' /\ StagesKeep' /\ HalvesOK' /\ DOMAIN stack' = {1}
    BY <1>1, <1>2, <2>1, <2>2, ManageGoes DEF InstallStages, UpgradeStages
  <2>4. HostTypes'
    BY <1>2, <2>1, <2>2 DEF HostInv, HostTypes
  <2>5. SchemaOK'
    BY <1>1, <1>2, <1>3, <1>4, <2>1, <2>2, <2>3 DEF HostInv, SchemaOK, TopSchema, Running, Top
  <2>6. LegacyOK'
    BY <1>1, <1>2, <1>4, <2>1, <2>2 DEF HostInv, LegacyOK, Running, Top
  <2> QED BY <2>3, <2>4, <2>5, <2>6 DEF HostInv
<1>10. CASE BuildImages
  <2>1. f.at = "build" /\ Goto("up") /\ image' = release /\ UNCHANGED <<release, generated, imported, legacy>>
    BY <1>1, <1>10 DEF BuildImages, Top, disk
  <2>2. PICK g \in FrameKinds : g.op = f.op /\ g.at = "up" /\ g.pre = f.pre
             /\ stack' \in Seq(FrameKinds) /\ stack' # <<>> /\ Len(stack') = Len(stack) /\ stack'[1] = g
    BY <1>1, <1>2, <1>5, <2>1, Moves
  <2>3. HistoryOK' /\ Recoverable' /\ ScriptsOK' /\ StagesKeep' /\ HalvesOK' /\ DOMAIN stack' = {1}
    BY <1>1, <1>2, <2>1, <2>2, ManageGoes DEF InstallStages, UpgradeStages
  <2>4. HostTypes'
    BY <1>2, <1>4, <2>1, <2>2 DEF HostInv, HostTypes
  <2>5. SchemaOK'
    <3>1. apart = {} => release = NewRelease /\ schema <= image /\ (\A k \in DOMAIN saved : saved[k].schema <= image) /\ image <= release
      BY <1>2, <1>3, <2>1 DEF HostInv, SchemaOK, TopSchema, NewRelease
    <3>2. \A k \in DOMAIN saved : saved[k].schema \in Nat
      BY SavedFields DEF HostInv
    <3>3. apart = {} => schema <= release /\ \A k \in DOMAIN saved : saved[k].schema <= release
      BY <1>4, <3>1, <3>2
    <3> QED BY <1>1, <1>2, <1>3, <1>4, <2>1, <2>2, <2>3, <3>1, <3>3 DEF HostInv, SchemaOK, TopSchema, Running, Top, NewRelease
  <2>6. LegacyOK'
    BY <1>1, <1>2, <1>4, <2>1, <2>2 DEF HostInv, LegacyOK, Running, Top
  <2> QED BY <2>3, <2>4, <2>5, <2>6 DEF HostInv
<1> QED BY <1>6, <1>7, <1>8, <1>9, <1>10

(* docker compose up -d, after which no migration is newer than what runs.  *)
LEMMA StackUp ==
    ASSUME HostInv, ComposeUp, UNCHANGED image
    PROVE  /\ services' = "all" /\ runs' = image /\ mounted' = 0 /\ release # 0 /\ generated /\ runs' \in Nat /\ schema' \in Nat
           /\ mounted' \in 0 .. Len(failed)
           /\ apart = {} => schema' <= image
<1>1. image \in Nat /\ schema \in Nat /\ Len(failed) \in Nat
  BY DEF HostInv, HostTypes
<1>2. services' = "all" /\ runs' = image /\ mounted' = 0 /\ release # 0 /\ generated /\ schema' = IF image > schema THEN image ELSE schema
  BY DEF ComposeUp, ComposeWorks
<1>3. apart = {} => schema <= image
  BY DEF HostInv, SchemaOK
<1> QED BY <1>1, <1>2, <1>3

(* docker compose stop, after which nothing has data mounted.               *)
LEMMA StackDown ==
    ASSUME HostInv, ComposeStop
    PROVE  services' = "down" /\ mounted' = 0 /\ UNCHANGED runs /\ release # 0 /\ generated /\ mounted' \in 0 .. Len(failed)
<1>1. Len(failed) \in Nat
  BY DEF HostInv, HostTypes
<1> QED BY <1>1 DEF ComposeStop, ComposeWorks

(* The last script ends and leaves the data alone.                          *)
LEMMA ScriptEnds ==
    ASSUME HostInv, stack' = <<>>, UNCHANGED <<pg, zt, saved, failed, done, window>>, apart \subseteq apart',
           \/ "restore" \in apart'
           \/ stack = <<>>
           \/ stack[1].op # "restore"
           \/ stack[1].at \notin {"fill-postgres", "empty-zerotier", "fill-zerotier"}
    PROVE  HistoryOK' /\ Recoverable' /\ ScriptsOK' /\ StagesKeep' /\ HalvesOK' /\ stack' \in Seq(FrameKinds) /\ DOMAIN stack' = {}
<1>1. HistoryOK' /\ Recoverable'
  BY DataStill
<1>2. stack' \in Seq(FrameKinds) /\ DOMAIN stack' = {} /\ Len(stack') = 0
  OBVIOUS
<1>3. ScriptsOK'
  BY <1>2 DEF ScriptsOK
<1>4. StagesKeep'
  BY DEF StagesKeep
<1>5. HalvesOK'
  BY DEF HostInv, HalvesOK
<1> QED BY <1>1, <1>2, <1>3, <1>4, <1>5

(* A complete backup is there, and the services start again.                *)
LEMMA StartAfterBackupStep == ASSUME HostInv, StartAfterBackup PROVE HostInv'
<1>1. PICK f : f = stack[1]
  OBVIOUS
<1>2. /\ stack # <<>> /\ f.op = "backup" /\ f.at = "up" /\ ComposeUp /\ Return
      /\ UNCHANGED <<image, release, pg, zt, generated, imported, saved, failed, legacy, done, apart, window, hostFaults>>
  BY <1>1 DEF StartAfterBackup, Running, Top
<1>3. /\ stack \in Seq(FrameKinds) /\ 1 \in DOMAIN stack /\ Len(stack) \in {1, 2} /\ f \in FrameKinds
      /\ FrameOK(f) /\ TopKeeps(f)
  BY <1>1, <1>2, TopFacts
<1>4. /\ services' = "all" /\ runs' = image /\ mounted' = 0 /\ release # 0 /\ generated /\ runs' \in Nat /\ schema' \in Nat
      /\ mounted' \in 0 .. Len(failed)
      /\ apart = {} => schema' <= image
  BY <1>2, StackUp
<1>5. HistoryOK' /\ Recoverable'
  BY <1>2, DataStill
<1>6. ~(hostFaults = 0 /\ legacy = "running")
  BY <1>1, <1>2 DEF HostInv, LegacyOK, Running, Top
<1>7. CASE Len(stack) = 1
  <2>1. stack' = <<>>
    BY <1>2, <1>7 DEF Return
  <2>2. HistoryOK' /\ Recoverable' /\ ScriptsOK' /\ StagesKeep' /\ HalvesOK' /\ stack' \in Seq(FrameKinds) /\ DOMAIN stack' = {}
    BY <1>1, <1>2, <2>1, ScriptEnds
  <2>3. HostTypes'
    BY <1>2, <1>4, <2>2 DEF HostInv, HostTypes
  <2>4. SchemaOK'
    BY <1>1, <1>2, <1>4, <2>1, <2>2 DEF HostInv, SchemaOK, Running, Top
  <2>5. LegacyOK'
    BY <1>2, <1>6, <2>1 DEF LegacyOK, Running
  <2> QED BY <2>2, <2>3, <2>4, <2>5 DEF HostInv
<1>8. CASE Len(stack) = 2
  <2> PICK h : h = stack[2]
    OBVIOUS
  <2>1. /\ h \in FrameKinds /\ FrameOK(h)
        /\ \/ h.op = "restore" /\ h.at = "pre" /\ ~h.auto
           \/ h.op = "upgrade" /\ h.at = "backup"
    <3>1. 2 \in DOMAIN stack /\ h \in FrameKinds
      BY <1>3, <1>8
    <3>2. ScriptsOK
      BY DEF HostInv
    <3>3. FrameOK(h)
      BY <3>1, <3>2 DEF ScriptsOK
    <3> QED BY <1>8, <3>1, <3>2, <3>3 DEF ScriptsOK
  <2> DEFINE at == IF h.op = "restore" THEN "stop" ELSE "release"
             k == [h EXCEPT !.at = at, !.pre = f.id]
  <2>2. stack' = <<k>>
    BY <1>1, <1>2, <1>8 DEF Return, Top
  <2>3. at \in {"stop", "release"} /\ (h.op = "restore" => at = "stop") /\ (h.op = "upgrade" => at = "release") /\ f.id \in Nat
    BY <1>3 DEF FrameKinds
  <2> HIDE DEF at
  <2>4. k \in FrameKinds /\ k.op = h.op /\ k.at = at /\ k.id = h.id /\ k.pre = f.id /\ k.auto = h.auto
    BY <2>1, <2>3, Zenon DEF FrameKinds, BackupStages, UpgradeStages
  <2> PICK g \in FrameKinds : g = k
    BY <2>4
  <2>5. g.op = h.op /\ g.at = at /\ g.id = h.id /\ g.pre = f.id /\ g.auto = h.auto /\ stack' = <<g>>
    BY <2>2, <2>4
  <2> HIDE DEF k
  <2>6. stack' \in Seq(FrameKinds) /\ stack' # <<>> /\ Len(stack') = 1 /\ stack'[1] = g /\ DOMAIN stack' = {1}
    BY <2>5
  <2>7. HostTypes'
    BY <1>2, <1>4, <2>6 DEF HostInv, HostTypes
  <2>8. Complete(f.id)
    BY <1>2, <1>3 DEF FrameOK, Complete
  <2>9. FrameOK(g)'
    BY <1>2, <2>1, <2>3, <2>5, <2>8 DEF FrameOK, Complete, RestoreStages, UpgradeStages
  <2>10. ScriptsOK'
    BY <2>6, <2>9 DEF ScriptsOK
  <2>11. StagesKeep'
    BY <1>2, <1>3, <2>1, <2>3, <2>5, <2>6 DEF StagesKeep, TopKeeps
  <2>12. HalvesOK'
    BY <1>1, <1>2, <2>1, <2>3, <2>5, <2>6 DEF HostInv, HalvesOK, TopJoins
  <2>13. SchemaOK'
    BY <1>1, <1>2, <1>4, <2>1, <2>3, <2>5, <2>6 DEF HostInv, SchemaOK, TopSchema, Running, Top
  <2>14. LegacyOK'
    BY <1>2, <1>6, <2>1, <2>5, <2>6 DEF LegacyOK, Running, Top
  <2> QED BY <1>5, <2>7, <2>10, <2>11, <2>12, <2>13, <2>14 DEF HostInv
<1> QED BY <1>3, <1>7, <1>8

(* The stack starts with what a restore has put back.                       *)
LEMMA StartAfterRestoreStep == ASSUME HostInv, StartAfterRestore PROVE HostInv'
<1>1. PICK f : f = stack[1]
  OBVIOUS
<1>2. /\ stack # <<>> /\ f.op = "restore" /\ f.at = "up" /\ ComposeUp /\ stack' = <<>>
      /\ UNCHANGED <<image, release, pg, zt, generated, imported, saved, failed, legacy, done, apart, window, hostFaults>>
  BY <1>1 DEF StartAfterRestore, Running, Top
<1>3. /\ services' = "all" /\ runs' = image /\ mounted' = 0 /\ release # 0 /\ generated /\ runs' \in Nat /\ schema' \in Nat
      /\ mounted' \in 0 .. Len(failed)
      /\ apart = {} => schema' <= image
  BY <1>2, StackUp
<1>4. HistoryOK' /\ Recoverable' /\ ScriptsOK' /\ StagesKeep' /\ HalvesOK' /\ stack' \in Seq(FrameKinds) /\ DOMAIN stack' = {}
  BY <1>1, <1>2, ScriptEnds
<1>5. HostTypes'
  BY <1>2, <1>3, <1>4 DEF HostInv, HostTypes
<1>6. SchemaOK'
  BY <1>1, <1>2, <1>3, <1>4 DEF HostInv, SchemaOK, Running, Top
<1>7. LegacyOK'
  BY <1>1, <1>2 DEF HostInv, LegacyOK, Running, Top
<1> QED BY <1>4, <1>5, <1>6, <1>7 DEF HostInv

(* An install or an upgrade starts the stack with the new images, and ends. *)
LEMMA DeployStep == ASSUME HostInv, DeployAndStart \/ Succeed PROVE HostInv'
<1>1. PICK f : f = stack[1]
  OBVIOUS
<1>2. /\ stack # <<>> /\ f.op \in {"install", "upgrade"} /\ f.at \in {"up", "ps"}
      /\ UNCHANGED <<image, release, pg, zt, generated, imported, saved, failed, legacy, done, apart, window, hostFaults>>
  BY <1>1 DEF DeployAndStart, Succeed, Running, Top, disk
<1>3. /\ f \in FrameKinds /\ FrameOK(f) /\ Len(stack) = 1 /\ (apart = {} => TopSchema(f)) /\ 1 \in DOMAIN stack
  BY <1>1, <1>2, TopFacts
<1>4. CASE DeployAndStart
  <2>1. f.at = "up" /\ Goto("ps") /\ ComposeUp
    BY <1>1, <1>4 DEF DeployAndStart, Top
  <2>2. /\ services' = "all" /\ runs' = image /\ mounted' = 0 /\ release # 0 /\ generated /\ runs' \in Nat /\ schema' \in Nat
        /\ mounted' \in 0 .. Len(failed)
        /\ apart = {} => schema' <= image
    BY <1>2, <2>1, StackUp
  <2>3. "ps" \in AllStages
    BY DEF AllStages, UpgradeStages
  <2>4. PICK g \in FrameKinds : g.op = f.op /\ g.at = "ps" /\ g.pre = f.pre
             /\ stack' \in Seq(FrameKinds) /\ stack' # <<>> /\ Len(stack') = Len(stack) /\ stack'[1] = g
    BY <1>1, <1>2, <2>1, <2>3, Moves
  <2>5. HistoryOK' /\ Recoverable' /\ ScriptsOK' /\ StagesKeep' /\ HalvesOK' /\ DOMAIN stack' = {1}
    BY <1>1, <1>2, <2>1, <2>4, ManageGoes DEF InstallStages, UpgradeStages
  <2>6. HostTypes'
    BY <1>2, <2>2, <2>4 DEF HostInv, HostTypes
  <2>7. SchemaOK'
    BY <1>1, <1>2, <1>3, <2>1, <2>2, <2>4, <2>5 DEF HostInv, SchemaOK, TopSchema, Running, Top
  <2>8. LegacyOK'
    BY <1>1, <1>2, <2>1, <2>4 DEF HostInv, LegacyOK, Running, Top
  <2> QED BY <2>5, <2>6, <2>7, <2>8 DEF HostInv
<1>5. CASE Succeed
  <2>1. stack' = <<>> /\ f.at = "ps" /\ UNCHANGED <<services, runs, mounted, schema>>
    BY <1>1, <1>5 DEF Succeed, Top, disk
  <2>2. HistoryOK' /\ Recoverable' /\ ScriptsOK' /\ StagesKeep' /\ HalvesOK' /\ stack' \in Seq(FrameKinds) /\ DOMAIN stack' = {}
    BY <1>1, <1>2, <2>1, ScriptEnds
  <2>3. HostTypes'
    BY <1>2, <2>1, <2>2 DEF HostInv, HostTypes
  <2>4. SchemaOK'
    BY <1>1, <1>2, <2>1, <2>2 DEF HostInv, SchemaOK, Running, Top
  <2>5. LegacyOK'
    BY <1>1, <1>2, <2>1 DEF HostInv, LegacyOK, Running, Top
  <2> QED BY <2>2, <2>3, <2>4, <2>5 DEF HostInv
<1> QED BY <1>4, <1>5

(* A backup is added, or one that is there is written to.                   *)
LEMMA Appended ==
    ASSUME HostTypes, NEW b \in BackupKinds, saved' = Append(saved, b)
    PROVE  /\ saved' \in Seq(BackupKinds) /\ Len(saved') = Len(saved) + 1 /\ Len(saved) + 1 \in DOMAIN saved'
           /\ saved'[Len(saved) + 1] = b /\ Len(saved) + 1 \notin DOMAIN saved /\ Len(saved) + 1 \in Nat
           /\ \A k \in DOMAIN saved : k \in DOMAIN saved' /\ saved'[k] = saved[k]
           /\ \A k \in DOMAIN saved' : k \in DOMAIN saved \/ k = Len(saved) + 1
BY DEF HostTypes

(* One of the backups changes, the others do not.                           *)
LEMMA Rewritten ==
    ASSUME HostTypes, NEW i \in DOMAIN saved, NEW b \in BackupKinds, saved' = [saved EXCEPT ![i] = b]
    PROVE  /\ saved' \in Seq(BackupKinds) /\ DOMAIN saved' = DOMAIN saved
           /\ saved'[i] = b /\ \A k \in DOMAIN saved : k # i => saved'[k] = saved[k]
BY DEF HostTypes

(* Complete backups stay as they are.                                       *)
LEMMA SavedGoes ==
    ASSUME HostInv, UNCHANGED <<pg, zt, failed, done, window>>, saved' \in Seq(BackupKinds),
           \A k \in DOMAIN saved : k \in DOMAIN saved' /\
               (saved[k].sums => saved'[k].sums /\ saved'[k].pg = saved[k].pg /\ saved'[k].zt = saved[k].zt)
    PROVE  Recoverable' /\ (AllElsewhere => AllElsewhere') /\ \A k \in DOMAIN saved : Complete(k) => Complete(k)'
<1>1. \A w : Elsewhere(w) => Elsewhere(w)'
  BY DEF Elsewhere
<1>2. Recoverable
  BY DEF HostInv
<1>3. Recoverable'
  BY <1>1, <1>2 DEF Recoverable, Elsewhere
<1>4. AllElsewhere => AllElsewhere'
  BY <1>1 DEF AllElsewhere
<1>5. \A k \in DOMAIN saved : Complete(k) => Complete(k)'
  BY DEF Complete
<1> QED BY <1>3, <1>4, <1>5

(* backup.sh dumps the database that the containers have mounted.           *)
LEMMA DumpStep == ASSUME HostInv, Dump PROVE HostInv'
<1>1. PICK f : f = stack[1]
  OBVIOUS
<1> DEFINE b == [dump |-> MountedPg, pg |-> {}, zt |-> {}, schema |-> 0, dumped |-> MountedSchema,
                 sums |-> FALSE, release |-> 0, hot |-> [pg |-> {}, zt |-> {}]]
           n == Len(saved) + 1
           h == [f EXCEPT !.at = "stop", !.id = n]
<1>2. /\ stack # <<>> /\ f.op = "backup" /\ f.at = "dump" /\ ComposeWorks
      /\ saved' = Append(saved, b) /\ stack' = <<h>> \o Tail(stack)
      /\ UNCHANGED <<services, runs, image, release, pg, zt, schema, generated, imported, failed, legacy,
                     mounted, done, apart, window, hostFaults>>
  BY <1>1 DEF Dump, Running, Top
<1>3. /\ stack \in Seq(FrameKinds) /\ 1 \in DOMAIN stack /\ Len(stack) \in {1, 2} /\ f \in FrameKinds
      /\ FrameOK(f) /\ TopKeeps(f)
  BY <1>1, <1>2, TopFacts
<1>4. HostTypes /\ HistoryOK
  BY DEF HostInv
<1>5. MountedPg \in SUBSET Nat /\ MountedPg \subseteq done /\ MountedSchema \in Nat
  <2>1. CASE mounted = 0
    BY <1>4, <2>1 DEF MountedPg, MountedSchema, HostTypes, HistoryOK
  <2>2. CASE mounted # 0
    <3>1. mounted \in DOMAIN failed /\ failed[mounted] \in FailedKinds
      BY <1>4, <2>2 DEF HostTypes
    <3> QED BY <1>4, <2>2, <3>1 DEF MountedPg, MountedSchema, HistoryOK, FailedKinds
  <2> QED BY <2>1, <2>2
<1>6. b \in BackupKinds /\ b.pg = {} /\ b.zt = {} /\ b.dump \subseteq done /\ b.hot.pg = {} /\ b.hot.zt = {} /\ ~b.sums /\ b.schema = 0
  BY <1>5 DEF BackupKinds, Directories
<1> HIDE DEF b
<1>7. /\ saved' \in Seq(BackupKinds) /\ n \in DOMAIN saved' /\ saved'[n] = b /\ n \notin DOMAIN saved /\ n \in Nat
      /\ \A k \in DOMAIN saved : k \in DOMAIN saved' /\ saved'[k] = saved[k]
      /\ \A k \in DOMAIN saved' : k \in DOMAIN saved \/ k = n
  BY <1>2, <1>4, <1>6, Appended
<1> HIDE DEF n
<1>8. h \in FrameKinds /\ h.op = f.op /\ h.at = "stop" /\ h.id = n /\ h.restart = f.restart
  BY <1>3, <1>7, Zenon DEF FrameKinds, BackupStages
<1>9. PICK g \in FrameKinds : g = h
  BY <1>8
<1>10. g.op = "backup" /\ g.at = "stop" /\ g.id = n /\ stack' = <<g>> \o Tail(stack)
  BY <1>2, <1>8, <1>9
<1> HIDE DEF h
<1>11. /\ stack' \in Seq(FrameKinds) /\ stack' # <<>> /\ Len(stack') = Len(stack) /\ stack'[1] = g
       /\ \A i \in 2 .. Len(stack) : stack'[i] = stack[i]
  BY <1>2, <1>3, <1>10, Replaced
<1>12. HostTypes'
  BY <1>2, <1>7, <1>11 DEF HostInv, HostTypes
<1>13. HistoryOK'
  BY <1>2, <1>4, <1>6, <1>7 DEF HistoryOK
<1>14. Recoverable' /\ (AllElsewhere => AllElsewhere') /\ \A k \in DOMAIN saved : Complete(k) => Complete(k)'
  BY <1>2, <1>7, SavedGoes
<1>15. FrameOK(g)'
  BY <1>6, <1>7, <1>10 DEF FrameOK, BackupStages
<1>16. ScriptsOK'
  BY <1>1, <1>2, <1>10, <1>11, <1>14, <1>15, ScriptsGo
<1>17. StagesKeep'
  BY <1>10, <1>11 DEF StagesKeep, TopKeeps
<1>18. HalvesOK'
  BY <1>1, <1>2, <1>6, <1>7, <1>10, <1>11 DEF HostInv, HalvesOK, TopJoins
<1>19. SchemaOK'
  <2>1. image \in Nat
    BY <1>4 DEF HostTypes
  <2>2. \A i \in DOMAIN stack' : i \in DOMAIN stack /\ stack'[i].op = stack[i].op
    BY <1>1, <1>2, <1>3, <1>10, <1>11
  <2>3. \A k \in DOMAIN saved' : saved'[k].schema = 0 \/ (k \in DOMAIN saved /\ saved'[k] = saved[k])
    BY <1>6, <1>7
  <2> QED BY <1>1, <1>2, <1>10, <1>11, <2>1, <2>2, <2>3 DEF HostInv, SchemaOK, TopSchema, Running, Top
<1>20. LegacyOK'
  <2>1. ~(hostFaults = 0 /\ legacy = "running")
    BY <1>1, <1>2 DEF HostInv, LegacyOK, ComposeWorks, Running, Top
  <2> QED BY <1>2, <1>10, <1>11, <2>1 DEF LegacyOK, Running, Top
<1> QED BY <1>12, <1>13, <1>14, <1>16, <1>17, <1>18, <1>19, <1>20 DEF HostInv

(* backup.sh stops the services.                                            *)
LEMMA StopForBackupStep == ASSUME HostInv, StopForBackup PROVE HostInv'
<1>1. PICK f : f = stack[1]
  OBVIOUS
<1> DEFINE h == [f EXCEPT !.at = "postgres", !.restart = TRUE]
<1>2. /\ stack # <<>> /\ f.op = "backup" /\ f.at = "stop" /\ ComposeStop /\ stack' = <<h>> \o Tail(stack)
      /\ UNCHANGED <<image, release, pg, zt, schema, generated, imported, saved, failed, legacy, done, apart, window, hostFaults>>
  BY <1>1 DEF StopForBackup, Running, Top, disk
<1>3. /\ stack \in Seq(FrameKinds) /\ 1 \in DOMAIN stack /\ Len(stack) \in {1, 2} /\ f \in FrameKinds
      /\ FrameOK(f) /\ TopKeeps(f)
  BY <1>1, <1>2, TopFacts
<1>4. services' = "down" /\ mounted' = 0 /\ UNCHANGED runs /\ mounted' \in 0 .. Len(failed)
  BY <1>2, StackDown
<1>5. h \in FrameKinds /\ h.op = f.op /\ h.at = "postgres" /\ h.id = f.id
  BY <1>3, Zenon DEF FrameKinds, BackupStages
<1>6. PICK g \in FrameKinds : g = h
  BY <1>5
<1>7. g.op = "backup" /\ g.at = "postgres" /\ g.id = f.id /\ stack' = <<g>> \o Tail(stack)
  BY <1>2, <1>5, <1>6
<1> HIDE DEF h
<1>8. /\ stack' \in Seq(FrameKinds) /\ stack' # <<>> /\ Len(stack') = Len(stack) /\ stack'[1] = g
      /\ \A i \in 2 .. Len(stack) : stack'[i] = stack[i]
  BY <1>2, <1>3, <1>7, Replaced
<1>9. HistoryOK' /\ Recoverable'
  BY <1>2, DataStill
<1>10. HostTypes'
  BY <1>2, <1>4, <1>8 DEF HostInv, HostTypes
<1>11. FrameOK(g)'
  BY <1>2, <1>3, <1>7 DEF FrameOK, BackupStages
<1>12. ScriptsOK'
  BY <1>1, <1>2, <1>7, <1>8, <1>11, ScriptsGo DEF Complete
<1>13. StagesKeep'
  BY <1>4, <1>7, <1>8 DEF StagesKeep, TopKeeps
<1>14. HalvesOK'
  BY <1>1, <1>2, <1>7, <1>8 DEF HostInv, HalvesOK, TopJoins
<1>15. SchemaOK'
  <2>1. \A i \in DOMAIN stack' : i \in DOMAIN stack /\ stack'[i].op = stack[i].op
    BY <1>1, <1>2, <1>3, <1>7, <1>8
  <2> QED BY <1>1, <1>2, <1>4, <1>7, <1>8, <2>1 DEF HostInv, SchemaOK, TopSchema, Running, Top
<1>16. LegacyOK'
  BY <1>1, <1>2, <1>7, <1>8 DEF HostInv, LegacyOK, Running, Top
<1> QED BY <1>9, <1>10, <1>12, <1>13, <1>14, <1>15, <1>16 DEF HostInv

(* backup.sh writes a part of the backup.                                   *)
Writes(from, to, b, old) ==
    /\ b.dump = old.dump /\ b.hot = old.hot
    /\ \/ /\ from = "postgres" /\ to = "zerotier"
          /\ b.pg = pg /\ b.schema = schema /\ b.zt = old.zt /\ b.sums = old.sums
       \/ /\ from = "zerotier" /\ to = "config"
          /\ b.pg = old.pg /\ b.schema = old.schema /\ b.zt = zt /\ b.sums = old.sums
       \/ /\ from = "config" /\ to = "up" /\ generated
          /\ b.pg = old.pg /\ b.schema = old.schema /\ b.zt = old.zt /\ b.sums = TRUE

(* backup.sh goes on after it has written a part of its backup.             *)
LEMMA ArchiveGoes ==
    ASSUME HostInv, stack # <<>>, NEW f, f = stack[1], f.op = "backup", NEW at \in AllStages, Goto(at),
           NEW i, i = f.id, i \in DOMAIN saved, NEW b \in BackupKinds, saved' = [saved EXCEPT ![i] = b],
           Writes(f.at, at, b, saved[i]),
           UNCHANGED <<services, runs, image, release, pg, zt, schema, generated, imported, failed, legacy,
                       mounted, done, apart, window, hostFaults>>
    PROVE  HostInv'
<1>1. /\ stack \in Seq(FrameKinds) /\ 1 \in DOMAIN stack /\ Len(stack) \in {1, 2} /\ f \in FrameKinds
      /\ FrameOK(f) /\ TopKeeps(f)
  BY TopFacts
<1>2. HostTypes /\ HistoryOK
  BY DEF HostInv
<1> USE DEF Writes
<1>3. PICK g \in FrameKinds :
             /\ g.op = f.op /\ g.at = at /\ g.id = f.id
             /\ stack' \in Seq(FrameKinds) /\ stack' # <<>> /\ Len(stack') = Len(stack) /\ stack'[1] = g
             /\ \A j \in 2 .. Len(stack) : stack'[j] = stack[j]
  BY Moves
<1>4. /\ saved' \in Seq(BackupKinds) /\ DOMAIN saved' = DOMAIN saved
      /\ saved'[i] = b /\ \A k \in DOMAIN saved : k # i => saved'[k] = saved[k]
  BY <1>2, Rewritten
<1>5. ~saved[i].sums
  BY <1>1 DEF FrameOK, BackupStages
<1>6. HostTypes'
  BY <1>2, <1>3, <1>4 DEF HostTypes
<1>7. HistoryOK'
  <2>1. b.pg \subseteq done /\ b.zt \subseteq done /\ b.dump \subseteq done /\ b.hot.pg \subseteq done /\ b.hot.zt \subseteq done
    BY <1>2 DEF HistoryOK
  <2> QED BY <1>2, <1>4, <2>1 DEF HistoryOK
<1>8. Recoverable' /\ \A k \in DOMAIN saved : Complete(k) => Complete(k)'
  BY <1>4, <1>5, SavedGoes
<1>9. FrameOK(g)'
  BY <1>1, <1>3, <1>4, <1>5 DEF FrameOK, BackupStages
<1>10. ScriptsOK'
  BY <1>3, <1>8, <1>9, ScriptsGo
<1>11. StagesKeep'
  BY <1>1, <1>3, <1>4 DEF StagesKeep, TopKeeps
<1>12. HalvesOK'
  <2>1. "restore" \notin apart => pg = zt
    BY DEF HostInv, HalvesOK
  <2>2. at = "up" => b.pg = pg /\ b.zt = zt
    BY <1>1 DEF TopKeeps
  <2>3. b.sums => at = "up"
    BY <1>5
  <2> QED BY <1>3, <1>4, <2>1, <2>2, <2>3 DEF HostInv, HalvesOK, TopJoins
<1>13. SchemaOK'
  <2>1. \A j \in DOMAIN stack' : j \in DOMAIN stack /\ stack'[j].op = stack[j].op
    BY <1>1, <1>3
  <2> QED BY <1>3, <1>4, <2>1 DEF HostInv, SchemaOK, TopSchema, Running, Top
<1>14. LegacyOK'
  <2>1. ~(hostFaults = 0 /\ legacy = "running")
    BY DEF HostInv, LegacyOK, Running, Top
  <2> QED BY <1>3, <2>1 DEF LegacyOK, Running, Top
<1> QED BY <1>6, <1>7, <1>8, <1>10, <1>11, <1>12, <1>13, <1>14 DEF HostInv

(* backup.sh archives the database, the controller and the checksums.       *)
LEMMA ArchiveStep == ASSUME HostInv, Archive PROVE HostInv'
<1>1. PICK f : f = stack[1]
  OBVIOUS
<1>2. /\ stack # <<>> /\ f.op = "backup" /\ f.at \in {"postgres", "zerotier", "config"}
      /\ UNCHANGED <<services, runs, image, release, pg, zt, schema, generated, imported, failed, legacy,
                     mounted, done, apart, window, hostFaults>>
  BY <1>1 DEF Archive, Top
<1>3. FrameOK(f)
  BY <1>1, <1>2, TopFacts
<1>4. PICK i : i = f.id
  OBVIOUS
<1>5. i \in DOMAIN saved
  BY <1>2, <1>3, <1>4 DEF FrameOK
<1>6. /\ saved \in Seq(BackupKinds) /\ saved[i] \in BackupKinds /\ pg \in SUBSET Nat /\ zt \in SUBSET Nat /\ schema \in Nat
      /\ generated \in BOOLEAN
  BY <1>5 DEF HostInv, HostTypes
<1>7. {"zerotier", "config", "up"} \subseteq AllStages
  BY DEF AllStages, BackupStages
<1>8. CASE f.at = "postgres"
  <2> DEFINE d == [saved[i] EXCEPT !.pg = pg, !.schema = schema]
  <2>1. d \in BackupKinds /\ d.pg = pg /\ d.schema = schema /\ d.zt = saved[i].zt /\ d.sums = saved[i].sums
        /\ d.dump = saved[i].dump /\ d.hot = saved[i].hot
    BY <1>6, Zenon DEF BackupKinds
  <2>2. saved' = [saved EXCEPT ![i].pg = pg, ![i].schema = schema] /\ Goto("zerotier")
    BY <1>1, <1>4, <1>8 DEF Archive, Top
  <2>3. saved' = [saved EXCEPT ![i] = d]
    BY <1>5, <1>6, <2>2, Zenon
  <2> PICK b \in BackupKinds : b = d
    BY <2>1
  <2>4. saved' = [saved EXCEPT ![i] = b] /\ b.pg = pg /\ b.schema = schema /\ b.zt = saved[i].zt /\ b.sums = saved[i].sums
        /\ b.dump = saved[i].dump /\ b.hot = saved[i].hot
    BY <2>1, <2>3
  <2> HIDE DEF d
  <2>5. Writes(f.at, "zerotier", b, saved[i])
    BY <1>8, <2>2, <2>4 DEF Writes
  <2>6. "zerotier" \in AllStages /\ Goto("zerotier") /\ saved' = [saved EXCEPT ![i] = b]
    BY <1>7, <2>2, <2>4
  <2> QED BY <1>1, <1>2, <1>4, <1>5, <2>5, <2>6, ArchiveGoes
<1>9. CASE f.at = "zerotier"
  <2> DEFINE d == [saved[i] EXCEPT !.zt = zt]
  <2>1. d \in BackupKinds /\ d.pg = saved[i].pg /\ d.schema = saved[i].schema /\ d.zt = zt /\ d.sums = saved[i].sums
        /\ d.dump = saved[i].dump /\ d.hot = saved[i].hot
    BY <1>6, Zenon DEF BackupKinds
  <2>2. saved' = [saved EXCEPT ![i].zt = zt] /\ Goto("config")
    BY <1>1, <1>4, <1>9 DEF Archive, Top
  <2>3. saved' = [saved EXCEPT ![i] = d]
    BY <1>5, <1>6, <2>2, Zenon
  <2> PICK b \in BackupKinds : b = d
    BY <2>1
  <2>4. saved' = [saved EXCEPT ![i] = b] /\ b.pg = saved[i].pg /\ b.schema = saved[i].schema /\ b.zt = zt
        /\ b.sums = saved[i].sums /\ b.dump = saved[i].dump /\ b.hot = saved[i].hot
    BY <2>1, <2>3
  <2> HIDE DEF d
  <2>5. Writes(f.at, "config", b, saved[i])
    BY <1>9, <2>2, <2>4 DEF Writes
  <2>6. "config" \in AllStages /\ Goto("config") /\ saved' = [saved EXCEPT ![i] = b]
    BY <1>7, <2>2, <2>4
  <2> QED BY <1>1, <1>2, <1>4, <1>5, <2>5, <2>6, ArchiveGoes
<1>10. CASE f.at = "config"
  <2> DEFINE d == [saved[i] EXCEPT !.sums = TRUE]
  <2>1. d \in BackupKinds /\ d.pg = saved[i].pg /\ d.schema = saved[i].schema /\ d.zt = saved[i].zt /\ d.sums = TRUE
        /\ d.dump = saved[i].dump /\ d.hot = saved[i].hot
    BY <1>6, Zenon DEF BackupKinds
  <2>2. saved' = [saved EXCEPT ![i].sums = TRUE] /\ Goto("up") /\ generated
    BY <1>1, <1>4, <1>10 DEF Archive, Top
  <2>3. saved' = [saved EXCEPT ![i] = d]
    BY <1>5, <1>6, <2>2, Zenon
  <2> PICK b \in BackupKinds : b = d
    BY <2>1
  <2>4. saved' = [saved EXCEPT ![i] = b] /\ b.pg = saved[i].pg /\ b.schema = saved[i].schema /\ b.zt = saved[i].zt
        /\ b.sums = TRUE /\ b.dump = saved[i].dump /\ b.hot = saved[i].hot
    BY <2>1, <2>3
  <2> HIDE DEF d
  <2>5. Writes(f.at, "up", b, saved[i])
    BY <1>10, <2>2, <2>4 DEF Writes
  <2>6. "up" \in AllStages /\ Goto("up") /\ saved' = [saved EXCEPT ![i] = b]
    BY <1>7, <2>2, <2>4
  <2> QED BY <1>1, <1>2, <1>4, <1>5, <2>5, <2>6, ArchiveGoes
<1> QED BY <1>2, <1>8, <1>9, <1>10

(* restore.sh stops the services; what users changed since its recovery     *)
(* point was taken is lost.                                                 *)
LEMMA StopForRestoreStep == ASSUME HostInv, StopForRestore PROVE HostInv'
<1>1. PICK f : f = stack[1]
  OBVIOUS
<1>2. /\ stack # <<>> /\ f.op = "restore" /\ f.at = "stop" /\ ComposeStop /\ Goto("empty-postgres")
      /\ window' = window \cup (IF f.pre = 0 THEN {} ELSE pg \ saved[f.pre].pg)
      /\ UNCHANGED <<image, release, pg, zt, schema, generated, imported, saved, failed, legacy, done, apart, hostFaults>>
  BY <1>1 DEF StopForRestore, Running, Top, disk
<1>3. /\ stack \in Seq(FrameKinds) /\ 1 \in DOMAIN stack /\ Len(stack) = 1 /\ f \in FrameKinds
      /\ FrameOK(f) /\ TopKeeps(f)
  BY <1>1, <1>2, TopFacts
<1>4. services' = "down" /\ mounted' = 0 /\ UNCHANGED runs /\ mounted' \in 0 .. Len(failed)
  BY <1>2, StackDown
<1>5. "empty-postgres" \in AllStages
  BY DEF AllStages, RestoreStages
<1>6. PICK g \in FrameKinds :
             /\ g.op = f.op /\ g.at = "empty-postgres" /\ g.id = f.id /\ g.pre = f.pre /\ g.auto = f.auto
             /\ stack' \in Seq(FrameKinds) /\ stack' # <<>> /\ Len(stack') = Len(stack) /\ stack'[1] = g
             /\ \A j \in 2 .. Len(stack) : stack'[j] = stack[j]
  BY <1>1, <1>2, <1>5, Moves
<1>7. pg \subseteq done /\ pg \in SUBSET Nat /\ window \in SUBSET Nat
  BY DEF HostInv, HistoryOK, HostTypes
<1>8. window \subseteq window' /\ window' \in SUBSET Nat
  BY <1>2, <1>7
<1>9. HostTypes'
  BY <1>2, <1>4, <1>6, <1>8 DEF HostInv, HostTypes
<1>10. HistoryOK'
  BY <1>2 DEF HostInv, HistoryOK
<1>11. \A w : Elsewhere(w) => Elsewhere(w)'
  BY <1>2 DEF Elsewhere
<1>12. Recoverable
  BY DEF HostInv
<1>13. AllElsewhere'
  <2> SUFFICES ASSUME NEW w \in done \ window' PROVE Elsewhere(w)
    BY <1>2, <1>11 DEF AllElsewhere
  <2>1. w \in done \ window
    BY <1>8
  <2>2. w \in pg \cap zt \/ Elsewhere(w)
    BY <1>12, <2>1 DEF Recoverable, Elsewhere
  <2>3. CASE f.auto
    BY <1>2, <1>3, <2>1, <2>3 DEF TopKeeps, AllElsewhere
  <2>4. CASE ~f.auto /\ w \in pg \cap zt
    <3>1. Complete(f.pre)
      BY <1>2, <1>3, <2>4 DEF FrameOK
    <3>2. f.pre # 0
      BY <3>1 DEF Complete, HostInv, HostTypes
    <3>3. w \in saved[f.pre].pg
      BY <1>2, <2>4, <3>2
    <3>4. w \in saved[f.pre].zt
      BY <1>2, <1>3, <2>4, <3>3 DEF TopKeeps
    <3> QED BY <3>1, <3>3, <3>4 DEF Complete, Elsewhere
  <2> QED BY <2>2, <2>3, <2>4
<1>14. Recoverable'
  BY <1>13 DEF AllElsewhere, Elsewhere, Recoverable
<1>15. FrameOK(g)'
  BY <1>2, <1>3, <1>6 DEF FrameOK, Complete, RestoreStages
<1>16. ScriptsOK'
  BY <1>1, <1>2, <1>3, <1>6, <1>15, ScriptsGo DEF Complete
<1>17. StagesKeep'
  BY <1>4, <1>6, <1>13, <1>2 DEF StagesKeep, TopKeeps
<1>18. HalvesOK'
  BY <1>1, <1>2, <1>6 DEF HostInv, HalvesOK, TopJoins
<1>19. SchemaOK'
  <2>1. \A j \in DOMAIN stack' : j \in DOMAIN stack /\ stack'[j].op = stack[j].op
    BY <1>1, <1>3, <1>6
  <2> QED BY <1>1, <1>2, <1>4, <1>6, <2>1 DEF HostInv, SchemaOK, TopSchema, Running, Top
<1>20. LegacyOK'
  BY <1>1, <1>2, <1>6 DEF HostInv, LegacyOK, Running, Top
<1> QED BY <1>9, <1>10, <1>14, <1>16, <1>17, <1>18, <1>19, <1>20 DEF HostInv

(* The halves of a change at a command of restore.sh.                       *)
JoinsAt(at, b) ==
    /\ at \in {"empty-zerotier", "fill-zerotier", "drop-config", "put-config", "postgres", "load"} => pg = b.pg
    /\ at \in {"drop-config", "put-config", "postgres", "load", "up"} => zt = b.zt
    /\ at \notin {"fill-postgres", "empty-zerotier", "fill-zerotier"} => pg = zt

(* restore.sh goes on while nobody works.                                   *)
LEMMA RestoreGoes ==
    ASSUME HostInv, stack # <<>>, NEW f, f = stack[1], f.op = "restore", f.at \notin {"pre", "stop"},
           NEW at \in RestoreStages \ {"pre", "stop"}, Goto(at),
           services' \in {"down", "postgres"}, pg' \subseteq done, zt' \subseteq done, schema' \in Nat, generated' \in BOOLEAN,
           apart \subseteq apart', apart' \subseteq {"restore", "images"},
           "restore" \notin apart' => JoinsAt(at, saved[f.id])',
           apart' = {} => schema' <= image,
           UNCHANGED <<runs, image, release, imported, saved, failed, legacy, mounted, done, window, hostFaults>>
    PROVE  HostInv'
<1>1. /\ stack \in Seq(FrameKinds) /\ 1 \in DOMAIN stack /\ Len(stack) = 1 /\ f \in FrameKinds
      /\ FrameOK(f) /\ TopKeeps(f)
  BY TopFacts
<1>2. at \in AllStages
  BY DEF AllStages
<1>3. PICK g \in FrameKinds :
             /\ g.op = f.op /\ g.at = at /\ g.id = f.id /\ g.pre = f.pre /\ g.auto = f.auto
             /\ stack' \in Seq(FrameKinds) /\ stack' # <<>> /\ Len(stack') = Len(stack) /\ stack'[1] = g
             /\ \A j \in 2 .. Len(stack) : stack'[j] = stack[j]
  BY <1>2, Moves
<1>4. AllElsewhere
  BY <1>1 DEF TopKeeps
<1>5. done \subseteq Nat
  BY DEF HostInv, HistoryOK
<1>6. HostTypes'
  BY <1>3, <1>5 DEF HostInv, HostTypes
<1>7. HistoryOK'
  BY DEF HostInv, HistoryOK
<1>8. AllElsewhere'
  BY <1>4 DEF AllElsewhere, Elsewhere
<1>9. Recoverable'
  BY <1>8 DEF AllElsewhere, Elsewhere, Recoverable
<1>10. FrameOK(g)'
  BY <1>1, <1>3 DEF FrameOK, Complete
<1>11. ScriptsOK'
  BY <1>1, <1>3, <1>10, ScriptsGo DEF Complete
<1>12. StagesKeep'
  BY <1>3, <1>8 DEF StagesKeep, TopKeeps
<1>13. HalvesOK'
  <2> SUFFICES ASSUME "restore" \notin apart' PROVE HalvesOK'
    BY DEF HalvesOK
  <2>1. JoinsAt(at, saved[f.id])'
    OBVIOUS
  <2>2. \A k \in DOMAIN saved : saved[k].sums => saved[k].pg = saved[k].zt
    BY DEF HostInv, HalvesOK
  <2>3. TopJoins(g)'
    BY <1>3, <2>1 DEF TopJoins, JoinsAt
  <2>4. pg' = zt' \/ at \in {"fill-postgres", "empty-zerotier", "fill-zerotier"}
    BY <2>1 DEF JoinsAt
  <2> QED BY <1>3, <2>2, <2>3, <2>4 DEF HalvesOK
<1>14. SchemaOK'
  <2>1. DOMAIN stack' = {1}
    BY <1>1, <1>3
  <2> QED BY <1>3, <2>1 DEF HostInv, SchemaOK, TopSchema, Running, Top
<1>15. LegacyOK'
  <2>1. ~(hostFaults = 0 /\ legacy = "running")
    BY DEF HostInv, LegacyOK, Running, Top
  <2> QED BY <1>3, <2>1 DEF LegacyOK, Running, Top
<1> QED BY <1>6, <1>7, <1>9, <1>11, <1>12, <1>13, <1>14, <1>15 DEF HostInv

(* restore.sh empties and fills the directories, puts the configuration     *)
(* back and loads the dump.                                                 *)
LEMMA RestoreStep == ASSUME HostInv, RestoreBindDirectory \/ RestoreConfig \/ RestoreDatabase PROVE HostInv'
<1>1. PICK f : f = stack[1]
  OBVIOUS
<1>2. /\ stack # <<>> /\ f.op = "restore" /\ f.at \notin {"pre", "stop"}
      /\ UNCHANGED <<runs, image, release, imported, saved, failed, legacy, mounted, done, window, hostFaults>>
  BY <1>1 DEF RestoreBindDirectory, RestoreConfig, RestoreDatabase, Top
<1>3. FrameOK(f) /\ TopKeeps(f) /\ ("restore" \notin apart => TopJoins(f))
  BY <1>1, <1>2, TopFacts
<1>4. PICK b : b = saved[f.id]
  OBVIOUS
<1>5. f.id \in DOMAIN saved /\ saved[f.id].sums
  BY <1>2, <1>3 DEF FrameOK, Complete
<1>6. /\ b.pg \subseteq done /\ b.zt \subseteq done /\ b.dump \subseteq done /\ b.schema \in Nat /\ b.dumped \in Nat
      /\ ("restore" \notin apart => b.pg = b.zt)
      /\ (apart = {} => b.schema <= image)
  <2>1. HostTypes /\ HistoryOK /\ HalvesOK /\ SchemaOK
    BY DEF HostInv
  <2> QED BY <1>4, <1>5, <2>1, SavedFields DEF HistoryOK, HalvesOK, SchemaOK
<1>7. /\ services \in {"down", "postgres"} /\ pg \subseteq done /\ zt \subseteq done /\ schema \in Nat /\ image \in Nat
      /\ generated \in BOOLEAN /\ apart \subseteq {"restore", "images"} /\ (apart = {} => schema <= image)
  BY <1>2, <1>3 DEF HostInv, HostTypes, HistoryOK, SchemaOK, TopKeeps
<1>8. "restore" \notin apart =>
        /\ f.at \in {"empty-zerotier", "fill-zerotier", "drop-config", "put-config", "postgres", "load"} => pg = b.pg
        /\ f.at \in {"drop-config", "put-config", "postgres", "load", "up"} => zt = b.zt
  BY <1>2, <1>3, <1>4 DEF TopJoins
<1>9. CASE RestoreBindDirectory /\ f.at = "empty-postgres"
  <2>1. Goto("fill-postgres") /\ pg' = {} /\ schema' = 0 /\ UNCHANGED <<zt, services, generated, apart>>
    BY <1>1, <1>9 DEF RestoreBindDirectory, Top
  <2>2. JoinsAt("fill-postgres", saved[f.id])'
    BY DEF JoinsAt
  <2>3. "fill-postgres" \in RestoreStages \ {"pre", "stop"}
    BY DEF RestoreStages
  <2>4. pg' \subseteq done /\ zt' \subseteq done /\ schema' \in Nat /\ services' \in {"down", "postgres"} /\ schema' <= image
        /\ generated' \in BOOLEAN /\ apart' \subseteq {"restore", "images"} /\ apart \subseteq apart'
    BY <1>7, <2>1
  <2> QED BY <1>1, <1>2, <2>1, <2>2, <2>3, <2>4, RestoreGoes
<1>10. CASE RestoreBindDirectory /\ f.at = "fill-postgres"
  <2>1. Goto("empty-zerotier") /\ pg' = b.pg /\ schema' = b.schema /\ UNCHANGED <<zt, services, generated, apart>>
    BY <1>1, <1>4, <1>10 DEF RestoreBindDirectory, Top
  <2>2. JoinsAt("empty-zerotier", saved[f.id])'
    BY <1>2, <1>4, <2>1 DEF JoinsAt
  <2>3. "empty-zerotier" \in RestoreStages \ {"pre", "stop"}
    BY DEF RestoreStages
  <2>4. pg' \subseteq done /\ zt' \subseteq done /\ schema' \in Nat /\ services' \in {"down", "postgres"}
        /\ (apart' = {} => schema' <= image) /\ generated' \in BOOLEAN /\ apart' \subseteq {"restore", "images"} /\ apart \subseteq apart'
    BY <1>6, <1>7, <2>1
  <2> QED BY <1>1, <1>2, <2>1, <2>2, <2>3, <2>4, RestoreGoes
<1>11. CASE RestoreBindDirectory /\ f.at = "empty-zerotier"
  <2>1. Goto("fill-zerotier") /\ zt' = {} /\ UNCHANGED <<pg, schema, services, generated, apart>>
    BY <1>1, <1>11 DEF RestoreBindDirectory, Top
  <2>2. "restore" \notin apart' => JoinsAt("fill-zerotier", saved[f.id])'
    BY <1>2, <1>4, <1>8, <1>11, <2>1 DEF JoinsAt
  <2>3. "fill-zerotier" \in RestoreStages \ {"pre", "stop"}
    BY DEF RestoreStages
  <2>4. pg' \subseteq done /\ zt' \subseteq done /\ schema' \in Nat /\ services' \in {"down", "postgres"}
        /\ (apart' = {} => schema' <= image) /\ generated' \in BOOLEAN /\ apart' \subseteq {"restore", "images"} /\ apart \subseteq apart'
    BY <1>7, <2>1
  <2> QED BY <1>1, <1>2, <2>1, <2>2, <2>3, <2>4, RestoreGoes
<1>12. CASE RestoreBindDirectory /\ f.at = "fill-zerotier"
  <2>1. Goto("drop-config") /\ zt' = b.zt /\ UNCHANGED <<pg, schema, services, generated, apart>>
    BY <1>1, <1>4, <1>12 DEF RestoreBindDirectory, Top
  <2>2. "restore" \notin apart' => JoinsAt("drop-config", saved[f.id])'
    BY <1>2, <1>4, <1>6, <1>8, <1>12, <2>1 DEF JoinsAt
  <2>3. "drop-config" \in RestoreStages \ {"pre", "stop"}
    BY DEF RestoreStages
  <2>4. pg' \subseteq done /\ zt' \subseteq done /\ schema' \in Nat /\ services' \in {"down", "postgres"}
        /\ (apart' = {} => schema' <= image) /\ generated' \in BOOLEAN /\ apart' \subseteq {"restore", "images"} /\ apart \subseteq apart'
    BY <1>6, <1>7, <2>1
  <2> QED BY <1>1, <1>2, <2>1, <2>2, <2>3, <2>4, RestoreGoes
<1>13. CASE RestoreConfig
  <2>1. PICK at : /\ Goto(at) /\ at \in {"put-config", "postgres"} /\ f.at \in {"drop-config", "put-config"}
                  /\ generated' \in BOOLEAN /\ UNCHANGED <<pg, zt, schema, services, apart>>
    BY <1>1, <1>13 DEF RestoreConfig, Top
  <2>2. "restore" \notin apart' => JoinsAt(at, saved[f.id])'
    BY <1>2, <1>4, <1>6, <1>8, <2>1 DEF JoinsAt
  <2>3. at \in RestoreStages \ {"pre", "stop"}
    BY <2>1 DEF RestoreStages
  <2>4. pg' \subseteq done /\ zt' \subseteq done /\ schema' \in Nat /\ services' \in {"down", "postgres"}
        /\ (apart' = {} => schema' <= image) /\ generated' \in BOOLEAN /\ apart' \subseteq {"restore", "images"} /\ apart \subseteq apart'
    BY <1>7, <2>1
  <2> QED BY <1>1, <1>2, <2>1, <2>2, <2>3, <2>4, RestoreGoes
<1>14. CASE RestoreDatabase /\ f.at = "postgres"
  <2>1. Goto("load") /\ services' = "postgres" /\ UNCHANGED <<pg, zt, schema, generated, apart>>
    BY <1>1, <1>14 DEF RestoreDatabase, Top
  <2>2. "restore" \notin apart' => JoinsAt("load", saved[f.id])'
    BY <1>2, <1>4, <1>6, <1>8, <1>14, <2>1 DEF JoinsAt
  <2>3. "load" \in RestoreStages \ {"pre", "stop"}
    BY DEF RestoreStages
  <2>4. pg' \subseteq done /\ zt' \subseteq done /\ schema' \in Nat /\ services' \in {"down", "postgres"}
        /\ (apart' = {} => schema' <= image) /\ generated' \in BOOLEAN /\ apart' \subseteq {"restore", "images"} /\ apart \subseteq apart'
    BY <1>7, <2>1
  <2> QED BY <1>1, <1>2, <2>1, <2>2, <2>3, <2>4, RestoreGoes
<1>15. CASE RestoreDatabase /\ f.at = "load"
  <2>1. /\ Goto("up") /\ pg' = b.dump /\ schema' = b.dumped /\ UNCHANGED <<zt, services, generated>>
        /\ apart' = apart \cup (IF OneMoment(b) THEN {} ELSE {"restore"})
    BY <1>1, <1>4, <1>15 DEF RestoreDatabase, Top
  <2>2. apart \subseteq apart' /\ apart' \subseteq {"restore", "images"} /\ ("restore" \notin apart' => b.dump = b.pg /\ b.dumped = b.schema)
    BY <1>7, <2>1 DEF OneMoment
  <2>3. "restore" \notin apart' => JoinsAt("up", saved[f.id])'
    BY <1>2, <1>4, <1>6, <1>8, <1>15, <2>1, <2>2 DEF JoinsAt
  <2>4. "up" \in RestoreStages \ {"pre", "stop"}
    BY DEF RestoreStages
  <2>5. pg' \subseteq done /\ zt' \subseteq done /\ schema' \in Nat /\ services' \in {"down", "postgres"}
        /\ (apart' = {} => schema' <= image) /\ generated' \in BOOLEAN
    BY <1>6, <1>7, <2>1, <2>2
  <2> QED BY <1>1, <1>2, <2>1, <2>2, <2>3, <2>4, <2>5, RestoreGoes
<1> QED BY <1>1, <1>9, <1>10, <1>11, <1>12, <1>13, <1>14, <1>15 DEF RestoreBindDirectory, RestoreDatabase, Top

(* upgrade_stack archives the release and the data as they are.             *)
LEMMA ReleaseBackupStep == ASSUME HostInv, ReleaseBackup PROVE HostInv'
<1>1. PICK f : f = stack[1]
  OBVIOUS
<1>2. /\ stack # <<>> /\ f.op = "upgrade" /\ f.at = "release" /\ Goto("copy")
      /\ saved' = [saved EXCEPT ![f.pre].release = release, ![f.pre].hot = [pg |-> pg, zt |-> zt]]
      /\ UNCHANGED <<services, runs, image, release, pg, zt, schema, generated, imported, failed, legacy,
                     mounted, done, apart, window, hostFaults>>
  BY <1>1 DEF ReleaseBackup, Running, Top
<1>3. /\ stack \in Seq(FrameKinds) /\ 1 \in DOMAIN stack /\ Len(stack) = 1 /\ f \in FrameKinds
      /\ FrameOK(f) /\ TopKeeps(f)
  BY <1>1, <1>2, TopFacts
<1>4. PICK i : i = f.pre
  OBVIOUS
<1>5. i \in DOMAIN saved /\ saved[i].sums
  BY <1>2, <1>3, <1>4 DEF FrameOK, Complete
<1>6. HostTypes /\ HistoryOK /\ HalvesOK /\ SchemaOK
  BY DEF HostInv
<1>7. saved \in Seq(BackupKinds) /\ saved[i] \in BackupKinds /\ pg \in SUBSET Nat /\ zt \in SUBSET Nat /\ release \in Nat /\ image \in Nat
  BY <1>5, <1>6 DEF HostTypes
<1> DEFINE d == [saved[i] EXCEPT !.release = release, !.hot = [pg |-> pg, zt |-> zt]]
<1>8. /\ d \in BackupKinds /\ d.pg = saved[i].pg /\ d.schema = saved[i].schema /\ d.zt = saved[i].zt /\ d.sums = saved[i].sums
      /\ d.dump = saved[i].dump /\ d.release = release /\ d.hot = [pg |-> pg, zt |-> zt]
  BY <1>7, Zenon DEF BackupKinds, Directories
<1>9. saved' = [saved EXCEPT ![i] = d]
  BY <1>2, <1>4, <1>5, <1>7, Zenon
<1> PICK b \in BackupKinds : b = d
  BY <1>8
<1>10. /\ b.pg = saved[i].pg /\ b.schema = saved[i].schema /\ b.zt = saved[i].zt /\ b.sums = saved[i].sums
       /\ b.dump = saved[i].dump /\ b.release = release /\ b.hot.pg = pg /\ b.hot.zt = zt
  BY <1>8
<1>11. saved' = [saved EXCEPT ![i] = b]
  BY <1>9
<1> HIDE DEF d
<1>12. /\ saved' \in Seq(BackupKinds) /\ DOMAIN saved' = DOMAIN saved
       /\ saved'[i] = b /\ \A k \in DOMAIN saved : k # i => saved'[k] = saved[k]
  BY <1>5, <1>6, <1>11, Rewritten
<1>13. "copy" \in AllStages
  BY DEF AllStages, UpgradeStages
<1>14. PICK g \in FrameKinds :
             /\ g.op = f.op /\ g.at = "copy" /\ g.id = f.id /\ g.pre = f.pre
             /\ stack' \in Seq(FrameKinds) /\ stack' # <<>> /\ Len(stack') = Len(stack) /\ stack'[1] = g
             /\ \A j \in 2 .. Len(stack) : stack'[j] = stack[j]
  BY <1>1, <1>2, <1>13, Moves
<1>15. HostTypes'
  BY <1>2, <1>6, <1>12, <1>14 DEF HostTypes
<1>16. HistoryOK'
  BY <1>2, <1>5, <1>6, <1>10, <1>12 DEF HistoryOK
<1>17. Recoverable' /\ \A k \in DOMAIN saved : Complete(k) => Complete(k)'
  BY <1>2, <1>10, <1>12, SavedGoes
<1>18. FrameOK(g)'
  BY <1>2, <1>4, <1>5, <1>10, <1>12, <1>14 DEF FrameOK, Complete, UpgradeStages
<1>19. ScriptsOK'
  BY <1>1, <1>2, <1>14, <1>17, <1>18, ScriptsGo
<1>20. StagesKeep'
  BY <1>2, <1>14 DEF StagesKeep, TopKeeps
<1>21. HalvesOK'
  <2>1. "restore" \notin apart => pg = zt /\ \A k \in DOMAIN saved : saved[k].sums => saved[k].pg = saved[k].zt
    BY <1>1, <1>2, <1>6 DEF HalvesOK
  <2>2. \A k \in DOMAIN saved' : k \in DOMAIN saved /\ saved'[k].sums = saved[k].sums /\ saved'[k].pg = saved[k].pg /\ saved'[k].zt = saved[k].zt
    BY <1>10, <1>12
  <2>3. saved'[g.pre].hot.pg = pg /\ saved'[g.pre].hot.zt = zt
    BY <1>4, <1>10, <1>12, <1>14
  <2>4. "restore" \notin apart' => TopJoins(g)'
    BY <1>2, <1>14, <2>1, <2>3 DEF TopJoins
  <2>5. "restore" \notin apart' => pg' = zt' /\ \A k \in DOMAIN saved' : saved'[k].sums => saved'[k].pg = saved'[k].zt
    BY <1>2, <2>1, <2>2
  <2> QED BY <1>14, <2>4, <2>5 DEF HalvesOK
<1>22. SchemaOK'
  <2>1. \A k \in DOMAIN saved : saved[k].schema \in Nat
    BY <1>6, SavedFields
  <2>2. apart = {} => /\ release # 0 /\ image <= release /\ release <= NewRelease
                      /\ schema <= image /\ \A k \in DOMAIN saved : saved[k].schema <= image
    BY <1>1, <1>2, <1>3, <1>6 DEF SchemaOK, Running, Top
  <2>3. \A k \in DOMAIN saved' : k \in DOMAIN saved /\ saved'[k].schema = saved[k].schema
    BY <1>10, <1>12
  <2>4. apart = {} => release \in 1 .. NewRelease /\ \A k \in DOMAIN saved' : saved'[k].schema <= release /\ saved'[k].schema <= image
    BY <1>7, <2>1, <2>2, <2>3 DEF NewRelease
  <2>5. saved'[g.pre].release = release
    BY <1>4, <1>10, <1>12, <1>14
  <2>6. apart = {} => TopSchema(g)'
    BY <1>2, <1>14, <2>4, <2>5 DEF TopSchema
  <2>7. DOMAIN stack' = {1}
    BY <1>3, <1>14
  <2> QED BY <1>2, <1>6, <1>14, <2>2, <2>4, <2>6, <2>7 DEF SchemaOK, Running, Top
<1>23. LegacyOK'
  BY <1>1, <1>2, <1>14 DEF HostInv, LegacyOK, Running, Top
<1> QED BY <1>15, <1>16, <1>17, <1>19, <1>20, <1>21, <1>22, <1>23 DEF HostInv

(* recover_failed_upgrade moves the installation away, puts the archived    *)
(* one in its place and rebuilds its images.                                *)
LEMMA MoveAwayStep == ASSUME HostInv, MoveAway PROVE HostInv'
<1>1. PICK f : f = stack[1]
  OBVIOUS
<1> DEFINE c == [pg |-> pg, zt |-> zt, schema |-> schema]
           n == Len(failed) + 1
<1>2. /\ stack # <<>> /\ f.op = "recover" /\ f.at = "move" /\ Goto("unpack")
      /\ failed' = Append(failed, c) /\ mounted' = (IF services = "down" THEN 0 ELSE n)
      /\ release' = 0 /\ pg' = {} /\ zt' = {} /\ schema' = 0
      /\ UNCHANGED <<services, runs, image, generated, imported, saved, legacy, done, apart, window, hostFaults>>
  BY <1>1 DEF MoveAway, Running, Top
<1>3. /\ stack \in Seq(FrameKinds) /\ 1 \in DOMAIN stack /\ Len(stack) = 1 /\ f \in FrameKinds
      /\ FrameOK(f) /\ ("restore" \notin apart => TopJoins(f)) /\ (apart = {} => TopSchema(f))
  BY <1>1, <1>2, TopFacts
<1>4. HostTypes /\ HistoryOK /\ Recoverable /\ HalvesOK /\ SchemaOK
  BY DEF HostInv
<1>5. c \in FailedKinds /\ c.pg = pg /\ c.zt = zt
  BY <1>4 DEF HostTypes, FailedKinds
<1> HIDE DEF c
<1>6. /\ failed' \in Seq(FailedKinds) /\ Len(failed') = n /\ n \in DOMAIN failed' /\ failed'[n] = c /\ n \in Nat /\ n # 0
      /\ \A k \in DOMAIN failed : k \in DOMAIN failed' /\ failed'[k] = failed[k]
      /\ \A k \in DOMAIN failed' : k \in DOMAIN failed \/ k = n
  BY <1>2, <1>4, <1>5 DEF HostTypes
<1> HIDE DEF n
<1>7. mounted' \in 0 .. Len(failed') /\ (services = "all" => mounted' # 0)
  BY <1>2, <1>6
<1>8. "unpack" \in AllStages
  BY DEF AllStages, RecoverStages
<1>9. PICK g \in FrameKinds :
             /\ g.op = f.op /\ g.at = "unpack" /\ g.id = f.id /\ g.pre = f.pre
             /\ stack' \in Seq(FrameKinds) /\ stack' # <<>> /\ Len(stack') = Len(stack) /\ stack'[1] = g
             /\ \A j \in 2 .. Len(stack) : stack'[j] = stack[j]
  BY <1>1, <1>2, <1>8, Moves
<1>10. HostTypes'
  BY <1>2, <1>4, <1>6, <1>7, <1>9 DEF HostTypes
<1>11. HistoryOK'
  BY <1>2, <1>4, <1>5, <1>6 DEF HistoryOK
<1>12. AllElsewhere'
  <2> SUFFICES ASSUME NEW w \in done \ window PROVE Elsewhere(w)'
    BY <1>2 DEF AllElsewhere
  <2>1. w \in pg \cap zt \/ Elsewhere(w)
    BY <1>4 DEF Recoverable, Elsewhere
  <2>2. CASE w \in pg \cap zt
    BY <1>5, <1>6, <2>2 DEF Elsewhere
  <2>3. CASE Elsewhere(w)
    BY <1>2, <1>6, <2>3 DEF Elsewhere
  <2> QED BY <2>1, <2>2, <2>3
<1>13. Recoverable'
  BY <1>12 DEF AllElsewhere, Elsewhere, Recoverable
<1>14. FrameOK(g)'
  BY <1>2, <1>3, <1>9 DEF FrameOK, Complete, RecoverStages
<1>15. ScriptsOK'
  BY <1>1, <1>2, <1>9, <1>14, ScriptsGo DEF Complete
<1>16. StagesKeep'
  BY <1>2, <1>7, <1>9, <1>12 DEF StagesKeep, TopKeeps
<1>17. HalvesOK'
  BY <1>2, <1>3, <1>4, <1>9 DEF HalvesOK, TopJoins
<1>18. SchemaOK'
  <2>1. DOMAIN stack' = {1} /\ image \in Nat
    BY <1>3, <1>4, <1>9 DEF HostTypes
  <2>2. apart = {} => TopSchema(g)'
    BY <1>2, <1>3, <1>9 DEF TopSchema
  <2> QED BY <1>2, <1>4, <1>7, <1>9, <2>1, <2>2 DEF SchemaOK, NewRelease, Running, Top
<1>19. LegacyOK'
  BY <1>1, <1>2, <1>9 DEF HostInv, LegacyOK, Running, Top
<1> QED BY <1>10, <1>11, <1>13, <1>15, <1>16, <1>17, <1>18, <1>19 DEF HostInv

(* The archived installation takes the place of the failed one.             *)
LEMMA UnpackStep == ASSUME HostInv, UnpackRelease PROVE HostInv'
<1>1. PICK f : f = stack[1]
  OBVIOUS
<1>2. PICK b : b = saved[f.pre]
  OBVIOUS
<1>3. /\ stack # <<>> /\ f.op = "recover" /\ f.at = "unpack" /\ Goto("rebuild")
      /\ release' = b.release /\ pg' = b.hot.pg /\ zt' = b.hot.zt /\ schema' = b.schema
      /\ UNCHANGED <<services, runs, image, generated, imported, saved, failed, legacy, mounted, done, apart, window, hostFaults>>
  BY <1>1, <1>2 DEF UnpackRelease, Running, Top
<1>4. /\ stack \in Seq(FrameKinds) /\ 1 \in DOMAIN stack /\ Len(stack) = 1 /\ f \in FrameKinds
      /\ FrameOK(f) /\ TopKeeps(f) /\ ("restore" \notin apart => TopJoins(f)) /\ (apart = {} => TopSchema(f))
  BY <1>1, <1>3, TopFacts
<1>5. HostTypes /\ HistoryOK /\ HalvesOK /\ SchemaOK
  BY DEF HostInv
<1>6. f.pre \in DOMAIN saved
  BY <1>3, <1>4 DEF FrameOK, Complete
<1>7. /\ b.release \in Nat /\ b.schema \in Nat /\ b.hot.pg \in SUBSET Nat /\ b.hot.zt \in SUBSET Nat
      /\ b.hot.pg \subseteq done /\ b.hot.zt \subseteq done
  BY <1>2, <1>5, <1>6, SavedFields DEF HistoryOK
<1>8. "rebuild" \in AllStages
  BY DEF AllStages, RecoverStages
<1>9. PICK g \in FrameKinds :
             /\ g.op = f.op /\ g.at = "rebuild" /\ g.id = f.id /\ g.pre = f.pre
             /\ stack' \in Seq(FrameKinds) /\ stack' # <<>> /\ Len(stack') = Len(stack) /\ stack'[1] = g
             /\ \A j \in 2 .. Len(stack) : stack'[j] = stack[j]
  BY <1>1, <1>3, <1>8, Moves
<1>10. HostTypes'
  BY <1>3, <1>5, <1>7, <1>9 DEF HostTypes
<1>11. HistoryOK'
  BY <1>3, <1>5, <1>7 DEF HistoryOK
<1>12. AllElsewhere' /\ (services = "all" => mounted # 0)
  BY <1>3, <1>4 DEF TopKeeps, AllElsewhere, Elsewhere
<1>13. Recoverable'
  BY <1>12 DEF AllElsewhere, Elsewhere, Recoverable
<1>14. FrameOK(g)'
  BY <1>3, <1>4, <1>9 DEF FrameOK, Complete, RecoverStages
<1>15. ScriptsOK'
  BY <1>1, <1>3, <1>9, <1>14, ScriptsGo DEF Complete
<1>16. StagesKeep'
  BY <1>3, <1>9, <1>12 DEF StagesKeep, TopKeeps
<1>17. HalvesOK'
  BY <1>2, <1>3, <1>4, <1>5, <1>9 DEF HalvesOK, TopJoins
<1>18. SchemaOK'
  <2>1. DOMAIN stack' = {1}
    BY <1>4, <1>9
  <2>2. apart = {} => b.release \in 1 .. NewRelease /\ b.schema <= b.release /\ \A k \in DOMAIN saved : saved[k].schema <= b.release
    BY <1>2, <1>3, <1>4, <1>6 DEF TopSchema
  <2>3. apart = {} => TopSchema(g)'
    BY <1>2, <1>3, <1>9, <2>2 DEF TopSchema
  <2>4. apart = {} => b.schema <= image
    BY <1>2, <1>5, <1>6 DEF SchemaOK
  <2> QED BY <1>3, <1>5, <1>9, <1>12, <2>1, <2>2, <2>3, <2>4 DEF SchemaOK, Running, Top
<1>19. LegacyOK'
  BY <1>1, <1>3, <1>9 DEF HostInv, LegacyOK, Running, Top
<1> QED BY <1>10, <1>11, <1>13, <1>15, <1>16, <1>17, <1>18, <1>19 DEF HostInv

(* The rollback goes on to a restore, with images built again or not.       *)
LEMMA RebuildStep == ASSUME HostInv, Rebuild PROVE HostInv'
<1>1. PICK f : f = stack[1]
  OBVIOUS
<1> DEFINE d == [Frame("restore", "pre") EXCEPT !.id = f.pre, !.auto = TRUE]
<1>2. /\ stack # <<>> /\ f.op = "recover" /\ f.at = "rebuild" /\ stack' = <<d>>
      /\ UNCHANGED <<services, runs, release, pg, zt, schema, generated, imported, saved, failed, legacy, mounted, done, window>>
      /\ \/ image' = release /\ UNCHANGED <<apart, hostFaults>>
         \/ hostFaults' = hostFaults + 1 /\ apart' = apart \cup {"images"} /\ UNCHANGED image
  BY <1>1 DEF Rebuild, Running, Top, disk
<1>3. /\ stack \in Seq(FrameKinds) /\ 1 \in DOMAIN stack /\ Len(stack) = 1 /\ f \in FrameKinds
      /\ FrameOK(f) /\ TopKeeps(f) /\ ("restore" \notin apart => TopJoins(f)) /\ (apart = {} => TopSchema(f))
  BY <1>1, <1>2, TopFacts
<1>4. Complete(f.pre) /\ f.pre \in Nat
  BY <1>2, <1>3 DEF FrameOK, FrameKinds
<1>5. d \in FrameKinds /\ d.op = "restore" /\ d.at = "pre" /\ d.id = f.pre /\ d.pre = 0 /\ d.auto
  BY <1>4, Zenon DEF FrameKinds, Frame, RestoreStages
<1> PICK g \in FrameKinds : g = d
  BY <1>5
<1>6. g.op = "restore" /\ g.at = "pre" /\ g.id = f.pre /\ g.pre = 0 /\ g.auto /\ stack' = <<g>>
  BY <1>2, <1>5
<1> HIDE DEF d
<1>7. stack' \in Seq(FrameKinds) /\ stack' # <<>> /\ Len(stack') = 1 /\ stack'[1] = g /\ DOMAIN stack' = {1}
  BY <1>6
<1>8. /\ image \in Nat /\ release \in Nat /\ schema \in Nat /\ hostFaults \in Nat /\ image' \in Nat /\ hostFaults' \in Nat
      /\ apart \in SUBSET {"restore", "images"} /\ apart' \in SUBSET {"restore", "images"} /\ apart \subseteq apart'
  <2>1. /\ image \in Nat /\ release \in Nat /\ schema \in Nat /\ hostFaults \in Nat /\ apart \in SUBSET {"restore", "images"}
    BY DEF HostInv, HostTypes
  <2>2. CASE image' = release /\ UNCHANGED <<apart, hostFaults>>
    BY <2>1, <2>2
  <2>3. CASE hostFaults' = hostFaults + 1 /\ apart' = apart \cup {"images"} /\ UNCHANGED image
    BY <2>1, <2>3
  <2> QED BY <1>2, <2>2, <2>3
<1>9. HostTypes'
  BY <1>2, <1>7, <1>8 DEF HostInv, HostTypes
<1>10. HistoryOK' /\ Recoverable' /\ (AllElsewhere => AllElsewhere')
  BY <1>2, DataStill
<1>11. FrameOK(g)'
  BY <1>2, <1>4, <1>6 DEF FrameOK, Complete, RestoreStages
<1>12. ScriptsOK'
  BY <1>7, <1>11 DEF ScriptsOK
<1>13. StagesKeep'
  BY <1>2, <1>3, <1>6, <1>7, <1>10 DEF StagesKeep, TopKeeps
<1>14. HalvesOK'
  <2>1. "restore" \notin apart => pg = zt /\ \A k \in DOMAIN saved : saved[k].sums => saved[k].pg = saved[k].zt
    BY <1>1, <1>2 DEF HostInv, HalvesOK
  <2>2. TopJoins(g)'
    BY <1>6 DEF TopJoins
  <2> QED BY <1>2, <1>7, <1>8, <2>1, <2>2 DEF HalvesOK
<1>15. SchemaOK'
  <2> SUFFICES ASSUME apart' = {} PROVE SchemaOK'
    BY DEF SchemaOK
  <2>1. image' = release /\ UNCHANGED apart
    BY <1>2
  <2>2. release \in 1 .. NewRelease /\ schema <= release /\ \A k \in DOMAIN saved : saved[k].schema <= release
    BY <1>2, <1>3, <2>1 DEF TopSchema
  <2>3. TopSchema(g)'
    BY <1>6 DEF TopSchema
  <2> QED BY <1>2, <1>6, <1>7, <1>8, <2>1, <2>2, <2>3 DEF HostInv, SchemaOK, Running, Top, NewRelease
<1>16. LegacyOK'
  BY <1>1, <1>2, <1>6, <1>7, <1>8 DEF HostInv, LegacyOK, Running, Top
<1> QED BY <1>9, <1>10, <1>12, <1>13, <1>14, <1>15, <1>16 DEF HostInv

NextChange == IF done = {} THEN 1 ELSE 1 + CHOOSE m \in done : \A n \in done : n <= m

(* Changes are numbered in the order users make them.                       *)
LEMMA NewChange ==
    ASSUME HistoryOK
    PROVE  NextChange \in Nat /\ NextChange \notin done /\ \E n \in Nat : done \cup {NextChange} = 1 .. n
<1>1. PICK n \in Nat : done = 1 .. n
  BY DEF HistoryOK
<1>2. CASE n = 0
  <2>1. done = {} /\ NextChange = 1
    BY <1>1, <1>2 DEF NextChange
  <2>2. done \cup {1} = 1 .. 1
    BY <2>1
  <2> QED BY <2>1, <2>2
<1>3. CASE n # 0
  <2> DEFINE c == CHOOSE m \in done : \A k \in done : k <= m
  <2>1. n \in done /\ \A k \in done : k <= n
    BY <1>1, <1>3
  <2>2. c \in done /\ \A k \in done : k <= c
    BY <2>1
  <2>3. NextChange = 1 + c
    BY <2>1 DEF NextChange
  <2> HIDE DEF c
  <2>4. c = n
    BY <1>1, <2>1, <2>2
  <2>5. NextChange = n + 1
    BY <2>3, <2>4
  <2>6. done \cup {n + 1} = 1 .. (n + 1)
    BY <1>1
  <2> QED BY <1>1, <2>5, <2>6
<1> QED BY <1>2, <1>3

(* A user changes something while the stack serves.                         *)
LEMMA WorkStep == ASSUME HostInv, Work PROVE HostInv'
<1>1. PICK w : w = NextChange
  OBVIOUS
<1>2. /\ services = "all" /\ done' = done \cup {w}
      /\ UNCHANGED <<services, runs, image, release, schema, generated, imported, saved, legacy, mounted, stack, apart, window, hostFaults>>
  BY <1>1 DEF Work, NextChange
<1>3. HostTypes /\ HistoryOK /\ ScriptsOK /\ Recoverable /\ StagesKeep /\ HalvesOK /\ SchemaOK /\ LegacyOK
  BY DEF HostInv
<1>4. w \in Nat /\ w \notin done /\ \E n \in Nat : done' = 1 .. n
  BY <1>1, <1>2, <1>3, NewChange
<1>5. ScriptsOK'
  BY <1>2, <1>3 DEF ScriptsOK, FrameOK, Complete
<1>6. SchemaOK' /\ LegacyOK'
  BY <1>2, <1>3 DEF SchemaOK, LegacyOK, TopSchema, Running, Top
<1>7. stack # <<>> /\ stack[1].op = "restore" => stack[1].at \in {"pre", "stop"}
  BY <1>2, <1>3 DEF StagesKeep, TopKeeps
<1>8. stack # <<>> /\ stack[1].op = "restore" /\ stack[1].at = "stop" /\ ~stack[1].auto => stack[1].pre \in DOMAIN saved
  <2> SUFFICES ASSUME stack # <<>>, stack[1].op = "restore", stack[1].at = "stop", ~stack[1].auto PROVE stack[1].pre \in DOMAIN saved
    OBVIOUS
  <2>1. FrameOK(stack[1])
    BY TopFacts
  <2> QED BY <2>1 DEF FrameOK, Complete
<1>9. CASE mounted = 0
  <2>1. pg' = pg \cup {w} /\ zt' = zt \cup {w} /\ UNCHANGED failed
    BY <1>1, <1>9 DEF Work, NextChange
  <2>2. HostTypes'
    BY <1>2, <1>3, <1>4, <2>1 DEF HostTypes
  <2>3. HistoryOK'
    BY <1>2, <1>3, <1>4, <2>1 DEF HistoryOK
  <2>4. Recoverable'
    BY <1>2, <1>3, <2>1 DEF Recoverable
  <2>5. StagesKeep'
    <3> SUFFICES ASSUME stack # <<>> PROVE TopKeeps(stack[1])'
      BY <1>2 DEF StagesKeep
    <3>1. TopKeeps(stack[1])
      BY <1>3 DEF StagesKeep
    <3>2. stack[1].op = "restore" /\ stack[1].at = "stop" /\ ~stack[1].auto => w \notin saved[stack[1].pre].pg
      BY <1>3, <1>4, <1>8 DEF HistoryOK
    <3> QED BY <1>2, <1>7, <1>9, <2>1, <3>1, <3>2 DEF TopKeeps
  <2>6. HalvesOK'
    BY <1>2, <1>3, <1>7, <2>1 DEF HalvesOK, TopJoins
  <2> QED BY <1>5, <1>6, <2>2, <2>3, <2>4, <2>5, <2>6 DEF HostInv
<1>10. CASE mounted # 0
  <2>1. mounted \in DOMAIN failed /\ failed \in Seq(FailedKinds) /\ failed[mounted] \in FailedKinds
    BY <1>3, <1>10 DEF HostTypes
  <2> DEFINE d == [failed[mounted] EXCEPT !.pg = failed[mounted].pg \cup {NextChange}, !.zt = failed[mounted].zt \cup {NextChange}]
  <2>2. d \in FailedKinds /\ d.pg = failed[mounted].pg \cup {w} /\ d.zt = failed[mounted].zt \cup {w}
    <3>1. failed[mounted].pg \cup {NextChange} \in SUBSET Nat /\ failed[mounted].zt \cup {NextChange} \in SUBSET Nat
      BY <1>1, <1>4, <2>1 DEF FailedKinds
    <3>2. d \in FailedKinds /\ d.pg = failed[mounted].pg \cup {NextChange} /\ d.zt = failed[mounted].zt \cup {NextChange}
      BY <2>1, <3>1, Zenon DEF FailedKinds
    <3> QED BY <1>1, <3>2, Zenon
  <2>3. failed' = [failed EXCEPT ![mounted] = d] /\ UNCHANGED <<pg, zt>>
    BY <1>10, Zenon DEF Work, NextChange
  <2> PICK c \in FailedKinds : c = d
    BY <2>2
  <2>4. failed' = [failed EXCEPT ![mounted] = c] /\ c.pg = failed[mounted].pg \cup {w} /\ c.zt = failed[mounted].zt \cup {w}
    BY <2>2, <2>3
  <2> HIDE DEF d
  <2>5. /\ failed' \in Seq(FailedKinds) /\ Len(failed') = Len(failed) /\ DOMAIN failed' = DOMAIN failed
        /\ failed'[mounted] = c /\ \A k \in DOMAIN failed : k # mounted => failed'[k] = failed[k]
    BY <2>1, <2>4
  <2>6. HostTypes'
    BY <1>2, <1>3, <2>3, <2>5 DEF HostTypes
  <2>7. HistoryOK'
    BY <1>2, <1>3, <1>4, <2>1, <2>3, <2>4, <2>5 DEF HistoryOK
  <2>8. \A v : Elsewhere(v) => Elsewhere(v)'
    BY <1>2, <2>4, <2>5 DEF Elsewhere
  <2>9. Elsewhere(w)'
    BY <2>1, <2>4, <2>5 DEF Elsewhere
  <2>10. AllElsewhere => AllElsewhere'
    BY <1>2, <2>8, <2>9 DEF AllElsewhere
  <2>11. Recoverable'
    <3> SUFFICES ASSUME NEW v \in done' \ window' PROVE v \in pg' \cap zt' \/ Elsewhere(v)'
      BY DEF Recoverable, Elsewhere
    <3>1. CASE v = w
      BY <2>9, <3>1
    <3>2. CASE v # w
      <4>1. v \in pg \cap zt \/ Elsewhere(v)
        BY <1>2, <1>3, <3>2 DEF Recoverable, Elsewhere
      <4> QED BY <2>3, <2>8, <4>1
    <3> QED BY <3>1, <3>2
  <2>12. StagesKeep'
    BY <1>2, <1>3, <2>3, <2>10 DEF StagesKeep, TopKeeps
  <2>13. HalvesOK'
    BY <1>2, <1>3, <2>3 DEF HalvesOK, TopJoins
  <2> QED BY <1>5, <1>6, <2>6, <2>7, <2>11, <2>12, <2>13 DEF HostInv
<1> QED BY <1>9, <1>10

(* uninstall and purge-data stop the stack; a purge empties what it has.    *)
LEMMA UninstallStep == ASSUME HostInv, Uninstall PROVE HostInv'
<1>1. /\ stack = <<>> /\ stack' = <<>> /\ ComposeStop
      /\ UNCHANGED <<image, release, pg, zt, schema, generated, imported, saved, failed, legacy, done, apart, window, hostFaults>>
  BY DEF Uninstall, disk
<1>2. services' = "down" /\ mounted' = 0 /\ UNCHANGED runs /\ release # 0 /\ generated /\ mounted' \in 0 .. Len(failed)
  BY <1>1, StackDown
<1>3. HistoryOK' /\ Recoverable' /\ ScriptsOK' /\ StagesKeep' /\ HalvesOK' /\ stack' \in Seq(FrameKinds) /\ DOMAIN stack' = {}
  BY <1>1, ScriptEnds
<1>4. HostTypes'
  BY <1>1, <1>2, <1>3 DEF HostInv, HostTypes
<1>5. SchemaOK'
  BY <1>1, <1>2, <1>3 DEF HostInv, SchemaOK, Running
<1>6. LegacyOK'
  BY <1>1, <1>2 DEF HostInv, LegacyOK, Running
<1> QED BY <1>3, <1>4, <1>5, <1>6 DEF HostInv

(* A purge gives up every change on purpose.                                *)
LEMMA PurgeStep == ASSUME HostInv, PurgeData PROVE HostInv'
<1>1. /\ stack = <<>> /\ stack' = <<>> /\ ComposeStop
      /\ pg' = {} /\ zt' = {} /\ schema' = 0 /\ generated' = FALSE /\ imported' = "no" /\ window' = done
      /\ UNCHANGED <<image, release, saved, failed, legacy, done, apart, hostFaults>>
  BY DEF PurgeData
<1>2. services' = "down" /\ mounted' = 0 /\ UNCHANGED runs /\ release # 0 /\ generated /\ mounted' \in 0 .. Len(failed)
  BY <1>1, StackDown
<1>3. DOMAIN stack' = {} /\ stack' \in Seq(FrameKinds) /\ Len(stack') = 0
  BY <1>1
<1>4. HistoryOK' /\ done \subseteq Nat
  BY <1>1 DEF HostInv, HistoryOK
<1>5. HostTypes'
  BY <1>1, <1>2, <1>3, <1>4 DEF HostInv, HostTypes
<1>6. Recoverable' /\ ScriptsOK' /\ StagesKeep'
  BY <1>1, <1>3 DEF Recoverable, ScriptsOK, StagesKeep
<1>7. HalvesOK'
  BY <1>1 DEF HostInv, HalvesOK
<1>8. SchemaOK'
  <2>1. image \in Nat
    BY DEF HostInv, HostTypes
  <2> QED BY <1>1, <1>2, <1>3, <2>1 DEF HostInv, SchemaOK, Running
<1>9. LegacyOK'
  BY <1>1, <1>2 DEF HostInv, LegacyOK, Running
<1> QED BY <1>4, <1>5, <1>6, <1>7, <1>8, <1>9 DEF HostInv

(* A script ends where it is, without a trap or with one that does nothing. *)
LEMMA StopsStep ==
    ASSUME HostInv, stack # <<>>, stack' = <<>>, Interrupted,
           UNCHANGED <<services, runs, image, release, pg, zt, schema, generated, imported, saved, failed, legacy, mounted, done, window>>,
           hostFaults' \in Nat, hostFaults' # 0 \/ (stack[1].op = "restore" /\ UNCHANGED hostFaults)
    PROVE  HostInv'
<1>1. PICK f : f = stack[1]
  OBVIOUS
<1>2. /\ apart \subseteq apart' /\ apart' \in SUBSET {"restore", "images"}
      /\ f.op = "restore" /\ f.at \notin {"pre", "stop", "empty-postgres"} => "restore" \in apart'
      /\ f.op = "recover" /\ f.at = "rebuild" => "images" \in apart'
  BY <1>1 DEF Interrupted, Top, Running, HostInv, HostTypes
<1>3. HistoryOK' /\ Recoverable' /\ ScriptsOK' /\ StagesKeep' /\ HalvesOK' /\ stack' \in Seq(FrameKinds) /\ DOMAIN stack' = {}
  BY <1>1, <1>2, ScriptEnds
<1>4. HostTypes'
  BY <1>2, <1>3 DEF HostInv, HostTypes
<1>5. SchemaOK'
  BY <1>1, <1>2, <1>3 DEF HostInv, SchemaOK, Running, Top
<1>6. LegacyOK'
  BY DEF HostInv, LegacyOK, Running, Top
<1> QED BY <1>3, <1>4, <1>5, <1>6 DEF HostInv

(* A script that is killed runs no trap.                                    *)
LEMMA KilledStep == ASSUME HostInv, Killed PROVE HostInv'
<1>1. hostFaults' \in Nat /\ hostFaults' # 0
  BY DEF Killed, HostInv, HostTypes
<1> QED BY <1>1, StopsStep DEF Killed, disk

(* A command fails, and the trap of the script runs.                        *)
LEMMA FailStep == ASSUME HostInv, CommandFails PROVE HostInv'
<1>1. PICK f : f = stack[1]
  OBVIOUS
<1>2. stack # <<>> /\ Trap /\ Interrupted /\ UNCHANGED <<done, window>> /\ (UNCHANGED hostFaults => Stuck \/ hostFaults' # 0)
  BY DEF CommandFails, HostInv, HostTypes
<1>3. hostFaults \in Nat /\ hostFaults' \in Nat /\ (hostFaults' # 0 \/ (Stuck /\ UNCHANGED hostFaults))
  BY DEF CommandFails, HostInv, HostTypes
<1>4. /\ stack \in Seq(FrameKinds) /\ 1 \in DOMAIN stack /\ f \in FrameKinds
      /\ FrameOK(f) /\ TopKeeps(f) /\ ("restore" \notin apart => TopJoins(f)) /\ (apart = {} => TopSchema(f))
  BY <1>1, <1>2, TopFacts
<1>5. f.op \notin {"restore", "recover"} => UNCHANGED apart
  BY <1>1, <1>2 DEF Interrupted, Running, Top
<1>6. hostFaults' # 0 => hostFaults' \in Nat \ {0}
  BY <1>3
<1>7. CASE f.op = "backup"
  <2>1. stack' = <<>> /\ UNCHANGED <<image, release, pg, zt, generated, imported, saved, failed, legacy>>
    BY <1>1, <1>2, <1>7 DEF Trap, FinishBackup, Top
  <2>2. HistoryOK' /\ Recoverable' /\ ScriptsOK' /\ StagesKeep' /\ HalvesOK' /\ stack' \in Seq(FrameKinds) /\ DOMAIN stack' = {}
    BY <1>1, <1>2, <1>5, <1>7, <2>1, ScriptEnds
  <2>3. CASE ComposeUp
    <3>1. /\ services' = "all" /\ runs' = image /\ mounted' = 0 /\ release # 0 /\ generated /\ runs' \in Nat /\ schema' \in Nat
          /\ mounted' \in 0 .. Len(failed)
          /\ apart = {} => schema' <= image
      BY <2>1, <2>3, StackUp
    <3>2. HostTypes'
      BY <1>3, <1>5, <1>7, <1>2, <2>1, <2>2, <3>1 DEF HostInv, HostTypes
    <3>3. SchemaOK'
      BY <1>1, <1>5, <1>7, <2>1, <2>2, <3>1 DEF HostInv, SchemaOK, Running, Top
    <3>4. LegacyOK'
      <4>1. hostFaults' = 0 => legacy # "running"
        BY <1>1, <1>2, <1>3, <1>7, <3>1 DEF HostInv, LegacyOK, Running, Top
      <4> QED BY <2>1, <4>1 DEF LegacyOK, Running
    <3> QED BY <2>2, <3>2, <3>3, <3>4 DEF HostInv
  <2>4. CASE UNCHANGED <<services, runs, mounted, schema>>
    <3>1. HostTypes'
      BY <1>2, <1>3, <1>5, <1>7, <2>1, <2>2, <2>4 DEF HostInv, HostTypes
    <3>2. SchemaOK'
      BY <1>1, <1>5, <1>7, <2>1, <2>2, <2>4 DEF HostInv, SchemaOK, Running, Top
    <3>3. LegacyOK'
      BY <1>1, <1>2, <1>3, <1>7, <2>1, <2>4 DEF HostInv, LegacyOK, Running, Top
    <3> QED BY <2>2, <3>1, <3>2, <3>3 DEF HostInv
  <2> QED BY <1>1, <1>2, <1>7, <2>3, <2>4 DEF Trap, FinishBackup, Top
<1>8. CASE f.op = "upgrade" /\ Armed
  <2>1. stack' = <<[Frame("recover", "move") EXCEPT !.pre = f.pre]>> /\ f.at \in {"copy", "secrets", "build", "up", "ps"}
        /\ UNCHANGED <<services, runs, image, release, pg, zt, schema, generated, imported, saved, failed, legacy, mounted, apart>>
    BY <1>1, <1>2, <1>5, <1>8 DEF Trap, RecoverFailedUpgrade, Armed, Top, disk
  <2>2. Complete(f.pre) /\ f.pre \in Nat /\ Len(stack) = 1
    BY <1>1, <1>2, <1>4, <1>8, <2>1, TopFacts DEF FrameOK, FrameKinds
  <2> DEFINE d == [Frame("recover", "move") EXCEPT !.pre = f.pre]
  <2>3. d \in FrameKinds /\ d.op = "recover" /\ d.at = "move" /\ d.pre = f.pre
    BY <2>2, Zenon DEF FrameKinds, Frame, RecoverStages
  <2> PICK g \in FrameKinds : g = d
    BY <2>3
  <2>4. g.op = "recover" /\ g.at = "move" /\ g.pre = f.pre /\ stack' = <<g>>
    BY <2>1, <2>3
  <2> HIDE DEF d
  <2>5. stack' \in Seq(FrameKinds) /\ stack' # <<>> /\ Len(stack') = 1 /\ stack'[1] = g /\ DOMAIN stack' = {1}
    BY <2>4
  <2>6. HostTypes'
    BY <1>2, <1>3, <2>1, <2>5 DEF HostInv, HostTypes
  <2>7. HistoryOK' /\ Recoverable'
    BY <1>2, <2>1, DataStill
  <2>8. FrameOK(g)'
    BY <2>1, <2>2, <2>4 DEF FrameOK, Complete, RecoverStages
  <2>9. ScriptsOK'
    BY <2>5, <2>8 DEF ScriptsOK
  <2>10. StagesKeep'
    BY <2>4, <2>5 DEF StagesKeep, TopKeeps
  <2>11. HalvesOK'
    BY <1>1, <1>2, <1>4, <1>8, <2>1, <2>4, <2>5 DEF HostInv, HalvesOK, TopJoins
  <2>12. SchemaOK'
    BY <1>1, <1>2, <1>4, <1>8, <2>1, <2>4, <2>5 DEF HostInv, SchemaOK, TopSchema, Running, Top
  <2>13. LegacyOK'
    BY <1>1, <1>2, <1>3, <1>8, <2>1, <2>4, <2>5 DEF HostInv, LegacyOK, Stuck, Running, Top
  <2> QED BY <2>6, <2>7, <2>9, <2>10, <2>11, <2>12, <2>13 DEF HostInv
<1>9. CASE f.op = "install" /\ Armed
  <2>1. /\ stack' = <<>> /\ UNCHANGED <<image, release, pg, zt, schema, generated, imported, saved, failed, apart>>
        /\ legacy' = (IF f.legacyRan THEN "running" ELSE legacy)
        /\ ComposeStop \/ UNCHANGED <<services, runs, mounted>>
        /\ f.at \in {"legacy", "import", "mark", "build", "up", "ps"}
    BY <1>1, <1>2, <1>5, <1>9 DEF Trap, RecoverFailedInstall, Armed, Top, disk
  <2>2. HistoryOK' /\ Recoverable' /\ ScriptsOK' /\ StagesKeep' /\ HalvesOK' /\ stack' \in Seq(FrameKinds) /\ DOMAIN stack' = {}
    BY <1>1, <1>2, <1>9, <2>1, ScriptEnds
  <2>3. \/ services' = "down" /\ mounted' = 0 /\ UNCHANGED runs /\ mounted' \in 0 .. Len(failed)
        \/ UNCHANGED <<services, runs, mounted>>
    BY <2>1, StackDown
  <2>4. HostTypes'
    BY <1>2, <1>3, <2>1, <2>2, <2>3 DEF HostInv, HostTypes
  <2>5. SchemaOK'
    BY <1>1, <1>9, <2>1, <2>2, <2>3 DEF HostInv, SchemaOK, Running, Top
  <2>6. LegacyOK'
    <3> SUFFICES ASSUME hostFaults' = 0 PROVE legacy' # "running"
      BY <2>1 DEF LegacyOK, Running
    <3>1. Stuck /\ hostFaults = 0
      BY <1>3
    <3>2. f.at = "import" /\ (imported = "partly" \/ zt # {})
      BY <1>1, <1>9, <3>1 DEF Stuck, Running, Top
    <3>3. ~f.legacyRan
      BY <1>1, <1>2, <1>9, <3>1, <3>2 DEF HostInv, LegacyOK, Running, Top
    <3>4. legacy # "running"
      BY <1>1, <1>2, <1>9, <3>1, <3>2 DEF HostInv, LegacyOK, Running, Top
    <3> QED BY <2>1, <3>3, <3>4
  <2> QED BY <2>2, <2>4, <2>5, <2>6 DEF HostInv
<1>10. CASE f.op # "backup" /\ ~(f.op \in {"upgrade", "install"} /\ Armed)
  <2>1. stack' = <<>> /\ UNCHANGED <<services, runs, image, release, pg, zt, schema, generated, imported, saved, failed, legacy, mounted>>
    BY <1>1, <1>2, <1>10 DEF Trap, Top, disk
  <2>2. hostFaults' # 0 \/ (f.op = "restore" /\ UNCHANGED hostFaults)
    BY <1>1, <1>3, <1>10 DEF Stuck, Armed, Running, Top
  <2> QED BY <1>1, <1>2, <1>3, <2>1, <2>2, StopsStep
<1> QED BY <1>7, <1>8, <1>9, <1>10

(* The invariant holds on a new host and on one with the previous project.  *)
LEMMA HostStart == ASSUME HostInit PROVE HostInv
<1>1. stack = <<>> /\ saved = <<>> /\ failed = <<>> /\ done = {} /\ window = {} /\ pg = {} /\ zt = {} /\ mounted = 0 /\ apart = {} /\ hostFaults = 0
  BY DEF HostInit
<1>2. HostTypes
  <2>1. /\ services \in {"down", "postgres", "all"} /\ runs \in Nat /\ image \in Nat /\ release \in Nat /\ schema \in Nat
        /\ generated \in BOOLEAN /\ legacy \in {"none", "running", "stopped"} /\ imported \in {"no", "partly", "yes"}
    <3>1. \/ services = "all" /\ runs = 1 /\ image = 1 /\ release = 1 /\ schema = 1 /\ generated = TRUE /\ legacy = "none"
          \/ services = "down" /\ runs = 0 /\ image = 0 /\ release = 0 /\ schema = 0 /\ generated = FALSE /\ legacy = "running"
      BY DEF HostInit
    <3>2. imported = "no"
      BY DEF HostInit
    <3>3. generated \in BOOLEAN
      BY <3>1, Zenon
    <3>4. runs \in Nat /\ image \in Nat /\ release \in Nat /\ schema \in Nat
      <4>1. (runs = 1 /\ image = 1 /\ release = 1 /\ schema = 1) \/ (runs = 0 /\ image = 0 /\ release = 0 /\ schema = 0)
        BY <3>1, Zenon
      <4> QED BY <4>1
    <3>5. services \in {"down", "postgres", "all"} /\ legacy \in {"none", "running", "stopped"}
      BY <3>1, Zenon
    <3> QED BY <3>2, <3>3, <3>4, <3>5
  <2>2. saved \in Seq(BackupKinds) /\ failed \in Seq(FailedKinds) /\ Len(failed) = 0 /\ stack \in Seq(FrameKinds)
    BY <1>1
  <2> QED BY <1>1, <2>1, <2>2 DEF HostTypes
<1>3. HistoryOK
  <2>1. done = 1 .. 0
    BY <1>1
  <2> QED BY <1>1, <2>1 DEF HistoryOK
<1>4. ScriptsOK /\ Recoverable /\ StagesKeep /\ HalvesOK
  BY <1>1 DEF ScriptsOK, Recoverable, StagesKeep, HalvesOK
<1>5. SchemaOK
  BY DEF HostInit, SchemaOK, NewRelease, Running
<1>6. LegacyOK
  BY DEF HostInit, LegacyOK, Running
<1> QED BY <1>2, <1>3, <1>4, <1>5, <1>6 DEF HostInv

(* Every step of the administrator, the scripts and the users keeps it.     *)
LEMMA HostStep == ASSUME HostInv, [HostNext]_hostVars PROVE HostInv'
<1>1. {"dump", "pre", "backup", "copy"} \subseteq AllStages
  BY DEF AllStages, BackupStages, RestoreStages, UpgradeStages, InstallStages
<1>2. CASE Backup
  <2> PICK g : g = Frame("backup", "dump")
    OBVIOUS
  <2>1. g \in FrameKinds /\ g.op = "backup" /\ g.at = "dump" /\ ~g.auto /\ ~g.restart
    BY <1>1, FrameIs
  <2>2. Start(g)
    BY <1>2 DEF Backup
  <2> QED BY <2>1, <2>2, StartStep
<1>3. CASE Upgrade
  <2> PICK g : g = Frame("upgrade", "backup")
    OBVIOUS
  <2>1. g \in FrameKinds /\ g.op = "upgrade" /\ g.at = "backup" /\ ~g.auto /\ ~g.restart
    BY <1>1, FrameIs
  <2>2. Start(g) /\ release # 0
    BY <1>3 DEF Upgrade
  <2> QED BY <2>1, <2>2, StartStep
<1>4. CASE Install
  <2> PICK g : g = Frame("install", "copy")
    OBVIOUS
  <2>1. g \in FrameKinds /\ g.op = "install" /\ g.at = "copy" /\ ~g.auto /\ ~g.restart
    BY <1>1, FrameIs
  <2>2. Start(g)
    BY <1>4 DEF Install
  <2> QED BY <2>1, <2>2, StartStep
<1>5. ASSUME NEW k \in DOMAIN saved, Restore(k) PROVE HostInv'
  <2> DEFINE d == [Frame("restore", "pre") EXCEPT !.id = k]
  <2>1. k \in Nat /\ Complete(k) /\ Start(d)
    <3>1. saved \in Seq(BackupKinds)
      BY DEF HostInv, HostTypes
    <3> QED BY <1>5, <3>1 DEF Restore, Restorable, Complete
  <2>2. d \in FrameKinds /\ d.op = "restore" /\ d.at = "pre" /\ d.id = k /\ d.pre = 0 /\ ~d.auto /\ ~d.restart
    BY <2>1, Zenon DEF FrameKinds, Frame, RestoreStages
  <2> HIDE DEF d
  <2> QED BY <2>1, <2>2, StartStep
<1>6. CASE BackupSteps
  BY <1>6, DumpStep, StopForBackupStep, ArchiveStep, StartAfterBackupStep DEF BackupSteps
<1>7. CASE RestoreSteps
  BY <1>7, CallStep, StopForRestoreStep, RestoreStep, StartAfterRestoreStep DEF RestoreSteps
<1>8. CASE ManageSteps
  BY <1>8, CallStep, ReleaseBackupStep, ManageStep, DeployStep, MoveAwayStep, UnpackStep, RebuildStep DEF ManageSteps
<1>9. CASE UNCHANGED hostVars
  <2>1. UNCHANGED <<services, runs, image, release, pg, zt, schema, generated, imported, saved, failed, legacy, mounted, stack, done,
                    apart, window, hostFaults>>
    BY <1>9 DEF hostVars, disk
  <2>2. HostTypes /\ HistoryOK /\ ScriptsOK /\ StagesKeep /\ HalvesOK /\ SchemaOK /\ LegacyOK
    BY DEF HostInv
  <2>3. HistoryOK' /\ Recoverable' /\ (AllElsewhere => AllElsewhere')
    BY <2>1, DataStill
  <2>4. HostTypes'
    BY <2>1, <2>2 DEF HostTypes
  <2>5. ScriptsOK'
    BY <2>1, <2>2 DEF ScriptsOK, FrameOK, Complete
  <2>6. StagesKeep'
    BY <2>1, <2>2, <2>3 DEF StagesKeep, TopKeeps
  <2>7. HalvesOK' /\ SchemaOK'
    BY <2>1, <2>2 DEF HalvesOK, TopJoins, SchemaOK, TopSchema, Running, Top
  <2>8. LegacyOK'
    BY <2>1, <2>2 DEF LegacyOK, Running, Top
  <2> QED BY <2>3, <2>4, <2>5, <2>6, <2>7, <2>8 DEF HostInv
<1> QED BY <1>2, <1>3, <1>4, <1>5, <1>6, <1>7, <1>8, <1>9, WorkStep, UninstallStep, PurgeStep, FailStep, KilledStep
        DEF HostNext

(* The invariant of the scripts, for any number of changes, scripts and     *)
(* failures.                                                                *)
THEOREM HostInvHolds == HostSpec => []HostInv
<1>1. HostInit => HostInv
  BY HostStart
<1>2. HostInv /\ [HostNext]_hostVars => HostInv'
  BY HostStep
<1> QED BY <1>1, <1>2, PTL DEF HostSpec

(* No change of a user is lost: it is in the data directories, in a         *)
(* complete backup or in a directory that a rollback moved away, wherever   *)
(* backup.sh, restore.sh and manage.sh fail or are killed.                  *)
THEOREM AlwaysRecoverable == HostSpec => []Recoverable
<1>1. HostInv => Recoverable
  BY DEF HostInv
<1> QED BY <1>1, HostInvHolds, PTL

(* A stack that serves has both halves of every change and no migration     *)
(* newer than itself, but for interrupted restores and older dumps.         *)
THEOREM AlwaysTogether == HostSpec => []Together
<1>1. HostInv => Together
  <2> SUFFICES ASSUME HostInv, services = "all", mounted = 0, "restore" \notin apart
               PROVE  pg = zt /\ ("images" \notin apart => schema <= runs)
    BY DEF Together
  <2>1. ~(stack # <<>> /\ stack[1].op = "restore" /\ stack[1].at \notin {"pre", "stop"})
    BY DEF HostInv, StagesKeep, TopKeeps
  <2>2. pg = zt
    BY <2>1 DEF HostInv, HalvesOK
  <2>3. "images" \notin apart => apart = {}
    BY DEF HostInv, HostTypes
  <2> QED BY <2>2, <2>3 DEF HostInv, SchemaOK
<1> QED BY <1>1, HostInvHolds, PTL

(* The legacy controller and the new one, which share an identity, never    *)
(* run together unless a command failed.                                    *)
THEOREM AlwaysOneController == HostSpec => []OneController
<1>1. HostInv => OneController
  BY DEF HostInv, HostTypes, LegacyOK, OneController
<1> QED BY <1>1, HostInvHolds, PTL
=============================================================================
