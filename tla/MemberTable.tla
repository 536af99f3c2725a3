---------------------------- MODULE MemberTable ----------------------------
(***************************************************************************)
(* The table of a network's members in a browser (NetworkMembersTable,     *)
(* useMemberColumns and the cells that are edited in place).  The rows are *)
(* loaded again by a poll, a push or a save while somebody types in one of *)
(* them: as long as an editor has the focus what is loaded is kept aside,  *)
(* and the table is shown from it when the editor is left.                 *)
(***************************************************************************)
EXTENDS Integers, Sequences

CONSTANTS
    Members,          \* ids of members
    MemberNames,            \* names that are typed
    Tables,           \* lists of members that the server may come to have
    MaxMemberChanges, \* bound: changes that others make
    MaxUserSteps,     \* bound: editors opened and buttons pressed
    MaxReloads        \* bound: polls and pushes

VARIABLES
    rows,        \* the members on the server, in the order of the table
    fetched,     \* the rows of the query, memoizedMembers
    load,        \* the request of the query under way
    data,        \* the rows that are shown
    pending,     \* pendingDataRef
    editingCount,\* editingCountRef
    editor,      \* the cell that has the focus
    updates,     \* calls of Update, stash and delete under way
    painted,     \* history: the places of data that updateData has changed since it was loaded
    unseen,      \* history: the server has changed after the last load began to read
    changes, userSteps, reloads

tableVars == <<rows, fetched, load, data, pending, editingCount, editor, updates, painted, unseen, changes,
               userSteps, reloads>>

Row == [id : Members, name : MemberNames]
ASSUME TablesAssumption == Tables \subseteq Seq(Row)

Nobody == [index |-> 0]
NoLoad == [at |-> "idle"]
NoRows == [at |-> "none"]

----------------------------------------------------------------------------
(* The query                                                               *)

\* Mutant: a load under way is not cancelled, and its answer counts.
InvalidateJoins == load' = IF load.at = "read" THEN load ELSE [at |-> "sent"]

\* A new load replaces the one under way, whose answer nobody waits for.
Invalidate == load' = [at |-> "sent"]

\* The poll, or the push of the live sync.
ReloadMembers ==
    /\ reloads < MaxReloads
    /\ reloads' = reloads + 1
    /\ Invalidate
    /\ UNCHANGED <<rows, fetched, data, pending, editingCount, editor, updates, painted, unseen, changes, userSteps>>

GetNetworkMembers ==
    /\ load.at = "sent"
    /\ load' = [at |-> "read", rows |-> rows]
    /\ unseen' = FALSE
    /\ UNCHANGED <<rows, fetched, data, pending, editingCount, editor, updates, painted, changes, userSteps,
                   reloads>>

\* Mutant: what is loaded is shown at once.
MirrorAlways(new) == data' = new /\ painted' = {} /\ UNCHANGED pending

\* The effect on memoizedMembers.
Mirror(new) ==
    IF editingCount > 0 THEN pending' = [at |-> "kept", rows |-> new] /\ UNCHANGED <<data, painted>>
    ELSE data' = new /\ painted' = {} /\ UNCHANGED pending

\* Rows equal to those of the query leave its data as it is, and no effect runs.
MembersLoaded ==
    /\ load.at = "read"
    /\ load' = NoLoad
    /\ fetched' = load.rows
    /\ IF load.rows = fetched THEN UNCHANGED <<data, pending, painted>> ELSE Mirror(load.rows)
    /\ UNCHANGED <<rows, editingCount, editor, updates, unseen, changes, userSteps, reloads>>

----------------------------------------------------------------------------
(* The cells                                                               *)

UserSteps == userSteps < MaxUserSteps /\ userSteps' = userSteps + 1

\* An editor begins with what its row shows.
FocusCell(i) ==
    /\ editor = Nobody /\ i \in DOMAIN data /\ UserSteps
    /\ editor' = [id |-> data[i].id, index |-> i, initial |-> data[i].name, value |-> data[i].name]
    /\ editingCount' = editingCount + 1
    /\ UNCHANGED <<rows, fetched, load, data, pending, updates, painted, unseen, changes, reloads>>

TypeInCell(v) ==
    /\ editor # Nobody /\ v # editor.value
    /\ editor' = [editor EXCEPT !.value = v]
    /\ UNCHANGED <<rows, fetched, load, data, pending, editingCount, updates, painted, unseen, changes, userSteps,
                   reloads>>

\* Mutant: what was kept aside is dropped.
FlushedNever == data

\* handleEditingChange(false): the last editor that is left shows what was kept aside.
Flushed == IF editingCount = 1 /\ pending # NoRows THEN pending.rows ELSE data

EditingEnds ==
    /\ editor # Nobody /\ editor' = Nobody
    /\ editingCount' = editingCount - 1
    /\ pending' = IF editingCount = 1 THEN NoRows ELSE pending
    /\ UNCHANGED <<rows, fetched, load, unseen, changes, userSteps, reloads>>

UpdateData(table, i, v) == [k \in DOMAIN table |-> IF k = i THEN [id |-> table[k].id, name |-> v] ELSE table[k]]

SendUpdate(id, does, v) == updates' = updates \cup {[id |-> id, does |-> does, value |-> v, at |-> "sent"]}

\* Enter or a click elsewhere.  updateData paints a place of what is shown now.
CommitCell ==
    /\ EditingEnds
    /\ IF editor.value # editor.initial THEN SendUpdate(editor.id, "update", editor.value) ELSE UNCHANGED updates
    /\ data' = UpdateData(Flushed, editor.index, editor.value)
    /\ painted' = (IF Flushed = data THEN painted ELSE {}) \cup {editor.index}

\* Mutant: a cell that goes says nothing.
LeaveCellQuietly ==
    /\ editor # Nobody /\ editor' = Nobody
    /\ UNCHANGED <<rows, fetched, load, data, pending, editingCount, updates, painted, unseen, changes, userSteps,
                   reloads>>

\* Escape in a description, or the cell goes with the focus in it.
LeaveCell ==
    /\ EditingEnds
    /\ data' = Flushed
    /\ painted' = IF Flushed = data THEN painted ELSE {}
    /\ UNCHANGED updates

PressRow(i, does) ==
    /\ editor = Nobody /\ i \in DOMAIN data /\ UserSteps
    /\ SendUpdate(data[i].id, does, data[i].name)
    /\ UNCHANGED <<rows, fetched, load, data, pending, editingCount, editor, painted, unseen, changes, reloads>>

\* The switch and the addresses of a row, which change other columns; stash and delete.
Authorize(i) == PressRow(i, "set")
DeleteIp(i) == PressRow(i, "set")
StashOrDelete(i) == PressRow(i, "remove")

----------------------------------------------------------------------------
(* The server                                                              *)

OthersChange ==
    /\ changes < MaxMemberChanges
    /\ changes' = changes + 1
    /\ rows' \in Tables \ {rows} /\ unseen' = TRUE
    /\ UNCHANGED <<fetched, load, data, pending, editingCount, editor, updates, painted, userSteps, reloads>>

Without(table, k) == [j \in 1..(Len(table) - 1) |-> table[IF j < k THEN j ELSE j + 1]]

\* Update, stash and delete refuse a member they do not know.
UpdateStored(s) ==
    /\ s \in updates /\ s.at = "sent"
    /\ \/ /\ \E k \in DOMAIN rows :
                /\ rows[k].id = s.id
                /\ \/ s.does = "update" /\ rows' = UpdateData(rows, k, s.value)
                   \/ s.does = "set" /\ rows' = rows
                   \/ s.does = "remove" /\ rows' = Without(rows, k)
          /\ updates' = (updates \ {s}) \cup {[s EXCEPT !.at = "done"]}
       \/ UNCHANGED rows /\ updates' = (updates \ {s}) \cup {[s EXCEPT !.at = "failed"]}
    /\ UNCHANGED <<fetched, load, data, pending, editingCount, editor, painted, unseen, changes, userSteps,
                   reloads>>

\* Success loads the table again, an error shows a message.
UpdateAnswered(s) ==
    /\ s \in updates /\ s.at \in {"done", "failed"}
    /\ updates' = updates \ {s}
    /\ IF s.at = "done" THEN Invalidate ELSE UNCHANGED load
    /\ UNCHANGED <<rows, fetched, data, pending, editingCount, editor, painted, unseen, changes, userSteps,
                   reloads>>

----------------------------------------------------------------------------
TableInit ==
    /\ rows \in Tables /\ fetched = rows /\ data = rows /\ load = NoLoad
    /\ pending = NoRows /\ editingCount = 0 /\ editor = Nobody /\ updates = {} /\ painted = {} /\ unseen = FALSE
    /\ changes = 0 /\ userSteps = 0 /\ reloads = 0

TableNext ==
    \/ ReloadMembers \/ GetNetworkMembers \/ MembersLoaded \/ CommitCell \/ LeaveCell \/ OthersChange
    \/ \E i \in DOMAIN data : FocusCell(i) \/ Authorize(i) \/ DeleteIp(i) \/ StashOrDelete(i)
    \/ \E v \in MemberNames : TypeInCell(v)
    \/ \E s \in updates : UpdateStored(s) \/ UpdateAnswered(s)

----------------------------------------------------------------------------
(* While an editor has the focus the row it belongs to stays where it is,   *)
(* whatever is loaded; exactly then the table is frozen (handleEditing-     *)
(* Change, the clean-up of the cells).                                      *)
EditorKept ==
    /\ editingCount = IF editor = Nobody THEN 0 ELSE 1
    /\ editor # Nobody => editor.index \in DOMAIN data /\ data[editor.index].id = editor.id

(* Nothing that was loaded is lost: it is shown, or kept aside while an     *)
(* editor has the focus; only rows painted since may differ, in what was    *)
(* typed and not in whose they are.                                         *)
LoadsShown ==
    IF pending # NoRows THEN editor # Nobody /\ pending.rows = fetched
    ELSE /\ DOMAIN data = DOMAIN fetched
         /\ \A k \in DOMAIN data : data[k].id = fetched[k].id /\ (data[k] # fetched[k] => k \in painted)

(* When no call is under way the rows of the query are those of the server, *)
(* but for changes of others that no load has seen: the answer of a load    *)
(* that had read before a save never replaces what the save loads.          *)
UpdatesSeen == load = NoLoad /\ updates = {} /\ ~unseen => fetched = rows

(* What is typed, loaded and saved in the table of members does not get     *)
(* into each other's way.                                                   *)
TableHolds == EditorKept /\ LoadsShown /\ UpdatesSeen
=============================================================================
