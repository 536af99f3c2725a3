----------------------------- MODULE WebBackups -----------------------------
(***************************************************************************)
(* The archives that administrators make, list, download and delete in the *)
(* web console (createBackup, downloadBackup, listBackups and deleteBackup *)
(* of adminRoute.ts, and pages/admin/backuprestore).  restoreBackup and    *)
(* uploadBackup refuse every call, and the page disables their buttons.    *)
(*                                                                         *)
(* The procedures have no await: a call runs to its end before the process *)
(* looks at the next one, and only the death of the process divides it.    *)
(* What a page asks for and what it is answered do interleave.             *)
(***************************************************************************)
EXTENDS Integers, FiniteSets, FiniteSetsExt

CONSTANTS
    BackupPages,     \* pages that are open
    TypedNames,      \* names that users type
    ServerMajor,     \* the version of the database server
    ClientMajors,    \* the versions of pg_dump that the image bundles
    MaxPresses,      \* bound: what users ask of the pages
    MaxBackupFaults  \* bound: commands that fail and deaths of the process

ASSUME BackupBounds == MaxPresses \in Nat

VARIABLES
    archive,   \* archive[n]: the file n.tar.gz
    serial,    \* creations that reached the server so far
    listed,    \* listed[p]: the names in the table of the page
    listing,   \* listing[p]: the reload of the list under way
    creating,  \* creating[p]: the creation under way
    deleting,  \* deleting[p]: the deletion under way
    downloads, \* downloads[p]: downloads under way
    reported,  \* history: creations that a page reported as successful
    got,       \* history: downloads that reached a browser
    removed,   \* history: names of deleted archives
    behind,    \* history, behind[p]: changes after its last list that p starts no reload for
    presses, backupFaults

backupVars == <<archive, serial, listed, listing, creating, deleting, downloads, reported, got,
                removed, behind, presses, backupFaults>>

Names == TypedNames \cup 1..MaxPresses
NoFile == [at |-> "none"]
NoBackupCall == [at |-> "idle"]

Files == {n \in Names : archive[n] # NoFile}

----------------------------------------------------------------------------
(* The page                                                                *)

Presses == presses < MaxPresses /\ presses' = presses + 1

\* An empty name becomes one made of the time, which no other archive has; a name with
\* other characters than a file name should have is refused, and left out here.
PressCreate(p) ==
    /\ creating[p] = NoBackupCall /\ Presses
    /\ \E n \in TypedNames \cup {presses'} : creating' = [creating EXCEPT ![p] = [at |-> "sent", name |-> n]]
    /\ UNCHANGED <<archive, serial, listed, listing, deleting, downloads, reported, got, removed,
                   behind, backupFaults>>

PressDelete(p, n) ==
    /\ n \in listed[p] /\ deleting[p] = NoBackupCall /\ Presses
    /\ deleting' = [deleting EXCEPT ![p] = [at |-> "sent", name |-> n]]
    /\ UNCHANGED <<archive, serial, listed, listing, creating, downloads, reported, got, removed,
                   behind, backupFaults>>

PressDownload(p, n) ==
    /\ n \in listed[p] /\ Presses
    /\ downloads' = [downloads EXCEPT ![p] = @ \cup {[name |-> n, want |-> 0]}]
    /\ UNCHANGED <<archive, serial, listed, listing, creating, deleting, reported, got, removed,
                   behind, backupFaults>>

RefetchBackups(p) == listing' = [listing EXCEPT ![p] = [at |-> "sent"]]

\* The window gets the focus.
Relist(p) ==
    /\ Presses
    /\ RefetchBackups(p)
    /\ UNCHANGED <<archive, serial, listed, creating, deleting, downloads, reported, got, removed,
                   behind, backupFaults>>

\* Mutant: the list is not loaded again.
CreateAnsweredOnly(p) ==
    LET c == creating[p] IN
    /\ c.at \in {"done", "failed"}
    /\ creating' = [creating EXCEPT ![p] = NoBackupCall]
    /\ IF c.at = "done"
       THEN /\ downloads' = [downloads EXCEPT ![p] = @ \cup {[name |-> c.name, want |-> c.serial]}]
            /\ reported' = reported \cup {[name |-> c.name, serial |-> c.serial]}
       ELSE UNCHANGED <<downloads, reported>>
    /\ UNCHANGED <<archive, serial, listed, listing, deleting, got, removed, behind, presses, backupFaults>>

\* Success reloads the list and starts the download; an error is shown, and that is all.
CreateAnswered(p) ==
    LET c == creating[p] IN
    /\ c.at \in {"done", "failed"}
    /\ creating' = [creating EXCEPT ![p] = NoBackupCall]
    /\ IF c.at = "done"
       THEN /\ RefetchBackups(p)
            /\ downloads' = [downloads EXCEPT ![p] = @ \cup {[name |-> c.name, want |-> c.serial]}]
            /\ reported' = reported \cup {[name |-> c.name, serial |-> c.serial]}
       ELSE UNCHANGED <<listing, downloads, reported>>
    /\ UNCHANGED <<archive, serial, listed, deleting, got, removed, behind, presses, backupFaults>>

DeleteAnswered(p) ==
    /\ deleting[p].at \in {"done", "failed"}
    /\ deleting' = [deleting EXCEPT ![p] = NoBackupCall]
    /\ IF deleting[p].at = "done" THEN RefetchBackups(p) ELSE UNCHANGED listing
    /\ UNCHANGED <<archive, serial, listed, creating, downloads, reported, got, removed, behind,
                   presses, backupFaults>>

ListArrives(p) ==
    /\ listing[p].at = "read"
    /\ listed' = [listed EXCEPT ![p] = listing[p].names]
    /\ listing' = [listing EXCEPT ![p] = NoBackupCall]
    /\ UNCHANGED <<archive, serial, creating, deleting, downloads, reported, got, removed, behind,
                   presses, backupFaults>>

----------------------------------------------------------------------------
(* The server                                                              *)

\* The versions of pg_dump that may be run.  When psql could tell the version of the
\* server it is the closest that is not older; else it is whichever is found.
SelectClientMajor == LET newer == {c \in ClientMajors : c >= ServerMajor} IN
                     IF newer = {} THEN {} ELSE {Min(newer)}
DetectServerMajor == BOOLEAN
ResolvePgDumpPath(known) == IF known /\ ClientMajors # {} THEN SelectClientMajor ELSE ClientMajors

\* A dump by an older client fails, and so does one without a client.  A creation that
\* leaves the database out runs none, so that which parts are asked for only decides
\* what can fail; the files of a controller that are not mounted are left out.
DumpFails(known) == ResolvePgDumpPath(known) = {} \/ \E c \in ResolvePgDumpPath(known) : c < ServerMajor

\* tar writes over an archive of that name, and leaves what it wrote when it fails.
Tar(c, whole) ==
    archive' = [archive EXCEPT ![c.name] = [at |-> "file", serial |-> serial', whole |-> whole]]

\* Other pages do not hear of a change, and the page whose call failed loads no list.
Unseen(pages, n) == behind' = [q \in BackupPages |-> IF q \in pages THEN behind[q] \cup {n} ELSE behind[q]]

Reaches(p) ==
    /\ creating[p].at = "sent"
    /\ serial' = serial + 1
    /\ UNCHANGED <<listed, listing, deleting, downloads, reported, got, removed, presses>>

CreateBackup(p) ==
    LET c == creating[p] IN
    /\ Reaches(p)
    /\ Tar(c, TRUE)
    /\ Unseen(BackupPages \ {p}, c.name)
    /\ creating' = [creating EXCEPT ![p] = [at |-> "done", name |-> c.name, serial |-> serial']]
    /\ UNCHANGED backupFaults

\* pg_dump or the copy fails: the temporary directory goes, and nothing was written.
CollectFails(p) ==
    /\ Reaches(p)
    /\ \/ (\E known \in DetectServerMajor : DumpFails(known)) /\ UNCHANGED backupFaults
       \/ backupFaults < MaxBackupFaults /\ backupFaults' = backupFaults + 1
    /\ creating' = [creating EXCEPT ![p] = [at |-> "failed"]]
    /\ UNCHANGED <<archive, behind>>

\* Mutant: the archive counts for made when the file exists.
ArchiveFailsUnseen(p) ==
    LET c == creating[p] IN
    /\ Reaches(p)
    /\ backupFaults < MaxBackupFaults /\ backupFaults' = backupFaults + 1
    /\ Tar(c, FALSE)
    /\ Unseen(BackupPages \ {p}, c.name)
    /\ creating' = [creating EXCEPT ![p] = [at |-> "done", name |-> c.name, serial |-> serial']]

\* tar fails, or the process dies while it runs.
ArchiveFails(p) ==
    /\ Reaches(p)
    /\ backupFaults < MaxBackupFaults /\ backupFaults' = backupFaults + 1
    /\ Tar(creating[p], FALSE)
    /\ Unseen(BackupPages, creating[p].name)
    /\ creating' = [creating EXCEPT ![p] = [at |-> "failed"]]

\* Mutant: what has been made last is answered.
DownloadBackupLast(p, d) ==
    /\ d \in downloads[p]
    /\ downloads' = [downloads EXCEPT ![p] = @ \ {d}]
    /\ got' = IF d.want = 0 \/ Files = {} THEN got
              ELSE got \cup {[name |-> d.name, want |-> d.want, serial |-> Max({archive[n].serial : n \in Files})]}
    /\ UNCHANGED <<archive, serial, listed, listing, creating, deleting, reported, removed, behind,
                   presses, backupFaults>>

DownloadBackup(p, d) ==
    /\ d \in downloads[p]
    /\ downloads' = [downloads EXCEPT ![p] = @ \ {d}]
    /\ got' = IF d.want = 0 \/ archive[d.name] = NoFile THEN got
              ELSE got \cup {[name |-> d.name, want |-> d.want, serial |-> archive[d.name].serial]}
    /\ UNCHANGED <<archive, serial, listed, listing, creating, deleting, reported, removed, behind,
                   presses, backupFaults>>

ListBackups(p) ==
    /\ listing[p].at = "sent"
    /\ listing' = [listing EXCEPT ![p] = [at |-> "read", names |-> Files]]
    /\ behind' = [behind EXCEPT ![p] = {}]
    /\ UNCHANGED <<archive, serial, listed, creating, deleting, downloads, reported, got, removed,
                   presses, backupFaults>>

DeleteBackup(p) ==
    LET n == deleting[p].name IN
    /\ deleting[p].at = "sent"
    /\ deleting' = [deleting EXCEPT ![p] = [at |-> IF n \in Files THEN "done" ELSE "failed"]]
    /\ archive' = [archive EXCEPT ![n] = NoFile]
    /\ IF n \in Files THEN Unseen(BackupPages \ {p}, n) /\ removed' = removed \cup {n}
                      ELSE UNCHANGED <<behind, removed>>
    /\ UNCHANGED <<serial, listed, listing, creating, downloads, reported, got, presses, backupFaults>>

----------------------------------------------------------------------------
BackupInit ==
    /\ archive = [n \in Names |-> NoFile] /\ serial = 0
    /\ listed = [p \in BackupPages |-> {}] /\ listing = [p \in BackupPages |-> NoBackupCall]
    /\ creating = [p \in BackupPages |-> NoBackupCall] /\ deleting = [p \in BackupPages |-> NoBackupCall]
    /\ downloads = [p \in BackupPages |-> {}]
    /\ reported = {} /\ got = {} /\ removed = {} /\ behind = [p \in BackupPages |-> {}]
    /\ presses = 0 /\ backupFaults = 0

BackupNext == \E p \in BackupPages :
    \/ PressCreate(p) \/ Relist(p) \/ CreateAnswered(p) \/ DeleteAnswered(p) \/ ListArrives(p)
    \/ CreateBackup(p) \/ CollectFails(p) \/ ArchiveFails(p) \/ ListBackups(p) \/ DeleteBackup(p)
    \/ \E n \in Names : PressDelete(p, n) \/ PressDownload(p, n)
    \/ \E d \in downloads[p] : DownloadBackup(p, d)

----------------------------------------------------------------------------
(* An archive that a page reported as made is there and whole until some-   *)
(* body deletes it; only one with a typed name may be written over, also by *)
(* a creation that fails (createBackup).                                    *)
ToldTrue == \A t \in reported :
    \/ archive[t.name] = NoFile /\ t.name \in removed
    \/ archive[t.name] # NoFile /\ archive[t.name].serial = t.serial
       /\ archive[t.name].whole
    \/ archive[t.name] # NoFile /\ archive[t.name].serial > t.serial /\ t.name \in TypedNames

(* The download that follows a creation brings the archive it made, unless  *)
(* the name was typed and another page has used it meanwhile.               *)
DownloadsTrue == \A d \in got : d.serial = d.want \/ (d.name \in TypedNames /\ d.serial > d.want)

(* A page that waits for nothing shows the archives there are, except for   *)
(* what other pages did after its last list and what a failed creation of   *)
(* its own left behind, for which no list is loaded.                        *)
ListTrue == \A p \in BackupPages :
    listing[p] = NoBackupCall /\ creating[p].at # "done" /\ deleting[p].at # "done" =>
        (listed[p] \ Files) \cup (Files \ listed[p]) \subseteq behind[p]

(* What the page of the backups says, of archives made, downloaded and      *)
(* listed, is so.                                                           *)
BackupsHold == ToldTrue /\ DownloadsTrue /\ ListTrue
=============================================================================
