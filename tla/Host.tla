-------------------------------- MODULE Host --------------------------------
(***************************************************************************)
(* What an administrator runs on the host: backup.sh, restore.sh and the   *)
(* install, upgrade, uninstall and purge-data commands of manage.sh, with  *)
(* their traps, while the stack serves its users.                          *)
(*                                                                         *)
(* A directory or a dump is the set of changes it contains.  A change is   *)
(* made by a user and reaches the database and the controller; scripts     *)
(* copy, empty and fill whole directories.  One script runs at a time, and *)
(* it may call another: the running scripts are a stack.  A command may    *)
(* fail, which runs the trap, and a script may be killed, which does not.  *)
(***************************************************************************)
EXTENDS Integers, Sequences

CONSTANTS
    MaxWork,    \* bound: changes users make
    MaxScripts, \* bound: scripts the administrator starts
    MaxHostFaults \* bound: commands that fail, scripts that are killed

ASSUME HostBounds == MaxWork \in Nat /\ MaxScripts \in Nat /\ MaxHostFaults \in Nat

VARIABLES
    services, \* "down", "postgres" or "all"
    runs,     \* release of the containers that run
    image,    \* release of the images that compose would start
    release,  \* release in install_dir, 0 when files are missing
    pg, zt,   \* data/postgres and data/zerotier
    schema,   \* migrations applied to the database
    generated, \* state_dir/generated exists
    legacy,   \* the container of the previous project: "none", "running", "stopped"
    imported, \* its state: "no", copied "partly", "yes"
    saved,    \* /var/backups/ztplanet: a sequence of backups
    failed,   \* install_dir.failed.*: the data directories moved away
    mounted,  \* data the containers have mounted: 0 for install_dir, k for failed[k]
    stack,    \* scripts that run, the innermost first
    done,     \* history: changes users made
    apart,    \* history: "restore" when one loaded an older dump or was interrupted, "images" when a rollback
              \* did not rebuild them
    window,   \* history: changes made after the recovery point of a restore was taken
    scripts, hostFaults

disk == <<release, pg, zt, schema, generated, imported, saved, failed>>
hostVars == <<services, runs, image, disk, legacy, mounted, stack, done, apart, window, scripts, hostFaults>>

NewRelease == 2

Top == stack[1]
Running(op, at) == stack # <<>> /\ Top.op = op /\ Top.at = at
Goto(at) == stack' = <<[Top EXCEPT !.at = at]>> \o Tail(stack)

(* A frame: the script, its next command, and the backups it works with.   *)
Frame(op, at) == [op |-> op, at |-> at, id |-> 0, pre |-> 0, auto |-> FALSE, restart |-> FALSE,
                  legacyRan |-> FALSE]

MountedSchema == IF mounted = 0 THEN schema ELSE failed[mounted].schema
MountedPg == IF mounted = 0 THEN pg ELSE failed[mounted].pg
ComposeWorks == generated /\ release # 0

(* docker compose up -d: the containers of the current images start, and    *)
(* ztnet applies the migrations it knows (init-db.sh).                      *)
ComposeUp ==
    /\ ComposeWorks
    /\ services' = "all" /\ runs' = image /\ mounted' = 0
    /\ schema' = IF image > schema THEN image ELSE schema

ComposeStop == ComposeWorks /\ services' = "down" /\ mounted' = 0 /\ UNCHANGED runs

(* A user changes something that is stored on the controller and in the     *)
(* database.                                                                *)
Work ==
    /\ services = "all" /\ \A w \in done : w < MaxWork
    /\ LET w == IF done = {} THEN 1 ELSE 1 + CHOOSE m \in done : \A n \in done : n <= m IN
       /\ done' = done \cup {w}
       /\ IF mounted = 0
          THEN pg' = pg \cup {w} /\ zt' = zt \cup {w} /\ UNCHANGED failed
          ELSE /\ failed' = [failed EXCEPT ![mounted].pg = @ \cup {w}, ![mounted].zt = @ \cup {w}]
               /\ UNCHANGED <<pg, zt>>
    /\ UNCHANGED <<services, runs, image, release, schema, generated, imported, saved, legacy,
                   mounted, stack, apart, window, scripts, hostFaults>>

Start(frame) ==
    /\ stack = <<>> /\ scripts < MaxScripts
    /\ scripts' = scripts + 1
    /\ stack' = <<frame>>
    /\ UNCHANGED <<services, runs, image, disk, legacy, mounted, done, apart, window, hostFaults>>

----------------------------------------------------------------------------
(* backup.sh                                                               *)

Backup == Start(Frame("backup", "dump"))

Dump ==
    /\ Running("backup", "dump") /\ ComposeWorks /\ services # "down"
    /\ saved' = Append(saved, [dump |-> MountedPg, pg |-> {}, zt |-> {}, schema |-> 0, dumped |-> MountedSchema,
                               sums |-> FALSE, release |-> 0, hot |-> [pg |-> {}, zt |-> {}]])
    /\ stack' = <<[Top EXCEPT !.at = "stop", !.id = Len(saved) + 1]>> \o Tail(stack)
    /\ UNCHANGED <<services, runs, image, release, pg, zt, schema, generated, imported, failed, legacy,
                   mounted, done, apart, window, scripts, hostFaults>>

StopForBackup ==
    /\ Running("backup", "stop") /\ ComposeStop
    /\ stack' = <<[Top EXCEPT !.at = "postgres", !.restart = TRUE]>> \o Tail(stack)
    /\ UNCHANGED <<image, disk, legacy, done, apart, window, scripts, hostFaults>>

Archive ==
    /\ stack # <<>> /\ Top.op = "backup"
    /\ \/ Top.at = "postgres" /\ saved' = [saved EXCEPT ![Top.id].pg = pg, ![Top.id].schema = schema] /\ Goto("zerotier")
       \/ Top.at = "zerotier" /\ saved' = [saved EXCEPT ![Top.id].zt = zt] /\ Goto("config")
       \/ Top.at = "config" /\ generated /\ saved' = [saved EXCEPT ![Top.id].sums = TRUE] /\ Goto("up")
    /\ UNCHANGED <<services, runs, image, release, pg, zt, schema, generated, imported, failed, legacy,
                   mounted, done, apart, window, scripts, hostFaults>>

(* The script ends; the one that called it goes on with the new backup.     *)
Return ==
    stack' = IF Len(stack) = 1 THEN <<>>
             ELSE <<[stack[2] EXCEPT !.at = IF stack[2].op = "restore" THEN "stop" ELSE "release",
                                     !.pre = Top.id]>>

StartAfterBackup ==
    /\ Running("backup", "up") /\ ComposeUp /\ Return
    /\ UNCHANGED <<image, release, pg, zt, generated, imported, saved, failed, legacy, done, apart, window,
                   scripts, hostFaults>>

(* finish_backup: whatever failed, the services are started again, as far   *)
(* as that succeeds, and the failure ends the calling script too.           *)
FinishBackup ==
    /\ stack' = <<>>
    /\ \/ Top.restart /\ ComposeUp
       \/ UNCHANGED <<services, runs, mounted, schema>>
    /\ UNCHANGED <<image, release, pg, zt, generated, imported, saved, failed, legacy>>

----------------------------------------------------------------------------
(* restore.sh: of the backup k, by hand or from the trap of an upgrade      *)

(* A backup is of one moment when nothing changed between its dump and its  *)
(* stop (backup.sh:39-46) and it was not taken while the containers still   *)
(* had directories mounted that a rollback had moved away.                  *)
OneMoment(b) == b.dump = b.pg /\ b.dumped = b.schema

Restorable(k) == k \in DOMAIN saved /\ saved[k].sums

Restore(k) == Restorable(k) /\ Start([Frame("restore", "pre") EXCEPT !.id = k])

TakeRecoveryPoint ==
    /\ Running("restore", "pre")
    /\ stack' = IF Top.auto THEN <<[Top EXCEPT !.at = "stop"]>> \o Tail(stack)
                ELSE <<Frame("backup", "dump")>> \o stack
    /\ UNCHANGED <<services, runs, image, disk, legacy, mounted, done, apart, window, scripts, hostFaults>>

StopForRestore ==
    /\ Running("restore", "stop") /\ ComposeStop
    /\ window' = window \cup (IF Top.pre = 0 THEN {} ELSE pg \ saved[Top.pre].pg)
    /\ Goto("empty-postgres")
    /\ UNCHANGED <<image, disk, legacy, done, apart, scripts, hostFaults>>

RestoreBindDirectory ==
    LET b == saved[Top.id] IN
    /\ stack # <<>> /\ Top.op = "restore"
    /\ \/ Top.at = "empty-postgres" /\ pg' = {} /\ schema' = 0 /\ Goto("fill-postgres") /\ UNCHANGED zt
       \/ Top.at = "fill-postgres" /\ pg' = b.pg /\ schema' = b.schema /\ Goto("empty-zerotier") /\ UNCHANGED zt
       \/ Top.at = "empty-zerotier" /\ zt' = {} /\ Goto("fill-zerotier") /\ UNCHANGED <<pg, schema>>
       \/ Top.at = "fill-zerotier" /\ zt' = b.zt /\ Goto("drop-config") /\ UNCHANGED <<pg, schema>>
    /\ UNCHANGED <<services, runs, image, release, generated, imported, saved, failed, legacy, mounted,
                   done, apart, window, scripts, hostFaults>>

RestoreConfig ==
    /\ stack # <<>> /\ Top.op = "restore"
    /\ \/ Top.at = "drop-config" /\ generated' = FALSE /\ Goto("put-config")
       \/ Top.at = "put-config" /\ generated' = TRUE /\ Goto("postgres")
    /\ UNCHANGED <<services, runs, image, release, pg, zt, schema, imported, saved, failed, legacy, mounted,
                   done, apart, window, scripts, hostFaults>>

RestoreDatabase ==
    /\ stack # <<>> /\ Top.op = "restore" /\ ComposeWorks
    /\ \/ Top.at = "postgres" /\ services' = "postgres" /\ Goto("load") /\ UNCHANGED <<pg, schema, apart>>
       \/ /\ Top.at = "load" /\ services = "postgres"
          /\ pg' = saved[Top.id].dump /\ schema' = saved[Top.id].dumped
          /\ apart' = apart \cup (IF OneMoment(saved[Top.id]) THEN {} ELSE {"restore"})
          /\ Goto("up") /\ UNCHANGED services
    /\ UNCHANGED <<runs, image, release, zt, generated, imported, saved, failed, legacy, mounted,
                   done, window, scripts, hostFaults>>

StartAfterRestore ==
    /\ Running("restore", "up") /\ ComposeUp
    /\ stack' = <<>>
    /\ UNCHANGED <<image, release, pg, zt, generated, imported, saved, failed, legacy, done, apart, window,
                   scripts, hostFaults>>

----------------------------------------------------------------------------
(* manage.sh                                                               *)

(* upgrade_stack, up to the trap                                            *)
Upgrade == release # 0 /\ Start(Frame("upgrade", "backup"))

UpgradeBackup ==
    /\ Running("upgrade", "backup")
    /\ stack' = <<Frame("backup", "dump")>> \o stack
    /\ UNCHANGED <<services, runs, image, disk, legacy, mounted, done, apart, window, scripts, hostFaults>>

ReleaseBackup ==
    /\ Running("upgrade", "release")
    /\ saved' = [saved EXCEPT ![Top.pre].release = release, ![Top.pre].hot = [pg |-> pg, zt |-> zt]]
    /\ Goto("copy")
    /\ UNCHANGED <<services, runs, image, release, pg, zt, schema, generated, imported, failed, legacy,
                   mounted, done, apart, window, scripts, hostFaults>>

(* install_stack                                                            *)
Install == Start(Frame("install", "copy"))

CopyRelease ==
    /\ stack # <<>> /\ Top.op \in {"install", "upgrade"} /\ Top.at = "copy"
    /\ release' = NewRelease
    /\ Goto("secrets")
    /\ UNCHANGED <<services, runs, image, pg, zt, schema, generated, imported, saved, failed, legacy,
                   mounted, done, apart, window, scripts, hostFaults>>

(* --initialize-only renders the configuration that is there, or a default. *)
InitializeSecrets ==
    /\ stack # <<>> /\ Top.op \in {"install", "upgrade"} /\ Top.at = "secrets"
    /\ generated' = TRUE
    /\ Goto(IF Top.op = "install" THEN "legacy" ELSE "build")
    /\ UNCHANGED <<services, runs, image, release, pg, zt, schema, imported, saved, failed, legacy,
                   mounted, done, apart, window, scripts, hostFaults>>

\* Mutant: the legacy container is not stopped.
StopLegacyNot ==
    /\ Running("install", "legacy")
    /\ stack' = <<[Top EXCEPT !.at = "import", !.legacyRan = legacy = "running"]>>
    /\ UNCHANGED <<services, runs, image, disk, legacy, mounted, done, apart, window, scripts, hostFaults>>

StopLegacy ==
    /\ Running("install", "legacy")
    /\ legacy' = IF legacy = "running" THEN "stopped" ELSE legacy
    /\ stack' = <<[Top EXCEPT !.at = "import", !.legacyRan = legacy = "running"]>>
    /\ UNCHANGED <<services, runs, image, disk, mounted, done, apart, window, scripts, hostFaults>>

LegacyImport ==
    /\ stack # <<>> /\ Top.op = "install"
    /\ \/ /\ Top.at = "import" /\ (legacy = "none" \/ imported = "yes")
          /\ Goto("build") /\ UNCHANGED imported
       \/ /\ Top.at = "import" /\ legacy # "none" /\ imported = "no" /\ zt = {}
          /\ imported' = "partly" /\ Goto("mark")
       \/ /\ Top.at = "mark" /\ imported' = "yes" /\ Goto("build")
    /\ UNCHANGED <<services, runs, image, release, pg, zt, schema, generated, saved, failed, legacy,
                   mounted, done, apart, window, scripts, hostFaults>>

BuildImages ==
    /\ stack # <<>> /\ Top.op \in {"install", "upgrade"} /\ Top.at = "build"
    /\ image' = release
    /\ Goto("up")
    /\ UNCHANGED <<services, runs, disk, legacy, mounted, done, apart, window, scripts, hostFaults>>

DeployAndStart ==
    /\ stack # <<>> /\ Top.op \in {"install", "upgrade"} /\ Top.at = "up"
    /\ ComposeUp
    /\ Goto("ps")
    /\ UNCHANGED <<image, release, pg, zt, generated, imported, saved, failed, legacy, done, apart, window,
                   scripts, hostFaults>>

Succeed ==
    /\ stack # <<>> /\ Top.op \in {"install", "upgrade"} /\ Top.at = "ps"
    /\ stack' = <<>>
    /\ UNCHANGED <<services, runs, image, disk, legacy, mounted, done, apart, window, scripts, hostFaults>>

RecoverFailedInstall ==
    /\ stack' = <<>>
    /\ \/ ComposeStop
       \/ UNCHANGED <<services, runs, mounted>>
    /\ legacy' = IF Top.legacyRan THEN "running" ELSE legacy
    /\ UNCHANGED <<image, disk>>

(* recover_failed_upgrade: from the trap, one command at a time             *)
RecoverFailedUpgrade ==
    /\ stack' = <<[Frame("recover", "move") EXCEPT !.pre = Top.pre]>>
    /\ UNCHANGED <<services, runs, image, disk, legacy, mounted>>

MoveAway ==
    /\ Running("recover", "move")
    /\ failed' = Append(failed, [pg |-> pg, zt |-> zt, schema |-> schema])
    /\ mounted' = IF services = "down" THEN 0 ELSE Len(failed) + 1
    /\ release' = 0 /\ pg' = {} /\ zt' = {} /\ schema' = 0
    /\ Goto("unpack")
    /\ UNCHANGED <<services, runs, image, generated, imported, saved, legacy, done, apart, window, scripts, hostFaults>>

UnpackRelease ==
    /\ Running("recover", "unpack")
    /\ LET b == saved[Top.pre] IN
       release' = b.release /\ pg' = b.hot.pg /\ zt' = b.hot.zt /\ schema' = b.schema
    /\ Goto("rebuild")
    /\ UNCHANGED <<services, runs, image, generated, imported, saved, failed, legacy, mounted, done, apart,
                   window, scripts, hostFaults>>

(* Images that cannot be built again do not stop the rollback.              *)
Rebuild ==
    /\ Running("recover", "rebuild")
    /\ \/ image' = release /\ UNCHANGED <<apart, hostFaults>>
       \/ hostFaults < MaxHostFaults /\ hostFaults' = hostFaults + 1 /\ apart' = apart \cup {"images"} /\ UNCHANGED image
    /\ stack' = <<[Frame("restore", "pre") EXCEPT !.id = Top.pre, !.auto = TRUE]>>
    /\ UNCHANGED <<services, runs, disk, legacy, mounted, done, window, scripts>>

\* Mutant: uninstall empties the data directories, as a purge does.
UninstallPurges ==
    /\ stack = <<>> /\ scripts < MaxScripts /\ ComposeStop
    /\ scripts' = scripts + 1
    /\ pg' = {} /\ zt' = {} /\ schema' = 0
    /\ UNCHANGED <<image, release, generated, imported, saved, failed, legacy, stack, done, apart, window, hostFaults>>

Uninstall ==
    /\ stack = <<>> /\ scripts < MaxScripts /\ ComposeStop
    /\ scripts' = scripts + 1
    /\ UNCHANGED <<image, disk, legacy, stack, done, apart, window, hostFaults>>

\* Mutant: the purge forgets the controller's directory.
PurgePostgresOnly ==
    /\ stack = <<>> /\ scripts < MaxScripts /\ ComposeStop
    /\ scripts' = scripts + 1
    /\ pg' = {} /\ schema' = 0 /\ generated' = FALSE /\ imported' = "no"
    /\ window' = done
    /\ UNCHANGED <<zt, image, release, saved, failed, legacy, stack, done, apart, hostFaults>>

PurgeData ==
    /\ stack = <<>> /\ scripts < MaxScripts /\ ComposeStop
    /\ scripts' = scripts + 1
    /\ pg' = {} /\ zt' = {} /\ schema' = 0 /\ generated' = FALSE /\ imported' = "no"
    /\ window' = done
    /\ UNCHANGED <<image, release, saved, failed, legacy, stack, done, apart, hostFaults>>

----------------------------------------------------------------------------
(* A command of the running script fails, or cannot succeed.                *)
Armed == \/ Top.op = "upgrade" /\ Top.at \in {"copy", "secrets", "build", "up", "ps"}
         \/ Top.op = "install" /\ Top.at \in {"legacy", "import", "mark", "build", "up", "ps"}

Trap ==
    CASE Top.op = "backup" -> FinishBackup
      [] Top.op = "upgrade" /\ Armed -> RecoverFailedUpgrade
      [] Top.op = "install" /\ Armed -> RecoverFailedInstall
      [] OTHER -> stack' = <<>> /\ UNCHANGED <<services, runs, image, disk, legacy, mounted>>

Stuck ==
    \/ Top.op = "backup" /\ Top.at = "dump" /\ (services = "down" \/ ~ComposeWorks)
    \/ Top.op \in {"backup", "restore"} /\ Top.at \in {"stop", "up"} /\ ~ComposeWorks
    \/ Top.op = "backup" /\ Top.at = "config" /\ ~generated
    \/ Running("install", "import") /\ legacy # "none" /\ imported # "yes" /\ (imported = "partly" \/ zt # {})

Interrupted ==
    apart' = apart \cup {cause \in {"restore", "images"} :
        \/ cause = "restore" /\ Top.op = "restore" /\ Top.at \notin {"pre", "stop", "empty-postgres"}
        \/ cause = "images" /\ Running("recover", "rebuild")}

CommandFails ==
    /\ stack # <<>>
    /\ \/ hostFaults < MaxHostFaults /\ hostFaults' = hostFaults + 1
       \/ Stuck /\ UNCHANGED hostFaults
    /\ Trap /\ Interrupted
    /\ UNCHANGED <<done, window, scripts>>

Killed ==
    /\ stack # <<>> /\ hostFaults < MaxHostFaults
    /\ hostFaults' = hostFaults + 1
    /\ stack' = <<>> /\ Interrupted
    /\ UNCHANGED <<services, runs, image, disk, legacy, mounted, done, window, scripts>>

----------------------------------------------------------------------------
HostInit ==
    /\ pg = {} /\ zt = {} /\ imported = "no" /\ saved = <<>> /\ failed = <<>> /\ mounted = 0
    /\ stack = <<>> /\ done = {} /\ window = {} /\ apart = {} /\ scripts = 0 /\ hostFaults = 0
    /\ \/ /\ services = "all" /\ runs = 1 /\ image = 1 /\ release = 1 /\ schema = 1 /\ generated = TRUE
          /\ legacy = "none"
       \/ /\ services = "down" /\ runs = 0 /\ image = 0 /\ release = 0 /\ schema = 0 /\ generated = FALSE
          /\ legacy = "running"

BackupSteps == Dump \/ StopForBackup \/ Archive \/ StartAfterBackup
RestoreSteps == TakeRecoveryPoint \/ StopForRestore \/ RestoreBindDirectory \/ RestoreConfig
                  \/ RestoreDatabase \/ StartAfterRestore
ManageSteps == UpgradeBackup \/ ReleaseBackup \/ CopyRelease \/ InitializeSecrets \/ StopLegacy
                 \/ LegacyImport \/ BuildImages \/ DeployAndStart \/ Succeed
                 \/ MoveAway \/ UnpackRelease \/ Rebuild

HostNext ==
    \/ Work \/ Backup \/ Upgrade \/ Install \/ Uninstall \/ PurgeData
    \/ \E k \in DOMAIN saved : Restore(k)
    \/ BackupSteps \/ RestoreSteps \/ ManageSteps
    \/ CommandFails \/ Killed

----------------------------------------------------------------------------
(* Whatever a restore, an upgrade and its rollback do, and wherever they    *)
(* fail or are killed, every change is still in the data directories, in a  *)
(* complete backup or in a directory that was moved away.  What users       *)
(* change between the recovery point of a restore and its stop is not       *)
(* (restore.sh:88-92: backup.sh starts the services again).                 *)
Recoverable ==
    \A w \in done \ window :
        \/ w \in pg \cap zt
        \/ \E k \in DOMAIN saved : saved[k].sums /\ w \in saved[k].pg \cap saved[k].zt
        \/ \E k \in DOMAIN failed : w \in failed[k].pg \cap failed[k].zt

(* A stack that serves its users has the same changes in the database and   *)
(* on the controller, through any sequence of restores, upgrades and        *)
(* rollbacks, unless a restore was interrupted or loaded a dump older than  *)
(* its archives.  It has no migration that is newer than its release        *)
(* either, unless a rollback left the images of the newer release: the next *)
(* start applies their migrations, and a later rollback that does rebuild   *)
(* keeps them.                                                              *)
Together ==
    services = "all" /\ mounted = 0 /\ "restore" \notin apart =>
        pg = zt /\ ("images" \notin apart => schema <= runs)

(* The legacy container and the new stack, which have the same identity,    *)
(* run together only after a command failed.                                *)
OneController == legacy = "running" /\ services = "all" => hostFaults > 0
=============================================================================
