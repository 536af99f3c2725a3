------------------------------- MODULE Planet -------------------------------
(***************************************************************************)
(* The planet, the file that names the root servers: generated from the    *)
(* form of the administration page (makeWorld), from an uploaded archive   *)
(* (pages/api/mkworld/config.ts), or put back (resetWorld).  Each of them  *)
(* changes the planet file, the ports in local.conf, the working directory *)
(* zt-mkworld, from which clients download, and the row that the page      *)
(* shows; between two of them another request may run.                     *)
(*                                                                         *)
(* A world is a name and stands for its root nodes and their ports.      *)
(* What runs without an await is one step.                                 *)
(***************************************************************************)
EXTENDS Integers

CONSTANTS
    Worlds,        \* configurations an administrator may enter
    PlanetSlots,   \* requests under way at once
    MaxWorldCalls, \* bound: requests
    MaxWorldFaults \* bound: failures, restarts of the container

VARIABLES
    planet,    \* the planet file: "none", "original" or a world
    copy,      \* planet_backup: "absent", "empty", or the planet saved in it
    workshop,  \* zt-mkworld: "absent", "empty", or its planet.custom
    ports,     \* local.conf: "default" or the world whose ports it has
    worldRow,  \* the row of Planet: "none" or a world
    making,    \* making[s]: the request under way
    mishap,    \* history: a request failed half-way, or two of them overlapped
    worldCalls, worldFaults

files == <<planet, copy, workshop, ports, worldRow>>
planetVars == <<files, making, mishap, worldCalls, worldFaults>>

Free == [op |-> "idle"]
Quiet == \A s \in PlanetSlots : making[s] = Free
Ask(s, req) == making' = [making EXCEPT ![s] = req]
Proceed(s, at) == Ask(s, [making[s] EXCEPT !.at = at])
At(s, op, at) == making[s] # Free /\ making[s].op = op /\ making[s].at = at

Accept(s) ==
    /\ making[s] = Free /\ worldCalls < MaxWorldCalls
    /\ worldCalls' = worldCalls + 1
    /\ mishap' = (mishap \/ ~Quiet)
    /\ UNCHANGED worldFaults

Ends(s) == Ask(s, Free) /\ UNCHANGED <<mishap, worldCalls, worldFaults>>

(* The original is saved once, when there is no planet_backup.              *)
SaveOriginal == copy' = IF planet # "none" /\ copy = "absent" THEN planet ELSE copy

(* makeWorld up to its first await: the generator writes planet.custom into *)
(* the working directory that all requests share.                           *)
MakeWorld(s, w) ==
    /\ Accept(s) /\ SaveOriginal
    /\ workshop' = w
    /\ Ask(s, [op |-> "make", at |-> "ports", w |-> w])
    /\ UNCHANGED <<planet, ports, worldRow>>

(* The generator refuses the configuration: directories are left behind.    *)
MakeWorldRefused(s) ==
    /\ Accept(s) /\ SaveOriginal
    /\ workshop' = IF workshop = "absent" THEN "empty" ELSE workshop
    /\ UNCHANGED <<planet, ports, worldRow, making>>

(* The upload is unpacked and its world generated in a private directory;   *)
(* full says whether the archive holds a planet.custom.                     *)
Upload(s, w, full) ==
    /\ Accept(s)
    /\ Ask(s, [op |-> "upload", at |-> "ports", w |-> w, full |-> full])
    /\ UNCHANGED files

(* updateLocalConf: read, change the ports, replace the file.               *)
UpdateLocalConf(s) ==
    LET m == making[s] IN
    /\ m # Free /\ m.at = "ports"
    /\ ports' = IF m.op = "reset" THEN "default" ELSE m.w
    /\ Proceed(s, IF m.op = "upload" THEN "directory" ELSE IF m.op = "make" THEN "planet" ELSE "row")
    /\ UNCHANGED <<planet, copy, workshop, worldRow, mishap, worldCalls, worldFaults>>

UploadDirectory(s) ==
    /\ At(s, "upload", "directory")
    /\ workshop' = IF workshop = "absent" THEN "empty" ELSE workshop
    /\ IF planet # "none" /\ copy = "absent"
       THEN copy' = "empty" /\ Proceed(s, "save")
       ELSE UNCHANGED copy /\ Proceed(s, "files")
    /\ UNCHANGED <<planet, ports, worldRow, mishap, worldCalls, worldFaults>>

UploadSaves(s) ==
    /\ At(s, "upload", "save")
    /\ copy' = IF copy = "absent" THEN copy ELSE planet
    /\ IF copy = "absent" THEN Ask(s, Free) /\ mishap' = TRUE ELSE Proceed(s, "files") /\ UNCHANGED mishap
    /\ UNCHANGED <<planet, workshop, ports, worldRow, worldCalls, worldFaults>>

UploadFiles(s) ==
    /\ At(s, "upload", "files")
    /\ workshop' = IF making[s].full THEN making[s].w ELSE workshop
    /\ IF workshop = "absent" THEN Ask(s, Free) /\ mishap' = TRUE ELSE Proceed(s, "planet") /\ UNCHANGED mishap
    /\ UNCHANGED <<planet, copy, ports, worldRow, worldCalls, worldFaults>>

\* Mutant: an upload installs the planet of the working directory.
GeneratedShared(m) == workshop

(* An upload installs what it generated, makeWorld what the directory has.  *)
Generated(m) == IF m.op = "upload" THEN m.w ELSE workshop

InstallPlanet(s) ==
    LET p == Generated(making[s]) IN
    /\ making[s] # Free /\ making[s].op \in {"make", "upload"} /\ making[s].at = "planet"
    /\ IF p \in Worlds
       THEN planet' = p /\ Proceed(s, "row") /\ UNCHANGED mishap
       ELSE Ask(s, Free) /\ mishap' = TRUE /\ UNCHANGED planet
    /\ UNCHANGED <<copy, workshop, ports, worldRow, worldCalls, worldFaults>>

(* resetWorld                                                               *)
ResetWithoutDirectory(s) ==
    /\ Accept(s) /\ copy = "absent"
    /\ worldRow' = "none"
    /\ UNCHANGED <<planet, copy, workshop, ports, making>>

ResetWorld(s) ==
    /\ Accept(s) /\ copy # "absent"
    /\ planet' = IF copy = "empty" THEN planet ELSE copy
    /\ copy' = "absent" /\ workshop' = "absent"
    /\ Ask(s, [op |-> "reset", at |-> "ports"])
    /\ UNCHANGED <<ports, worldRow>>

StoreWorld(s) ==
    /\ making[s] # Free /\ making[s].at = "row"
    /\ worldRow' = IF making[s].op = "reset" THEN "none" ELSE making[s].w
    /\ Ends(s)
    /\ UNCHANGED <<planet, copy, workshop, ports>>

RequestFails(s) ==
    /\ making[s] # Free /\ worldFaults < MaxWorldFaults
    /\ worldFaults' = worldFaults + 1
    /\ mishap' = TRUE
    /\ Ask(s, Free)
    /\ UNCHANGED <<files, worldCalls>>

(* init-db.sh, when the container starts: it makes both directories.        *)
StartContainer ==
    /\ worldFaults < MaxWorldFaults
    /\ worldFaults' = worldFaults + 1
    /\ copy' = IF copy = "absent" THEN "empty" ELSE copy
    /\ workshop' = IF workshop = "absent" THEN "empty" ELSE workshop
    /\ mishap' = (mishap \/ ~Quiet)
    /\ making' = [s \in PlanetSlots |-> Free]
    /\ UNCHANGED <<planet, ports, worldRow, worldCalls>>

(* getPlanet answers with an error: a backup exists and no planet row.      *)
Inconsistent == copy # "absent" /\ worldRow = "none"

----------------------------------------------------------------------------
PlanetInit ==
    /\ planet = "original" /\ workshop = "empty" /\ ports = "default" /\ worldRow = "none"
    /\ copy = "empty"
    /\ making = [s \in PlanetSlots |-> Free]
    /\ mishap = FALSE /\ worldCalls = 0 /\ worldFaults = 0

PlanetNext ==
    \/ \E s \in PlanetSlots :
           \/ \E w \in Worlds : MakeWorld(s, w) \/ \E full \in BOOLEAN : Upload(s, w, full)
           \/ MakeWorldRefused(s) \/ ResetWithoutDirectory(s) \/ ResetWorld(s)
           \/ UpdateLocalConf(s) \/ UploadDirectory(s) \/ UploadSaves(s) \/ UploadFiles(s)
           \/ InstallPlanet(s) \/ StoreWorld(s) \/ RequestFails(s)
    \/ StartContainer

----------------------------------------------------------------------------
(* The world the page shows is the one the root server has installed and    *)
(* listens for, whatever sequence of forms, uploads, resets and restarts    *)
(* led there, unless a request failed half-way or two of them overlapped.   *)
WorldAgrees ==
    Quiet /\ ~mishap /\ worldRow # "none" => planet = worldRow /\ ports = worldRow
=============================================================================
