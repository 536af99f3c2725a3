---------------------------- MODULE MCOperations ----------------------------
(***************************************************************************)
(* What an operator and an administrator do to an installation: scripts on *)
(* the host, the planet, the system page with certificates, the token and  *)
(* the credentials, the forms of the console, its backups and its table of *)
(* members, and the status it shows.                                       *)
(* The machines share no state, so that each behaviour runs one of them    *)
(* and the run covers their sum, not their product.                        *)
(***************************************************************************)
EXTENDS Host, Planet, SystemPage, ControllerAccess, Console, MemberStatus,
        WebBackups, MemberTable

VARIABLE arena

MCRegConfigs == {[exposure |-> "internal", other |-> 1], [exposure |-> "direct", other |-> 1]}
MCFirst == [exposure |-> "internal", other |-> 1]

MCRow == [id : Members, name : MemberNames]
MCTables == {<<>>} \cup {<<r>> : r \in MCRow} \cup {t \in MCRow \X MCRow : t[1].id # t[2].id}

\* Bound: of the edits, saves, reloads and refusals that ConsoleNext allows, four at most in one behaviour.
MaxConsole == 4

Step ==
    /\ UNCHANGED arena
    /\ \/ arena = "host" /\ HostNext
       \/ arena = "planet" /\ PlanetNext
       \/ arena = "pages" /\ (PageNext \/ AgentGoes \/ AgentReturns)
       \/ arena = "tls" /\ (TlsNext \/ AgentGoes \/ AgentReturns)
       \/ arena = "tokens" /\ TokenNext
       \/ arena = "credentials" /\ CacheNext
       \/ arena = "console" /\ ConsoleNext /\ typed' + pressed' + loads' + refused' <= MaxConsole
       \/ arena = "status" /\ StatusNext
       \/ arena = "backups" /\ BackupNext
       \/ arena = "table" /\ TableNext
    /\ arena # "host" => UNCHANGED hostVars
    /\ arena # "planet" => UNCHANGED planetVars
    /\ arena \notin {"pages", "tls"} => UNCHANGED systemVars
    /\ arena \notin {"tokens", "credentials"} => UNCHANGED accessVars
    /\ arena # "console" => UNCHANGED consoleVars
    /\ arena # "status" => UNCHANGED statusVars
    /\ arena # "backups" => UNCHANGED backupVars
    /\ arena # "table" => UNCHANGED tableVars

\* Forms that differ only in the names of their fields behave alike, and one of them is run.
Shape(f) == [f EXCEPT !.fields = Cardinality(@), !.drafts = Cardinality(@), !.needs = Cardinality(@),
                      !.keeps = Cardinality(@), !.secrets = Cardinality(@)]
Shapes == {Shape(f) : f \in Forms}

\* A machine that does not run has one initial state.
Init ==
    /\ arena \in {"host", "planet", "pages", "tls", "tokens", "credentials", "console", "status", "backups",
                "table"}
    /\ HostInit /\ PlanetInit /\ SystemInit /\ AccessInit /\ ConsoleInit /\ StatusInit
    /\ BackupInit /\ TableInit
    /\ arena = "host" \/ services = "all"
    /\ arena \in {"pages", "tls"} \/ agentUp
    /\ form \in {CHOOSE f \in Forms : Shape(f) = s : s \in Shapes}
    /\ arena = "console" \/ form = Mail
    /\ arena = "status" \/ (copies = 1 /\ lastRequest = 0 /\ ~record.first)
    /\ IF arena = "table" THEN Len(rows) = 2 /\ rows[1].name = rows[2].name ELSE rows = <<>>

Spec == Init /\ [][Step]_<<arena, hostVars, planetVars, systemVars, accessVars, consoleVars, statusVars,
                       backupVars, tableVars>>
=============================================================================
