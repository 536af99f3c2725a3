---------------------------- MODULE Credentials ----------------------------
(***************************************************************************)
(* The credentials of one account: the two password stores (User.hash and  *)
(* the credential row of Account), the sign-in hook with its lockout, the  *)
(* second factor with its recovery codes, reset links and sessions         *)
(* (lib/auth.ts, authRouter.ts, mfaAuthRouter.ts, api/auth/two-factor).    *)
(*                                                                         *)
(* Every procedure that reads the row and writes it later is two actions,  *)
(* with the row it read kept in credCall[s]; what runs in one transaction  *)
(* that claims a row first is one action.  A password and its hash are one *)
(* number, 0 is null; a code of the authenticator is the number of the     *)
(* secret that made it.  Mail, rate limits and device descriptions are     *)
(* left out.  Accounts of different users share nothing here.              *)
(***************************************************************************)
EXTENDS Integers, FiniteSets

CONSTANTS
    CredSlots,    \* requests that may be under way at once
    Devices,      \* device cookies
    MaxFailed,    \* MAX_FAILED_ATTEMPTS
    MaxCredCalls, \* bound: requests
    MaxPasswords  \* bound: passwords, the first one included

ASSUME LimitsNat == MaxFailed \in Nat \ {0} /\ MaxCredCalls \in Nat /\ MaxPasswords \in Nat \ {0}
ASSUME SlotsFinite == IsFiniteSet(CredSlots)

VARIABLES
    user,      \* the row of User
    account,   \* Account.password of the credential row, 0 when there is no row
    sessions,  \* rows of Session
    tokens,    \* rows of Verification: reset links not used and not expired
    devices,   \* rows of UserDevice
    credCall,  \* credCall[s]: the request in the slot and the row it read
    credCalls, \* requests so far
    issued,    \* passwords, secrets, links and sets of codes handed out so far
    spent,     \* history: recovery codes that were accepted
    proved,    \* history: secrets a code was checked against by enable
    resets,    \* history: password resets so far
    overlap,   \* history: a password was stored while another request was under way
    raced      \* history: a secret was stored while another request was under way

credVars == <<user, account, sessions, tokens, devices, credCall, credCalls, issued,
              spent, proved, resets, overlap, raced>>

rowVars == <<user, account>>
factorHistory == <<spent, proved, raced>>
passwordHistory == <<resets, overlap>>

Emails == {"first", "second"}
CredIdle == [op |-> "idle"]
Busy(s) == credCall[s] # CredIdle
Alone(s) == \A t \in CredSlots \ {s} : ~Busy(t)
FinishCred(s) == credCall' = [credCall EXCEPT ![s] = CredIdle]

\* A request enters slot s; req holds its input.
EnterCred(s, req) ==
    /\ ~Busy(s)
    /\ credCalls < MaxCredCalls
    /\ credCalls' = credCalls + 1
    /\ credCall' = [credCall EXCEPT ![s] = req]

\* A migrated user has no credential row yet, a user of OAuth no password.
CredInit ==
    /\ \E start \in {<<1, 1>>, <<1, 0>>, <<0, 0>>} :
        /\ user = [hash |-> start[1], mustChange |-> TRUE, failed |-> 0, last |-> "never",
                   on |-> FALSE, secret |-> 0, codes |-> {}, email |-> "first",
                   verified |-> FALSE]
        /\ account = start[2]
    /\ sessions = {[at |-> 0, on |-> FALSE, second |-> FALSE]}
    /\ tokens = {}
    /\ devices = {}
    /\ credCall = [s \in CredSlots |-> CredIdle]
    /\ credCalls = 0
    /\ issued = [password |-> 1, secret |-> 0, codes |-> 0]
    /\ spent = {}
    /\ proved = {}
    /\ resets = 0
    /\ overlap = FALSE
    /\ raced = FALSE

----------------------------------------------------------------------------
(* Sign-in                                                                 *)

Locked(u) == u.last = "recent" /\ u.failed >= MaxFailed

\* runBeforeAuthHook up to the cooldown: the row is read, a locked account is refused.
SignInRead(s) ==
    /\ ~Locked(user)
    /\ \E pw \in 1 .. issued.password, code \in 0 .. issued.secret :
        EnterCred(s, [op |-> "signin", pw |-> pw, code |-> code, read |-> user])
    /\ UNCHANGED <<rowVars, sessions, tokens, devices, issued, factorHistory, passwordHistory>>

\* A lockout that has elapsed starts a fresh window.
Fresh(read) == IF read.last = "past" /\ read.failed >= MaxFailed
               THEN [user EXCEPT !.failed = 0, !.last = "never"] ELSE user
Failure(u) == [u EXCEPT !.failed = u.failed + 1, !.last = "recent"]

\* Mutant: the hook goes on without the second factor.
SignInHookNoFactor(s) ==
    LET c == credCall[s] IN
    /\ c.op = "signin"
    /\ user' = Fresh(c.read)
    /\ credCall' = [credCall EXCEPT ![s] = [op |-> "verify", pw |-> c.pw, on |-> c.read.on, second |-> FALSE]]
    /\ UNCHANGED <<account, sessions, tokens, devices, credCalls, issued, factorHistory, passwordHistory>>

\* The rest of the hook, on the row it read: a wrong password is counted and left to the
\* library; with the right one the credential row is filled in and the code is checked.
SignInHook(s) ==
    LET c == credCall[s]
        known == c.read.hash = 0 \/ c.pw = c.read.hash
        passed == ~c.read.on \/ c.code = c.read.secret
        go == [op |-> "verify", pw |-> c.pw, on |-> c.read.on, second |-> c.read.on /\ known]
    IN
    /\ c.op = "signin"
    /\ user' = IF ~known \/ (~passed /\ c.code # 0 /\ c.read.secret # 0)
               THEN Failure(Fresh(c.read)) ELSE Fresh(c.read)
    /\ account' = IF known /\ account = 0 THEN c.read.hash ELSE account
    /\ credCall' = [credCall EXCEPT ![s] = IF known /\ ~passed THEN CredIdle ELSE go]
    /\ UNCHANGED <<sessions, tokens, devices, credCalls, issued, factorHistory, passwordHistory>>

\* better-auth compares the password with the credential row.
SignInVerify(s) ==
    /\ credCall[s].op = "verify"
    /\ credCall' = [credCall EXCEPT ![s] = IF account # 0 /\ @.pw = account
                                   THEN [op |-> "session", on |-> @.on, second |-> @.second]
                                   ELSE CredIdle]
    /\ UNCHANGED <<rowVars, sessions, tokens, devices, credCalls, issued, factorHistory, passwordHistory>>

\* onSessionCreated clears the counters and keeps the device; the library stores the row.
SessionCreate(s) ==
    /\ credCall[s].op = "session"
    /\ user' = [user EXCEPT !.failed = 0, !.last = "never"]
    /\ \E d \in SUBSET Devices : Cardinality(d) <= 1 /\ devices' = devices \cup d
    /\ sessions' = sessions \cup {[at |-> resets, on |-> credCall[s].on, second |-> credCall[s].second]}
    /\ FinishCred(s)
    /\ UNCHANGED <<account, tokens, credCalls, issued, factorHistory, passwordHistory>>

\* COOLDOWN_PERIOD passes.
CooldownElapses ==
    /\ user.last = "recent"
    /\ user' = [user EXCEPT !.last = "past"]
    /\ UNCHANGED <<account, sessions, tokens, devices, credCall, credCalls, issued, factorHistory, passwordHistory>>

----------------------------------------------------------------------------
(* Passwords                                                               *)

StoredBy(s) == overlap' = (overlap \/ ~Alone(s))

\* update up to the transaction: the row is read, a new password needs the old one or an
\* account without one.
UpdateBegin(s) ==
    /\ sessions # {}
    /\ \E mail \in Emails :
        \/ /\ EnterCred(s, [op |-> "update", new |-> 0, mail |-> mail, read |-> user])
           /\ UNCHANGED issued
        \/ /\ issued.password < MaxPasswords
           /\ issued' = [issued EXCEPT !.password = @ + 1]
           /\ EnterCred(s, [op |-> "update", new |-> issued.password + 1, mail |-> mail, read |-> user])
    /\ UNCHANGED <<rowVars, sessions, tokens, devices, factorHistory, passwordHistory>>

\* Mutant: the credential row is not brought in line.
UpdateCommitOneStore(s) ==
    LET c == credCall[s] IN
    /\ c.op = "update"
    /\ user' = [user EXCEPT !.hash = IF c.new # 0 THEN c.new ELSE c.read.hash, !.email = c.mail]
    /\ IF c.new # 0 THEN StoredBy(s) ELSE UNCHANGED overlap
    /\ FinishCred(s)
    /\ UNCHANGED <<account, sessions, tokens, devices, credCalls, issued, factorHistory, resets>>

\* The transaction of update: what was not given is written back as it was read.
UpdateCommit(s) ==
    LET c == credCall[s]
        changed == c.new # 0
    IN
    /\ c.op = "update"
    /\ user' = [user EXCEPT !.hash = IF changed THEN c.new ELSE c.read.hash,
                            !.mustChange = IF changed THEN FALSE ELSE c.read.mustChange,
                            !.email = c.mail]
    /\ account' = IF changed THEN c.new ELSE account
    /\ IF changed THEN StoredBy(s) ELSE UNCHANGED overlap
    /\ FinishCred(s)
    /\ UNCHANGED <<sessions, tokens, devices, credCalls, issued, factorHistory, resets>>

\* passwordResetLink: the link is bound to the address, and stored before it is mailed.
PasswordResetLink ==
    /\ credCalls < MaxCredCalls
    /\ credCalls' = credCalls + 1
    /\ tokens' = tokens \cup {[n |-> credCalls, email |-> user.email]}
    /\ UNCHANGED <<rowVars, sessions, devices, credCall, issued, factorHistory, passwordHistory>>

\* The fifteen minutes of a link are over.
LinkExpires(t) ==
    /\ t \in tokens
    /\ tokens' = tokens \ {t}
    /\ UNCHANGED <<rowVars, sessions, devices, credCall, credCalls, issued, factorHistory, passwordHistory>>

\* What validateResetPasswordToken answers, and changePasswordFromJwt looks up again.
ValidLink(t) == t \in tokens /\ t.email = user.email

\* Mutant: the sessions of the account are kept.
ChangePasswordKeepsSessions(t) ==
    /\ ValidLink(t)
    /\ issued.password < MaxPasswords
    /\ issued' = [issued EXCEPT !.password = @ + 1]
    /\ tokens' = tokens \ {t}
    /\ user' = [user EXCEPT !.hash = issued'.password, !.failed = 0, !.last = "never"]
    /\ account' = issued'.password
    /\ resets' = resets + 1
    /\ overlap' = (overlap \/ \E s \in CredSlots : Busy(s))
    /\ UNCHANGED <<sessions, devices, credCall, credCalls, factorHistory>>

\* changePasswordFromJwt: deleting the link claims it; both stores, the counters and the
\* sessions change in the same transaction.
ChangePasswordFromJwt(t) ==
    /\ ValidLink(t)
    /\ issued.password < MaxPasswords
    /\ issued' = [issued EXCEPT !.password = @ + 1]
    /\ tokens' = tokens \ {t}
    /\ user' = [user EXCEPT !.hash = issued'.password, !.mustChange = FALSE,
                            !.failed = 0, !.last = "never"]
    /\ account' = issued'.password
    /\ sessions' = {}
    /\ resets' = resets + 1
    /\ overlap' = (overlap \/ \E s \in CredSlots : Busy(s))
    /\ UNCHANGED <<devices, credCall, credCalls, factorHistory>>

----------------------------------------------------------------------------
(* The address, devices and the second factor                              *)

\* validateEmailVerificationToken, with a link sent to some address of the account.
VerifyEmail(mail) ==
    /\ ~user.verified
    /\ user.email = mail
    /\ user' = [user EXCEPT !.verified = TRUE]
    /\ UNCHANGED <<account, sessions, tokens, devices, credCall, credCalls, issued, factorHistory, passwordHistory>>

\* deleteUserDevice
DeleteUserDevice(d) ==
    /\ sessions # {}
    /\ d \in devices
    /\ devices' = devices \ {d}
    /\ UNCHANGED <<rowVars, sessions, tokens, credCall, credCalls, issued, factorHistory, passwordHistory>>

\* setup.ts up to the update: the password is right and the factor is off.
SetupBegin(s) ==
    /\ sessions # {}
    /\ user.hash # 0
    /\ ~user.on
    /\ EnterCred(s, [op |-> "setup", read |-> user])
    /\ UNCHANGED <<rowVars, sessions, tokens, devices, issued, factorHistory, passwordHistory>>

\* The row is addressed by the e-mail of the session: after a change of address no row.
SameAddress(c) == c.read.email = user.email
SecretStoredBy(s) == raced' = (raced \/ ~Alone(s))

SetupCommit(s) ==
    LET c == credCall[s] IN
    /\ c.op = "setup"
    /\ issued' = [issued EXCEPT !.secret = @ + 1]
    /\ user' = IF SameAddress(c) THEN [user EXCEPT !.on = FALSE, !.secret = issued'.secret] ELSE user
    /\ SecretStoredBy(s)
    /\ FinishCred(s)
    /\ UNCHANGED <<account, sessions, tokens, devices, credCalls, spent, proved, passwordHistory>>

\* Mutant: the code is not compared with the secret.
EnableBeginUnchecked(s) ==
    /\ sessions # {}
    /\ ~user.on /\ user.secret # 0
    /\ EnterCred(s, [op |-> "enable", read |-> user])
    /\ UNCHANGED <<rowVars, sessions, tokens, devices, issued, factorHistory, passwordHistory>>

\* enable.ts up to the update: a code of the stored secret proves the authenticator.
EnableBegin(s) ==
    /\ sessions # {}
    /\ ~user.on /\ user.secret # 0
    /\ EnterCred(s, [op |-> "enable", read |-> user])
    /\ proved' = proved \cup {user.secret}
    /\ UNCHANGED <<rowVars, sessions, tokens, devices, issued, spent, raced, passwordHistory>>

EnableCommit(s) ==
    LET c == credCall[s] IN
    /\ c.op = "enable"
    /\ issued' = [issued EXCEPT !.codes = @ + 1]
    /\ user' = IF SameAddress(c)
               THEN [user EXCEPT !.on = TRUE, !.codes = {issued'.codes} \X {1, 2}] ELSE user
    /\ FinishCred(s)
    /\ UNCHANGED <<account, sessions, tokens, devices, credCalls, factorHistory, passwordHistory>>

\* disable.ts up to the update: a code of the secret is needed.
DisableBegin(s) ==
    /\ sessions # {}
    /\ user.hash # 0
    /\ user.on /\ user.secret # 0
    /\ EnterCred(s, [op |-> "disable", read |-> user])
    /\ UNCHANGED <<rowVars, sessions, tokens, devices, issued, factorHistory, passwordHistory>>

DisableCommit(s) ==
    LET c == credCall[s] IN
    /\ c.op = "disable"
    /\ user' = IF SameAddress(c) THEN [user EXCEPT !.on = FALSE, !.secret = 0] ELSE user
    /\ SecretStoredBy(s)
    /\ FinishCred(s)
    /\ UNCHANGED <<account, sessions, tokens, devices, credCalls, issued, spent, proved, passwordHistory>>

\* mfaResetValidation up to its transaction: password and recovery code are right.
RecoveryBegin(s) ==
    /\ user.on /\ user.hash # 0
    /\ \E code \in user.codes : EnterCred(s, [op |-> "recovery", code |-> code, read |-> user])
    /\ UNCHANGED <<rowVars, sessions, tokens, devices, issued, factorHistory, passwordHistory>>

\* Mutant: the code stays in the list.
RecoveryCommitKeepsCode(s) ==
    LET c == credCall[s] IN
    /\ c.op = "recovery"
    /\ IF user.on /\ c.code \in user.codes
       THEN /\ user' = [user EXCEPT !.on = FALSE, !.secret = 0]
            /\ spent' = spent \cup {c.code}
       ELSE UNCHANGED <<user, spent>>
    /\ SecretStoredBy(s)
    /\ FinishCred(s)
    /\ UNCHANGED <<account, sessions, tokens, devices, credCalls, issued, proved, passwordHistory>>

\* The transaction of mfaResetValidation reads the codes again and stores the shorter list
\* on the condition that the list is still the same one.
RecoveryCommit(s) ==
    LET c == credCall[s] IN
    /\ c.op = "recovery"
    /\ IF user.on /\ c.code \in user.codes
       THEN /\ user' = [user EXCEPT !.on = FALSE, !.secret = 0, !.codes = @ \ {c.code}]
            /\ spent' = spent \cup {c.code}
       ELSE UNCHANGED <<user, spent>>
    /\ SecretStoredBy(s)
    /\ FinishCred(s)
    /\ UNCHANGED <<account, sessions, tokens, devices, credCalls, issued, proved, passwordHistory>>

----------------------------------------------------------------------------
SlotStep(s) ==
    \/ SignInRead(s) \/ SignInHook(s) \/ SignInVerify(s) \/ SessionCreate(s)
    \/ UpdateBegin(s) \/ UpdateCommit(s)
    \/ SetupBegin(s) \/ SetupCommit(s) \/ EnableBegin(s) \/ EnableCommit(s)
    \/ DisableBegin(s) \/ DisableCommit(s) \/ RecoveryBegin(s) \/ RecoveryCommit(s)

CredNext ==
    \/ \E s \in CredSlots : SlotStep(s)
    \/ CooldownElapses
    \/ PasswordResetLink
    \/ \E t \in tokens : LinkExpires(t) \/ ChangePasswordFromJwt(t)
    \/ \E mail \in Emails : VerifyEmail(mail)
    \/ \E d \in Devices : DeleteUserDevice(d)

CredSpec == CredInit /\ [][CredNext]_credVars

----------------------------------------------------------------------------
(* The row, the stores and the calls have their shapes. *)
CredTypeOK ==
    /\ user.hash \in 0 .. MaxPasswords /\ account \in 0 .. MaxPasswords
    /\ user.failed \in Nat /\ user.last \in {"never", "recent", "past"}
    /\ user.email \in Emails /\ user.codes \subseteq (1 .. issued.codes) \X {1, 2}
    /\ tokens \subseteq [n : 0 .. MaxCredCalls, email : Emails]
    /\ devices \subseteq Devices
    /\ \A s \in CredSlots : credCall[s].op \in {"idle", "signin", "verify", "session", "update",
                                       "setup", "enable", "disable", "recovery"}

(* A recovery code that was accepted is never in the list again, whatever   *)
(* enable, disable and a second recovery do at the same time.               *)
RecoveryCodesSpent == spent \cap user.codes = {}

(* Every session was created after the last password reset: the reset       *)
(* removes the ones before it (authRouter.ts:832).                          *)
SessionsRevoked == \A x \in sessions : x.at = resets

(* The two password stores differ only when a password was stored while     *)
(* another request for the same account was between its read and its write: *)
(* the profile update that writes the hash back, or the sign-in that fills  *)
(* in a missing credential row.                                             *)
DriftNeedsOverlap == account \notin {0, user.hash} => overlap

(* A session opened without a code, for an account whose second factor was  *)
(* on when the hook read it, needs such an overlap as well: the hook leaves *)
(* before the code when its password comparison fails (auth.ts:268-279),    *)
(* and the library then compares with the other store.                      *)
SecondFactorAsked == (\E x \in sessions : x.on /\ ~x.second) => overlap

(* When the second factor is on, its secret is one the user has shown a     *)
(* code of, unless setup, disable or a recovery stored another one while    *)
(* a second request (enable) was under way.                                 *)
SecretProved == user.on => user.secret \in proved \/ raced

(* Passwords and sessions, whatever requests for one account run together:  *)
(* the two stores drift apart only by an overlap, and no session outlives a *)
(* password reset.                                                          *)
PasswordsHold == DriftNeedsOverlap /\ SessionsRevoked

(* The second factor, whatever setup, enable, disable, recovery and sign-in *)
(* run together: it is asked for, its secret was proved, and a recovery     *)
(* code works once.                                                         *)
SecondFactorHolds == SecondFactorAsked /\ SecretProved /\ RecoveryCodesSpent
============================================================================
