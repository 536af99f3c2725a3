--------------------------- MODULE AccountsProofs ---------------------------
(***************************************************************************)
(* Proofs about the accounts: the credentials of one account, and the      *)
(* population with its registrations, its administrators and the nightly   *)
(* job.  MCAccounts runs both machines on small instances; each part below *)
(* states the invariant that is inductive for one of them and draws from   *)
(* it the properties that MCAccounts checks.                               *)
(***************************************************************************)
EXTENDS Accounts, Credentials, FiniteSetTheorems, TLAPS

----------------------------------------------------------------------------
(* Credentials: the inductive invariant                                     *)

Code == Nat \X {1, 2}
UserRow == [hash : Nat, mustChange : BOOLEAN, failed : Nat, last : {"never", "recent", "past"}, on : BOOLEAN,
            secret : Nat, codes : SUBSET Code, email : Emails, verified : BOOLEAN]
SignInCall == [op : {"signin"}, pw : Nat, code : Nat, read : UserRow]
VerifyCall == [op : {"verify"}, pw : Nat, on : BOOLEAN, second : BOOLEAN]
SessionCall == [op : {"session"}, on : BOOLEAN, second : BOOLEAN]
UpdateCall == [op : {"update"}, new : Nat, mail : Emails, read : UserRow]
FactorCall == [op : {"setup", "enable", "disable"}, read : UserRow]
RecoveryCall == [op : {"recovery"}, code : Code, read : UserRow]
CredCalls == {CredIdle} \cup SignInCall \cup VerifyCall \cup SessionCall \cup UpdateCall \cup FactorCall \cup RecoveryCall
Session == [at : Nat, on : BOOLEAN, second : BOOLEAN]

CredTypes ==
    /\ user \in UserRow /\ account \in Nat
    /\ sessions \subseteq Session
    /\ credCall \in [CredSlots -> CredCalls]
    /\ issued \in [password : Nat, secret : Nat, codes : Nat]
    /\ resets \in Nat /\ overlap \in BOOLEAN /\ raced \in BOOLEAN

(* What a request holds agrees with the row u, unless another one stored a  *)
(* password or a secret while it was under way.                             *)
CallOK(c, u, seen, drift, race) ==
    /\ c.op \in {"signin", "update"} /\ ~drift => c.read.hash = u.hash
    /\ c.op = "verify" /\ c.on /\ ~c.second /\ ~drift => u.hash # 0 /\ c.pw # u.hash
    /\ c.op = "session" /\ c.on /\ ~c.second => drift
    /\ c.op = "enable" /\ ~race => u.secret \in seen
CallsOK == \A s \in CredSlots : CallOK(credCall[s], user, proved, overlap, raced)

(* Sets of codes are numbered, so that a new one has no code that was spent.*)
CodesOf(n) == (1..n) \X {1, 2}
CodesIssued == user.codes \subseteq CodesOf(issued.codes) /\ spent \subseteq CodesOf(issued.codes)

CredInv == CredTypes /\ CallsOK /\ CodesIssued /\ PasswordsHold /\ SecondFactorHolds

(* The counters of failed sign-ins leave password and factor alone (auth.ts). *)
LEMMA RowCounted ==
    ASSUME NEW u \in UserRow, NEW n \in Nat, NEW l \in {"never", "recent", "past"}
    PROVE  LET w == [u EXCEPT !.failed = n, !.last = l] IN
           w \in UserRow /\ w.hash = u.hash /\ w.on = u.on /\ w.secret = u.secret /\ w.codes = u.codes
BY DEF UserRow

(* So does the end of a lockout (auth.ts).                                 *)
LEMMA RowCooled ==
    ASSUME NEW u \in UserRow
    PROVE  LET w == [u EXCEPT !.last = "past"] IN
           w \in UserRow /\ w.hash = u.hash /\ w.on = u.on /\ w.secret = u.secret /\ w.codes = u.codes
BY DEF UserRow

(* So does the verification of the address (authRouter.ts).                *)
LEMMA RowVerified ==
    ASSUME NEW u \in UserRow
    PROVE  LET w == [u EXCEPT !.verified = TRUE] IN
           w \in UserRow /\ w.hash = u.hash /\ w.on = u.on /\ w.secret = u.secret /\ w.codes = u.codes
BY DEF UserRow

UpdatedRow(u, h, m, e) == [u EXCEPT !.hash = h, !.mustChange = m, !.email = e]

(* update stores hash, obligation and address, and leaves the second factor *)
(* alone (authRouter.ts, update).                                          *)
LEMMA RowUpdated ==
    ASSUME NEW u \in UserRow, NEW h \in Nat, NEW m \in BOOLEAN, NEW e \in Emails
    PROVE  LET w == UpdatedRow(u, h, m, e) IN
           w \in UserRow /\ w.hash = h /\ w.on = u.on /\ w.secret = u.secret /\ w.codes = u.codes
BY DEF UserRow, UpdatedRow

(* A reset stores the hash and leaves the second factor alone              *)
(* (changePasswordFromJwt).                                                *)
LEMMA RowReset ==
    ASSUME NEW u \in UserRow, NEW h \in Nat
    PROVE  LET w == [u EXCEPT !.hash = h, !.mustChange = FALSE, !.failed = 0, !.last = "never"] IN
           w \in UserRow /\ w.hash = h /\ w.on = u.on /\ w.secret = u.secret /\ w.codes = u.codes
BY DEF UserRow

(* A secret is stored with the factor off, the codes stay (setup, disable). *)
LEMMA RowSecret ==
    ASSUME NEW u \in UserRow, NEW k \in Nat
    PROVE  LET w == [u EXCEPT !.on = FALSE, !.secret = k] IN
           w \in UserRow /\ w.hash = u.hash /\ ~w.on /\ w.secret = k /\ w.codes = u.codes
BY DEF UserRow

(* Enabling the factor replaces the codes and keeps the secret (enable).   *)
LEMMA RowEnabled ==
    ASSUME NEW u \in UserRow, NEW k \in SUBSET Code
    PROVE  LET w == [u EXCEPT !.on = TRUE, !.codes = k] IN
           w \in UserRow /\ w.hash = u.hash /\ w.on /\ w.secret = u.secret /\ w.codes = k
BY DEF UserRow

(* A recovery turns the factor off and takes one code (mfaResetValidation). *)
LEMMA RowRecovered ==
    ASSUME NEW u \in UserRow, NEW k
    PROVE  LET w == [u EXCEPT !.on = FALSE, !.secret = 0, !.codes = @ \ {k}] IN
           w \in UserRow /\ w.hash = u.hash /\ ~w.on /\ w.secret = 0 /\ w.codes = u.codes \ {k}
BY DEF UserRow

(* A lockout that elapsed changes the counters only (runBeforeAuthHook).   *)
LEMMA FreshRow ==
    ASSUME user \in UserRow, NEW read \in UserRow
    PROVE  Fresh(read) \in UserRow /\ Fresh(read).hash = user.hash /\ Fresh(read).on = user.on
           /\ Fresh(read).secret = user.secret /\ Fresh(read).codes = user.codes
BY RowCounted DEF Fresh

(* A failed sign-in changes the counters only (runBeforeAuthHook).         *)
LEMMA FailureRow ==
    ASSUME NEW u \in UserRow
    PROVE  Failure(u) \in UserRow /\ Failure(u).hash = u.hash /\ Failure(u).on = u.on
           /\ Failure(u).secret = u.secret /\ Failure(u).codes = u.codes
<1>1. u.failed + 1 \in Nat
  BY DEF UserRow
<1> QED BY <1>1, RowCounted DEF Failure

(* Handing out a password, a secret or a set of codes counts one of the    *)
(* three.                                                                  *)
LEMMA IssuedTypes ==
    ASSUME NEW i \in [password : Nat, secret : Nat, codes : Nat]
    PROVE  /\ LET w == [i EXCEPT !.password = @ + 1] IN w \in [password : Nat, secret : Nat, codes : Nat] /\ w.codes = i.codes /\ w.password = i.password + 1
           /\ LET w == [i EXCEPT !.secret = @ + 1] IN w \in [password : Nat, secret : Nat, codes : Nat] /\ w.codes = i.codes /\ w.secret = i.secret + 1
           /\ LET w == [i EXCEPT !.codes = @ + 1] IN w \in [password : Nat, secret : Nat, codes : Nat] /\ w.codes = i.codes + 1
OBVIOUS

(* A request that is under way is not idle, and has what its op says.       *)
LEMMA CallTypes ==
    ASSUME NEW c \in CredCalls
    PROVE  /\ c.op # "idle" <=> c # CredIdle
           /\ c.op = "signin" => c \in SignInCall
           /\ c.op = "verify" => c \in VerifyCall
           /\ c.op = "session" => c \in SessionCall
           /\ c.op = "update" => c \in UpdateCall
           /\ c.op \in {"setup", "enable", "disable"} => c \in FactorCall
           /\ c.op = "recovery" => c \in RecoveryCall
BY DEF CredCalls, CredIdle, SignInCall, VerifyCall, SessionCall, UpdateCall, FactorCall, RecoveryCall

(* A step of one request: the others still agree with the row.              *)
LEMMA OthersAgree ==
    ASSUME CredTypes, CallsOK, NEW s \in CredSlots, NEW x, credCall' = [credCall EXCEPT ![s] = x],
           user'.hash = user.hash \/ overlap' \/ Alone(s), user'.secret = user.secret \/ raced' \/ Alone(s),
           overlap => overlap', raced => raced', proved \subseteq proved',
           CallOK(x, user', proved', overlap', raced')
    PROVE  CallsOK'
<1>1. ASSUME NEW t \in CredSlots \ {s} PROVE CallOK(credCall'[t], user', proved', overlap', raced')
  <2>1. credCall'[t] = credCall[t] /\ credCall[t] \in CredCalls
    BY DEF CredTypes
  <2>2. Alone(s) => credCall[t].op = "idle"
    BY <2>1, CallTypes DEF Alone, Busy
  <2> QED BY <2>1, <2>2 DEF CallsOK, CallOK
<1>2. credCall'[s] = x
  BY DEF CredTypes
<1> QED BY <1>1, <1>2 DEF CallsOK

(* An empty slot holds nothing that could disagree with the row.           *)
LEMMA IdleOK == ASSUME NEW u, NEW seen, NEW drift, NEW race PROVE CallOK(CredIdle, u, seen, drift, race)
BY DEF CallOK, CredIdle

(* What a row shows of the account, and the histories, are as they were.    *)
LEMMA RowStill ==
    ASSUME CodesIssued, PasswordsHold, SecondFactorHolds,
           user'.hash = user.hash, user'.on = user.on, user'.secret = user.secret, user'.codes = user.codes,
           UNCHANGED <<account, sessions, resets, spent, overlap, raced>>, issued'.codes = issued.codes, proved \subseteq proved'
    PROVE  CodesIssued' /\ PasswordsHold' /\ SecondFactorHolds'
BY DEF CodesIssued, PasswordsHold, SecondFactorHolds, DriftNeedsOverlap, SessionsRevoked, SecondFactorAsked, SecretProved, RecoveryCodesSpent

(* A step that changes neither password nor secret leaves what the requests *)
(* read as it was.                                                         *)
LEMMA CallsStill ==
    ASSUME CallsOK, user'.hash = user.hash, user'.secret = user.secret, UNCHANGED <<credCall, overlap, raced, proved>>
    PROVE  CallsOK'
BY DEF CallsOK, CallOK

(* Every step keeps the invariant of the credentials.                      *)
LEMMA CredStep == ASSUME CredInv, [CredNext]_credVars PROVE CredInv'
<1> USE DEF CredInv
<1>0. /\ user \in UserRow /\ user.hash \in Nat /\ user.secret \in Nat /\ user.on \in BOOLEAN /\ user.codes \subseteq Code
      /\ account \in Nat /\ \A s \in CredSlots : credCall[s] \in CredCalls
      /\ issued \in [password : Nat, secret : Nat, codes : Nat] /\ issued.password \in Nat /\ issued.secret \in Nat /\ issued.codes \in Nat
  BY DEF CredTypes, UserRow
<1>i. \A s \in CredSlots : \A x \in CredCalls : credCall' = [credCall EXCEPT ![s] = x] => credCall' \in [CredSlots -> CredCalls]
  BY DEF CredTypes
<1>n. CredIdle \in CredCalls
  BY DEF CredCalls
<1>1. ASSUME NEW s \in CredSlots, SignInRead(s) PROVE CredInv'
  <2>1. PICK pw \in 1 .. issued.password, code \in 0 .. issued.secret :
           credCall' = [credCall EXCEPT ![s] = [op |-> "signin", pw |-> pw, code |-> code, read |-> user]]
    BY <1>1 DEF SignInRead, EnterCred
  <2>2. UNCHANGED <<user, account, sessions, issued, spent, proved, raced, resets, overlap>>
    BY <1>1 DEF SignInRead, rowVars, factorHistory, passwordHistory
  <2> DEFINE x == [op |-> "signin", pw |-> pw, code |-> code, read |-> user]
  <2>3. x \in CredCalls
    BY <1>0 DEF CredCalls, SignInCall
  <2>4. CallOK(x, user', proved', overlap', raced')
    BY <2>2 DEF CallOK
  <2> HIDE DEF x
  <2>5. CredTypes'
    BY <1>i, <2>1, <2>2, <2>3 DEF CredTypes, x
  <2>6. CallsOK'
    BY <2>1, <2>2, <2>4, OthersAgree DEF x
  <2> QED BY <2>2, <2>5, <2>6, RowStill
<1>2. ASSUME NEW s \in CredSlots, SignInHook(s) PROVE CredInv'
  <2> DEFINE c == credCall[s]
             known == c.read.hash = 0 \/ c.pw = c.read.hash
             passed == ~c.read.on \/ c.code = c.read.secret
             go == [op |-> "verify", pw |-> c.pw, on |-> c.read.on, second |-> c.read.on /\ known]
             fresh == Fresh(c.read)
  <2>1. c.op = "signin" /\ UNCHANGED <<sessions, issued, spent, proved, raced, resets, overlap>>
    BY <1>2 DEF SignInHook, factorHistory, passwordHistory
  <2>2. c \in SignInCall /\ c.read \in UserRow /\ c.pw \in Nat /\ c.read.on \in BOOLEAN /\ c.read.hash \in Nat
    BY <1>0, <2>1, CallTypes DEF SignInCall, UserRow
  <2>3. user' = fresh \/ user' = Failure(fresh)
    BY <1>2 DEF SignInHook
  <2>4. user' \in UserRow /\ user'.hash = user.hash /\ user'.on = user.on /\ user'.secret = user.secret /\ user'.codes = user.codes
    <3>1. fresh \in UserRow /\ fresh.hash = user.hash /\ fresh.on = user.on /\ fresh.secret = user.secret /\ fresh.codes = user.codes
      BY <1>0, <2>2, FreshRow
    <3> HIDE DEF fresh
    <3> QED BY <2>3, <3>1, FailureRow
  <2>5. account' \in {account, c.read.hash} /\ (account # 0 => account' = account)
    BY <1>2 DEF SignInHook
  <2>6. credCall' = [credCall EXCEPT ![s] = CredIdle] \/ credCall' = [credCall EXCEPT ![s] = go]
    BY <1>2 DEF SignInHook
  <2>7. go \in CredCalls
    <3> known \in BOOLEAN
      OBVIOUS
    <3> QED BY <2>2 DEF CredCalls, VerifyCall
  <2>8. ~overlap => c.read.hash = user.hash
    BY <2>1 DEF CallsOK, CallOK
  <2>9. CallOK(go, user', proved', overlap', raced')
    BY <2>1, <2>2, <2>4, <2>8 DEF CallOK
  <2> HIDE DEF go
  <2>10. CallsOK'
    BY <2>1, <2>4, <2>6, <2>9, OthersAgree, IdleOK
  <2>11. CredTypes'
    <3>1. account' \in Nat
      BY <1>0, <2>2, <2>5
    <3>2. credCall' \in [CredSlots -> CredCalls]
      BY <1>i, <1>n, <2>6, <2>7
    <3> QED BY <2>1, <2>4, <3>1, <3>2 DEF CredTypes
  <2>12. DriftNeedsOverlap'
    BY <2>1, <2>4, <2>5, <2>8 DEF PasswordsHold, DriftNeedsOverlap
  <2>13. CodesIssued' /\ SessionsRevoked' /\ SecondFactorHolds'
    BY <2>1, <2>4 DEF CodesIssued, PasswordsHold, SecondFactorHolds, SessionsRevoked, SecondFactorAsked, SecretProved, RecoveryCodesSpent
  <2> QED BY <2>10, <2>11, <2>12, <2>13 DEF PasswordsHold
<1>3. ASSUME NEW s \in CredSlots, SignInVerify(s) PROVE CredInv'
  <2> DEFINE c == credCall[s]
             x == [op |-> "session", on |-> c.on, second |-> c.second]
  <2>1. c.op = "verify" /\ UNCHANGED <<user, account, sessions, issued, spent, proved, raced, resets, overlap>>
    BY <1>3 DEF SignInVerify, rowVars, factorHistory, passwordHistory
  <2>2. c \in VerifyCall /\ c.on \in BOOLEAN /\ c.second \in BOOLEAN
    BY <1>0, <2>1, CallTypes DEF VerifyCall
  <2>3. \/ credCall' = [credCall EXCEPT ![s] = CredIdle]
        \/ account # 0 /\ c.pw = account /\ credCall' = [credCall EXCEPT ![s] = x]
    BY <1>3 DEF SignInVerify
  <2>4. x \in CredCalls
    BY <2>2 DEF CredCalls, SessionCall
  <2>5. account # 0 /\ c.pw = account => CallOK(x, user', proved', overlap', raced')
    BY <2>1, <2>2 DEF CallsOK, CallOK, PasswordsHold, DriftNeedsOverlap
  <2> HIDE DEF x
  <2>6. CallsOK'
    BY <2>1, <2>3, <2>5, OthersAgree, IdleOK
  <2>7. CredTypes'
    BY <1>i, <1>n, <2>1, <2>3, <2>4 DEF CredTypes
  <2> QED BY <2>1, <2>6, <2>7, RowStill
<1>4. ASSUME NEW s \in CredSlots, SessionCreate(s) PROVE CredInv'
  <2> DEFINE c == credCall[s]
             x == [at |-> resets, on |-> c.on, second |-> c.second]
             w == [user EXCEPT !.failed = 0, !.last = "never"]
  <2>1. /\ c.op = "session" /\ UNCHANGED <<account, issued, spent, proved, raced, resets, overlap>>
        /\ user' = w /\ sessions' = sessions \cup {x} /\ credCall' = [credCall EXCEPT ![s] = CredIdle]
    BY <1>4 DEF SessionCreate, FinishCred, factorHistory, passwordHistory
  <2>2. c \in SessionCall /\ c.on \in BOOLEAN /\ c.second \in BOOLEAN
    BY <1>0, <2>1, CallTypes DEF SessionCall
  <2>3. w \in UserRow /\ w.hash = user.hash /\ w.on = user.on /\ w.secret = user.secret /\ w.codes = user.codes
    BY <1>0, RowCounted
  <2> HIDE DEF w
  <2>4. x \in Session
    BY <2>2 DEF Session, CredTypes
  <2>5. x.on /\ ~x.second => overlap
    BY <2>1 DEF CallsOK, CallOK
  <2>6. x.at = resets
    OBVIOUS
  <2> HIDE DEF x
  <2>7. CallsOK'
    BY <2>1, <2>3, OthersAgree, IdleOK
  <2>8. CredTypes'
    BY <1>i, <1>n, <2>1, <2>3, <2>4 DEF CredTypes
  <2>9. CodesIssued' /\ SessionsRevoked' /\ DriftNeedsOverlap' /\ SecretProved' /\ RecoveryCodesSpent'
    BY <2>1, <2>3, <2>6 DEF CodesIssued, PasswordsHold, SecondFactorHolds, SessionsRevoked, DriftNeedsOverlap, SecretProved, RecoveryCodesSpent
  <2>10. SecondFactorAsked'
    BY <2>1, <2>5 DEF SecondFactorHolds, SecondFactorAsked
  <2> QED BY <2>7, <2>8, <2>9, <2>10 DEF PasswordsHold, SecondFactorHolds
<1>5. ASSUME NEW s \in CredSlots, UpdateBegin(s) PROVE CredInv'
  <2>1. PICK mail \in Emails, new \in Nat :
           /\ credCall' = [credCall EXCEPT ![s] = [op |-> "update", new |-> new, mail |-> mail, read |-> user]]
           /\ issued' = issued \/ issued' = [issued EXCEPT !.password = @ + 1]
    <3>1. PICK mail \in Emails :
             \/ EnterCred(s, [op |-> "update", new |-> 0, mail |-> mail, read |-> user]) /\ UNCHANGED issued
             \/ /\ issued' = [issued EXCEPT !.password = @ + 1]
                /\ EnterCred(s, [op |-> "update", new |-> issued.password + 1, mail |-> mail, read |-> user])
      BY <1>5 DEF UpdateBegin
    <3>2. issued.password + 1 \in Nat /\ 0 \in Nat
      BY <1>0
    <3>3. CASE EnterCred(s, [op |-> "update", new |-> 0, mail |-> mail, read |-> user]) /\ UNCHANGED issued
      BY <3>2, <3>3 DEF EnterCred
    <3>4. CASE /\ issued' = [issued EXCEPT !.password = @ + 1]
               /\ EnterCred(s, [op |-> "update", new |-> issued.password + 1, mail |-> mail, read |-> user])
      BY <3>2, <3>4 DEF EnterCred
    <3> QED BY <3>1, <3>3, <3>4
  <2>2. UNCHANGED <<user, account, sessions, spent, proved, raced, resets, overlap>>
    BY <1>5 DEF UpdateBegin, rowVars, factorHistory, passwordHistory
  <2>i. issued' \in [password : Nat, secret : Nat, codes : Nat] /\ issued'.codes = issued.codes
    BY <1>0, <2>1, IssuedTypes
  <2> DEFINE x == [op |-> "update", new |-> new, mail |-> mail, read |-> user]
  <2>3. x \in CredCalls
    BY <1>0 DEF CredCalls, UpdateCall
  <2>4. CallOK(x, user', proved', overlap', raced')
    BY <2>2 DEF CallOK
  <2> HIDE DEF x
  <2>5. CredTypes'
    BY <1>i, <2>1, <2>2, <2>3, <2>i DEF CredTypes, x
  <2>6. CallsOK'
    BY <2>1, <2>2, <2>4, OthersAgree DEF x
  <2> QED BY <2>2, <2>5, <2>6, <2>i, RowStill
<1>6. ASSUME NEW s \in CredSlots, UpdateCommit(s) PROVE CredInv'
  <2> DEFINE c == credCall[s]
             h == IF c.new # 0 THEN c.new ELSE c.read.hash
             m == IF c.new # 0 THEN FALSE ELSE c.read.mustChange
             w == [user EXCEPT !.hash = h, !.mustChange = m, !.email = c.mail]
  <2>1. /\ c.op = "update" /\ UNCHANGED <<sessions, issued, spent, proved, raced, resets>>
        /\ user' = w /\ credCall' = [credCall EXCEPT ![s] = CredIdle]
    BY <1>6 DEF UpdateCommit, FinishCred, factorHistory
  <2>2. \/ c.new # 0 /\ account' = c.new /\ overlap' = (overlap \/ ~Alone(s))
        \/ c.new = 0 /\ UNCHANGED <<account, overlap>>
    BY <1>6 DEF UpdateCommit, StoredBy
  <2>3. c \in UpdateCall /\ c.new \in Nat /\ c.read \in UserRow /\ c.mail \in Emails
    BY <1>0, <2>1, CallTypes DEF UpdateCall
  <2>4. h \in Nat /\ m \in BOOLEAN
    BY <2>3 DEF UserRow
  <2>5. w \in UserRow /\ w.hash = h /\ w.on = user.on /\ w.secret = user.secret /\ w.codes = user.codes
    <3> DEFINE mail == c.mail
    <3>1. mail \in Emails
      BY <2>3
    <3> HIDE DEF h, m, mail
    <3>2. user \in UserRow /\ h \in Nat /\ m \in BOOLEAN
      BY <1>0, <2>4
    <3>3. LET r == UpdatedRow(user, h, m, mail)
          IN  r \in UserRow /\ r.hash = h /\ r.on = user.on /\ r.secret = user.secret /\ r.codes = user.codes
      BY <3>1, <3>2, RowUpdated
    <3>4. w = UpdatedRow(user, h, m, mail)
      BY Zenon DEF UpdatedRow, mail
    <3> HIDE DEF w
    <3> QED BY <3>3, <3>4
  <2>6. ~overlap => c.read.hash = user.hash
    BY <2>1 DEF CallsOK, CallOK
  <2>7. c.new = 0 => h = c.read.hash
    OBVIOUS
  <2>8. c.new # 0 => h = c.new
    OBVIOUS
  <2>9. overlap \in BOOLEAN /\ overlap' \in BOOLEAN
    BY <2>2 DEF CredTypes, Alone, Busy
  <2> HIDE DEF w, h, m
  <2>10. CallsOK'
    <3>1. user'.hash = user.hash \/ overlap' \/ Alone(s)
      <4>1. CASE c.new = 0
        <5>1. ~overlap' => ~overlap
          BY <2>2, <4>1
        <5> QED BY <2>1, <2>5, <2>6, <2>7, <4>1, <5>1
      <4>2. CASE c.new # 0
        BY <2>2, <4>2, Zenon
      <4> QED BY <4>1, <4>2
    <3>2. overlap => overlap'
      BY <2>2
    <3> QED BY <2>1, <2>5, <3>1, <3>2, OthersAgree, IdleOK
  <2>11. CredTypes'
    BY <1>i, <1>n, <2>1, <2>2, <2>3, <2>5, <2>9 DEF CredTypes
  <2>12. DriftNeedsOverlap'
    BY <2>1, <2>2, <2>5, <2>6, <2>7, <2>8 DEF PasswordsHold, DriftNeedsOverlap
  <2>13. CodesIssued' /\ SessionsRevoked' /\ SecretProved' /\ RecoveryCodesSpent'
    BY <2>1, <2>5 DEF CodesIssued, PasswordsHold, SecondFactorHolds, SessionsRevoked, SecretProved, RecoveryCodesSpent
  <2>14. SecondFactorAsked'
    BY <2>1, <2>2 DEF SecondFactorHolds, SecondFactorAsked
  <2> QED BY <2>10, <2>11, <2>12, <2>13, <2>14 DEF PasswordsHold, SecondFactorHolds
<1>7. ASSUME NEW s \in CredSlots, NEW op \in {"setup", "enable", "disable"},
             credCall' = [credCall EXCEPT ![s] = [op |-> op, read |-> user]],
             UNCHANGED <<user, account, sessions, issued, spent, raced, resets, overlap>>,
             proved \subseteq proved', op = "enable" => user.secret \in proved'
      PROVE  CredInv'
  <2> DEFINE x == [op |-> op, read |-> user]
  <2>1. x \in CredCalls
    BY <1>0 DEF CredCalls, FactorCall
  <2>2. CallOK(x, user', proved', overlap', raced')
    BY <1>7 DEF CallOK
  <2>3. credCall' = [credCall EXCEPT ![s] = x]
    BY <1>7
  <2> HIDE DEF x
  <2>4. CredTypes'
    BY <1>7, <1>i, <2>1, <2>3 DEF CredTypes
  <2>5. CallsOK'
    BY <1>7, <2>2, <2>3, OthersAgree
  <2> QED BY <1>7, <2>4, <2>5, RowStill
<1>8. ASSUME NEW s \in CredSlots, SetupBegin(s) \/ EnableBegin(s) \/ DisableBegin(s) PROVE CredInv'
  <2>1. CASE SetupBegin(s)
    BY <1>7, <2>1 DEF SetupBegin, EnterCred, rowVars, factorHistory, passwordHistory
  <2>2. CASE EnableBegin(s)
    BY <1>7, <2>2 DEF EnableBegin, EnterCred, rowVars, passwordHistory
  <2>3. CASE DisableBegin(s)
    BY <1>7, <2>3 DEF DisableBegin, EnterCred, rowVars, factorHistory, passwordHistory
  <2> QED BY <1>8, <2>1, <2>2, <2>3
<1>9. ASSUME NEW s \in CredSlots, RecoveryBegin(s) PROVE CredInv'
  <2>1. PICK code \in user.codes : credCall' = [credCall EXCEPT ![s] = [op |-> "recovery", code |-> code, read |-> user]]
    BY <1>9 DEF RecoveryBegin, EnterCred
  <2>2. UNCHANGED <<user, account, sessions, issued, spent, proved, raced, resets, overlap>>
    BY <1>9 DEF RecoveryBegin, rowVars, factorHistory, passwordHistory
  <2> DEFINE x == [op |-> "recovery", code |-> code, read |-> user]
  <2>3. x \in CredCalls
    BY <1>0 DEF CredCalls, RecoveryCall
  <2>4. CallOK(x, user', proved', overlap', raced')
    BY DEF CallOK
  <2> HIDE DEF x
  <2>5. CredTypes'
    BY <1>i, <2>1, <2>2, <2>3 DEF CredTypes, x
  <2>6. CallsOK'
    BY <2>1, <2>2, <2>4, OthersAgree DEF x
  <2> QED BY <2>2, <2>5, <2>6, RowStill
<1>10. ASSUME NEW s \in CredSlots, NEW k \in Nat, NEW gone \in SUBSET user.codes,
              credCall' = [credCall EXCEPT ![s] = CredIdle], raced' = (raced \/ ~Alone(s)),
              UNCHANGED <<account, sessions, proved, resets, overlap>>,
              issued' \in [password : Nat, secret : Nat, codes : Nat], issued'.codes = issued.codes,
              \/ UNCHANGED <<user, spent>>
              \/ /\ user' \in UserRow /\ user'.hash = user.hash /\ ~user'.on /\ user'.secret = k
                 /\ user'.codes = user.codes \ gone /\ spent' = spent \cup gone
       PROVE  CredInv'
  <2>1. raced' \in BOOLEAN /\ (raced => raced')
    BY <1>10 DEF CredTypes
  <2>2. CallsOK'
    BY <1>10, <2>1, OthersAgree, IdleOK
  <2>3. CredTypes'
    BY <1>0, <1>10, <1>i, <1>n, <2>1 DEF CredTypes
  <2>4. CodesIssued' /\ RecoveryCodesSpent'
    BY <1>10 DEF CodesIssued, SecondFactorHolds, RecoveryCodesSpent
  <2>5. SessionsRevoked' /\ DriftNeedsOverlap' /\ SecondFactorAsked'
    BY <1>10 DEF PasswordsHold, SecondFactorHolds, SessionsRevoked, DriftNeedsOverlap, SecondFactorAsked
  <2>6. SecretProved'
    BY <1>10, <2>1 DEF SecondFactorHolds, SecretProved
  <2> QED BY <2>2, <2>3, <2>4, <2>5, <2>6 DEF PasswordsHold, SecondFactorHolds
<1>11. ASSUME NEW s \in CredSlots, SetupCommit(s) PROVE CredInv'
  <2> DEFINE n == issued.secret + 1
             w == [user EXCEPT !.on = FALSE, !.secret = n]
  <2>1. /\ credCall' = [credCall EXCEPT ![s] = CredIdle] /\ raced' = (raced \/ ~Alone(s))
        /\ UNCHANGED <<account, sessions, spent, proved, resets, overlap>>
        /\ issued' = [issued EXCEPT !.secret = @ + 1]
        /\ user' \in {user, [user EXCEPT !.on = FALSE, !.secret = issued'.secret]}
    BY <1>11 DEF SetupCommit, FinishCred, SecretStoredBy, passwordHistory
  <2>2. issued' \in [password : Nat, secret : Nat, codes : Nat] /\ issued'.codes = issued.codes /\ issued'.secret = n
    BY <1>0, <2>1, IssuedTypes
  <2>3. user' \in {user, w}
    BY <2>1, <2>2
  <2>4. n \in Nat
    BY <1>0
  <2>5. w \in UserRow /\ w.hash = user.hash /\ ~w.on /\ w.secret = n /\ w.codes = user.codes
    <3> HIDE DEF n
    <3> QED BY <1>0, <2>4, RowSecret
  <2> HIDE DEF w, n
  <2>6. CASE user' = user
    BY <1>10, <2>1, <2>2, <2>4, <2>6
  <2>7. CASE user' = w
    <3>1. {} \in SUBSET user.codes /\ user'.codes = user.codes \ {} /\ spent' = spent \cup {}
      BY <2>1, <2>5, <2>7
    <3> QED BY <1>10, <2>1, <2>2, <2>4, <2>5, <2>7, <3>1
  <2> QED BY <2>3, <2>6, <2>7
<1>12. ASSUME NEW s \in CredSlots, DisableCommit(s) PROVE CredInv'
  <2> DEFINE w == [user EXCEPT !.on = FALSE, !.secret = 0]
  <2>1. /\ credCall' = [credCall EXCEPT ![s] = CredIdle] /\ raced' = (raced \/ ~Alone(s))
        /\ UNCHANGED <<account, sessions, spent, proved, resets, overlap, issued>>
        /\ user' \in {user, w}
    BY <1>12 DEF DisableCommit, FinishCred, SecretStoredBy, passwordHistory
  <2>2. w \in UserRow /\ w.hash = user.hash /\ ~w.on /\ w.secret = 0 /\ w.codes = user.codes
    BY <1>0, RowSecret
  <2> HIDE DEF w
  <2>3. CASE user' = user
    BY <1>0, <1>10, <2>1, <2>3
  <2>4. CASE user' = w
    <3>1. {} \in SUBSET user.codes /\ user'.codes = user.codes \ {} /\ spent' = spent \cup {} /\ 0 \in Nat
      BY <2>1, <2>2, <2>4
    <3> QED BY <1>0, <1>10, <2>1, <2>2, <2>4, <3>1
  <2> QED BY <2>1, <2>3, <2>4
<1>13. ASSUME NEW s \in CredSlots, RecoveryCommit(s) PROVE CredInv'
  <2> DEFINE k == credCall[s].code
             w == [user EXCEPT !.on = FALSE, !.secret = 0, !.codes = @ \ {k}]
  <2>1. /\ credCall' = [credCall EXCEPT ![s] = CredIdle] /\ raced' = (raced \/ ~Alone(s))
        /\ UNCHANGED <<account, sessions, proved, resets, overlap, issued>>
    BY <1>13 DEF RecoveryCommit, FinishCred, SecretStoredBy, passwordHistory
  <2>2. w \in UserRow /\ w.hash = user.hash /\ ~w.on /\ w.secret = 0 /\ w.codes = user.codes \ {k}
    BY <1>0, RowRecovered
  <2>3. CASE user.on /\ k \in user.codes
    <3>1. user' = w /\ spent' = spent \cup {k}
      BY <1>13, <2>3 DEF RecoveryCommit
    <3> HIDE DEF w, k
    <3>2. {k} \in SUBSET user.codes /\ 0 \in Nat
      BY <2>3
    <3> QED BY <1>0, <1>10, <2>1, <2>2, <3>1, <3>2
  <2>4. CASE ~(user.on /\ k \in user.codes)
    <3>1. UNCHANGED <<user, spent>>
      BY <1>13, <2>4 DEF RecoveryCommit
    <3> QED BY <1>0, <1>10, <2>1, <3>1
  <2> QED BY <2>3, <2>4
<1>14. ASSUME NEW s \in CredSlots, EnableCommit(s) PROVE CredInv'
  <2> DEFINE n == issued.codes + 1
             new == {n} \X {1, 2}
             w == [user EXCEPT !.on = TRUE, !.codes = new]
  <2>1. /\ credCall[s].op = "enable" /\ credCall' = [credCall EXCEPT ![s] = CredIdle]
        /\ UNCHANGED <<account, sessions, spent, proved, raced, resets, overlap>>
        /\ issued' = [issued EXCEPT !.codes = @ + 1]
        /\ user' \in {user, [user EXCEPT !.on = TRUE, !.codes = {issued'.codes} \X {1, 2}]}
    BY <1>14 DEF EnableCommit, FinishCred, factorHistory, passwordHistory
  <2>2. issued' \in [password : Nat, secret : Nat, codes : Nat] /\ issued'.codes = n
    BY <1>0, <2>1, IssuedTypes
  <2>3. user' \in {user, w}
    BY <2>1, <2>2
  <2>4. n \in Nat /\ new \in SUBSET Code /\ new \subseteq CodesOf(n) /\ CodesOf(issued.codes) \subseteq CodesOf(n)
        /\ new \cap CodesOf(issued.codes) = {}
    BY <1>0 DEF Code, CodesOf
  <2>5. w \in UserRow /\ w.hash = user.hash /\ w.on /\ w.secret = user.secret /\ w.codes = new
    <3> HIDE DEF n, new
    <3>1. new \in SUBSET Code
      BY <2>4
    <3>2. LET r == [user EXCEPT !.on = TRUE, !.codes = new]
          IN  r \in UserRow /\ r.hash = user.hash /\ r.on /\ r.secret = user.secret /\ r.codes = new
      BY <1>0, <3>1, RowEnabled
    <3> QED BY <3>2
  <2> HIDE DEF w, n, new
  <2>6. user' \in UserRow /\ user'.hash = user.hash /\ user'.secret = user.secret
    BY <1>0, <2>3, <2>5
  <2>7. CallsOK'
    BY <2>1, <2>6, OthersAgree, IdleOK
  <2>8. CredTypes'
    BY <1>i, <1>n, <2>1, <2>2, <2>6 DEF CredTypes
  <2>9. CodesIssued' /\ RecoveryCodesSpent'
    BY <2>1, <2>2, <2>3, <2>4, <2>5 DEF CodesIssued, SecondFactorHolds, RecoveryCodesSpent
  <2>10. SessionsRevoked' /\ DriftNeedsOverlap' /\ SecondFactorAsked'
    BY <2>1, <2>6 DEF PasswordsHold, SecondFactorHolds, SessionsRevoked, DriftNeedsOverlap, SecondFactorAsked
  <2>11. SecretProved'
    BY <2>1, <2>6 DEF CallsOK, CallOK, SecretProved
  <2> QED BY <2>7, <2>8, <2>9, <2>10, <2>11 DEF PasswordsHold, SecondFactorHolds
<1>15. CASE CooldownElapses
  <2> DEFINE w == [user EXCEPT !.last = "past"]
  <2>1. user' = w /\ UNCHANGED <<account, sessions, credCall, issued, spent, proved, raced, resets, overlap>>
    BY <1>15 DEF CooldownElapses, factorHistory, passwordHistory
  <2>2. w \in UserRow /\ w.hash = user.hash /\ w.on = user.on /\ w.secret = user.secret /\ w.codes = user.codes
    BY <1>0, RowCooled
  <2> HIDE DEF w
  <2>3. CredTypes'
    BY <2>1, <2>2 DEF CredTypes
  <2> QED BY <2>1, <2>2, <2>3, RowStill, CallsStill
<1>16. ASSUME NEW mail \in Emails, VerifyEmail(mail) PROVE CredInv'
  <2> DEFINE w == [user EXCEPT !.verified = TRUE]
  <2>1. user' = w /\ UNCHANGED <<account, sessions, credCall, issued, spent, proved, raced, resets, overlap>>
    BY <1>16 DEF VerifyEmail, factorHistory, passwordHistory
  <2>2. w \in UserRow /\ w.hash = user.hash /\ w.on = user.on /\ w.secret = user.secret /\ w.codes = user.codes
    BY <1>0, RowVerified
  <2> HIDE DEF w
  <2>3. CredTypes'
    BY <2>1, <2>2 DEF CredTypes
  <2> QED BY <2>1, <2>2, <2>3, RowStill, CallsStill
<1>17. ASSUME UNCHANGED <<user, account, sessions, credCall, issued, spent, proved, raced, resets, overlap>> PROVE CredInv'
  <2>1. CredTypes'
    BY <1>17 DEF CredTypes
  <2> QED BY <1>17, <2>1, RowStill, CallsStill
<1>18. CASE PasswordResetLink
  BY <1>17, <1>18 DEF PasswordResetLink, rowVars, factorHistory, passwordHistory
<1>19. ASSUME NEW t \in tokens, LinkExpires(t) PROVE CredInv'
  BY <1>17, <1>19 DEF LinkExpires, rowVars, factorHistory, passwordHistory
<1>20. ASSUME NEW d \in Devices, DeleteUserDevice(d) PROVE CredInv'
  BY <1>17, <1>20 DEF DeleteUserDevice, rowVars, factorHistory, passwordHistory
<1>21. CASE UNCHANGED credVars
  BY <1>17, <1>21 DEF credVars
<1>22. ASSUME NEW t \in tokens, ChangePasswordFromJwt(t) PROVE CredInv'
  <2> DEFINE n == issued.password + 1
             w == [user EXCEPT !.hash = n, !.mustChange = FALSE, !.failed = 0, !.last = "never"]
  <2>1. /\ issued' = [issued EXCEPT !.password = @ + 1] /\ account' = issued'.password
        /\ user' = [user EXCEPT !.hash = issued'.password, !.mustChange = FALSE, !.failed = 0, !.last = "never"]
        /\ sessions' = {} /\ resets' = resets + 1
        /\ overlap' = (overlap \/ \E s \in CredSlots : Busy(s))
        /\ UNCHANGED <<credCall, spent, proved, raced>>
    BY <1>22 DEF ChangePasswordFromJwt, factorHistory
  <2>2. issued' \in [password : Nat, secret : Nat, codes : Nat] /\ issued'.codes = issued.codes /\ issued'.password = n
    BY <1>0, <2>1, IssuedTypes
  <2>3. user' = w /\ account' = n /\ n \in Nat
    BY <1>0, <2>1, <2>2
  <2>4. w \in UserRow /\ w.hash = n /\ w.on = user.on /\ w.secret = user.secret /\ w.codes = user.codes
    <3> HIDE DEF n
    <3> QED BY <1>0, <2>3, RowReset
  <2> HIDE DEF w, n
  <2>5. overlap' \in BOOLEAN /\ (overlap => overlap')
    BY <2>1 DEF CredTypes, Busy
  <2>6. CredTypes'
    <3>1. resets' \in Nat
      BY <2>1 DEF CredTypes
    <3> QED BY <2>1, <2>2, <2>3, <2>4, <2>5, <3>1 DEF CredTypes
  <2>7. CallsOK'
    <3>1. ASSUME NEW s \in CredSlots PROVE CallOK(credCall[s], user', proved, overlap', raced)
      <4>1. overlap' \/ credCall[s].op = "idle"
        BY <1>0, <2>1, CallTypes DEF Busy
      <4> QED BY <2>3, <2>4, <2>5, <4>1 DEF CallsOK, CallOK
    <3> QED BY <2>1, <3>1 DEF CallsOK
  <2>8. CodesIssued' /\ RecoveryCodesSpent' /\ SecretProved'
    BY <2>1, <2>2, <2>3, <2>4 DEF CodesIssued, SecondFactorHolds, RecoveryCodesSpent, SecretProved
  <2>9. SessionsRevoked' /\ DriftNeedsOverlap' /\ SecondFactorAsked'
    BY <2>1, <2>3, <2>4 DEF SessionsRevoked, DriftNeedsOverlap, SecondFactorAsked
  <2> QED BY <2>6, <2>7, <2>8, <2>9 DEF PasswordsHold, SecondFactorHolds
<1> QED BY <1>1, <1>2, <1>3, <1>4, <1>5, <1>6, <1>8, <1>9, <1>11, <1>12, <1>13, <1>14, <1>15, <1>16, <1>18, <1>19, <1>20, <1>21, <1>22
        DEF CredNext, SlotStep

(* The inductive invariant of the credentials: what a request read is what *)
(* the row has, unless another one stored a password or a secret meanwhile, *)
(* and no code that was spent is issued again (auth.ts, authRouter.ts).    *)
THEOREM CredKeeps == CredSpec => []CredInv
<1>1. CredInit => CredInv
  <2> SUFFICES ASSUME CredInit PROVE CredInv
    OBVIOUS
  <2>1. PICK h \in {0, 1}, a \in {0, 1} : /\ a \in {0, h} /\ account = a
           /\ user = [hash |-> h, mustChange |-> TRUE, failed |-> 0, last |-> "never", on |-> FALSE, secret |-> 0,
                      codes |-> {}, email |-> "first", verified |-> FALSE]
    <3> DEFINE Row(x) == [hash |-> x, mustChange |-> TRUE, failed |-> 0, last |-> "never", on |-> FALSE, secret |-> 0,
                          codes |-> {}, email |-> "first", verified |-> FALSE]
    <3>1. PICK start \in {<<1, 1>>, <<1, 0>>, <<0, 0>>} : user = Row(start[1]) /\ account = start[2]
      BY DEF CredInit
    <3> HIDE DEF Row
    <3>2. CASE start = <<1, 1>>
      <4>1. user = Row(1) /\ account = 1
        BY <3>1, <3>2
      <4> QED BY <4>1 DEF Row
    <3>3. CASE start = <<1, 0>>
      <4>1. user = Row(1) /\ account = 0
        BY <3>1, <3>3
      <4> QED BY <4>1 DEF Row
    <3>4. CASE start = <<0, 0>>
      <4>1. user = Row(0) /\ account = 0
        BY <3>1, <3>4
      <4> QED BY <4>1 DEF Row
    <3> QED BY <3>1, <3>2, <3>3, <3>4
  <2>2. user \in UserRow /\ user.hash = h /\ ~user.on /\ user.codes = {}
    BY <2>1 DEF UserRow, Emails
  <2>3. CredTypes
    <3>1. sessions \subseteq Session
      BY DEF CredInit, Session
    <3>2. issued \in [password : Nat, secret : Nat, codes : Nat]
      BY DEF CredInit
    <3>3. credCall \in [CredSlots -> CredCalls]
      BY DEF CredInit, CredCalls
    <3> QED BY <2>1, <2>2, <3>1, <3>2, <3>3 DEF CredInit, CredTypes
  <2>4. CallsOK
    BY IdleOK DEF CredInit, CallsOK
  <2>5. CodesIssued /\ SecondFactorHolds
    BY <2>2 DEF CredInit, CodesIssued, SecondFactorHolds, SecondFactorAsked, SecretProved, RecoveryCodesSpent
  <2>6. PasswordsHold
    BY <2>1, <2>2 DEF CredInit, PasswordsHold, DriftNeedsOverlap, SessionsRevoked
  <2> QED BY <2>3, <2>4, <2>5, <2>6 DEF CredInv
<1> QED BY <1>1, CredStep, PTL DEF CredSpec

(* The two password stores drift apart only when a password was stored while *)
(* another request was under way, and a reset leaves no older session, for *)
(* any number of requests (auth.ts, update, changePasswordFromJwt).        *)
THEOREM PasswordsAlwaysHold == CredSpec => []PasswordsHold
BY CredKeeps, PTL DEF CredInv

(* A session of an account with the second factor was asked for it, the    *)
(* secret in force was proved, and no recovery code works twice, but for the *)
(* races the property names (auth.ts, two-factor/*.ts, mfaAuthRouter.ts).  *)
THEOREM SecondFactorAlwaysHolds == CredSpec => []SecondFactorHolds
BY CredKeeps, PTL DEF CredInv

----------------------------------------------------------------------------
(* Accounts: the inductive invariant                                        *)

UserRows == [role : {"ADMIN", "USER"}, active : BOOLEAN, expires : Expiries, group : Groups \cup {None}]
GroupRows == [role : {"group"}, default : BOOLEAN, expires : Expiries]
InviteRows == [org : BOOLEAN, can : {1, 2}, used : Nat, closed : BOOLEAN, expired : BOOLEAN, by : Users]
Jobs == [todo : SUBSET Users, at : Users \cup {None}, gone : SUBSET Users]

(* What a slot holds.                                                       *)
RegisterCall == [op : {"register", "registering"}, id : Users, invite : Invites \cup {None},
                 expires : Expiries, used : Nat, first : BOOLEAN]
OAuthCall == [op : {"oauth"}, id : Users, group : Groups \cup {None}]
PromoteCall == [op : {"promote"}, id : Users]
RoleCall == [op : {"role"}, by : Users, id : Users, role : {"ADMIN", "USER"}]
EditCall == [op : {"update"}, by : Users, id : Users, active : BOOLEAN, expires : Expiries]
DeleteCall == [op : {"delete"}, by : Users, id : Users]
AssignCall == [op : {"assign"}, by : Users, id : Users, group : Groups \cup {None}, expires : Expiries]
CreateCall == [op : {"create"}, by : Users, id : Users, role : {"ADMIN", "USER"}, expires : Expiries,
               group : Groups \cup {None}]
GroupCall == [op : {"group"}, group : Groups, default : BOOLEAN, expires : Expiries]
DropCall == [op : {"drop", "empty"}, group : Groups]
AccountCalls == RegisterCall \cup OAuthCall \cup PromoteCall \cup RoleCall \cup EditCall \cup DeleteCall
                \cup AssignCall \cup CreateCall \cup GroupCall \cup DropCall \cup {[op |-> "lost"], Idle}

AccountTypes ==
    /\ row \in [Users -> UserRows \cup {Absent}]
    /\ group \in [Groups -> GroupRows \cup {Absent}]
    /\ invite \in [Invites -> InviteRows \cup {Absent}]
    /\ call \in [Slots -> AccountCalls]
    /\ job \in Jobs
    /\ members \subseteq Users /\ boot \subseteq Users /\ failed \subseteq Users
    /\ marked \subseteq Users /\ crossed \subseteq Users
    /\ open \in BOOLEAN /\ late \in BOOLEAN
    /\ calls \in 0 .. MaxCalls

There(r) == {u \in Users : r[u] # Absent}
Senders == {"role", "update", "delete", "assign", "create"}

(* The first registration, with rows r, crossed users k, bootstrapped users *)
(* b and l for late, may still make an administrator.                       *)
FirstOK(r, k, b, l) == l \/ b \cap k # {} \/ (b = {} /\ There(r) \subseteq k)

(* What holds of a request c while it is under way.                         *)
RequestOK(c, r, k, b, l) ==
    /\ c.op \in ByRow => r[c.id] # Absent
    /\ c.op \in Senders => b # {}
    /\ c.op \in Senders \ {"create"} => c.by # c.id
    /\ c.op = "promote" => r[c.id].active \/ c.id \in k
    /\ c.op = "update" => r[c.id].role # "ADMIN" \/ c.id \in k
    /\ c.op = "registering" => IF c.first THEN FirstOK(r, k, b, l) ELSE There(r) # {} \/ b # {}
RequestsOK == \A s \in Slots : RequestOK(call[s], row, crossed, boot, late)

(* The advisory lock is held by one registration.                           *)
OneRegisters == \A s, t \in Slots : call[s].op = "registering" /\ call[t].op = "registering" => s = t

(* The administrators: nobody becomes one before the first of them, after   *)
(* which one is left.                                                       *)
NoneBeforeFirst == boot = {} => Admins = {}
AdminKept == boot # {} => Admins # {} \/ late
FirstComes == boot = {} => Population = {} \/ \E s \in Slots : call[s].op = "promote"
OneFirst == boot = {} \/ (\E u \in Users : boot = {u}) \/ boot \cap crossed # {} \/ late

(* What the night's job is about to write.                                  *)
ListedOK == \A u \in Listed \cap Users : Exists(u) /\ (row[u].role # "ADMIN" \/ u \in crossed)
AtIsOut == job.at \in Listed \cap members => job.at \in failed \cup crossed
MarkedInactive == \A u \in marked : Exists(u) /\ ~row[u].active

(* Invitations: what is left of one is what its row says, while it has one. *)
InviteCounts == \A i \in Invites : invite[i] # Absent =>
    /\ i \in DOMAIN left
    /\ left[i] = invite[i].can - invite[i].used
    /\ invite[i].used <= invite[i].can
    /\ invite[i].org => invite[i].can = 1
LeftNat == DOMAIN left \subseteq Invites /\ left \in [DOMAIN left -> Nat]

AccountsInv ==
    /\ AccountTypes /\ RequestsOK /\ OneRegisters
    /\ NoneBeforeFirst /\ AdminKept /\ FirstComes /\ OneFirst /\ AdministratorsActive
    /\ ListedOK /\ AtIsOut /\ MarkedInactive /\ DeactivatedAreOut
    /\ InviteCounts /\ LeftNat /\ members \subseteq Population

----------------------------------------------------------------------------
(* Rows and requests                                                        *)

(* A row is there or not, and its fields have their types (schema of User). *)
LEMMA RowKinds ==
    ASSUME NEW r \in UserRows \cup {Absent}
    PROVE  /\ r # Absent <=> r \in UserRows
           /\ r \in UserRows => r.role \in {"ADMIN", "USER"} /\ r.active \in BOOLEAN
                                /\ r.expires \in Expiries /\ r.group \in Groups \cup {None}
           /\ r.role = "ADMIN" => r \in UserRows
           /\ r.role = "absent" <=> r = Absent
BY DEF UserRows, Absent

(* A new account is active (createUser, register).                         *)
LEMMA NewRowMade ==
    ASSUME NEW p \in {"ADMIN", "USER"}, NEW e \in Expiries, NEW g \in Groups \cup {None}
    PROVE  NewRow(p, e, g) \in UserRows /\ NewRow(p, e, g).role = p /\ NewRow(p, e, g).active
BY DEF NewRow, UserRows

(* Changing the role leaves the account as active as it was (changeRole).  *)
LEMMA RoleRow ==
    ASSUME NEW r \in UserRows, NEW p \in {"ADMIN", "USER"}
    PROVE  LET w == [r EXCEPT !.role = p] IN w \in UserRows /\ w.role = p /\ w.active = r.active
BY DEF UserRows

EditedRow(r, a, e) == [r EXCEPT !.active = a, !.expires = e]

(* updateUser leaves the role alone.                                       *)
LEMMA EditRow ==
    ASSUME NEW r \in UserRows, NEW a \in BOOLEAN, NEW e \in Expiries
    PROVE  LET w == EditedRow(r, a, e) IN w \in UserRows /\ w.role = r.role /\ w.active = a
BY DEF UserRows, EditedRow

AssignedRow(r, g, e) == [r EXCEPT !.group = g, !.expires = e]

(* A change of group leaves role and activity alone (assignUserGroup).     *)
LEMMA AssignRow ==
    ASSUME NEW r \in UserRows, NEW g \in Groups \cup {None}, NEW e \in Expiries
    PROVE  LET w == AssignedRow(r, g, e) IN w \in UserRows /\ w.role = r.role /\ w.active = r.active
BY DEF UserRows, AssignedRow

(* The expiry of an account leaves role and activity alone.                *)
LEMMA PastRow ==
    ASSUME NEW r \in UserRows
    PROVE  LET w == [r EXCEPT !.expires = "past"] IN w \in UserRows /\ w.role = r.role /\ w.active = r.active
BY DEF UserRows, Expiries

(* The job leaves the role alone (cronTasks.ts).                           *)
LEMMA InactiveRow ==
    ASSUME NEW r \in UserRows
    PROVE  LET w == [r EXCEPT !.active = FALSE] IN w \in UserRows /\ w.role = r.role /\ ~w.active
BY DEF UserRows

(* What is in a slot has the fields of its procedure.                      *)
LEMMA RequestKinds ==
    ASSUME NEW c \in AccountCalls
    PROVE  /\ c.op \in {"register", "registering"} => c \in RegisterCall
           /\ c.op = "oauth" => c \in OAuthCall
           /\ c.op = "promote" => c \in PromoteCall
           /\ c.op = "role" => c \in RoleCall
           /\ c.op = "update" => c \in EditCall
           /\ c.op = "delete" => c \in DeleteCall
           /\ c.op = "assign" => c \in AssignCall
           /\ c.op = "create" => c \in CreateCall
           /\ c.op = "group" => c \in GroupCall
           /\ c.op \in {"drop", "empty"} => c \in DropCall
           /\ c.op \in ByRow => c.id \in Users
           /\ c.op \in Senders => c.by \in Users /\ c.id \in Users
BY DEF AccountCalls, RegisterCall, OAuthCall, PromoteCall, RoleCall, EditCall, DeleteCall, AssignCall, CreateCall,
       GroupCall, DropCall, Idle, ByRow, Senders

(* An empty slot, or one whose row went, is bound by nothing.              *)
LEMMA Blank ==
    /\ Idle \in AccountCalls /\ [op |-> "lost"] \in AccountCalls
    /\ \A r, k, b, l : RequestOK(Idle, r, k, b, l) /\ RequestOK([op |-> "lost"], r, k, b, l)
    /\ Idle.op = "idle"
BY DEF AccountCalls, Idle, RequestOK, ByRow, Senders

(* A use of an invitation is counted, and its limit stays (register).      *)
LEMMA UsedInvite ==
    ASSUME NEW v \in InviteRows
    PROVE  LET w == UsedOnce(v) IN
           w \in InviteRows /\ w.used = v.used + 1 /\ w.can = v.can /\ w.org = v.org
<1>1. v.used + 1 \in Nat /\ (v.used + 1 >= v.can) \in BOOLEAN
  BY DEF InviteRows
<1> QED BY <1>1 DEF InviteRows, UsedOnce

(* The default group is a group, or there is none (register, createUser).  *)
LEMMA DefaultKnown == DefaultGroup \in Groups \cup {None}
BY DEF DefaultGroup

(* Administrators are those whose row says so; no row is one's that is gone. *)
LEMMA AdminsExist ==
    ASSUME AccountTypes
    PROVE  Admins = {u \in Users : row[u].role = "ADMIN"} /\ Population = There(row)
<1>1. \A u \in Users : row[u].role = "ADMIN" => Exists(u)
  BY RowKinds DEF AccountTypes, Exists
<1> QED BY <1>1 DEF Admins, Population, There, Exists

(* What another request changed leaves this one as it is bound, provided it *)
(* left role and activity of the row alone or both are on record.          *)
LEMMA RequestStays ==
    ASSUME NEW c \in AccountCalls, NEW r, NEW k, NEW b, NEW l \in BOOLEAN, NEW r2, NEW k2, NEW b2, NEW l2 \in BOOLEAN,
           RequestOK(c, r, k, b, l), k \subseteq k2, b \subseteq b2, l => l2,
           \A u \in Users : r[u] # Absent => r2[u] # Absent,
           c.op \in ByRow => \/ c.id \in k2
                             \/ r2[c.id].role = r[c.id].role /\ r2[c.id].active = r[c.id].active,
           FirstOK(r, k, b, l) /\ c.op = "registering" /\ c.first => FirstOK(r2, k2, b2, l2)
    PROVE  RequestOK(c, r2, k2, b2, l2)
<1>1. c.op \in ByRow => r2[c.id] # Absent
  BY RequestKinds DEF RequestOK
<1>2. c.op \in Senders => b2 # {}
  BY DEF RequestOK
<1>3. c.op = "promote" => r2[c.id].active \/ c.id \in k2
  BY DEF RequestOK, ByRow
<1>4. c.op = "update" => r2[c.id].role # "ADMIN" \/ c.id \in k2
  BY DEF RequestOK, ByRow
<1>5. c.op = "registering" => IF c.first THEN FirstOK(r2, k2, b2, l2) ELSE There(r2) # {} \/ b2 # {}
  <2>1. There(r) \subseteq There(r2)
    BY DEF There
  <2> QED BY <2>1 DEF RequestOK
<1> QED BY <1>1, <1>2, <1>3, <1>4, <1>5 DEF RequestOK

MovedJob(j, u) == [j EXCEPT !.todo = @ \ {u}, !.at = u]

(* The job takes a user from its list (cronTasks.ts).                      *)
LEMMA JobMoved ==
    ASSUME NEW j \in Jobs, NEW u \in Users
    PROVE  LET w == MovedJob(j, u) IN w \in Jobs /\ w.todo = j.todo \ {u} /\ w.at = u /\ w.gone = j.gone
BY DEF Jobs, MovedJob

Registering(c, f) == [c EXCEPT !.op = "registering", !.first = f]

(* Under the lock a registration is what it was, and knows if it is the first *)
(* (register).                                                             *)
LEMMA RegisteringCall ==
    ASSUME NEW c \in RegisterCall, NEW f \in BOOLEAN
    PROVE  LET x == Registering(c, f) IN x \in RegisterCall /\ x.op = "registering" /\ x.first = f
BY DEF RegisterCall, Registering

----------------------------------------------------------------------------
(* Steps by what they change                                                *)

(* Steps that leave roles and activity alone keep everything about the     *)
(* administrators: a request at most goes on to drop a group.              *)
LEMMA AdminsStill ==
    ASSUME AccountsInv, AccountTypes', UNCHANGED <<boot, late>>, crossed \subseteq crossed',
           \A u \in Users : /\ row'[u] # Absent <=> row[u] # Absent
                            /\ row[u] # Absent => row'[u].role = row[u].role /\ row'[u].active = row[u].active,
           \A s \in Slots : \/ call'[s] = call[s]
                            \/ call[s].op \notin ByRow /\ call'[s].op \in {"drop", "group"}
    PROVE  /\ RequestsOK' /\ OneRegisters' /\ NoneBeforeFirst' /\ AdminKept' /\ FirstComes'
           /\ OneFirst' /\ AdministratorsActive'
<1> USE DEF AccountsInv
<1>1. \A u \in Users : row[u] \in UserRows \cup {Absent} /\ row'[u] \in UserRows \cup {Absent}
  BY DEF AccountTypes
<1>2. Admins' = Admins /\ Population' = Population /\ There(row') = There(row)
  <2>1. \A u \in Users : row'[u].role = row[u].role
    BY <1>1, RowKinds
  <2>2. Admins = {u \in Users : row[u].role = "ADMIN"} /\ Population = There(row)
    BY AdminsExist
  <2>3. Admins' = {u \in Users : row'[u].role = "ADMIN"} /\ Population' = There(row')
    BY <1>1, RowKinds DEF Admins, Population, There, Exists
  <2> QED BY <2>1, <2>2, <2>3 DEF There
<1>3. RequestsOK'
  <2> SUFFICES ASSUME NEW s \in Slots PROVE RequestOK(call'[s], row', crossed', boot', late')
    BY DEF RequestsOK
  <2>1. CASE call'[s] = call[s]
    <3>1. PICK c \in AccountCalls : c = call[s]
      BY DEF AccountTypes
    <3>2. RequestOK(c, row, crossed, boot, late)
      BY <3>1 DEF RequestsOK
    <3>3. late \in BOOLEAN
      BY DEF AccountTypes
    <3>4. FirstOK(row, crossed, boot, late) => FirstOK(row', crossed', boot', late')
      BY <1>2 DEF FirstOK
    <3>5. c.op \in ByRow => row'[c.id].role = row[c.id].role /\ row'[c.id].active = row[c.id].active
      BY <3>2, RequestKinds DEF RequestOK
    <3>6. RequestOK(c, row', crossed', boot, late)
      BY <3>2, <3>3, <3>4, <3>5, RequestStays
    <3> QED BY <2>1, <3>1, <3>6
  <2>2. CASE call'[s].op \in {"drop", "group"}
    BY <2>2 DEF RequestOK, ByRow, Senders
  <2> QED BY <2>1, <2>2
<1>4. OneRegisters'
  BY DEF OneRegisters
<1>5. NoneBeforeFirst' /\ AdminKept' /\ FirstComes'
  BY <1>2 DEF NoneBeforeFirst, AdminKept, FirstComes, ByRow
<1>6. OneFirst'
  BY DEF OneFirst
<1>7. AdministratorsActive'
  <2>1. \A u \in Admins : row'[u].active = row[u].active
    BY DEF Admins, Exists
  <2> QED BY <1>2, <2>1 DEF AdministratorsActive
<1> QED BY <1>3, <1>4, <1>5, <1>6, <1>7

(* A step that uses no invitation leaves their counts alone.               *)
LEMMA RestStays ==
    ASSUME UNCHANGED <<invite, left>>, InviteCounts, LeftNat
    PROVE  InviteCounts' /\ LeftNat'
BY DEF InviteCounts, LeftNat

(* A request enters a slot, goes on in it or is over, and no row changes.  *)
LEMMA QuietStep ==
    ASSUME AccountsInv, NEW s \in Slots, NEW x \in AccountCalls, call' = [call EXCEPT ![s] = x],
           UNCHANGED <<row, invite, members, job, history>>,
           open' \in BOOLEAN, group' \in [Groups -> GroupRows \cup {Absent}], calls' \in 0 .. MaxCalls,
           RequestOK(x, row, crossed, boot, late),
           x.op = "registering" => LockFree,
           call[s].op = "promote" => boot # {}
    PROVE  AccountsInv'
<1> USE DEF AccountsInv
<1>1. AccountTypes'
  BY DEF AccountTypes, history
<1>2. \A t \in Slots : call'[t] = IF t = s THEN x ELSE call[t]
  BY DEF AccountTypes
<1>3. RequestsOK'
  BY <1>2 DEF RequestsOK, history
<1>4. OneRegisters'
  BY <1>2 DEF OneRegisters, LockFree
<1>5. FirstComes'
  BY <1>2 DEF FirstComes, history, Population, Exists
<1>6. NoneBeforeFirst' /\ AdminKept' /\ OneFirst' /\ AdministratorsActive'
  BY DEF NoneBeforeFirst, AdminKept, OneFirst, AdministratorsActive, history, Admins, Exists
<1>7. ListedOK' /\ AtIsOut' /\ MarkedInactive' /\ DeactivatedAreOut' /\ members' \subseteq Population'
  BY DEF ListedOK, AtIsOut, MarkedInactive, DeactivatedAreOut, history, Listed, Exists, Population
<1> QED BY <1>1, <1>3, <1>4, <1>5, <1>6, <1>7, RestStays DEF history

(* A request of an administrator is over: the row it is about is stored    *)
(* (changeRole, updateUser, assignUserGroup, createUser).                  *)
LEMMA StoreStep ==
    ASSUME AccountsInv, NEW s \in Slots, NEW u \in Users, NEW new \in UserRows, Store(s, u, new),
           call[s].op \in Senders, call[s].by # u \/ ~Exists(u),
           new.role = "ADMIN" => \/ new.active
                                 \/ u \in crossed
                                 \/ row[u].role = "ADMIN" /\ row[u].active = new.active
    PROVE  AccountsInv'
<1> USE DEF AccountsInv
<1>1. /\ row' = [row EXCEPT ![u] = new] /\ call' = [call EXCEPT ![s] = Idle]
      /\ UNCHANGED <<invite, group, open, members, calls, job, boot, left, failed>>
      /\ late' = (late \/ call[s].by \notin Admins) /\ marked' = marked \ {u}
  BY DEF Store, Finish
<1>2. crossed \subseteq crossed' /\ crossed' \subseteq crossed \cup {u} /\ (Touching(s, u) => u \in crossed')
  BY DEF Store, Cross
<1>3. \A v \in Users : row[v] \in UserRows \cup {Absent} /\ row'[v] \in UserRows \cup {Absent}
                       /\ row'[v] = IF v = u THEN new ELSE row[v]
  BY <1>1 DEF AccountTypes
<1>4. new # Absent /\ new.role \in {"ADMIN", "USER"} /\ new.active \in BOOLEAN
  BY RowKinds
<1>5. late \in BOOLEAN /\ late' \in BOOLEAN /\ (late => late') /\ \A t \in Slots : call[t] \in AccountCalls
  BY <1>1 DEF AccountTypes
<1>6. AccountTypes'
  <2>1. row' \in [Users -> UserRows \cup {Absent}]
    BY <1>1 DEF AccountTypes
  <2>2. call' \in [Slots -> AccountCalls]
    BY <1>1, Blank DEF AccountTypes
  <2> QED BY <1>1, <1>2, <1>5, <2>1, <2>2 DEF AccountTypes
<1>7. boot # {}
  BY DEF RequestsOK, RequestOK
<1>8. \A t \in Slots : call'[t] = IF t = s THEN Idle ELSE call[t]
  BY <1>1 DEF AccountTypes
<1>9. RequestsOK'
  <2> SUFFICES ASSUME NEW t \in Slots \ {s} PROVE RequestOK(call'[t], row', crossed', boot', late')
    BY <1>8, Blank DEF RequestsOK
  <2>1. PICK c \in AccountCalls : c = call[t]
    BY <1>5
  <2>2. RequestOK(c, row, crossed, boot, late)
    BY <2>1 DEF RequestsOK
  <2>3. c.op \in ByRow => c.id \in crossed' \/ row'[c.id] = row[c.id]
    <3>1. c.op \in ByRow /\ c.id = u => Touching(s, u)
      BY <2>1 DEF Touching, Writes
    <3> QED BY <1>2, <1>3, <3>1, RequestKinds
  <2>4. FirstOK(row, crossed, boot, late) => FirstOK(row', crossed', boot', late')
    BY <1>1, <1>2, <1>5, <1>7 DEF FirstOK
  <2>5. \A v \in Users : row[v] # Absent => row'[v] # Absent
    BY <1>3, <1>4
  <2>6. RequestOK(c, row', crossed', boot, late')
    <3>1. boot \subseteq boot' /\ boot' = boot
      BY <1>1
    <3>2. c.op \in ByRow => \/ c.id \in crossed'
                            \/ row'[c.id].role = row[c.id].role /\ row'[c.id].active = row[c.id].active
      <4>1. row'[c.id] = row[c.id] => row'[c.id].role = row[c.id].role /\ row'[c.id].active = row[c.id].active
        BY Zenon
      <4>2. CASE c.id \in crossed'
        BY <4>2, Zenon
      <4>3. CASE c.id \notin crossed'
        BY <2>3, <4>1, <4>3, Zenon
      <4> QED BY <4>2, <4>3
    <3>3. RequestOK(c, row', crossed', boot', late')
      BY <1>2, <1>5, <2>2, <2>4, <2>5, <3>1, <3>2, RequestStays
    <3> QED BY <3>1, <3>3
  <2> QED BY <1>1, <1>8, <2>1, <2>6
<1>10. OneRegisters'
  BY <1>8, Blank DEF OneRegisters
<1>11. NoneBeforeFirst' /\ FirstComes'
  BY <1>1, <1>7 DEF NoneBeforeFirst, FirstComes
<1>12. AdminKept'
  <2>1. PICK a \in Users : a = call[s].by
    BY <1>5, RequestKinds
  <2>2. CASE late' 
    BY <2>2 DEF AdminKept
  <2>3. CASE ~late'
    <3>1. a \in Admins
      BY <1>1, <2>1, <2>3
    <3>2. a # u
      BY <2>1, <3>1 DEF Admins
    <3>3. a \in Admins'
      BY <1>3, <3>1, <3>2 DEF Admins, Exists
    <3> QED BY <3>3 DEF AdminKept
  <2> QED BY <2>2, <2>3
<1>13. OneFirst'
  BY <1>1, <1>2 DEF OneFirst
<1>14. AdministratorsActive'
  <2> SUFFICES ASSUME NEW v \in Users, v \in Admins' PROVE row'[v].active \/ v \in crossed'
    BY DEF AdministratorsActive, Admins
  <2>1. row'[v].role = "ADMIN"
    BY DEF Admins
  <2>2. row[v].role = "ADMIN" => row[v].active \/ v \in crossed
    BY AdminsExist DEF AdministratorsActive
  <2> QED BY <1>2, <1>3, <2>1, <2>2
<1>15. ListedOK'
  <2>1. Listed' = Listed
    BY <1>1 DEF Listed
  <2>2. u \in Listed => u \in crossed'
    BY <1>2 DEF Touching
  <2> QED BY <1>2, <1>3, <1>4, <2>1, <2>2 DEF ListedOK, Exists
<1>16. AtIsOut' /\ DeactivatedAreOut'
  BY <1>1, <1>2 DEF AtIsOut, DeactivatedAreOut, Listed
<1>17. MarkedInactive'
  BY <1>1, <1>3 DEF MarkedInactive, Exists, AccountTypes
<1>18. members' \subseteq Population'
  BY <1>1, <1>3, <1>4 DEF Population, Exists
<1>19. InviteCounts' /\ LeftNat'
  BY <1>1, RestStays
<1> QED BY <1>6, <1>9, <1>10, <1>11, <1>12, <1>13, <1>14, <1>15, <1>16, <1>17, <1>18, <1>19

----------------------------------------------------------------------------
(* The actions                                                              *)

(* A registration commits: one invitation is used, one account created, and *)
(* the first of them is the administrator (register).                      *)
LEMMA RegisterStep ==
    ASSUME AccountsInv, NEW s \in Slots, RegisterCommit(s) PROVE AccountsInv'
<1> USE DEF AccountsInv
<1>0. PICK c \in AccountCalls : c = call[s]
  BY DEF AccountTypes
<1>1. c.op = "registering" /\ c \in RegisterCall /\ RequestOK(c, row, crossed, boot, late)
  BY <1>0, RequestKinds DEF RegisterCommit, RequestsOK
<1>2. CASE Refused(s)
  BY <1>0, <1>1, <1>2, QuietStep, Blank DEF Refused, Finish, db, AccountTypes
<1>3. CASE ~Refused(s)
  <2> DEFINE u == c.id
             i == c.invite
             new == NewRow(IF c.first THEN "ADMIN" ELSE "USER", c.expires, DefaultGroup)
  <2>1. /\ ~Exists(u) /\ (i # None => StillValid(c))
        /\ row' = [row EXCEPT ![u] = new] /\ Consume(i) /\ open' = (open /\ ~c.first)
        /\ left' = IF i = None THEN left ELSE [left EXCEPT ![i] = @ - 1]
        /\ boot' = IF c.first THEN boot \cup {u} ELSE boot
        /\ call' = [call EXCEPT ![s] = Idle]
        /\ UNCHANGED <<group, members, calls, job, failed, marked, late, crossed>>
    BY <1>0, <1>3 DEF RegisterCommit, Finish
  <2>2. u \in Users /\ c.first \in BOOLEAN /\ c.expires \in Expiries /\ i \in Invites \cup {None}
    BY <1>1 DEF RegisterCall
  <2>3. new \in UserRows /\ new.role = (IF c.first THEN "ADMIN" ELSE "USER") /\ new.active
    BY <2>2, NewRowMade, DefaultKnown
  <2> HIDE DEF new, u, i
  <2>4. \A v \in Users : row[v] \in UserRows \cup {Absent} /\ row'[v] = IF v = u THEN new ELSE row[v]
    BY <2>1 DEF AccountTypes
  <2>5. new # Absent /\ row[u] = Absent
    BY <2>1, <2>3, RowKinds DEF Exists
  <2>6. \A t \in Slots : call[t] \in AccountCalls /\ call'[t] = IF t = s THEN Idle ELSE call[t]
    BY <2>1 DEF AccountTypes
  <2>7. late \in BOOLEAN /\ boot \subseteq boot' /\ boot' \subseteq Users
    BY <2>1, <2>2 DEF AccountTypes, u
  <2>8. InviteCounts' /\ LeftNat' /\ invite' \in [Invites -> InviteRows \cup {Absent}]
    <3>1. CASE i = None
      BY <2>1, <3>1, RestStays DEF Consume, AccountTypes
    <3>2. CASE i # None
      <4>1. /\ i \in Invites /\ invite[i] # Absent /\ invite[i].used < invite[i].can
            /\ invite[i] \in InviteRows /\ invite[i].used \in Nat /\ invite[i].can \in {1, 2}
        BY <2>1, <2>2, <3>2 DEF StillValid, InviteOpen, AccountTypes, InviteRows, i
      <4>2. i \in DOMAIN left /\ left[i] = invite[i].can - invite[i].used /\ left[i] - 1 \in Nat
        BY <4>1 DEF InviteCounts
      <4>3. /\ DOMAIN left' = DOMAIN left
            /\ \A j \in DOMAIN left : left'[j] = IF j = i THEN left[j] - 1 ELSE left[j]
        BY <2>1, <3>2
      <4>4. LeftNat'
        BY <2>1, <3>2, <4>2 DEF LeftNat
      <4>5. CASE invite[i].org
        <5>1. invite' = [invite EXCEPT ![i] = Absent]
          BY <2>1, <3>2, <4>5 DEF Consume
        <5>2. invite' \in [Invites -> InviteRows \cup {Absent}]
          BY <5>1 DEF AccountTypes
        <5>3. \A j \in Invites : invite'[j] = IF j = i THEN Absent ELSE invite[j]
          BY <5>1 DEF AccountTypes
        <5>4. InviteCounts'
          BY <4>3, <5>3 DEF InviteCounts
        <5> QED BY <4>4, <5>2, <5>4
      <4>6. CASE ~invite[i].org
        <5>1. PICK old \in InviteRows : old = invite[i]
          BY <4>1
        <5> DEFINE w == UsedOnce(old)
        <5>2. invite' = [invite EXCEPT ![i] = w] /\ \A j \in Invites : invite'[j] = IF j = i THEN w ELSE invite[j]
          <6>1. invite' = [invite EXCEPT ![i] = UsedOnce(@)]
            BY <2>1, <3>2, <4>6 DEF Consume
          <6> HIDE DEF w
          <6>2. w = UsedOnce(invite[i])
            BY <5>1 DEF w
          <6> QED BY <4>1, <6>1, <6>2 DEF AccountTypes
        <5>3. /\ w \in InviteRows /\ w.used = old.used + 1 /\ w.can = old.can /\ w.org = old.org
          BY UsedInvite
        <5>4. invite' \in [Invites -> InviteRows \cup {Absent}]
          <6> HIDE DEF w
          <6> QED BY <5>2, <5>3 DEF AccountTypes
        <5> HIDE DEF w
        <5>5. InviteCounts'
          <6> SUFFICES ASSUME NEW j \in Invites, invite'[j] # Absent
                       PROVE  /\ j \in DOMAIN left' /\ left'[j] = invite'[j].can - invite'[j].used
                              /\ invite'[j].used <= invite'[j].can /\ (invite'[j].org => invite'[j].can = 1)
            BY DEF InviteCounts
          <6>1. CASE j = i
            <7>1. invite'[j] = w /\ left'[j] = left[i] - 1 /\ j \in DOMAIN left'
              BY <4>1, <4>2, <4>3, <5>2, <6>1
            <7>2. old.used \in Nat /\ old.can \in {1, 2} /\ old.used < old.can /\ left[i] = old.can - old.used /\ ~w.org
              BY <4>1, <4>2, <4>6, <5>1, <5>3
            <7>3. w.used <= w.can /\ left[i] - 1 = w.can - w.used
              BY <5>3, <7>2
            <7> QED BY <7>1, <7>2, <7>3
          <6>2. CASE j # i
            BY <4>3, <5>2, <6>2 DEF InviteCounts
          <6> QED BY <6>1, <6>2
        <5> QED BY <4>4, <5>4, <5>5
      <4> QED BY <4>5, <4>6
    <3> QED BY <3>1, <3>2
  <2>9. AccountTypes'
    <3>1. row' \in [Users -> UserRows \cup {Absent}]
      BY <2>1, <2>2, <2>3 DEF AccountTypes
    <3>2. call' \in [Slots -> AccountCalls]
      BY <2>1, Blank DEF AccountTypes
    <3>3. open' \in BOOLEAN
      BY <2>1
    <3> QED BY <2>1, <2>7, <2>8, <3>1, <3>2, <3>3 DEF AccountTypes
  <2>10. FirstOK(row, crossed, boot, late) /\ c.first => late \/ boot = {} \/ boot \cap crossed # {}
    BY DEF FirstOK
  <2>11. \A t \in Slots \ {s} : call[t].op # "registering"
    BY <1>0, <1>1 DEF OneRegisters
  <2>12. RequestsOK'
    <3> SUFFICES ASSUME NEW t \in Slots \ {s} PROVE RequestOK(call'[t], row', crossed', boot', late')
      BY <2>6, Blank DEF RequestsOK
    <3>1. PICK d \in AccountCalls : d = call[t]
      BY <2>6
    <3>2. RequestOK(d, row, crossed, boot, late) /\ d.op # "registering"
      BY <2>11, <3>1 DEF RequestsOK
    <3>3. d.op \in ByRow => row'[d.id] = row[d.id]
      BY <2>4, <2>5, <3>2, RequestKinds DEF RequestOK
    <3>4. d.op \in ByRow => row'[d.id].role = row[d.id].role /\ row'[d.id].active = row[d.id].active
      <4>1. row'[d.id] = row[d.id] => row'[d.id].role = row[d.id].role /\ row'[d.id].active = row[d.id].active
        BY Zenon
      <4> QED BY <3>3, <4>1, Zenon
    <3>5. \A v \in Users : row[v] # Absent => row'[v] # Absent
      BY <2>4, <2>5
    <3>6. RequestOK(d, row', crossed, boot', late)
      BY <2>7, <3>2, <3>4, <3>5, RequestStays
    <3> QED BY <2>1, <2>6, <3>1, <3>6
  <2>13. OneRegisters'
    BY <2>6, Blank DEF OneRegisters
  <2>14. /\ Admins' = IF c.first THEN Admins \cup {u} ELSE Admins
         /\ Population' = Population \cup {u}
    BY <2>2, <2>3, <2>4, <2>5 DEF Admins, Population, Exists, u
  <2>15. NoneBeforeFirst' /\ AdminKept'
    BY <2>1, <2>14 DEF NoneBeforeFirst, AdminKept
  <2>16. FirstComes'
    <3> SUFFICES ASSUME boot' = {} PROVE \E t \in Slots : call'[t].op = "promote"
      BY DEF FirstComes
    <3>1. boot = {} /\ ~c.first
      BY <2>1
    <3>2. Population # {}
      BY <1>1, <3>1 DEF RequestOK, Population, There, Exists
    <3>3. PICK t \in Slots : call[t].op = "promote"
      BY <3>1, <3>2 DEF FirstComes
    <3> QED BY <1>0, <1>1, <2>6, <3>3
  <2>17. OneFirst'
    <3>1. CASE c.first
      <4>1. late \/ boot = {} \/ boot \cap crossed # {}
        BY <1>1, <2>10, <3>1 DEF RequestOK
      <4> QED BY <2>1, <2>2, <3>1, <4>1 DEF OneFirst, u
    <3>2. CASE ~c.first
      BY <2>1, <3>2 DEF OneFirst
    <3> QED BY <3>1, <3>2
  <2>18. AdministratorsActive'
    <3>1. \A v \in Admins : v # u /\ row'[v] = row[v]
      BY <2>1, <2>4 DEF Admins, Exists
    <3>2. row'[u].active
      BY <2>2, <2>3, <2>4 DEF u
    <3> QED BY <2>1, <2>14, <3>1, <3>2 DEF AdministratorsActive
  <2>19. ListedOK' /\ AtIsOut' /\ DeactivatedAreOut'
    BY <2>1, <2>4 DEF ListedOK, AtIsOut, DeactivatedAreOut, Listed, Exists
  <2>20. MarkedInactive'
    BY <2>1, <2>4 DEF MarkedInactive, Exists, AccountTypes
  <2> QED BY <2>1, <2>8, <2>9, <2>12, <2>13, <2>14, <2>15, <2>16, <2>17, <2>18, <2>19, <2>20
<1> QED BY <1>2, <1>3

(* The library creates an account of OAuth, whoever registers at the time  *)
(* (onUserCreateBefore).                                                   *)
LEMMA OAuthStep ==
    ASSUME AccountsInv, NEW s \in Slots, OAuthCreate(s) PROVE AccountsInv'
<1> USE DEF AccountsInv
<1>0. PICK c \in AccountCalls : c = call[s]
  BY DEF AccountTypes
<1>1. c.op = "oauth" /\ c \in OAuthCall
  BY <1>0, RequestKinds DEF OAuthCreate
<1>2. CASE Refused(s)
  BY <1>0, <1>1, <1>2, QuietStep, Blank DEF Refused, Finish, db, AccountTypes
<1>3. CASE ~Refused(s)
  <2> DEFINE u == c.id
             new == NewRow("USER", "never", c.group)
             x == [op |-> "promote", id |-> u]
  <2>1. /\ ~Exists(u) /\ row' = [row EXCEPT ![u] = new] /\ call' = [call EXCEPT ![s] = x]
        /\ crossed' = IF \E t \in Slots : call[t].op = "registering" /\ call[t].first
                      THEN crossed \cup {u} ELSE crossed
        /\ UNCHANGED <<invite, group, open, members, calls, job, boot, left, failed, marked, late>>
    BY <1>0, <1>3 DEF OAuthCreate
  <2>2. u \in Users /\ c.group \in Groups \cup {None}
    BY <1>1 DEF OAuthCall
  <2>3. new \in UserRows /\ new.role = "USER" /\ new.active
    BY <2>2, NewRowMade DEF Expiries
  <2>4. x \in AccountCalls /\ x.op = "promote" /\ x.id = u
    BY <2>2 DEF AccountCalls, PromoteCall
  <2> HIDE DEF new, u, x
  <2>5. \A v \in Users : row[v] \in UserRows \cup {Absent} /\ row'[v] = IF v = u THEN new ELSE row[v]
    BY <2>1 DEF AccountTypes
  <2>6. new # Absent /\ row[u] = Absent
    BY <2>1, <2>3, RowKinds DEF Exists
  <2>7. \A t \in Slots : call[t] \in AccountCalls /\ call'[t] = IF t = s THEN x ELSE call[t]
    BY <2>1 DEF AccountTypes
  <2>8. late \in BOOLEAN /\ crossed \subseteq crossed' /\ crossed' \subseteq crossed \cup {u}
    BY <2>1 DEF AccountTypes
  <2>9. AccountTypes'
    <3>1. row' \in [Users -> UserRows \cup {Absent}]
      BY <2>1, <2>2, <2>3 DEF AccountTypes
    <3>2. call' \in [Slots -> AccountCalls]
      BY <2>1, <2>4 DEF AccountTypes
    <3> QED BY <2>1, <2>2, <2>8, <3>1, <3>2 DEF AccountTypes
  <2>10. RequestsOK'
    <3>1. ASSUME NEW t \in Slots \ {s} PROVE RequestOK(call'[t], row', crossed', boot', late')
      <4>1. PICK d \in AccountCalls : d = call[t]
        BY <2>7
      <4>2. RequestOK(d, row, crossed, boot, late)
        BY <4>1 DEF RequestsOK
      <4>3. d.op \in ByRow => row'[d.id] = row[d.id]
        BY <2>5, <2>6, <4>2, RequestKinds DEF RequestOK
      <4>4. d.op \in ByRow => row'[d.id].role = row[d.id].role /\ row'[d.id].active = row[d.id].active
        <5>1. row'[d.id] = row[d.id] => row'[d.id].role = row[d.id].role /\ row'[d.id].active = row[d.id].active
          BY Zenon
        <5> QED BY <4>3, <5>1, Zenon
      <4>5. \A v \in Users : row[v] # Absent => row'[v] # Absent
        BY <2>5, <2>6
      <4>6. FirstOK(row, crossed, boot, late) /\ d.op = "registering" /\ d.first => FirstOK(row', crossed', boot, late)
        <5>1. There(row') \subseteq There(row) \cup {u}
          BY <2>5 DEF There
        <5>2. d.op = "registering" /\ d.first => u \in crossed'
          BY <2>1, <4>1
        <5> QED BY <2>8, <5>1, <5>2 DEF FirstOK
      <4>7. RequestOK(d, row', crossed', boot, late)
        BY <2>8, <4>2, <4>4, <4>5, <4>6, RequestStays
      <4> QED BY <2>1, <2>7, <4>1, <4>7
    <3>2. RequestOK(x, row', crossed', boot', late')
      <4>1. row'[u] = new
        BY <2>2, <2>5
      <4> QED BY <2>3, <2>4, <2>6, <4>1 DEF RequestOK, ByRow, Senders
    <3> QED BY <2>7, <3>1, <3>2 DEF RequestsOK
  <2>11. OneRegisters'
    BY <2>4, <2>7 DEF OneRegisters
  <2>12. Admins' = Admins /\ Population' = Population \cup {u}
    BY <2>2, <2>3, <2>5, <2>6 DEF Admins, Population, Exists
  <2>13. NoneBeforeFirst' /\ AdminKept'
    BY <2>1, <2>12 DEF NoneBeforeFirst, AdminKept
  <2>14. FirstComes'
    BY <2>4, <2>7 DEF FirstComes
  <2>15. OneFirst'
    BY <2>1, <2>8 DEF OneFirst
  <2>16. AdministratorsActive'
    <3>1. \A v \in Admins : v # u /\ row'[v] = row[v]
      BY <2>1, <2>5 DEF Admins, Exists
    <3> QED BY <2>8, <2>12, <3>1 DEF AdministratorsActive
  <2>17. ListedOK' /\ AtIsOut' /\ DeactivatedAreOut'
    BY <2>1, <2>5, <2>8 DEF ListedOK, AtIsOut, DeactivatedAreOut, Listed, Exists
  <2>18. MarkedInactive'
    BY <2>1, <2>5 DEF MarkedInactive, Exists, AccountTypes
  <2> QED BY <2>1, <2>9, <2>10, <2>11, <2>12, <2>13, <2>14, <2>15, <2>16, <2>17, <2>18, RestStays
<1> QED BY <1>2, <1>3

(* An account of OAuth is promoted when there is no administrator          *)
(* (onUserCreateAfter).                                                    *)
LEMMA PromoteStep ==
    ASSUME AccountsInv, NEW s \in Slots, OAuthPromote(s) PROVE AccountsInv'
<1> USE DEF AccountsInv
<1>0. PICK c \in AccountCalls : c = call[s]
  BY DEF AccountTypes
<1>1. c.op = "promote" /\ c \in PromoteCall /\ RequestOK(c, row, crossed, boot, late)
  BY <1>0, RequestKinds DEF OAuthPromote, RequestsOK
<1>2. CASE Admins # {} /\ Refused(s)
  BY <1>0, <1>1, <1>2, QuietStep, Blank DEF Refused, Finish, db, AccountTypes, NoneBeforeFirst
<1>3. CASE Admins = {}
  <2> DEFINE u == c.id
             new == [row[u] EXCEPT !.role = "ADMIN"]
  <2>1. /\ row' = [row EXCEPT ![u].role = "ADMIN"] /\ boot' = boot \cup {u} /\ Cross(s, u)
        /\ call' = [call EXCEPT ![s] = Idle]
        /\ UNCHANGED <<invite, group, open, members, calls, job, left, failed, marked, late>>
    BY <1>0, <1>3 DEF OAuthPromote, Finish
  <2>2. u \in Users /\ row[u] \in UserRows
    BY <1>1, RowKinds DEF PromoteCall, RequestOK, ByRow, AccountTypes
  <2>3. new \in UserRows /\ new.role = "ADMIN" /\ new.active = row[u].active
    BY <2>2, RoleRow
  <2>4. row' = [row EXCEPT ![u] = new]
    BY <2>1
  <2> HIDE DEF new
  <2>5. \A v \in Users : row[v] \in UserRows \cup {Absent} /\ row'[v] = IF v = u THEN new ELSE row[v]
    BY <2>4 DEF AccountTypes
  <2>6. new # Absent /\ row[u] # Absent
    BY <2>2, <2>3, RowKinds
  <2>7. \A t \in Slots : call[t] \in AccountCalls /\ call'[t] = IF t = s THEN Idle ELSE call[t]
    BY <2>1 DEF AccountTypes
  <2>8. /\ late \in BOOLEAN /\ crossed \subseteq crossed' /\ crossed' \subseteq crossed \cup {u}
        /\ (Touching(s, u) => u \in crossed') /\ boot \subseteq boot' /\ boot' \subseteq Users
    BY <2>1, <2>2 DEF AccountTypes, Cross
  <2>9. AccountTypes'
    <3>1. row' \in [Users -> UserRows \cup {Absent}]
      BY <2>2, <2>3, <2>4 DEF AccountTypes
    <3>2. call' \in [Slots -> AccountCalls]
      BY <2>1, Blank DEF AccountTypes
    <3> QED BY <2>1, <2>2, <2>8, <3>1, <3>2 DEF AccountTypes
  <2>10. boot # {} => late
    BY <1>3 DEF AdminKept
  <2>11. RequestsOK'
    <3> SUFFICES ASSUME NEW t \in Slots \ {s} PROVE RequestOK(call'[t], row', crossed', boot', late')
      BY <2>7, Blank DEF RequestsOK
    <3>1. PICK d \in AccountCalls : d = call[t]
      BY <2>7
    <3>2. RequestOK(d, row, crossed, boot, late)
      BY <3>1 DEF RequestsOK
    <3>3. d.op \in ByRow => \/ d.id \in crossed'
                            \/ row'[d.id].role = row[d.id].role /\ row'[d.id].active = row[d.id].active
      <4>1. CASE d.id = u
        <5>1. d.op \in ByRow => Touching(s, u)
          BY <3>1, <4>1 DEF Touching, Writes
        <5> QED BY <2>8, <4>1, <5>1, Zenon
      <4>2. CASE d.id # u
        <5>1. d.op \in ByRow => row'[d.id] = row[d.id]
          BY <2>5, <4>2, RequestKinds
        <5>2. row'[d.id] = row[d.id] => row'[d.id].role = row[d.id].role /\ row'[d.id].active = row[d.id].active
          BY Zenon
        <5> QED BY <5>1, <5>2, Zenon
      <4> QED BY <4>1, <4>2
    <3>4. \A v \in Users : row[v] # Absent => row'[v] # Absent
      BY <2>5, <2>6
    <3>5. FirstOK(row, crossed, boot, late) => FirstOK(row', crossed', boot', late)
      <4>1. boot = {} /\ There(row) \subseteq crossed => u \in boot' /\ u \in crossed'
        BY <2>1, <2>2, <2>6, <2>8 DEF There
      <4> QED BY <2>8, <2>10, <4>1 DEF FirstOK
    <3>6. RequestOK(d, row', crossed', boot', late)
      BY <2>8, <3>2, <3>3, <3>4, <3>5, RequestStays
    <3> QED BY <2>1, <2>7, <3>1, <3>6
  <2>12. OneRegisters'
    BY <2>7, Blank DEF OneRegisters
  <2>13. Admins' = {u} /\ Population' = Population
    BY <1>3, <2>2, <2>3, <2>5, <2>6 DEF Admins, Population, Exists
  <2>14. NoneBeforeFirst' /\ AdminKept' /\ FirstComes'
    BY <2>1, <2>13 DEF NoneBeforeFirst, AdminKept, FirstComes
  <2>15. OneFirst'
    <3>1. CASE boot = {}
      <4>1. boot' = {u}
        BY <2>1, <3>1
      <4> QED BY <2>2, <4>1 DEF OneFirst
    <3>2. CASE boot # {}
      BY <2>1, <2>10, <3>2 DEF OneFirst
    <3> QED BY <3>1, <3>2
  <2>16. AdministratorsActive'
    <3>1. row[u].active \/ u \in crossed
      BY <1>1 DEF RequestOK
    <3>2. row'[u] = new
      BY <2>2, <2>5
    <3> QED BY <2>3, <2>8, <2>13, <3>1, <3>2 DEF AdministratorsActive
  <2>17. ListedOK'
    <3>1. Listed' = Listed /\ (u \in Listed => u \in crossed')
      BY <2>1, <2>8 DEF Listed, Touching
    <3> QED BY <2>5, <2>6, <2>8, <3>1 DEF ListedOK, Exists
  <2>18. AtIsOut' /\ DeactivatedAreOut'
    BY <2>1, <2>8 DEF AtIsOut, DeactivatedAreOut, Listed
  <2>19. MarkedInactive'
    <3>1. \A v \in marked : v \in Users
      BY DEF AccountTypes
    <3>2. u \in marked => ~new.active
      BY <2>3 DEF MarkedInactive
    <3> QED BY <2>1, <2>5, <2>6, <3>1, <3>2 DEF MarkedInactive, Exists
  <2> QED BY <2>1, <2>9, <2>11, <2>12, <2>13, <2>14, <2>15, <2>16, <2>17, <2>18, <2>19, RestStays
<1> QED BY <1>2, <1>3 DEF OAuthPromote

(* A user is deleted with invitations, members, and whatever was to be     *)
(* written to the row (deleteUser).                                        *)
LEMMA DeleteStep ==
    ASSUME AccountsInv, NEW s \in Slots, DeleteUserCommit(s) PROVE AccountsInv'
<1> USE DEF AccountsInv
<1>0. PICK c \in AccountCalls : c = call[s]
  BY DEF AccountTypes
<1>1. /\ c.op = "delete" /\ c.by \in Users /\ c.id \in Users /\ c.by # c.id
      /\ boot # {} /\ c \in DeleteCall
  BY <1>0, RequestKinds DEF DeleteUserCommit, RequestsOK, RequestOK, Senders
<1> DEFINE u == c.id
<1>2. /\ row' = [row EXCEPT ![u] = Absent]
      /\ invite' = [i \in Invites |-> IF invite[i] # Absent /\ invite[i].by = u THEN Absent ELSE invite[i]]
      /\ members' = members \ {u} /\ marked' = marked \ {u} /\ failed' = failed \ {u}
      /\ late' = (late \/ c.by \notin Admins)
      /\ call' = [t \in Slots |-> IF t = s THEN Idle
                                   ELSE IF call[t].op \in ByRow /\ call[t].id = u THEN [op |-> "lost"]
                                   ELSE call[t]]
      /\ job' = IF u \in Listed THEN [job EXCEPT !.gone = @ \cup {u}] ELSE job
      /\ UNCHANGED <<group, open, calls, boot, left, crossed>>
  BY <1>0 DEF DeleteUserCommit
<1>3. u \in Users /\ late \in BOOLEAN /\ late' \in BOOLEAN /\ (late => late')
  BY <1>1, <1>2 DEF AccountTypes
<1> HIDE DEF u
<1>4. \A v \in Users : row[v] \in UserRows \cup {Absent} /\ row'[v] = IF v = u THEN Absent ELSE row[v]
  BY <1>2 DEF AccountTypes
<1>5. \A t \in Slots : call[t] \in AccountCalls
  BY DEF AccountTypes
<1>6. /\ job \in Jobs /\ job' \in Jobs /\ job'.todo = job.todo /\ job'.at = job.at
      /\ job.gone \subseteq job'.gone /\ u \notin Listed' /\ Listed' \subseteq Listed
  <2>1. job \in Jobs
    BY DEF AccountTypes
  <2>2. CASE u \in Listed
    <3>1. job' = [job EXCEPT !.gone = @ \cup {u}]
      BY <1>2, <2>2
    <3>2. job' \in Jobs /\ job'.todo = job.todo /\ job'.at = job.at /\ job'.gone = job.gone \cup {u}
      BY <1>3, <2>1, <3>1 DEF Jobs
    <3> QED BY <2>1, <3>2 DEF Listed
  <2>3. CASE u \notin Listed
    BY <1>2, <2>1, <2>3 DEF Listed
  <2> QED BY <2>2, <2>3
<1>7. invite' \in [Invites -> InviteRows \cup {Absent}]
  BY <1>2 DEF AccountTypes
<1>8. call' \in [Slots -> AccountCalls]
  BY <1>2, <1>5, Blank
<1>9. AccountTypes'
  <2>1. row' \in [Users -> UserRows \cup {Absent}]
    BY <1>2, <1>3 DEF AccountTypes
  <2> QED BY <1>2, <1>3, <1>6, <1>7, <1>8, <2>1 DEF AccountTypes
<1>10. RequestsOK'
  <2> SUFFICES ASSUME NEW t \in Slots PROVE RequestOK(call'[t], row', crossed, boot, late')
    BY <1>2 DEF RequestsOK
  <2>1. CASE call'[t] = Idle \/ call'[t] = [op |-> "lost"]
    BY <2>1, Blank
  <2>2. CASE call'[t] = call[t] /\ ~(call[t].op \in ByRow /\ call[t].id = u)
    <3>1. PICK d \in AccountCalls : d = call[t]
      BY <1>5
    <3>2. RequestOK(d, row, crossed, boot, late)
      BY <3>1 DEF RequestsOK
    <3>3. d.op \in ByRow => row'[d.id] = row[d.id]
      BY <1>4, <2>2, <3>1, RequestKinds
    <3>4. FirstOK(row, crossed, boot, late) => FirstOK(row', crossed, boot, late')
      BY <1>1, <1>3 DEF FirstOK
    <3>5. d.op \in ByRow => row'[d.id] # Absent
      BY <3>2, <3>3 DEF RequestOK
    <3>6. d.op = "promote" => row'[d.id].active \/ d.id \in crossed
      BY <3>2, <3>3, Zenon DEF RequestOK, ByRow
    <3>7. d.op = "update" => row'[d.id].role # "ADMIN" \/ d.id \in crossed
      BY <3>2, <3>3 DEF RequestOK, ByRow
    <3>8. d.op = "registering" => IF d.first THEN FirstOK(row', crossed, boot, late') ELSE There(row') # {} \/ boot # {}
      BY <1>1, <3>2, <3>4 DEF RequestOK
    <3>9. RequestOK(d, row', crossed, boot, late')
      BY <3>2, <3>5, <3>6, <3>7, <3>8 DEF RequestOK
    <3> QED BY <2>2, <3>1, <3>9
  <2>3. \/ call'[t] = Idle \/ call'[t] = [op |-> "lost"]
        \/ call'[t] = call[t] /\ ~(call[t].op \in ByRow /\ call[t].id = u)
    BY <1>2
  <2> QED BY <2>1, <2>2, <2>3
<1>11. OneRegisters'
  <2>1. \A t \in Slots : call'[t].op = "registering" => call[t].op = "registering"
    BY <1>2, Blank
  <2> QED BY <2>1 DEF OneRegisters
<1>12. NoneBeforeFirst' /\ FirstComes' /\ OneFirst'
  BY <1>1, <1>2, <1>3 DEF NoneBeforeFirst, FirstComes, OneFirst
<1>13. Admins' = Admins \ {u} /\ Population' = Population \ {u}
  BY <1>3, <1>4 DEF Admins, Population, Exists
<1>14. AdminKept'
  <2>1. CASE c.by \in Admins
    BY <1>1, <1>13, <2>1 DEF AdminKept, u
  <2>2. CASE c.by \notin Admins
    BY <1>2, <2>2 DEF AdminKept
  <2> QED BY <2>1, <2>2
<1>15. AdministratorsActive'
  <2>1. \A v \in Admins' : row'[v] = row[v] /\ v \in Admins
    BY <1>4, <1>13 DEF Admins
  <2> QED BY <1>2, <2>1 DEF AdministratorsActive
<1>16. ListedOK'
  <2>1. \A v \in Listed' \cap Users : v \in Listed /\ row'[v] = row[v]
    BY <1>4, <1>6
  <2> QED BY <1>2, <2>1 DEF ListedOK, Exists
<1>17. AtIsOut' /\ DeactivatedAreOut'
  BY <1>2, <1>6 DEF AtIsOut, DeactivatedAreOut
<1>18. MarkedInactive'
  BY <1>2, <1>4 DEF MarkedInactive, Exists, AccountTypes
<1>19. members' \subseteq Population'
  BY <1>2, <1>13
<1>20. InviteCounts' /\ LeftNat'
  BY <1>2 DEF InviteCounts, LeftNat
<1> QED BY <1>9, <1>10, <1>11, <1>12, <1>14, <1>15, <1>16, <1>17, <1>18, <1>19, <1>20

(* The night's job lists the expired users (cronTasks.ts).                 *)
LEMMA StartStep ==
    ASSUME AccountsInv, JobStart PROVE AccountsInv'
<1> USE DEF AccountsInv
<1>1. /\ job' = [todo |-> ExpiredUsers, at |-> None, gone |-> {}]
      /\ UNCHANGED <<row, invite, group, open, members, call, calls, boot, left, failed, marked, late, crossed>>
  BY DEF JobStart, db, history
<1>2. ExpiredUsers \subseteq Users
  BY DEF ExpiredUsers
<1>3. job' \in Jobs /\ job'.todo = ExpiredUsers /\ job'.at = None /\ job'.gone = {}
  BY <1>1, <1>2 DEF Jobs
<1>4. AccountTypes'
  BY <1>1, <1>3 DEF AccountTypes
<1>5. Listed' = ExpiredUsers \cup {None}
  BY <1>3 DEF Listed
<1>6. ListedOK'
  BY <1>1, <1>5, NoneIsNobody DEF ListedOK, ExpiredUsers, Expired, Exists
<1>7. AtIsOut' /\ DeactivatedAreOut' /\ MarkedInactive' /\ members' \subseteq Population'
  BY <1>1, <1>3, NoneIsNobody DEF AtIsOut, DeactivatedAreOut, MarkedInactive, Exists, Population, AccountTypes
<1> QED BY <1>1, <1>4, <1>6, <1>7, AdminsStill, RestStays

(* The job asks the controller to deauthorise a user's members             *)
(* (cronTasks.ts).                                                         *)
LEMMA DeauthoriseStep ==
    ASSUME AccountsInv, NEW u \in Users, JobDeauthorise(u) PROVE AccountsInv'
<1> USE DEF AccountsInv
<1>1. /\ job.at = None /\ u \in job.todo
      /\ job' = [job EXCEPT !.todo = @ \ {u}, !.at = u]
      /\ UNCHANGED <<row, invite, group, open, call, calls, boot, left, marked, late, crossed>>
  BY DEF JobDeauthorise
<1>2. \/ members' = (IF u \in job.gone THEN members ELSE members \ {u}) /\ failed' = failed
      \/ u \in members /\ u \notin job.gone /\ members' = members /\ failed' = failed \cup {u}
  BY DEF JobDeauthorise
<1>3. job \in Jobs
  BY DEF AccountTypes
<1>4. job' \in Jobs /\ job'.todo = job.todo \ {u} /\ job'.at = u /\ job'.gone = job.gone
  <2>1. job' = MovedJob(job, u)
    BY <1>1, Zenon DEF MovedJob
  <2> QED BY <1>3, <2>1, JobMoved
<1>5. members' \subseteq members /\ failed \subseteq failed' /\ failed' \subseteq Users
  BY <1>2 DEF AccountTypes
<1>6. AccountTypes'
  <2>1. members' \subseteq Users
    BY <1>5 DEF AccountTypes
  <2> QED BY <1>1, <1>4, <1>5, <2>1 DEF AccountTypes
<1>7. Listed' \subseteq Listed /\ (u \in Listed' <=> u \notin job.gone)
  BY <1>1, <1>4 DEF Listed
<1>8. ListedOK'
  BY <1>1, <1>7 DEF ListedOK, Exists
<1>9. AtIsOut'
  BY <1>2, <1>4, <1>7 DEF AtIsOut
<1>10. DeactivatedAreOut' /\ MarkedInactive' /\ members' \subseteq Population'
  BY <1>1, <1>5 DEF DeactivatedAreOut, MarkedInactive, Exists, Population
<1> QED BY <1>1, <1>6, <1>8, <1>9, <1>10, AdminsStill, RestStays

(* The job deactivates the user, or ends on a row that went (cronTasks.ts). *)
LEMMA MarkStep ==
    ASSUME AccountsInv, JobMark PROVE AccountsInv'
<1> USE DEF AccountsInv
<1>0. job \in Jobs
  BY DEF AccountTypes
<1>1. CASE job' = NoJob /\ UNCHANGED <<db, call, calls, history>>
  <2>1. job' \in Jobs /\ Listed' = {None} /\ job'.at = None
    BY <1>1 DEF Jobs, NoJob, Listed
  <2>2. UNCHANGED <<row, invite, group, open, members, call, calls, boot, left, failed, marked, late, crossed>>
    BY <1>1 DEF db, history
  <2>3. AccountTypes'
    BY <2>1, <2>2 DEF AccountTypes
  <2>4. ListedOK' /\ AtIsOut' /\ DeactivatedAreOut' /\ MarkedInactive' /\ members' \subseteq Population'
    BY <2>1, <2>2, NoneIsNobody DEF ListedOK, AtIsOut, DeactivatedAreOut, MarkedInactive, Exists, Population, AccountTypes
  <2> QED BY <2>2, <2>3, <2>4, AdminsStill, RestStays
<1>2. CASE ~(job' = NoJob /\ UNCHANGED <<db, call, calls, history>>)
  <2> DEFINE u == job.at
             new == [row[u] EXCEPT !.active = FALSE]
  <2>1. /\ u # None /\ u \notin job.gone /\ row' = [row EXCEPT ![u].active = FALSE]
        /\ job' = [job EXCEPT !.at = None] /\ marked' = marked \cup {u}
        /\ crossed' = IF \E s \in Slots : Writes(call[s], u) THEN crossed \cup {u} ELSE crossed
        /\ UNCHANGED <<invite, group, open, members, call, calls, boot, left, failed, late>>
    BY <1>2 DEF JobMark
  <2>2. u \in Users /\ u \in Listed /\ row[u] \in UserRows
    <3>1. u \in Users /\ u \in Listed
      BY <1>0, <2>1 DEF Jobs, Listed
    <3> QED BY <3>1, RowKinds DEF ListedOK, Exists, AccountTypes
  <2>3. new \in UserRows /\ new.role = row[u].role /\ ~new.active
    BY <2>2, InactiveRow
  <2>4. row' = [row EXCEPT ![u] = new]
    BY <2>1
  <2>5. job' \in Jobs /\ job'.todo = job.todo /\ job'.at = None /\ job'.gone = job.gone
    BY <1>0, <2>1 DEF Jobs
  <2> HIDE DEF new, u
  <2>6. \A v \in Users : row[v] \in UserRows \cup {Absent} /\ row'[v] = IF v = u THEN new ELSE row[v]
    BY <2>4 DEF AccountTypes
  <2>7. new # Absent /\ row[u] # Absent
    BY <2>2, <2>3, RowKinds
  <2>8. /\ late \in BOOLEAN /\ crossed \subseteq crossed' /\ crossed' \subseteq crossed \cup {u}
        /\ \A s \in Slots : call[s] \in AccountCalls /\ (Writes(call[s], u) => u \in crossed')
    BY <2>1 DEF AccountTypes
  <2>9. AccountTypes'
    <3>1. row' \in [Users -> UserRows \cup {Absent}]
      BY <2>2, <2>3, <2>4 DEF AccountTypes
    <3> QED BY <2>1, <2>2, <2>5, <2>8, <3>1 DEF AccountTypes
  <2>10. RequestsOK'
    <3> SUFFICES ASSUME NEW t \in Slots PROVE RequestOK(call[t], row', crossed', boot, late)
      BY <2>1 DEF RequestsOK
    <3>1. PICK d \in AccountCalls : d = call[t]
      BY <2>8
    <3>2. RequestOK(d, row, crossed, boot, late)
      BY <3>1 DEF RequestsOK
    <3>3. d.op \in ByRow => \/ d.id \in crossed'
                            \/ row'[d.id].role = row[d.id].role /\ row'[d.id].active = row[d.id].active
      <4>1. CASE d.id = u
        <5>1. d.op \in ByRow => Writes(d, u)
          BY <4>1 DEF Writes
        <5> QED BY <2>8, <3>1, <4>1, <5>1, Zenon
      <4>2. CASE d.id # u
        <5>1. d.op \in ByRow => row'[d.id] = row[d.id]
          BY <2>6, <4>2, RequestKinds
        <5>2. row'[d.id] = row[d.id] => row'[d.id].role = row[d.id].role /\ row'[d.id].active = row[d.id].active
          BY Zenon
        <5> QED BY <5>1, <5>2, Zenon
      <4> QED BY <4>1, <4>2
    <3>4. \A v \in Users : row[v] # Absent <=> row'[v] # Absent
      BY <2>6, <2>7
    <3>5. FirstOK(row, crossed, boot, late) => FirstOK(row', crossed', boot, late)
      <4>1. There(row') = There(row)
        BY <3>4 DEF There
      <4> QED BY <2>8, <4>1 DEF FirstOK
    <3>6. RequestOK(d, row', crossed', boot, late)
      BY <2>8, <3>2, <3>3, <3>4, <3>5, RequestStays
    <3> QED BY <3>1, <3>6
  <2>11. OneRegisters'
    BY <2>1 DEF OneRegisters
  <2>12. Admins' = Admins /\ Population' = Population
    BY <2>2, <2>3, <2>6, <2>7 DEF Admins, Population, Exists
  <2>13. NoneBeforeFirst' /\ AdminKept' /\ FirstComes'
    BY <2>1, <2>12 DEF NoneBeforeFirst, AdminKept, FirstComes
  <2>14. OneFirst'
    BY <2>1, <2>8 DEF OneFirst
  <2>15. u \in Admins => u \in crossed
    BY <2>2 DEF ListedOK, Admins
  <2>16. AdministratorsActive'
    <3>1. \A v \in Admins : v # u => row'[v] = row[v]
      BY <2>6 DEF Admins
    <3> QED BY <2>8, <2>12, <2>15, <3>1 DEF AdministratorsActive
  <2>17. ListedOK'
    <3>1. Listed' \cap Users \subseteq Listed
      BY <2>5, NoneIsNobody DEF Listed
    <3> QED BY <2>3, <2>6, <2>7, <2>8, <3>1 DEF ListedOK, Exists
  <2>18. AtIsOut'
    BY <2>1, <2>5, NoneIsNobody DEF AtIsOut, AccountTypes
  <2>19. DeactivatedAreOut'
    <3>1. u \in members => u \in failed \cup crossed
      BY <2>2 DEF AtIsOut, u
    <3> QED BY <2>1, <2>8, <3>1 DEF DeactivatedAreOut
  <2>20. MarkedInactive'
    <3>1. \A v \in marked : v \in Users
      BY DEF AccountTypes
    <3> QED BY <2>1, <2>2, <2>3, <2>6, <2>7, <3>1 DEF MarkedInactive, Exists
  <2> QED BY <2>1, <2>9, <2>10, <2>11, <2>12, <2>13, <2>14, <2>16, <2>17, <2>18, <2>19, <2>20, RestStays
<1> QED BY <1>1, <1>2

(* A request enters a slot and reads.                                      *)
LEMMA EnterStep ==
    ASSUME AccountsInv, NEW s \in Slots, NEW x \in AccountCalls, Enter(s, x),
           UNCHANGED <<row, invite, open, members, job, history>>,
           group' \in [Groups -> GroupRows \cup {Absent}],
           RequestOK(x, row, crossed, boot, late), x.op # "registering"
    PROVE  AccountsInv'
<1>1. call' = [call EXCEPT ![s] = x] /\ call[s].op = "idle" /\ calls' = calls + 1 /\ calls < MaxCalls
  BY Blank DEF Enter
<1>2. calls' \in 0 .. MaxCalls
  BY <1>1, LimitNat DEF AccountsInv, AccountTypes
<1>3. open' \in BOOLEAN
  BY DEF AccountsInv, AccountTypes
<1> QED BY <1>1, <1>2, <1>3, QuietStep

(* A procedure of an administrator begins: the sender is one, and, where the *)
(* code says so, not the user it is about (adminRoute.ts).                 *)
LEMMA SenderStep ==
    ASSUME AccountsInv, NEW s \in Slots, NEW a \in Users, NEW x \in AccountCalls, AdminBegin(s, a, x),
           x.op \in Senders \cup {"drop", "empty"},
           x.op \in {"role", "update", "delete", "assign"} => Exists(x.id) /\ x.by # x.id,
           x.op = "update" => row[x.id].role # "ADMIN"
    PROVE  AccountsInv'
<1>1. Enter(s, x) /\ UNCHANGED <<row, invite, group, open, members, job, history>> /\ IsAdmin(a)
  BY DEF AdminBegin, db
<1>2. boot # {}
  BY <1>1 DEF AccountsInv, NoneBeforeFirst, IsAdmin, ActiveSession, Admins
<1>3. RequestOK(x, row, crossed, boot, late) /\ x.op # "registering"
  BY <1>2 DEF RequestOK, Senders, ByRow, Exists
<1> QED BY <1>1, <1>3, EnterStep DEF AccountsInv, AccountTypes

(* Whatever request begins, the invariant stays.                           *)
LEMMA RequestStep ==
    ASSUME AccountsInv, NEW s \in Slots, Request(s) PROVE AccountsInv'
<1> USE DEF AccountsInv
<1>g. group \in [Groups -> GroupRows \cup {Absent}] /\ Groups \cap {None} = {}
  BY NoneIsNobody DEF AccountTypes
<1>1. ASSUME NEW u \in Users, NEW i \in Invites \cup {None}, NEW e \in {"never", "future"}, RegisterBegin(s, u, i, e)
      PROVE AccountsInv'
  <2> DEFINE n == IF i = None THEN 0 ELSE invite[i].used
             x == [op |-> "register", id |-> u, invite |-> i, expires |-> e, used |-> n, first |-> FALSE]
  <2>1. Enter(s, x) /\ UNCHANGED <<row, invite, group, open, members, job, history>>
    BY <1>1 DEF RegisterBegin, db
  <2>2. n \in Nat
    <3>1. i # None => invite[i] \in InviteRows
      BY <1>1 DEF RegisterBegin, InviteOpen, AccountTypes
    <3> QED BY <3>1 DEF InviteRows
  <2> HIDE DEF n
  <2>3. x \in AccountCalls
    BY <2>2 DEF AccountCalls, RegisterCall, Expiries
  <2>4. RequestOK(x, row, crossed, boot, late) /\ x.op # "registering"
    BY DEF RequestOK, ByRow, Senders
  <2> HIDE DEF x
  <2> QED BY <1>g, <2>1, <2>3, <2>4, EnterStep
<1>2. ASSUME NEW u \in Users, OAuthBegin(s, u) PROVE AccountsInv'
  <2> DEFINE x == [op |-> "oauth", id |-> u, group |-> DefaultGroup]
  <2>1. Enter(s, x) /\ UNCHANGED <<row, invite, group, open, members, job, history>>
    BY <1>2 DEF OAuthBegin, db
  <2>2. x \in AccountCalls
    BY DefaultKnown DEF AccountCalls, OAuthCall
  <2>3. RequestOK(x, row, crossed, boot, late) /\ x.op # "registering"
    BY DEF RequestOK, ByRow, Senders
  <2> HIDE DEF x
  <2> QED BY <1>g, <2>1, <2>2, <2>3, EnterStep
<1>3. ASSUME NEW a \in Users, NEW u \in Users, NEW r \in {"ADMIN", "USER"}, ChangeRoleBegin(s, a, u, r) PROVE AccountsInv'
  <2> DEFINE x == [op |-> "role", by |-> a, id |-> u, role |-> r]
  <2>1. AdminBegin(s, a, x) /\ u # a /\ Exists(u)
    BY <1>3 DEF ChangeRoleBegin
  <2>2. x \in AccountCalls
    BY DEF AccountCalls, RoleCall
  <2>3. x.op = "role" /\ x.id = u /\ x.by = a
    OBVIOUS
  <2> HIDE DEF x
  <2> QED BY <2>1, <2>2, <2>3, SenderStep DEF Senders
<1>4. ASSUME NEW a \in Users, NEW u \in Users, NEW r \in {"ADMIN", "USER"}, CreateUserBegin(s, a, u, r, "future")
      PROVE AccountsInv'
  <2> DEFINE x == [op |-> "create", by |-> a, id |-> u, role |-> r, expires |-> "future", group |-> DefaultGroup]
  <2>1. AdminBegin(s, a, x)
    BY <1>4 DEF CreateUserBegin
  <2>2. x \in AccountCalls
    BY DefaultKnown DEF AccountCalls, CreateCall, Expiries
  <2>3. x.op = "create"
    OBVIOUS
  <2> HIDE DEF x
  <2> QED BY <2>1, <2>2, <2>3, SenderStep DEF Senders
<1>5. ASSUME NEW a \in Users, NEW u \in Users, NEW v \in BOOLEAN, NEW e \in {"never", "future"}, UpdateUserBegin(s, a, u, v, e)
      PROVE AccountsInv'
  <2> DEFINE x == [op |-> "update", by |-> a, id |-> u, active |-> v, expires |-> e]
  <2>1. AdminBegin(s, a, x) /\ u # a /\ Exists(u) /\ row[u].role # "ADMIN"
    BY <1>5 DEF UpdateUserBegin
  <2>2. x \in AccountCalls
    BY DEF AccountCalls, EditCall, Expiries
  <2>3. x.op = "update" /\ x.id = u /\ x.by = a
    OBVIOUS
  <2> HIDE DEF x
  <2> QED BY <2>1, <2>2, <2>3, SenderStep DEF Senders
<1>6. ASSUME NEW a \in Users, NEW u \in Users, DeleteUserBegin(s, a, u) PROVE AccountsInv'
  <2> DEFINE x == [op |-> "delete", by |-> a, id |-> u]
  <2>1. AdminBegin(s, a, x) /\ u # a /\ Exists(u)
    BY <1>6 DEF DeleteUserBegin
  <2>2. x \in AccountCalls
    BY DEF AccountCalls, DeleteCall
  <2>3. x.op = "delete" /\ x.id = u /\ x.by = a
    OBVIOUS
  <2> HIDE DEF x
  <2> QED BY <2>1, <2>2, <2>3, SenderStep DEF Senders
<1>7. ASSUME NEW a \in Users, NEW u \in Users, NEW g \in Groups \cup {None}, AssignUserGroupBegin(s, a, u, g) PROVE AccountsInv'
  <2> DEFINE e == IF g = None THEN "never" ELSE group[g].expires
             x == [op |-> "assign", by |-> a, id |-> u, group |-> g, expires |-> e]
  <2>1. AdminBegin(s, a, x) /\ u # a /\ Exists(u) /\ g \in Known
    BY <1>7 DEF AssignUserGroupBegin
  <2>2. e \in Expiries
    <3>1. g # None => group[g] \in GroupRows
      BY <1>g, <2>1 DEF Known
    <3> QED BY <3>1 DEF GroupRows, Expiries
  <2> HIDE DEF e
  <2>3. x \in AccountCalls
    BY <2>2 DEF AccountCalls, AssignCall
  <2>4. x.op = "assign" /\ x.id = u /\ x.by = a
    OBVIOUS
  <2> HIDE DEF x
  <2> QED BY <2>1, <2>3, <2>4, SenderStep DEF Senders
<1>8. ASSUME NEW a \in Users, NEW g \in Groups, NEW b \in BOOLEAN, AddUserGroupBegin(s, a, g, b, "future") PROVE AccountsInv'
  <2> DEFINE x == [op |-> "group", group |-> g, default |-> b, expires |-> "future"]
  <2>1. /\ Enter(s, x) /\ UNCHANGED <<row, invite, open, members, job, history>>
        /\ group' = IF ~b THEN group ELSE [h \in Groups |-> IF group[h] = Absent THEN Absent
                                                            ELSE [group[h] EXCEPT !.default = FALSE]]
    BY <1>8 DEF AddUserGroupBegin
  <2>2. group' \in [Groups -> GroupRows \cup {Absent}]
    <3>1. \A h \in Groups : group[h] # Absent => [group[h] EXCEPT !.default = FALSE] \in GroupRows
      BY <1>g DEF GroupRows
    <3> QED BY <1>g, <2>1, <3>1
  <2>3. x \in AccountCalls
    BY DEF AccountCalls, GroupCall, Expiries
  <2>4. RequestOK(x, row, crossed, boot, late) /\ x.op # "registering"
    BY DEF RequestOK, ByRow, Senders
  <2> HIDE DEF x
  <2> QED BY <2>1, <2>2, <2>3, <2>4, EnterStep
<1>9. ASSUME NEW a \in Users, NEW g \in Groups, NEW b \in BOOLEAN, DeleteUserGroupBegin(s, a, g, b) PROVE AccountsInv'
  <2> DEFINE o == IF Within(g) = {} THEN "drop" ELSE "empty"
             x == [op |-> o, group |-> g]
  <2>1. AdminBegin(s, a, x)
    BY <1>9 DEF DeleteUserGroupBegin
  <2>2. o \in {"drop", "empty"}
    OBVIOUS
  <2> HIDE DEF o
  <2>3. x \in AccountCalls /\ x.op \in {"drop", "empty"}
    BY <2>2 DEF AccountCalls, DropCall
  <2> HIDE DEF x
  <2> QED BY <2>1, <2>3, SenderStep DEF Senders
<1> QED BY <1>1, <1>2, <1>3, <1>4, <1>5, <1>6, <1>7, <1>8, <1>9 DEF Request, RestCreateUser

(* Whatever request goes on, the invariant stays.                          *)
LEMMA ProceedStep ==
    ASSUME AccountsInv, NEW s \in Slots, Proceed(s) PROVE AccountsInv'
<1> USE DEF AccountsInv
<1>0. PICK c \in AccountCalls : c = call[s]
  BY DEF AccountTypes
<1>1. RequestOK(c, row, crossed, boot, late)
  BY <1>0 DEF RequestsOK
<1>2. \A v \in Users : row[v] \in UserRows \cup {Absent}
  BY DEF AccountTypes
<1>r. ASSUME c.op # "promote", Refused(s) PROVE AccountsInv'
  BY <1>0, <1>r, QuietStep, Blank DEF Refused, Finish, db, AccountTypes
<1>3. ASSUME RegisterLock(s) PROVE AccountsInv'
  <2>1. c.op = "register" /\ LockFree /\ c \in RegisterCall
    BY <1>0, <1>3, RequestKinds DEF RegisterLock
  <2> DEFINE x == Registering(c, Population = {})
  <2>2. x \in AccountCalls /\ x.op = "registering" /\ x.first = (Population = {})
    <3>1. (Population = {}) \in BOOLEAN
      OBVIOUS
    <3> QED BY <2>1, <3>1, RegisteringCall DEF AccountCalls
  <2>3. \/ call' = [call EXCEPT ![s] = x] /\ UNCHANGED <<db, calls, job, history>>
        \/ Refused(s)
    BY <1>0, <1>3 DEF RegisterLock, Registering
  <2> HIDE DEF x
  <2>4. boot # {} /\ Population = {} => late
    BY DEF AdminKept, Admins, Population
  <2>5. RequestOK(x, row, crossed, boot, late)
    <3>1. There(row) = Population
      BY DEF There, Population, Exists
    <3> QED BY <2>2, <2>4, <3>1 DEF RequestOK, FirstOK, ByRow, Senders
  <2> QED BY <1>0, <1>r, <2>1, <2>2, <2>3, <2>5, QuietStep DEF db, AccountTypes
<1>4. ASSUME ChangeRoleCommit(s) PROVE AccountsInv'
  <2>1. c.op = "role" /\ c \in RoleCall /\ c.id \in Users /\ c.role \in {"ADMIN", "USER"} /\ c.by # c.id /\ row[c.id] # Absent
    BY <1>0, <1>1, <1>4, RequestKinds DEF ChangeRoleCommit, RoleCall, RequestOK, ByRow, Senders
  <2>2. CASE c.role = "ADMIN"
    <3>1. Store(s, c.id, NewRow("ADMIN", "never", None))
      BY <1>0, <1>4, <2>2 DEF ChangeRoleCommit
    <3>2. NewRow("ADMIN", "never", None) \in UserRows /\ NewRow("ADMIN", "never", None).active
      BY NewRowMade DEF Expiries
    <3> QED BY <1>0, <2>1, <3>1, <3>2, StoreStep DEF Senders
  <2>3. CASE c.role # "ADMIN"
    <3> DEFINE w == [row[c.id] EXCEPT !.role = c.role]
    <3>1. Store(s, c.id, w)
      BY <1>0, <1>4, <2>3 DEF ChangeRoleCommit
    <3>2. w \in UserRows /\ w.role # "ADMIN"
      BY <1>2, <2>1, <2>3, RowKinds, RoleRow
    <3> HIDE DEF w
    <3> QED BY <1>0, <2>1, <3>1, <3>2, StoreStep DEF Senders
  <2> QED BY <2>2, <2>3
<1>5. ASSUME UpdateUserCommit(s) PROVE AccountsInv'
  <2>1. /\ c.op = "update" /\ c.id \in Users /\ c.active \in BOOLEAN /\ c.expires \in Expiries
        /\ c.by # c.id /\ row[c.id] # Absent /\ (row[c.id].role # "ADMIN" \/ c.id \in crossed)
    BY <1>0, <1>1, <1>5, RequestKinds DEF UpdateUserCommit, EditCall, RequestOK, ByRow, Senders
  <2> DEFINE w == EditedRow(row[c.id], c.active, c.expires)
  <2>2. Store(s, c.id, w)
    BY <1>0, <1>5, Zenon DEF UpdateUserCommit, EditedRow
  <2>3. w \in UserRows /\ w.role = row[c.id].role
    <3>1. row[c.id] \in UserRows
      BY <1>2, <2>1, RowKinds
    <3> QED BY <2>1, <3>1, EditRow
  <2> HIDE DEF w
  <2> QED BY <1>0, <2>1, <2>2, <2>3, StoreStep DEF Senders
<1>6. ASSUME AssignUserGroupCommit(s) PROVE AccountsInv'
  <2>1. /\ c.op = "assign" /\ c.id \in Users /\ c.group \in Groups \cup {None} /\ c.expires \in Expiries
        /\ c.by # c.id /\ row[c.id] # Absent
    BY <1>0, <1>1, <1>6, RequestKinds DEF AssignUserGroupCommit, AssignCall, RequestOK, ByRow, Senders
  <2> DEFINE w == AssignedRow(row[c.id], c.group, c.expires)
  <2>2. Store(s, c.id, w) \/ Refused(s)
    BY <1>0, <1>6, Zenon DEF AssignUserGroupCommit, AssignedRow
  <2>3. w \in UserRows /\ w.role = row[c.id].role /\ w.active = row[c.id].active
    BY <1>2, <2>1, RowKinds, AssignRow
  <2> HIDE DEF w
  <2>4. ASSUME Store(s, c.id, w) PROVE AccountsInv'
    BY <1>0, <2>1, <2>3, <2>4, StoreStep DEF Senders
  <2> QED BY <1>r, <2>1, <2>2, <2>4
<1>7. ASSUME CreateUserCommit(s) PROVE AccountsInv'
  <2>1. /\ c.op = "create" /\ c.id \in Users /\ c.role \in {"ADMIN", "USER"} /\ c.expires \in Expiries
        /\ c.group \in Groups \cup {None}
    BY <1>0, <1>7, RequestKinds DEF CreateUserCommit, CreateCall
  <2> DEFINE w == NewRow(c.role, c.expires, c.group)
  <2>2. \/ ~Exists(c.id) /\ Store(s, c.id, w)
        \/ Refused(s)
    BY <1>0, <1>7 DEF CreateUserCommit
  <2>3. w \in UserRows /\ w.active
    BY <2>1, NewRowMade
  <2> HIDE DEF w
  <2>4. ASSUME ~Exists(c.id), Store(s, c.id, w) PROVE AccountsInv'
    BY <1>0, <2>1, <2>3, <2>4, StoreStep DEF Senders
  <2> QED BY <1>r, <2>1, <2>2, <2>4
<1>8. ASSUME AddUserGroupCommit(s) PROVE AccountsInv'
  <2>1. /\ c.op = "group" /\ c.group \in Groups /\ c.default \in BOOLEAN /\ c.expires \in Expiries
        /\ group' = [group EXCEPT ![c.group] = [role |-> "group", default |-> c.default, expires |-> c.expires]]
        /\ call' = [call EXCEPT ![s] = Idle] /\ UNCHANGED <<row, invite, open, members, calls, job, history>>
    BY <1>0, <1>8, RequestKinds DEF AddUserGroupCommit, GroupCall, Finish
  <2>2. [role |-> "group", default |-> c.default, expires |-> c.expires] \in GroupRows
    BY <2>1 DEF GroupRows
  <2>3. group' \in [Groups -> GroupRows \cup {Absent}]
    BY <2>1, <2>2 DEF AccountTypes
  <2>4. calls' \in 0 .. MaxCalls /\ open' \in BOOLEAN
    BY <2>1 DEF AccountTypes
  <2> QED BY <1>0, <2>1, <2>3, <2>4, QuietStep, Blank
<1>9. ASSUME DeleteUserGroupEmpty(s) PROVE AccountsInv'
  <2>1. c.op = "empty" /\ c \in DropCall /\ c.group \in Groups
    BY <1>0, <1>9, RequestKinds DEF DeleteUserGroupEmpty, DropCall
  <2> DEFINE w(v) == AssignedRow(row[v], None, "never")
             x == [c EXCEPT !.op = "drop"]
  <2>2. /\ row' = [v \in Users |-> IF v \in Within(c.group) THEN w(v) ELSE row[v]]
        /\ marked' = marked \ Within(c.group) /\ call' = [call EXCEPT ![s] = x]
        /\ UNCHANGED <<invite, group, open, members, calls, job, boot, left, failed, late, crossed>>
    BY <1>0, <1>9, Zenon DEF DeleteUserGroupEmpty, AssignedRow
  <2>3. x \in AccountCalls /\ x.op = "drop"
    BY <2>1 DEF AccountCalls, DropCall
  <2>4. \A v \in Users : v \in Within(c.group) =>
           row[v] # Absent /\ w(v) \in UserRows /\ w(v).role = row[v].role /\ w(v).active = row[v].active
    <3> SUFFICES ASSUME NEW v \in Users, v \in Within(c.group)
                 PROVE row[v] # Absent /\ w(v) \in UserRows /\ w(v).role = row[v].role /\ w(v).active = row[v].active
      OBVIOUS
    <3>1. row[v] # Absent /\ row[v] \in UserRows
      BY <1>2, RowKinds DEF Within, Population, Exists
    <3>2. None \in Groups \cup {None} /\ "never" \in Expiries
      BY DEF Expiries
    <3> QED BY <3>1, <3>2, AssignRow
  <2> HIDE DEF w, x
  <2>5. \A v \in Users : row'[v] = IF v \in Within(c.group) THEN w(v) ELSE row[v]
    BY <2>2
  <2>6. \A v \in Users : /\ row'[v] # Absent <=> row[v] # Absent
                         /\ row[v] # Absent => row'[v].role = row[v].role /\ row'[v].active = row[v].active
    <3> SUFFICES ASSUME NEW v \in Users
                 PROVE /\ row'[v] # Absent <=> row[v] # Absent
                       /\ row[v] # Absent => row'[v].role = row[v].role /\ row'[v].active = row[v].active
      OBVIOUS
    <3>1. CASE v \in Within(c.group)
      <4>1. row'[v] = w(v) /\ w(v) # Absent
        BY <2>4, <2>5, <3>1, RowKinds
      <4> QED BY <2>4, <3>1, <4>1, Zenon
    <3>2. CASE v \notin Within(c.group)
      <4>1. row'[v] = row[v]
        BY <2>5, <3>2
      <4> QED BY <4>1, Zenon
    <3> QED BY <3>1, <3>2
  <2>7. AccountTypes'
    <3>1. row' \in [Users -> UserRows \cup {Absent}]
      BY <1>2, <2>2, <2>4
    <3>2. call' \in [Slots -> AccountCalls]
      BY <2>2, <2>3 DEF AccountTypes
    <3>3. marked' \subseteq Users
      BY <2>2 DEF AccountTypes
    <3> QED BY <2>2, <3>1, <3>2, <3>3 DEF AccountTypes
  <2>8. \A t \in Slots : \/ call'[t] = call[t]
                         \/ call[t].op \notin ByRow /\ call'[t].op \in {"drop", "group"}
    BY <1>0, <2>1, <2>2, <2>3 DEF AccountTypes, ByRow
  <2>9. ListedOK' /\ AtIsOut' /\ DeactivatedAreOut' /\ MarkedInactive' /\ members' \subseteq Population'
    <3>1. ListedOK' /\ AtIsOut' /\ DeactivatedAreOut' /\ members' \subseteq Population'
      BY <2>2, <2>6 DEF ListedOK, AtIsOut, DeactivatedAreOut, Listed, Exists, Population
    <3>2. MarkedInactive'
      BY <2>2, <2>5 DEF MarkedInactive, Exists, AccountTypes
    <3> QED BY <3>1, <3>2
  <2> QED BY <2>2, <2>6, <2>7, <2>8, <2>9, AdminsStill, RestStays
<1>10. ASSUME DeleteUserGroupDrop(s) PROVE AccountsInv'
  <2>1. c.op = "drop" /\ c \in DropCall /\ c.group \in Groups
    BY <1>0, <1>10, RequestKinds DEF DeleteUserGroupDrop, DropCall
  <2>2. ASSUME group' = [group EXCEPT ![c.group] = Absent], call' = [call EXCEPT ![s] = Idle],
               UNCHANGED <<row, invite, open, members, calls, job, history>>
        PROVE AccountsInv'
    <3>1. group' \in [Groups -> GroupRows \cup {Absent}]
      BY <2>1, <2>2 DEF AccountTypes
    <3>2. calls' \in 0 .. MaxCalls /\ open' \in BOOLEAN
      BY <2>2 DEF AccountTypes
    <3> QED BY <1>0, <2>1, <2>2, <3>1, <3>2, QuietStep, Blank
  <2> QED BY <1>0, <1>10, <1>r, <2>1, <2>2 DEF DeleteUserGroupDrop, Finish
<1>11. ASSUME Lost(s) PROVE AccountsInv'
  BY <1>0, <1>r, <1>11 DEF Lost
<1> QED BY <1>3, <1>4, <1>5, <1>6, <1>7, <1>8, <1>9, <1>10, <1>11, RegisterStep, OAuthStep, PromoteStep, DeleteStep DEF Proceed

(* Steps that change invitations only, or the setting.                     *)
LEMMA InviteStep ==
    ASSUME AccountsInv, UNCHANGED <<row, group, members, call, job, boot, failed, marked, late, crossed>>,
           open' \in BOOLEAN, calls' \in 0 .. MaxCalls, invite' \in [Invites -> InviteRows \cup {Absent}],
           InviteCounts', LeftNat'
    PROVE  AccountsInv'
<1> USE DEF AccountsInv
<1>1. AccountTypes'
  BY DEF AccountTypes
<1>2. ListedOK' /\ AtIsOut' /\ DeactivatedAreOut' /\ MarkedInactive' /\ members' \subseteq Population'
  BY DEF ListedOK, AtIsOut, DeactivatedAreOut, MarkedInactive, Listed, Exists, Population
<1> QED BY <1>1, <1>2, AdminsStill

(* What is done in one step: invitations, the setting, members that a user *)
(* authorises.                                                             *)
LEMMA OnceStep ==
    ASSUME AccountsInv, AtOnce PROVE AccountsInv'
<1> USE DEF AccountsInv
<1>0. /\ calls \in 0 .. MaxCalls /\ open \in BOOLEAN /\ (Once => calls' \in 0 .. MaxCalls /\ call' = call)
      /\ invite \in [Invites -> InviteRows \cup {Absent}]
  BY LimitNat DEF AccountTypes, Once
<1>1. ASSUME NEW a \in Users, NEW i \in Invites, NEW org \in BOOLEAN, GenerateInviteLink(a, i, org) PROVE AccountsInv'
  <2>1. PICK can \in {1, 2} :
           /\ org => can = 1
           /\ invite' = [invite EXCEPT ![i] = [org |-> org, can |-> can, used |-> 0, closed |-> FALSE,
                                               expired |-> FALSE, by |-> a]]
           /\ left' = [j \in DOMAIN left \cup {i} |-> IF j = i THEN can ELSE left[j]]
    BY <1>1 DEF GenerateInviteLink
  <2> DEFINE w == [org |-> org, can |-> can, used |-> 0, closed |-> FALSE, expired |-> FALSE, by |-> a]
  <2>2. w \in InviteRows /\ w.can = can /\ w.used = 0 /\ w.org = org
    BY DEF InviteRows
  <2>3. invite' = [invite EXCEPT ![i] = w]
    BY <2>1
  <2> HIDE DEF w
  <2>4. invite' \in [Invites -> InviteRows \cup {Absent}] /\ \A j \in Invites : invite'[j] = IF j = i THEN w ELSE invite[j]
    BY <1>0, <2>2, <2>3
  <2>5. DOMAIN left' = DOMAIN left \cup {i} /\ \A j \in DOMAIN left' : left'[j] = IF j = i THEN can ELSE left[j]
    BY <2>1
  <2>6. LeftNat'
    BY <2>1 DEF LeftNat
  <2>7. InviteCounts'
    <3> SUFFICES ASSUME NEW j \in Invites, invite'[j] # Absent
                 PROVE  /\ j \in DOMAIN left' /\ left'[j] = invite'[j].can - invite'[j].used
                        /\ invite'[j].used <= invite'[j].can /\ (invite'[j].org => invite'[j].can = 1)
      BY DEF InviteCounts
    <3>1. CASE j = i
      BY <2>1, <2>2, <2>4, <2>5, <3>1
    <3>2. CASE j # i
      BY <2>4, <2>5, <3>2 DEF InviteCounts
    <3> QED BY <3>1, <3>2
  <2> QED BY <1>0, <1>1, <2>4, <2>6, <2>7, InviteStep DEF GenerateInviteLink
<1>2. ASSUME NEW a \in Users, NEW i \in Invites, DeleteInvitationLink(a, i) PROVE AccountsInv'
  <2>1. invite' = [invite EXCEPT ![i] = Absent] /\ left' = left
    BY <1>2 DEF DeleteInvitationLink, history
  <2>2. invite' \in [Invites -> InviteRows \cup {Absent}]
    BY <1>0, <2>1
  <2>3. InviteCounts' /\ LeftNat'
    BY <1>0, <2>1 DEF InviteCounts, LeftNat
  <2> QED BY <1>0, <1>2, <2>2, <2>3, InviteStep DEF DeleteInvitationLink, history
<1>3. ASSUME NEW a \in Users, UpdateGlobalOptions(a) PROVE AccountsInv'
  <2>1. UNCHANGED <<row, invite, group, members, call, job, boot, left, failed, marked, late, crossed>> /\ open' \in BOOLEAN
    BY <1>0, <1>3 DEF UpdateGlobalOptions, history
  <2> QED BY <1>0, <1>3, <2>1, InviteStep, RestStays DEF UpdateGlobalOptions
<1>4. ASSUME NEW u \in Users, Authorise(u) PROVE AccountsInv'
  <2>1. /\ ActiveSession(u) /\ members' = members \cup {u}
        /\ crossed' = IF u \in Listed THEN crossed \cup {u} ELSE crossed
        /\ UNCHANGED <<row, invite, group, open, call, job, boot, left, failed, marked, late>>
        /\ calls' \in 0 .. MaxCalls
    BY <1>0, <1>4 DEF Authorise
  <2>2. AccountTypes'
    BY <2>1 DEF AccountTypes
  <2>3. u \notin marked
    BY <2>1 DEF MarkedInactive, ActiveSession
  <2>4. ListedOK' /\ MarkedInactive' /\ members' \subseteq Population'
    BY <2>1 DEF ListedOK, MarkedInactive, Listed, Exists, Population, ActiveSession
  <2>5. AtIsOut' /\ DeactivatedAreOut'
    BY <2>1, <2>3 DEF AtIsOut, DeactivatedAreOut, Listed
  <2> QED BY <2>1, <2>2, <2>4, <2>5, AdminsStill, RestStays
<1> QED BY <1>1, <1>2, <1>3, <1>4 DEF AtOnce

(* Time passes for accounts, invitations and groups.                       *)
LEMMA ExpireStep ==
    ASSUME AccountsInv, Expire PROVE AccountsInv'
<1> USE DEF AccountsInv
<1>0. UNCHANGED <<open, members, call, calls, job, boot, left, failed, marked, late, crossed>>
  BY DEF Expire, history
<1>1. ASSUME NEW u \in Population, row' = [row EXCEPT ![u].expires = "past"], UNCHANGED <<invite, group>> PROVE AccountsInv'
  <2> DEFINE w == [row[u] EXCEPT !.expires = "past"]
  <2>1. u \in Users /\ row[u] \in UserRows
    BY RowKinds DEF Population, Exists, AccountTypes
  <2>2. w \in UserRows /\ w.role = row[u].role /\ w.active = row[u].active
    BY <2>1, PastRow
  <2>3. row' = [row EXCEPT ![u] = w]
    BY <1>1
  <2> HIDE DEF w
  <2>4. row' \in [Users -> UserRows \cup {Absent}] /\ \A v \in Users : row'[v] = IF v = u THEN w ELSE row[v]
    BY <2>1, <2>2, <2>3 DEF AccountTypes
  <2>5. w # Absent /\ row[u] # Absent
    BY <2>1, <2>2, RowKinds
  <2>6. \A v \in Users : /\ row'[v] # Absent <=> row[v] # Absent
                         /\ row[v] # Absent => row'[v].role = row[v].role /\ row'[v].active = row[v].active
    <3> SUFFICES ASSUME NEW v \in Users
                 PROVE /\ row'[v] # Absent <=> row[v] # Absent
                       /\ row[v] # Absent => row'[v].role = row[v].role /\ row'[v].active = row[v].active
      OBVIOUS
    <3>1. CASE v = u
      <4>1. row'[v] = w
        BY <2>4, <3>1
      <4> QED BY <2>2, <2>5, <3>1, <4>1, Zenon
    <3>2. CASE v # u
      <4>1. row'[v] = row[v]
        BY <2>4, <3>2
      <4> QED BY <4>1, Zenon
    <3> QED BY <3>1, <3>2
  <2>7. AccountTypes'
    BY <1>0, <1>1, <2>4 DEF AccountTypes
  <2>8. ListedOK' /\ AtIsOut' /\ DeactivatedAreOut' /\ MarkedInactive' /\ members' \subseteq Population'
    <3>1. \A v \in marked : v \in Users
      BY DEF AccountTypes
    <3> QED BY <1>0, <2>6, <3>1 DEF ListedOK, AtIsOut, DeactivatedAreOut, MarkedInactive, Listed, Exists, Population
  <2> QED BY <1>0, <1>1, <2>6, <2>7, <2>8, AdminsStill, RestStays
<1>2. ASSUME NEW i \in Invites, invite[i] # Absent, invite' = [invite EXCEPT ![i].expired = TRUE], UNCHANGED <<row, group>>
      PROVE AccountsInv'
  <2> DEFINE w == [invite[i] EXCEPT !.expired = TRUE]
  <2>1. invite[i] \in InviteRows
    BY <1>2 DEF AccountTypes
  <2>2. w \in InviteRows /\ w.can = invite[i].can /\ w.used = invite[i].used /\ w.org = invite[i].org
    BY <2>1 DEF InviteRows
  <2>3. invite' = [invite EXCEPT ![i] = w]
    BY <1>2
  <2> HIDE DEF w
  <2>4. invite' \in [Invites -> InviteRows \cup {Absent}] /\ \A j \in Invites : invite'[j] = IF j = i THEN w ELSE invite[j]
    BY <2>2, <2>3 DEF AccountTypes
  <2>5. InviteCounts' /\ LeftNat'
    BY <1>0, <1>2, <2>2, <2>4 DEF InviteCounts, LeftNat
  <2>6. open' \in BOOLEAN /\ calls' \in 0 .. MaxCalls
    BY <1>0 DEF AccountTypes
  <2> QED BY <1>0, <1>2, <2>4, <2>5, <2>6, InviteStep
<1>3. ASSUME NEW g \in Groups, group[g] # Absent, group' = [group EXCEPT ![g].expires = "past"], UNCHANGED <<row, invite>>
      PROVE AccountsInv'
  <2>1. group' \in [Groups -> GroupRows \cup {Absent}]
    <3>1. [group[g] EXCEPT !.expires = "past"] \in GroupRows
      <4>1. group[g] \in GroupRows
        BY <1>3 DEF AccountTypes
      <4> QED BY <4>1 DEF GroupRows, Expiries
    <3> QED BY <1>3, <3>1 DEF AccountTypes
  <2>2. AccountTypes'
    BY <1>0, <1>3, <2>1 DEF AccountTypes
  <2>3. ListedOK' /\ AtIsOut' /\ DeactivatedAreOut' /\ MarkedInactive' /\ members' \subseteq Population'
    BY <1>0, <1>3 DEF ListedOK, AtIsOut, DeactivatedAreOut, MarkedInactive, Listed, Exists, Population
  <2> QED BY <1>0, <1>3, <2>2, <2>3, AdminsStill, RestStays
<1> QED BY <1>1, <1>2, <1>3 DEF Expire

(* Every step keeps the invariant of the population.                       *)
LEMMA AccountsStep == ASSUME AccountsInv, [Next]_vars PROVE AccountsInv'
<1>1. CASE UNCHANGED vars
  <2>1. UNCHANGED <<row, group, members, call, job, boot, failed, marked, late, crossed, open, calls, invite, left>>
    BY <1>1 DEF vars, history
  <2> QED BY <2>1 DEF AccountsInv, AccountTypes, RequestsOK, OneRegisters, NoneBeforeFirst, AdminKept, FirstComes, OneFirst,
             AdministratorsActive, ListedOK, AtIsOut, MarkedInactive, DeactivatedAreOut, InviteCounts, LeftNat,
             Admins, Population, Listed, Exists
<1>2. CASE Next
  BY <1>2, RequestStep, ProceedStep, OnceStep, ExpireStep, StartStep, MarkStep, DeauthoriseStep DEF Next, Job
<1> QED BY <1>1, <1>2

(* An empty installation, and one with an administrator, satisfy it.       *)
LEMMA AccountsStart == Init => AccountsInv
<1> SUFFICES ASSUME Init PROVE AccountsInv
  OBVIOUS
<1>0. /\ invite = [i \in Invites |-> Absent] /\ call = [s \in Slots |-> Idle] /\ calls = 0 /\ job = NoJob
      /\ left = [i \in {} |-> 0] /\ failed = {} /\ marked = {} /\ crossed = {} /\ late = FALSE
  BY DEF Init
<1>1. \A s \in Slots : call[s] = Idle
  BY <1>0
<1>2. job \in Jobs /\ Listed \cap Users = {} /\ job.at = None
  BY <1>0, NoneIsNobody DEF Jobs, NoJob, Listed
<1> DEFINE Begun == /\ row \in [Users -> UserRows \cup {Absent}] /\ group \in [Groups -> GroupRows \cup {Absent}]
                    /\ open \in BOOLEAN /\ members \subseteq Population /\ boot \subseteq Users
                    /\ boot = {} => Population = {}
                    /\ boot # {} => Admins # {}
                    /\ boot = {} \/ \E u \in Users : boot = {u}
                    /\ \A u \in Admins : row[u].active
<1>3. Begun
  <2>1. CASE row = [u \in Users |-> Absent] /\ open = TRUE /\ members = {} /\ boot = {}
             /\ group = [g \in Groups |-> Absent]
    BY <2>1 DEF Population, Admins, Exists
  <2>2. CASE \E a, u \in Users, g \in Groups :
                /\ a # u
                /\ \E other \in {NewRow("ADMIN", "never", None), NewRow("USER", "future", None), Absent} :
                    /\ row = [v \in Users |-> IF v = a THEN NewRow("ADMIN", "never", None)
                                              ELSE IF v = u THEN other ELSE Absent]
                    /\ members = IF other = Absent THEN {} ELSE {u}
                /\ open = FALSE /\ boot = {a}
                /\ group = [h \in Groups |-> IF h = g
                                THEN [role |-> "group", default |-> TRUE, expires |-> "future"]
                                ELSE Absent]
    <3>1. PICK a \in Users, u \in Users, g \in Groups :
             /\ a # u
             /\ \E other \in {NewRow("ADMIN", "never", None), NewRow("USER", "future", None), Absent} :
                 /\ row = [v \in Users |-> IF v = a THEN NewRow("ADMIN", "never", None)
                                           ELSE IF v = u THEN other ELSE Absent]
                 /\ members = IF other = Absent THEN {} ELSE {u}
             /\ open = FALSE /\ boot = {a}
             /\ group = [h \in Groups |-> IF h = g
                             THEN [role |-> "group", default |-> TRUE, expires |-> "future"]
                             ELSE Absent]
      BY <2>2, Zenon
    <3>2. PICK other \in {NewRow("ADMIN", "never", None), NewRow("USER", "future", None), Absent} :
             /\ row = [v \in Users |-> IF v = a THEN NewRow("ADMIN", "never", None)
                                       ELSE IF v = u THEN other ELSE Absent]
             /\ members = IF other = Absent THEN {} ELSE {u}
      BY <3>1, Zenon
    <3>3. /\ NewRow("ADMIN", "never", None) \in UserRows /\ NewRow("ADMIN", "never", None).active
          /\ NewRow("ADMIN", "never", None).role = "ADMIN" /\ NewRow("ADMIN", "never", None) # Absent
          /\ NewRow("USER", "future", None) \in UserRows /\ NewRow("USER", "future", None).active
      BY NewRowMade, RowKinds DEF Expiries
    <3>4. other = Absent \/ (other.active /\ other \in UserRows)
      BY <3>3
    <3>5. row \in [Users -> UserRows \cup {Absent}]
      BY <3>1, <3>2, <3>3, <3>4
    <3>6. row[a] = NewRow("ADMIN", "never", None) /\ \A v \in Users \ {a} : row[v] = other \/ row[v] = Absent
      BY <3>1, <3>2
    <3>7. group \in [Groups -> GroupRows \cup {Absent}]
      BY <3>1, <3>2 DEF GroupRows, Expiries
    <3> QED BY <3>1, <3>2, <3>3, <3>4, <3>5, <3>6, <3>7 DEF Population, Admins, Exists
  <2> HIDE DEF Begun
  <2> QED BY <2>1, <2>2 DEF Init
<1>4. AccountTypes
  <2>1. call \in [Slots -> AccountCalls] /\ invite \in [Invites -> InviteRows \cup {Absent}] /\ calls \in 0 .. MaxCalls
    BY <1>0, Blank, LimitNat
  <2>2. members \subseteq Users
    BY <1>3 DEF Population
  <2> QED BY <1>0, <1>2, <1>3, <2>1, <2>2 DEF AccountTypes
<1>5. RequestsOK /\ OneRegisters
  BY <1>1, Blank DEF RequestsOK, OneRegisters
<1>6. NoneBeforeFirst /\ AdminKept /\ FirstComes /\ OneFirst /\ AdministratorsActive
  <2>1. Population = {} => Admins = {}
    BY DEF Population, Admins
  <2> QED BY <1>3, <2>1 DEF NoneBeforeFirst, AdminKept, FirstComes, OneFirst, AdministratorsActive
<1>7. ListedOK /\ AtIsOut /\ MarkedInactive /\ DeactivatedAreOut
  <2>1. members \subseteq Users
    BY <1>3 DEF Population
  <2> QED BY <1>0, <1>2, <2>1, NoneIsNobody DEF ListedOK, AtIsOut, MarkedInactive, DeactivatedAreOut
<1>8. InviteCounts /\ LeftNat
  BY <1>0 DEF InviteCounts, LeftNat
<1> QED BY <1>3, <1>4, <1>5, <1>6, <1>7, <1>8 DEF AccountsInv

(* The inductive invariant of the population: what each request under way, *)
(* and the job, may still write, who made whom an administrator, and what is *)
(* left of each invitation (authRouter.ts, auth.ts, adminRoute.ts,         *)
(* cronTasks.ts).                                                          *)
THEOREM AccountsKeep == Spec => []AccountsInv
BY AccountsStart, AccountsStep, PTL DEF Spec

(* Registrations that run together make one administrator unasked, and no  *)
(* invitation is used more often than it allows, for any number of users,  *)
(* invitations and requests (register, onUserCreateAfter).                 *)
THEOREM RegistrationAlwaysHolds == Spec => []RegistrationHolds
<1>1. AccountsInv => RegistrationHolds
  <2> SUFFICES ASSUME AccountsInv PROVE RegistrationHolds
    OBVIOUS
  <2>1. InvitesNotOverused
    BY DEF AccountsInv, LeftNat, InvitesNotOverused
  <2>2. OneBootstrap
    <3>1. ASSUME NEW u \in Users, boot = {u} PROVE Cardinality(boot) <= 1
      BY <3>1, FS_Singleton
    <3>2. boot = {} => Cardinality(boot) <= 1
      BY FS_EmptySet
    <3> QED BY <3>1, <3>2 DEF AccountsInv, OneFirst, OneBootstrap
  <2> QED BY <2>1, <2>2 DEF RegistrationHolds
<1> QED BY <1>1, AccountsKeep, PTL

(* An administrator is left and active, for any number of administrators who *)
(* dismiss, delete and deactivate each other (adminRoute.ts, cronTasks.ts). *)
THEOREM AdministratorsAlwaysHold == Spec => []AdministratorsHold
<1>1. AccountsInv => AdministratorsHold
  BY DEF AccountsInv, AdministratorsHold, AdministratorRemains, AdminKept, FirstComes
<1> QED BY <1>1, AccountsKeep, PTL

(* Who was deactivated by the job has no authorised member, unless the     *)
(* controller failed or the account was changed meanwhile (cronTasks.ts).  *)
THEOREM DeactivatedStayOut == Spec => []DeactivatedAreOut
BY AccountsKeep, PTL DEF AccountsInv

(* Every variable keeps its type (the rows of User, Invitation, UserGroup). *)
THEOREM AccountsTyped == Spec => []TypeOK
<1>1. AccountsInv => TypeOK
  <2> SUFFICES ASSUME AccountsInv PROVE TypeOK
    OBVIOUS
  <2>1. \A u \in Users : Exists(u) =>
           /\ row[u].role \in {"ADMIN", "USER"} /\ row[u].active \in BOOLEAN
           /\ row[u].expires \in Expiries /\ row[u].group \in Groups \cup {None}
    BY RowKinds DEF AccountsInv, AccountTypes, Exists
  <2>2. \A i \in Invites : invite[i] # Absent => invite[i].used \in 0 .. invite[i].can
    <3> SUFFICES ASSUME NEW i \in Invites, invite[i] # Absent PROVE invite[i].used \in 0 .. invite[i].can
      OBVIOUS
    <3>1. invite[i] \in InviteRows /\ invite[i].used <= invite[i].can
      BY DEF AccountsInv, AccountTypes, InviteCounts
    <3> QED BY <3>1 DEF InviteRows
  <2>3. job.todo \subseteq Users /\ job.at \in Users \cup {None}
    BY DEF AccountsInv, AccountTypes, Jobs
  <2> QED BY <2>1, <2>2, <2>3 DEF AccountsInv, AccountTypes, TypeOK
<1> QED BY <1>1, AccountsKeep, PTL
=============================================================================
