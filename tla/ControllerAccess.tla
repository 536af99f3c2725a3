-------------------------- MODULE ControllerAccess --------------------------
(***************************************************************************)
(* What a request to the controller is authenticated with                  *)
(* (utils/ztApi.ts): the secret of the user's options, remembered for      *)
(* CACHE_TTL, or else the token that the web service read from             *)
(* authtoken.secret when it started.  The configuration agent rotates that *)
(* token (rotate_controller_token) under the feet of both services.        *)
(***************************************************************************)
EXTENDS Integers

CONSTANTS
    Rotators,     \* rotations that may be under way at once
    Lookups,      \* requests that may look up credentials at once
    CacheTTL,     \* CACHE_TTL, in ticks
    MaxTicks,     \* bound: the clock
    MaxRotations, \* bound: rotations
    MaxSaves,     \* bound: saves of the user's options
    MaxRestarts   \* bound: restarts and failures of their own

ASSUME AccessBounds == MaxSaves \in Nat /\ CacheTTL \in Nat /\ MaxTicks \in Nat

VARIABLES
    tokenFile, \* the token in authtoken.secret
    loaded,    \* loaded[service]: the token it read when it started
    rotation,  \* rotation[r]: what it does next
    halfway,   \* history: a rotation ended between the token and the restarts
    rotations, restarts,
    options,   \* the version of the user's stored credentials
    replaced,  \* replaced[v]: when version v was replaced
    saving,    \* a save that has not cleared the cache yet
    credentialsCache, lookup, cacheClock

tokenVars == <<tokenFile, loaded, rotation, halfway, rotations, restarts>>
cacheVars == <<options, replaced, saving, credentialsCache, lookup, cacheClock>>
accessVars == <<tokenVars, cacheVars>>

Loaders == {"zerotier", "ztnet"}
Uncached == [cred |-> 0, stamp |-> 0]
NoLookup == [at |-> "idle", now |-> 0, cred |-> 0]

----------------------------------------------------------------------------
(* Rotation: not under the lock of the agent                               *)

RotateControllerToken(r) ==
    /\ rotation[r] = {} /\ rotations < MaxRotations
    /\ rotations' = rotations + 1
    /\ tokenFile' = rotations'
    /\ rotation' = [rotation EXCEPT ![r] = Loaders]
    /\ UNCHANGED <<loaded, halfway, restarts, cacheVars>>

\* Mutant: only the controller is restarted.
RestartServiceOne(r, s) ==
    /\ s \in rotation[r] /\ s = "zerotier"
    /\ loaded' = [loaded EXCEPT ![s] = tokenFile]
    /\ rotation' = [rotation EXCEPT ![r] = {}]
    /\ UNCHANGED <<tokenFile, halfway, rotations, restarts, cacheVars>>

\* compose restart: both services, in any order; each reads the token at its start.
RestartService(r, s) ==
    /\ s \in rotation[r]
    /\ loaded' = [loaded EXCEPT ![s] = tokenFile]
    /\ rotation' = [rotation EXCEPT ![r] = @ \ {s}]
    /\ UNCHANGED <<tokenFile, halfway, rotations, restarts, cacheVars>>

\* The restart fails or takes too long, or the agent ends.
RotationFails(r) ==
    /\ rotation[r] # {} /\ restarts < MaxRestarts
    /\ restarts' = restarts + 1
    /\ rotation' = [rotation EXCEPT ![r] = {}]
    /\ halfway' = TRUE
    /\ UNCHANGED <<tokenFile, loaded, rotations, cacheVars>>

\* A service starts again for a reason of its own, a configuration or a crash.
ServiceStarts(s) ==
    /\ restarts < MaxRestarts
    /\ restarts' = restarts + 1
    /\ loaded' = [loaded EXCEPT ![s] = tokenFile]
    /\ UNCHANGED <<tokenFile, rotation, halfway, rotations, cacheVars>>

----------------------------------------------------------------------------
(* The memory of credentials                                               *)

\* setZtApi and setLocalZt: the row first, the cache after it.
SetLocalZt ==
    /\ ~saving /\ options < MaxSaves
    /\ options' = options + 1
    /\ replaced' = [replaced EXCEPT ![options] = cacheClock]
    /\ saving' = TRUE
    /\ UNCHANGED <<tokenVars, credentialsCache, lookup, cacheClock>>

ClearApiCredentialsCache ==
    /\ saving /\ saving' = FALSE
    /\ credentialsCache' = Uncached
    /\ UNCHANGED <<tokenVars, options, replaced, lookup, cacheClock>>

Valid(now) == credentialsCache.cred # 0 /\ now - credentialsCache.stamp < CacheTTL

\* getApiCredentials: a hit answers at once, a miss goes to the database.
GetApiCredentials(l) ==
    /\ lookup[l] = NoLookup /\ ~Valid(cacheClock)
    /\ lookup' = [lookup EXCEPT ![l] = [at |-> "read", now |-> cacheClock, cred |-> 0]]
    /\ UNCHANGED <<tokenVars, options, replaced, saving, credentialsCache, cacheClock>>

ReadOptions(l) ==
    /\ lookup[l].at = "read"
    /\ lookup' = [lookup EXCEPT ![l] = [at |-> "store", now |-> lookup[l].now, cred |-> options]]
    /\ UNCHANGED <<tokenVars, options, replaced, saving, credentialsCache, cacheClock>>

\* Mutant: the entry lives from the moment it is stored.
StoreCredentialsLate(l) ==
    /\ lookup[l].at = "store"
    /\ credentialsCache' = [cred |-> lookup[l].cred, stamp |-> cacheClock]
    /\ lookup' = [lookup EXCEPT ![l] = NoLookup]
    /\ UNCHANGED <<tokenVars, options, replaced, saving, cacheClock>>

\* The stamp is the time at which the lookup began.
StoreCredentials(l) ==
    /\ lookup[l].at = "store"
    /\ credentialsCache' = [cred |-> lookup[l].cred, stamp |-> lookup[l].now]
    /\ lookup' = [lookup EXCEPT ![l] = NoLookup]
    /\ UNCHANGED <<tokenVars, options, replaced, saving, cacheClock>>

ClockTicks ==
    /\ cacheClock < MaxTicks
    /\ cacheClock' = cacheClock + 1
    /\ UNCHANGED <<tokenVars, options, replaced, saving, credentialsCache, lookup>>

----------------------------------------------------------------------------
AccessInit ==
    /\ tokenFile = 0 /\ loaded = [s \in Loaders |-> 0]
    /\ rotation = [r \in Rotators |-> {}]
    /\ halfway = FALSE /\ rotations = 0 /\ restarts = 0
    /\ options = 1 /\ replaced = [v \in 1..MaxSaves |-> MaxTicks]
    /\ saving = FALSE /\ credentialsCache = Uncached
    /\ lookup = [l \in Lookups |-> NoLookup]
    /\ cacheClock = 0

TokenNext ==
    \/ \E r \in Rotators :
           \/ RotateControllerToken(r) \/ RotationFails(r)
           \/ \E s \in Loaders : RestartService(r, s)
    \/ \E s \in Loaders : ServiceStarts(s)

CacheNext ==
    \/ SetLocalZt \/ ClearApiCredentialsCache \/ ClockTicks
    \/ \E l \in Lookups : GetApiCredentials(l) \/ ReadOptions(l) \/ StoreCredentials(l)

----------------------------------------------------------------------------
(* When no rotation is under way the web service and the controller use the *)
(* same token, the one in the file, however rotations overlapped with each  *)
(* other and with starts of the services, unless a rotation ended halfway   *)
(* (ztplanet_agent.py:832).                                                 *)
TokensAgree ==
    (\A r \in Rotators : rotation[r] = {}) /\ ~halfway => \A s \in Loaders : loaded[s] = tokenFile

(* Credentials that were replaced are used for less than CACHE_TTL after    *)
(* that, although a lookup that overlaps the save puts them back into the   *)
(* cache that the save has cleared (ztApi.ts:124).                          *)
StaleAtMostTTL ==
    Valid(cacheClock) /\ credentialsCache.cred # options => cacheClock - replaced[credentialsCache.cred] < CacheTTL

(* Whoever asks the controller uses the current access to it, with these    *)
(* exceptions: rotations and saves may overlap with anything.               *)
AccessCurrent == TokensAgree /\ StaleAtMostTTL
=============================================================================
