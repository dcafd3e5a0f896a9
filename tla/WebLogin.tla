------------------------------ MODULE WebLogin ------------------------------
(***************************************************************************)
(* Logging in to the web UI with a password or a passkey: AuthStore, with  *)
(* internal/passkey (the challenges waiting for an answer, the credential  *)
(* store and credentials.json) and the handlers of internal/ui that use    *)
(* both.                                                                   *)
(*                                                                         *)
(* A finish request is several steps: redeem takes the challenge under     *)
(* Manager.mu, GetByID copies the credential under one lock of the store,  *)
(* UpdateSignCount changes it under another, NewSession is the auth        *)
(* store's.  Requests, removals, failing saves and a restart may come in   *)
(* between.  The browser and the authenticator are the environment: they   *)
(* answer a challenge once, when it is begun, and send the answer any      *)
(* number of times, to either finish endpoint, in any order, or never.     *)
(***************************************************************************)
EXTENDS AuthStore

CONSTANTS
    Keys,           \* credential IDs
    Absent,         \* no credential, no key, no challenge, no answer
    MaxChallenges   \* bound on the ceremonies begun

\* An authenticator's answer to a challenge: a key of its own, and its counter.
Answers == [key : Keys, count : Nat]

ASSUME WebLoginAssumption ==
    /\ Absent \notin Nat /\ Absent \notin Answers /\ Absent \notin {"register", "login"}
    /\ MaxChallenges \in Nat

VARIABLES
    creds,          \* CredentialStore.creds: the signature counter of each key
    credsFile,      \* credentials.json
    pending,        \* Manager.pending: the challenges waiting for their answer
    old,            \* those of them whose age has reached challengeTTL
    kind,           \* what each challenge was begun for
    answer,         \* what the authenticator made of it: a key and a counter
    device,         \* the counter of each key, in the authenticator
    holds,          \* the challenge each request has redeemed
    confirmed,      \* keys whose registration was answered with success
    removed         \* "asked": somebody asked to remove the key; "gone": and it was saved

keyMemory == <<creds, pending, old, holds>>
keySeen == <<answer, device, confirmed, removed>>
keyVars == <<keyMemory, credsFile, kind, keySeen>>
allVars == <<authVars, keyVars>>

Challenges == 1..MaxChallenges
Begun == {c \in Challenges : kind[c] # Absent}
Registered == {k \in Keys : creds[k] # Absent}
NoKeys == [k \in Keys |-> Absent]

\* Some keys may be registered from before, and not used yet.
LoginInit ==
    /\ AuthInit
    /\ creds = NoKeys
    /\ confirmed \in SUBSET Keys
    /\ credsFile = [k \in Keys |-> IF k \in confirmed THEN 0 ELSE Absent]
    /\ pending = {}
    /\ old = {}
    /\ kind = [c \in Challenges |-> Absent]
    /\ answer = [c \in Challenges |-> Absent]
    /\ device = credsFile
    /\ holds = [r \in Requests |-> Absent]
    /\ removed = [k \in Keys |-> "no"]

\* persistLocked of the credential store; memory was changed first, and the file
\* may be new although an error is returned.
PersistKeys(ok) ==
    /\ ok \/ "save" \in Faults
    /\ credsFile' = creds' \/ (~ok /\ UNCHANGED credsFile)

Release(r) ==
    /\ Place(r, "idle")
    /\ holds' = [holds EXCEPT ![r] = Absent]

Refuse(r) ==
    /\ Release(r)
    /\ UNCHANGED <<creds, credsFile>>

-----------------------------------------------------------------------------

LoginOpen ==
    /\ AuthOpen
    /\ creds' = credsFile
    /\ UNCHANGED <<credsFile, pending, old, holds, kind, keySeen>>

LoginCrash ==
    /\ AuthCrash
    /\ creds' = NoKeys
    /\ pending' = {}
    /\ old' = {}
    /\ holds' = [r \in Requests |-> Absent]
    /\ UNCHANGED <<credsFile, kind, keySeen>>

\* challengeTTL goes by.
ElapseChallenges ==
    /\ old # pending
    /\ old' = pending
    /\ UNCHANGED <<authVars, creds, pending, holds, credsFile, kind, keySeen>>

-----------------------------------------------------------------------------
(* The ceremonies.                                                         *)

\* BeginRegistration (for somebody logged in) or BeginLogin: a new challenge is
\* stashed, and the expired ones dropped.
Stash(c, what, k) ==
    /\ up
    /\ kind[c] = Absent
    /\ \A d \in Challenges : d < c => kind[d] # Absent
    /\ kind' = [kind EXCEPT ![c] = what]
    /\ pending' = (pending \ old) \cup {c}
    /\ old' = {}
    /\ answer' = [answer EXCEPT ![c] = [key |-> k, count |-> device'[k]]]
    /\ UNCHANGED <<authVars, creds, credsFile, holds, confirmed, removed>>

\* The authenticator (external) makes a key, or offers one of its own again that
\* excludeCredentials does not list.
BeginRegistration(c, k) ==
    /\ LoggedIn
    /\ k \notin Registered
    /\ device' = [device EXCEPT ![k] = IF @ = Absent THEN 0 ELSE @]
    /\ Stash(c, "register", k)

\* The authenticator counts, and signs with a key of its own that allowCredentials
\* lists.
BeginLogin(c, k) ==
    /\ k \in Registered
    /\ device' = [device EXCEPT ![k] = @ + 1]
    /\ Stash(c, "login", k)

\* Mutant: a challenge is deleted only when its answer is found good.
RedeemKept(r, c, what) ==
    /\ up /\ at[r] = "idle"
    /\ what = "register" => LoggedIn
    /\ kind[c] # Absent
    /\ pending' = pending \ old
    /\ old' = {}
    /\ IF c \in pending' /\ kind[c] = what
       THEN /\ Place(r, what)
            /\ holds' = [holds EXCEPT ![r] = c]
       ELSE UNCHANGED <<at, holds>>
    /\ UNCHANGED <<authDisk, up, authMemory, newHash, hashes, issued, authSeen,
                   creds, credsFile, kind, keySeen>>

\* redeem, from the finish endpoint of either ceremony: the expired are dropped,
\* the challenge is taken, and lost if it was begun for the other ceremony.
Redeem(r, c, what) ==
    /\ up /\ at[r] = "idle"
    /\ what = "register" => LoggedIn
    /\ kind[c] # Absent
    /\ pending' = pending \ (old \cup {c})
    /\ old' = {}
    /\ IF c \in pending \ old /\ kind[c] = what
       THEN /\ Place(r, what)
            /\ holds' = [holds EXCEPT ![r] = c]
       ELSE UNCHANGED <<at, holds>>
    /\ UNCHANGED <<authDisk, up, authMemory, newHash, hashes, issued, authSeen,
                   creds, credsFile, kind, keySeen>>

-----------------------------------------------------------------------------
(* The credential store.                                                   *)

\* Mutant: a failed save goes unnoticed.
AddKeyUnsaved(r, ok) ==
    LET k == answer[holds[r]].key IN
    /\ at[r] = "register"
    /\ creds' = [creds EXCEPT ![k] = answer[holds[r]].count]
    /\ PersistKeys(ok)
    /\ confirmed' = confirmed \cup {k}
    /\ removed' = [removed EXCEPT ![k] = "no"]
    /\ Release(r)
    /\ UNCHANGED <<authDisk, up, authMemory, newHash, hashes, issued, authSeen,
                   pending, old, kind, answer, device>>

\* Add refuses a key it has, and otherwise adds it and saves; when the save fails
\* the browser is told that the registration failed, and memory has the key.
AddKey(r, ok) ==
    LET k == answer[holds[r]].key IN
    /\ at[r] = "register"
    /\ IF creds[k] # Absent
       THEN Refuse(r) /\ ok /\ UNCHANGED <<confirmed, removed>>
       ELSE /\ creds' = [creds EXCEPT ![k] = answer[holds[r]].count]
            /\ PersistKeys(ok)
            /\ confirmed' = IF ok THEN confirmed \cup {k} ELSE confirmed
            /\ removed' = [removed EXCEPT ![k] =
                              IF ok THEN "no" ELSE IF @ = "gone" THEN "asked" ELSE @]
            /\ Release(r)
    /\ UNCHANGED <<authDisk, up, authMemory, newHash, hashes, issued, authSeen,
                   pending, old, kind, answer, device>>

\* External, pinopass: the counter must have grown, unless it is not kept.
CounterAccepted(stored, count) == count > stored \/ (count = 0 /\ stored = 0)

\* Mutant: the counter is never written back.
VerifyAssertionOnly(r) ==
    LET a == answer[holds[r]] IN
    /\ at[r] = "login"
    /\ IF creds[a.key] # Absent /\ CounterAccepted(creds[a.key], a.count)
       THEN Place(r, "mint") /\ UNCHANGED <<holds, creds, credsFile>>
       ELSE Refuse(r)
    /\ UNCHANGED <<authDisk, up, authMemory, newHash, hashes, issued, authSeen,
                   pending, old, kind, keySeen>>

\* GetByID copies the credential; the assertion is verified against the copy.
VerifyAssertion(r) ==
    LET a == answer[holds[r]] IN
    /\ at[r] = "login"
    /\ IF creds[a.key] # Absent /\ CounterAccepted(creds[a.key], a.count)
       THEN Place(r, "verified") /\ UNCHANGED <<holds, creds, credsFile>>
       ELSE Refuse(r)
    /\ UNCHANGED <<authDisk, up, authMemory, newHash, hashes, issued, authSeen,
                   pending, old, kind, keySeen>>

\* Mutant: the counter is written to the copy, which is then put back.
UpdateFromCopy(r, ok) ==
    LET a == answer[holds[r]] IN
    /\ at[r] = "verified"
    /\ creds' = [creds EXCEPT ![a.key] = a.count]
    /\ PersistKeys(ok)
    /\ IF ok THEN Place(r, "mint") /\ holds' = [holds EXCEPT ![r] = Absent]
             ELSE Release(r)
    /\ UNCHANGED <<authDisk, up, authMemory, newHash, hashes, issued, authSeen,
                   pending, old, kind, keySeen>>

\* Mutant: what is kept is the counter expected next.
UpdateToNext(r, ok) ==
    LET a == answer[holds[r]] IN
    /\ at[r] = "verified"
    /\ IF creds[a.key] = Absent
       THEN Refuse(r) /\ ok
       ELSE /\ creds' = [creds EXCEPT ![a.key] = a.count + 1]
            /\ PersistKeys(ok)
            /\ IF ok THEN Place(r, "mint") /\ holds' = [holds EXCEPT ![r] = Absent]
                     ELSE Release(r)
    /\ UNCHANGED <<authDisk, up, authMemory, newHash, hashes, issued, authSeen,
                   pending, old, kind, keySeen>>

\* UpdateSignCount refuses a key that is gone by now, and otherwise writes the
\* counter of this assertion, whatever the counter has become since it was
\* verified.  The request goes on to NewSession when the save succeeds.
UpdateSignCount(r, ok) ==
    LET a == answer[holds[r]] IN
    /\ at[r] = "verified"
    /\ IF creds[a.key] = Absent
       THEN Refuse(r) /\ ok
       ELSE /\ creds' = [creds EXCEPT ![a.key] = a.count]
            /\ PersistKeys(ok)
            /\ IF ok THEN Place(r, "mint") /\ holds' = [holds EXCEPT ![r] = Absent]
                     ELSE Release(r)
    /\ UNCHANGED <<authDisk, up, authMemory, newHash, hashes, issued, authSeen,
                   pending, old, kind, keySeen>>

\* handlePasskeyRemove with Delete, whose error it ignores.
RemoveKey(k, ok) ==
    /\ up
    /\ LoggedIn
    /\ creds[k] # Absent
    /\ creds' = [creds EXCEPT ![k] = Absent]
    /\ PersistKeys(ok)
    /\ removed' = [removed EXCEPT ![k] = IF ok THEN "gone" ELSE "asked"]
    /\ UNCHANGED <<authVars, pending, old, holds, kind, answer, device, confirmed>>

PasskeyStep ==
    \/ ElapseChallenges
    \/ \E c \in Challenges, k \in Keys : BeginRegistration(c, k) \/ BeginLogin(c, k)
    \/ \E r \in Requests, c \in Challenges, what \in {"register", "login"} : Redeem(r, c, what)
    \/ \E r \in Requests : VerifyAssertion(r)
    \/ \E r \in Requests, ok \in BOOLEAN : AddKey(r, ok) \/ UpdateSignCount(r, ok)
    \/ \E k \in Keys, ok \in BOOLEAN : RemoveKey(k, ok)

PasswordStep == AuthStep /\ UNCHANGED keyVars

LoginNext == LoginOpen \/ LoginCrash \/ PasswordStep \/ PasskeyStep

LoginSpec == LoginInit /\ [][LoginNext]_allVars

-----------------------------------------------------------------------------

LoginTypeOK ==
    /\ configHash \in Nat /\ cfg \in Nat /\ up \in BOOLEAN
    /\ tokensFile \in [api : SUBSET Legacy, sessions : SUBSET Tokens]
    /\ api \in SUBSET Legacy /\ sessions \in SUBSET Tokens
    /\ at \in [Requests -> {"idle", "mint", "passwd", "saved", "revoke",
                           "register", "login", "verified"}]
    /\ newHash \in [Requests -> Nat]
    /\ hashes \in Nat /\ issued \in Nat
    /\ expired \subseteq Tokens /\ handed \subseteq Tokens
    /\ ended \subseteq Tokens /\ revoked \subseteq Tokens \cup Legacy
    /\ creds \in [Keys -> Nat \cup {Absent}]
    /\ credsFile \in [Keys -> Nat \cup {Absent}]
    /\ device \in [Keys -> Nat \cup {Absent}]
    /\ pending \subseteq Begun /\ old \subseteq pending
    /\ kind \in [Challenges -> {Absent, "register", "login"}]
    /\ answer \in [Challenges -> Answers \cup {Absent}]
    /\ holds \in [Requests -> Challenges \cup {Absent}]
    /\ confirmed \subseteq Keys
    /\ removed \in [Keys -> {"no", "asked", "gone"}]
    \* A request holds a challenge, answered, just while it works on it.
    /\ \A r \in Requests :
           IF at[r] \in {"register", "login", "verified"}
           THEN holds[r] # Absent /\ answer[holds[r]] # Absent
           ELSE holds[r] = Absent

\* An answer is good for one finish request, however many send it at once and
\* however the ceremony ended: no two requests work on the same challenge, and
\* none can redeem it again.
ChallengeSpent ==
    \A r \in Requests : holds[r] # Absent =>
        /\ holds[r] \notin pending
        /\ \A q \in Requests \ {r} : holds[q] # holds[r]

\* The counter kept for a key, in memory or on disk, is never ahead of the
\* authenticator's: the assertion it makes next is not taken for a regression,
\* whichever of two logins wrote its counter last and whatever was not saved.
CounterNeverAhead ==
    \A k \in Keys : \A stored \in {creds[k], credsFile[k]} :
        stored # Absent => device[k] # Absent /\ stored <= device[k]

InMemory(k) == up => creds[k] # Absent

\* A passkey whose registration was answered with success is there until somebody
\* asks to remove it, and after a restart.
PasskeysHonoured ==
    \A k \in confirmed : removed[k] = "no" => credsFile[k] # Absent /\ InMemory(k)

\* A passkey whose removal reached the disk stays out until it is registered
\* again: no login that had read it before brings it back.
RemovedForGood ==
    \A k \in Keys : removed[k] = "gone" => creds[k] = Absent /\ credsFile[k] = Absent
=============================================================================
