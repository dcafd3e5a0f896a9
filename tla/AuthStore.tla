----------------------------- MODULE AuthStore -----------------------------
(***************************************************************************)
(* internal/auth: the password hash, the browser sessions and the API      *)
(* tokens of the old scheme, in memory and in tokens.json, under           *)
(* concurrent requests of the web UI, saves that fail, restarts, and the   *)
(* commands that write config.json from another process.                   *)
(*                                                                         *)
(* A method of auth.Store is one step (it holds Store.mu); a handler that  *)
(* calls several is several, and at[r] says how far request r has come.    *)
(* HashPassword salts, so no two hashes are equal: a hash is a number, and *)
(* so is a session token, both drawn in order.  Presenting a wrong         *)
(* password changes nothing and is no step.                                *)
(***************************************************************************)
EXTENDS Naturals, FiniteSets

CONSTANTS
    Requests,       \* requests of the web UI being served at once
    Legacy,         \* random API tokens of the old scheme, on disk from before
    Faults,         \* the faults the environment may inject
    MaxHashes,      \* bound on the passwords set
    MaxSessions     \* bound on the sessions minted

FaultKinds == {"save", "crash"}

ASSUME AuthAssumption ==
    /\ Faults \subseteq FaultKinds
    /\ Legacy \cap Nat = {}
    /\ MaxHashes \in Nat /\ MaxSessions \in Nat

NoHash == 0

VARIABLES
    configHash,     \* config.json: auth.password_hash
    tokensFile,     \* tokens.json
    up,             \* harb serve is running
    cfg,            \* Store.Cfg.PasswordHash
    api,            \* Store.api
    sessions,       \* Store.sessions
    at,             \* how far each request has come
    newHash,        \* handlePasswd's h
    hashes,         \* hashes drawn so far
    issued,         \* session tokens drawn so far
    expired,        \* the tokens whose age has reached TokenLifetime
    handed,         \* session cookies browsers have been given
    ended,          \* sessions a logout or a password change was to end
    revoked         \* tokens whose end reached tokens.json

authDisk == <<configHash, tokensFile>>
authMemory == <<cfg, api, sessions>>
authSeen == <<expired, handed, ended, revoked>>
authVars == <<authDisk, up, authMemory, at, newHash, hashes, issued, authSeen>>

Tokens == 1..issued
Place(r, p) == at' = [at EXCEPT ![r] = p]
CheckSession(t) == t \in sessions \ expired

\* requireSession: some browser holds a session that is still accepted.
LoggedIn == \E t \in handed : CheckSession(t)

AuthInit ==
    /\ configHash = NoHash
    /\ tokensFile = [api |-> Legacy, sessions |-> {}]
    /\ up = FALSE
    /\ cfg = NoHash
    /\ api = {}
    /\ sessions = {}
    /\ at = [r \in Requests |-> "idle"]
    /\ newHash = [r \in Requests |-> NoHash]
    /\ hashes = 0
    /\ issued = 0
    /\ expired = {} /\ handed = {} /\ ended = {} /\ revoked = {}

\* persistLocked: tokens.json is replaced by what memory holds now.  After an
\* error it is or is not: the directory is opened after the rename.  Memory was
\* changed first, and stays changed.
Persist(ok) ==
    /\ ok \/ "save" \in Faults
    /\ \/ tokensFile' = [api |-> api', sessions |-> sessions']
       \/ ~ok /\ UNCHANGED tokensFile

-----------------------------------------------------------------------------
(* The process and the commands.                                           *)

\* OpenStore: load, drop the expired, and write the file again if any were; when
\* that fails serve does not start.
AuthOpen ==
    LET kept == tokensFile.sessions \ expired IN
    /\ ~up
    /\ configHash # NoHash
    /\ up' = TRUE
    /\ cfg' = configHash
    /\ api' = tokensFile.api
    /\ sessions' = kept
    /\ IF kept # tokensFile.sessions THEN Persist(TRUE) ELSE UNCHANGED tokensFile
    /\ UNCHANGED <<configHash, at, newHash, hashes, issued, authSeen>>

\* The process ends, wherever its requests were.
AuthCrash ==
    /\ "crash" \in Faults
    /\ up
    /\ up' = FALSE
    /\ cfg' = NoHash
    /\ api' = {}
    /\ sessions' = {}
    /\ at' = [r \in Requests |-> "idle"]
    /\ newHash' = [r \in Requests |-> NoHash]
    /\ UNCHANGED <<authDisk, hashes, issued, authSeen>>

WriteConfig ==
    /\ hashes < MaxHashes
    /\ hashes' = hashes + 1
    /\ configHash' = hashes'
    /\ UNCHANGED <<tokensFile, up, authMemory, at, newHash, issued, authSeen>>

\* harb init: only where there is no config yet (or with -force).
CmdInit == configHash = NoHash /\ WriteConfig

\* harb passwd: a running serve is not told.
CmdPasswd == configHash # NoHash /\ WriteConfig

\* TokenLifetime goes by.
Elapse ==
    /\ expired # Tokens
    /\ expired' = Tokens
    /\ UNCHANGED <<authDisk, up, authMemory, at, newHash, hashes, issued,
                   handed, ended, revoked>>

-----------------------------------------------------------------------------
(* Sessions.                                                               *)

\* IssueSession's first half: the password is the one in memory now.
VerifyLogin(r) ==
    /\ up /\ at[r] = "idle"
    /\ Place(r, "mint")
    /\ UNCHANGED <<authDisk, up, authMemory, newHash, hashes, issued, authSeen>>

\* Mutant: a failed save goes unnoticed.
NewSessionUnsaved(r, ok) ==
    /\ at[r] = "mint"
    /\ issued < MaxSessions
    /\ issued' = issued + 1
    /\ sessions' = (sessions \ expired) \cup {issued'}
    /\ UNCHANGED api
    /\ Persist(ok)
    /\ handed' = handed \cup {issued'}
    /\ Place(r, "idle")
    /\ UNCHANGED <<configHash, up, cfg, newHash, hashes, expired, ended, revoked>>

\* NewSession: sweep, add, save.  When the save fails the browser gets no cookie,
\* and the session is in memory all the same.
NewSession(r, ok) ==
    /\ at[r] = "mint"
    /\ issued < MaxSessions
    /\ issued' = issued + 1
    /\ sessions' = (sessions \ expired) \cup {issued'}
    /\ UNCHANGED api
    /\ Persist(ok)
    /\ handed' = IF ok THEN handed \cup {issued'} ELSE handed
    /\ Place(r, "idle")
    /\ UNCHANGED <<configHash, up, cfg, newHash, hashes, expired, ended, revoked>>

\* handleLogout with RevokeSession, whose error it ignores.
Logout(t, ok) ==
    /\ up
    /\ t \in handed
    /\ sessions' = sessions \ {t}
    /\ UNCHANGED api
    /\ Persist(ok)
    /\ ended' = ended \cup {t}
    /\ revoked' = IF ok THEN revoked \cup {t} ELSE revoked
    /\ UNCHANGED <<configHash, up, cfg, at, newHash, hashes, issued, expired, handed>>

-----------------------------------------------------------------------------
(* handlePasswd.                                                           *)

\* The old password is the one in memory now; the new one is hashed.
VerifyOld(r) ==
    /\ up /\ at[r] = "idle"
    /\ LoggedIn
    /\ hashes < MaxHashes
    /\ hashes' = hashes + 1
    /\ newHash' = [newHash EXCEPT ![r] = hashes']
    /\ Place(r, "passwd")
    /\ UNCHANGED <<authDisk, up, authMemory, issued, authSeen>>

\* config.Load and config.Save; an error of either ends the request, and the
\* file may be the new one all the same.
SaveConfig(r, ok) ==
    /\ at[r] = "passwd"
    /\ ok \/ "save" \in Faults
    /\ IF ok
       THEN /\ configHash' = newHash[r]
            /\ Place(r, "saved")
            /\ UNCHANGED newHash
       ELSE /\ Place(r, "idle")
            /\ newHash' = [newHash EXCEPT ![r] = NoHash]
            /\ configHash' \in {newHash[r], configHash}
    /\ UNCHANGED <<tokensFile, up, authMemory, hashes, issued, authSeen>>

\* The new hash is used, the old API tokens go.  The error is ignored.
SetPasswordHash(r, ok) ==
    /\ at[r] = "saved"
    /\ cfg' = newHash[r]
    /\ newHash' = [newHash EXCEPT ![r] = NoHash]
    /\ api' = {}
    /\ UNCHANGED sessions
    /\ Persist(ok)
    /\ revoked' = IF ok THEN revoked \cup Legacy ELSE revoked
    /\ Place(r, "revoke")
    /\ UNCHANGED <<configHash, up, hashes, issued, expired, handed, ended>>

\* Mutant: the emptied map is not saved.
RevokeInMemory(r, ok) ==
    /\ at[r] = "revoke"
    /\ sessions' = {}
    /\ ok \/ "save" \in Faults
    /\ UNCHANGED <<api, tokensFile>>
    /\ ended' = ended \cup Tokens
    /\ revoked' = IF ok THEN revoked \cup Tokens ELSE revoked
    /\ Place(r, "idle")
    /\ UNCHANGED <<configHash, up, cfg, newHash, hashes, issued, expired, handed>>

\* Every browser is logged out, this one too.  The error is ignored.
RevokeAllSessions(r, ok) ==
    /\ at[r] = "revoke"
    /\ sessions' = {}
    /\ UNCHANGED api
    /\ Persist(ok)
    /\ ended' = ended \cup Tokens
    /\ revoked' = IF ok THEN revoked \cup Tokens ELSE revoked
    /\ Place(r, "idle")
    /\ UNCHANGED <<configHash, up, cfg, newHash, hashes, issued, expired, handed>>

AuthStep ==
    \/ CmdInit
    \/ CmdPasswd
    \/ Elapse
    \/ \E r \in Requests : VerifyLogin(r) \/ VerifyOld(r)
    \/ \E r \in Requests, ok \in BOOLEAN :
           \/ NewSession(r, ok)
           \/ SaveConfig(r, ok)
           \/ SetPasswordHash(r, ok)
           \/ RevokeAllSessions(r, ok)
    \/ \E t \in Tokens, ok \in BOOLEAN : Logout(t, ok)

-----------------------------------------------------------------------------

\* What tokens.json keeps, and what is accepted, of the sessions given out.
Kept == IF up THEN sessions \cap tokensFile.sessions ELSE tokensFile.sessions

\* A session a browser was given is accepted until it expires or until someone
\* ends it, and will be after a restart: neither a save that fails for another
\* session, nor a restart, nor any request served at the same time loses it.
HandedHonoured == handed \subseteq Kept \cup expired \cup ended

\* A token whose end reached the disk - logged out, or dropped by a change of the
\* password - is never accepted again, in whatever order logins, changes of
\* password, failing saves and restarts follow.
RevokedForGood ==
    revoked \cap (sessions \cup api \cup tokensFile.sessions \cup tokensFile.api) = {}

=============================================================================
