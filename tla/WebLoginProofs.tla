--------------------------- MODULE WebLoginProofs ---------------------------
(***************************************************************************)
(* Proofs about WebLogin, and AuthStore below it: any number of requests   *)
(* served at once, of keys, sessions, passwords and ceremonies, and any    *)
(* length of run.                                                          *)
(***************************************************************************)
EXTENDS WebLogin, TLAPS

Working == {"register", "login", "verified"}
Places == {"idle", "mint", "passwd", "saved", "revoke"} \cup Working

-----------------------------------------------------------------------------
(* The inductive invariant: what the runs check, and what it rests on.     *)

AuthType ==
    /\ configHash \in Nat /\ cfg \in Nat /\ up \in BOOLEAN
    /\ tokensFile \in [api : SUBSET Legacy, sessions : SUBSET Tokens]
    /\ api \in SUBSET Legacy /\ sessions \in SUBSET Tokens
    /\ newHash \in [Requests -> Nat]
    /\ hashes \in Nat /\ issued \in Nat
    /\ expired \subseteq Tokens /\ handed \subseteq Tokens
    /\ ended \subseteq Tokens /\ revoked \subseteq Tokens \cup Legacy

KeyType ==
    /\ creds \in [Keys -> Nat \cup {Absent}]
    /\ credsFile \in [Keys -> Nat \cup {Absent}]
    /\ device \in [Keys -> Nat \cup {Absent}]
    /\ confirmed \subseteq Keys
    /\ removed \in [Keys -> {"no", "asked", "gone"}]

\* Only a ceremony that was begun waits, or has an answer.
CeremonyType ==
    /\ pending \subseteq Begun /\ old \subseteq pending
    /\ kind \in [Challenges -> {Absent, "register", "login"}]
    /\ answer \in [Challenges -> Answers \cup {Absent}]
    /\ \A c \in Challenges : answer[c] # Absent => kind[c] # Absent
    /\ \A c \in Challenges : kind[c] # Absent => answer[c] # Absent

RequestType ==
    /\ at \in [Requests -> Places]
    /\ holds \in [Requests -> Challenges \cup {Absent}]
    /\ \A r \in Requests :
           IF at[r] \in Working
           THEN holds[r] # Absent /\ answer[holds[r]] # Absent
           ELSE holds[r] = Absent

\* A request is served by a process that runs.
Quiet == ~up => \A r \in Requests : at[r] = "idle"

\* The counter of an answer is one the authenticator has reached.
AnswersReached ==
    \A c \in Challenges : answer[c] # Absent =>
        /\ device[answer[c].key] # Absent
        /\ answer[c].count <= device[answer[c].key]

LoginInv ==
    /\ AuthType /\ KeyType /\ CeremonyType /\ RequestType /\ Quiet
    /\ HandedHonoured /\ RevokedForGood
    /\ ChallengeSpent /\ AnswersReached /\ CounterNeverAhead
    /\ PasskeysHonoured /\ RemovedForGood

-----------------------------------------------------------------------------

LEMMA LoginInvInit == LoginInit => LoginInv
  <1> SUFFICES ASSUME LoginInit PROVE LoginInv
    OBVIOUS
  <1> USE WebLoginAssumption, AuthAssumption DEF LoginInit, AuthInit
  <1>1. AuthType
    BY DEF AuthType, NoHash, Tokens
  <1>2. KeyType
    BY DEF KeyType, NoKeys
  <1>3. CeremonyType
    BY DEF CeremonyType, Begun, Challenges
  <1>4. RequestType
    BY DEF RequestType, Places, Working
  <1>5. Quiet /\ HandedHonoured /\ RevokedForGood
    BY DEF Quiet, HandedHonoured, RevokedForGood, Kept
  <1>6. ChallengeSpent /\ AnswersReached /\ CounterNeverAhead /\ PasskeysHonoured /\ RemovedForGood
    <2>1. ChallengeSpent /\ AnswersReached
      BY DEF ChallengeSpent, AnswersReached
    <2>2. \A k \in Keys : /\ creds[k] = Absent
                          /\ device[k] = credsFile[k] /\ credsFile[k] \in {0, Absent}
                          /\ k \in confirmed => credsFile[k] # Absent
      BY DEF NoKeys
    <2>3. CounterNeverAhead
      BY <2>2 DEF CounterNeverAhead
    <2> QED BY <2>1, <2>2, <2>3 DEF PasskeysHonoured, RemovedForGood, InMemory
  <1> QED BY <1>1, <1>2, <1>3, <1>4, <1>5, <1>6 DEF LoginInv

\* The steps of the ceremonies leave what AuthStore keeps alone, but for the place
\* of a request.
LEMMA KeyFrame ==
    PasskeyStep => UNCHANGED <<configHash, tokensFile, up, cfg, api, sessions, newHash, hashes,
                               issued, expired, handed, ended, revoked>>
  BY DEF PasskeyStep, ElapseChallenges, BeginRegistration, BeginLogin, Stash, Redeem,
         VerifyAssertion, AddKey, UpdateSignCount, RemoveKey, authVars, authDisk, authMemory, authSeen

-----------------------------------------------------------------------------
(* Sessions and tokens.                                                    *)

LEMMA AuthTypeNext == LoginInv /\ LoginNext => AuthType'
  <1> SUFFICES ASSUME AuthType, LoginNext PROVE AuthType'
    BY DEF LoginInv
  <1> USE DEF Tokens, authDisk, authMemory, authSeen
  <1>0. /\ tokensFile.api \subseteq Legacy /\ tokensFile.sessions \subseteq 1..issued
        /\ api \subseteq Legacy /\ sessions \subseteq 1..issued
        /\ tokensFile \in [api : SUBSET Legacy, sessions : SUBSET (1..issued)]
        /\ newHash \in [Requests -> Nat] /\ hashes \in Nat /\ issued \in Nat
    BY DEF AuthType
  <1>a. \A A \in SUBSET Legacy, S \in SUBSET (1..issued) :
            [api |-> A, sessions |-> S] \in [api : SUBSET Legacy, sessions : SUBSET (1..issued)]
    OBVIOUS
  <1>1. CASE LoginOpen
    <2>1. /\ api' = tokensFile.api /\ sessions' \subseteq tokensFile.sessions
          /\ tokensFile' \in {tokensFile, [api |-> api', sessions |-> sessions']}
          /\ up' = TRUE /\ cfg' = configHash
          /\ UNCHANGED <<configHash, newHash, hashes, issued, expired, handed, ended, revoked>>
      BY <1>1 DEF LoginOpen, AuthOpen, Persist
    <2> QED BY <1>0, <1>a, <2>1 DEF AuthType
  <1>2. CASE LoginCrash
    <2>1. /\ up' = FALSE /\ cfg' = 0 /\ api' = {} /\ sessions' = {}
          /\ newHash' = [r \in Requests |-> 0]
          /\ UNCHANGED <<configHash, tokensFile, hashes, issued, expired, handed, ended, revoked>>
      BY <1>2 DEF LoginCrash, AuthCrash, NoHash
    <2>2. newHash' \in [Requests -> Nat]
      BY <2>1
    <2> QED BY <2>1, <2>2 DEF AuthType
  <1>3. CASE CmdInit \/ CmdPasswd
    <2>1. /\ hashes' = hashes + 1 /\ configHash' = hashes'
          /\ UNCHANGED <<tokensFile, up, cfg, api, sessions, newHash, issued, authSeen>>
      BY <1>3 DEF CmdInit, CmdPasswd, WriteConfig
    <2> QED BY <2>1 DEF AuthType
  <1>4. CASE Elapse
    <2>1. /\ expired' = 1..issued
          /\ UNCHANGED <<configHash, tokensFile, up, cfg, api, sessions, newHash, hashes, issued,
                         handed, ended, revoked>>
      BY <1>4 DEF Elapse
    <2> QED BY <2>1 DEF AuthType
  <1>5. ASSUME NEW r \in Requests, VerifyLogin(r) \/ VerifyOld(r) PROVE AuthType'
    <2>1. /\ UNCHANGED <<configHash, tokensFile, up, cfg, api, sessions, issued, authSeen>>
          /\ hashes' = hashes \/ hashes' = hashes + 1
          /\ newHash' = newHash \/ newHash' = [newHash EXCEPT ![r] = hashes']
      BY <1>5 DEF VerifyLogin, VerifyOld
    <2>2. newHash' \in [Requests -> Nat] /\ hashes' \in Nat
      BY <1>0, <2>1
    <2> QED BY <2>1, <2>2 DEF AuthType
  <1>6. ASSUME NEW r \in Requests, NEW ok \in BOOLEAN, NewSession(r, ok) PROVE AuthType'
    <2>1. /\ issued' = issued + 1 /\ sessions' = (sessions \ expired) \cup {issued'}
          /\ handed' \in {handed, handed \cup {issued'}}
          /\ tokensFile' \in {tokensFile, [api |-> api', sessions |-> sessions']}
          /\ UNCHANGED <<configHash, up, cfg, api, newHash, hashes, expired, ended, revoked>>
      BY <1>6 DEF NewSession, Persist
    <2>2. 1..issued \subseteq 1..issued' /\ issued' \in 1..issued' /\ issued' \in Nat
      BY <1>0, <2>1
    <2>3. sessions' \subseteq 1..issued'
      BY <1>0, <2>1, <2>2
    <2>4. tokensFile' \in [api : SUBSET Legacy, sessions : SUBSET (1..issued')]
      BY <1>0, <2>1, <2>2, <2>3
    <2> QED BY <2>1, <2>2, <2>3, <2>4 DEF AuthType
  <1>7. ASSUME NEW r \in Requests, NEW ok \in BOOLEAN, SaveConfig(r, ok) PROVE AuthType'
    <2>1. /\ UNCHANGED <<tokensFile, up, cfg, api, sessions, hashes, issued, authSeen>>
          /\ configHash' \in {configHash, newHash[r]}
          /\ newHash' = newHash \/ newHash' = [newHash EXCEPT ![r] = 0]
      BY <1>7 DEF SaveConfig, NoHash
    <2>2. newHash' \in [Requests -> Nat]
      BY <1>0, <2>1
    <2> QED BY <2>1, <2>2 DEF AuthType
  <1>8. ASSUME NEW r \in Requests, NEW ok \in BOOLEAN, SetPasswordHash(r, ok) PROVE AuthType'
    <2>1. /\ cfg' = newHash[r] /\ newHash' = [newHash EXCEPT ![r] = 0] /\ api' = {}
          /\ tokensFile' \in {tokensFile, [api |-> api', sessions |-> sessions']}
          /\ revoked' \in {revoked, revoked \cup Legacy}
          /\ UNCHANGED <<configHash, up, sessions, hashes, issued, expired, handed, ended>>
      BY <1>8 DEF SetPasswordHash, NoHash, Persist
    <2>2. newHash' \in [Requests -> Nat]
      BY <1>0, <2>1
    <2> QED BY <1>0, <1>a, <2>1, <2>2 DEF AuthType
  <1>9. CASE \/ \E r \in Requests, ok \in BOOLEAN : RevokeAllSessions(r, ok)
             \/ \E t \in Tokens, ok \in BOOLEAN : Logout(t, ok)
    <2>1. /\ sessions' \subseteq sessions
          /\ tokensFile' \in {tokensFile, [api |-> api', sessions |-> sessions']}
          /\ ended' \subseteq ended \cup 1..issued /\ revoked' \subseteq revoked \cup 1..issued
          /\ UNCHANGED <<configHash, up, cfg, api, newHash, hashes, issued, expired, handed>>
      BY <1>9 DEF RevokeAllSessions, Logout, Persist
    <2> QED BY <1>0, <1>a, <2>1 DEF AuthType
  <1>10. CASE PasskeyStep
    BY <1>10, KeyFrame DEF AuthType
  <1> QED BY <1>1, <1>2, <1>3, <1>4, <1>5, <1>6, <1>7, <1>8, <1>9, <1>10
          DEF LoginNext, PasswordStep, AuthStep

LEMMA HandedNext == LoginInv /\ LoginNext => HandedHonoured'
  <1> SUFFICES ASSUME AuthType, Quiet, HandedHonoured, LoginNext PROVE HandedHonoured'
    BY DEF LoginInv
  <1> USE DEF AuthType, HandedHonoured, Kept, authDisk, authMemory, authSeen, Persist
  <1>1. CASE LoginOpen
    BY <1>1 DEF LoginOpen, AuthOpen
  <1>2. CASE LoginCrash
    BY <1>2 DEF LoginCrash, AuthCrash
  <1>3. CASE CmdInit \/ CmdPasswd \/ Elapse
    BY <1>3 DEF CmdInit, CmdPasswd, WriteConfig, Elapse
  <1>4. ASSUME NEW r \in Requests, VerifyLogin(r) \/ VerifyOld(r) PROVE HandedHonoured'
    BY <1>4 DEF VerifyLogin, VerifyOld
  <1>5. ASSUME NEW r \in Requests, NEW ok \in BOOLEAN, NewSession(r, ok) PROVE HandedHonoured'
    BY <1>5 DEF NewSession, Quiet
  <1>6. ASSUME NEW r \in Requests, NEW ok \in BOOLEAN, SaveConfig(r, ok) PROVE HandedHonoured'
    BY <1>6 DEF SaveConfig
  <1>7. ASSUME NEW r \in Requests, NEW ok \in BOOLEAN, SetPasswordHash(r, ok)
        PROVE  HandedHonoured'
    BY <1>7 DEF SetPasswordHash, Quiet
  <1>8. ASSUME NEW r \in Requests, NEW ok \in BOOLEAN, RevokeAllSessions(r, ok)
        PROVE  HandedHonoured'
    BY <1>8 DEF RevokeAllSessions
  <1>9. ASSUME NEW t \in Tokens, NEW ok \in BOOLEAN, Logout(t, ok) PROVE HandedHonoured'
    BY <1>9 DEF Logout
  <1>10. CASE PasskeyStep
    BY <1>10, KeyFrame
  <1> QED BY <1>1, <1>2, <1>3, <1>4, <1>5, <1>6, <1>7, <1>8, <1>9, <1>10
          DEF LoginNext, PasswordStep, AuthStep

LEMMA RevokedNext == LoginInv /\ LoginNext => RevokedForGood'
  <1> SUFFICES ASSUME AuthType, RevokedForGood, LoginNext PROVE RevokedForGood'
    BY DEF LoginInv
  <1> USE DEF AuthType, RevokedForGood, authDisk, authMemory, authSeen, Persist
  <1>0. Legacy \cap Nat = {} /\ Tokens \subseteq Nat /\ issued + 1 \notin Tokens
    BY AuthAssumption DEF Tokens
  <1>1. CASE LoginOpen
    BY <1>1 DEF LoginOpen, AuthOpen
  <1>2. CASE LoginCrash
    BY <1>2 DEF LoginCrash, AuthCrash
  <1>3. CASE CmdInit \/ CmdPasswd \/ Elapse
    BY <1>3 DEF CmdInit, CmdPasswd, WriteConfig, Elapse
  <1>4. ASSUME NEW r \in Requests, VerifyLogin(r) \/ VerifyOld(r) PROVE RevokedForGood'
    BY <1>4 DEF VerifyLogin, VerifyOld
  <1>5. ASSUME NEW r \in Requests, NEW ok \in BOOLEAN, NewSession(r, ok) PROVE RevokedForGood'
    <2>1. issued + 1 \in Nat /\ issued + 1 \notin revoked
      BY <1>0
    <2> QED BY <1>5, <2>1 DEF NewSession
  <1>6. ASSUME NEW r \in Requests, NEW ok \in BOOLEAN, SaveConfig(r, ok) PROVE RevokedForGood'
    BY <1>6 DEF SaveConfig
  <1>7. ASSUME NEW r \in Requests, NEW ok \in BOOLEAN, SetPasswordHash(r, ok)
        PROVE  RevokedForGood'
    <2>1. /\ api' = {} /\ sessions' = sessions
          /\ revoked' = IF ok THEN revoked \cup Legacy ELSE revoked
          /\ \/ tokensFile' = [api |-> {}, sessions |-> sessions]
             \/ ~ok /\ tokensFile' = tokensFile
      BY <1>7 DEF SetPasswordHash
    <2>2. CASE tokensFile' = [api |-> {}, sessions |-> sessions]
      BY <1>0, <2>1, <2>2
    <2>3. CASE ~ok /\ tokensFile' = tokensFile
      BY <1>0, <2>1, <2>3
    <2> QED BY <2>1, <2>2, <2>3
  <1>8. ASSUME NEW r \in Requests, NEW ok \in BOOLEAN, RevokeAllSessions(r, ok)
        PROVE  RevokedForGood'
    <2>1. /\ api' = api /\ sessions' = {}
          /\ revoked' = IF ok THEN revoked \cup Tokens ELSE revoked
          /\ \/ tokensFile' = [api |-> api, sessions |-> {}]
             \/ ~ok /\ tokensFile' = tokensFile
      BY <1>8 DEF RevokeAllSessions
    <2>2. api \cap Tokens = {}
      BY <1>0
    <2>3. CASE tokensFile' = [api |-> api, sessions |-> {}]
      BY <2>1, <2>2, <2>3
    <2>4. CASE ~ok /\ tokensFile' = tokensFile
      BY <2>1, <2>2, <2>4
    <2> QED BY <2>1, <2>3, <2>4
  <1>9. ASSUME NEW t \in Tokens, NEW ok \in BOOLEAN, Logout(t, ok) PROVE RevokedForGood'
    BY <1>0, <1>9 DEF Logout
  <1>10. CASE PasskeyStep
    BY <1>10, KeyFrame
  <1> QED BY <1>1, <1>2, <1>3, <1>4, <1>5, <1>6, <1>7, <1>8, <1>9, <1>10
          DEF LoginNext, PasswordStep, AuthStep

-----------------------------------------------------------------------------
(* Requests and ceremonies.                                                *)

\* Nothing of AuthStore, but the start of a process and its end, is about a key; a
\* request is not taken out of a ceremony by it, nor put into one.
LEMMA PasswordFrame ==
    ASSUME AuthStep, at \in [Requests -> Places]
    PROVE  /\ at' \in [Requests -> Places]
           /\ \A r \in Requests : at'[r] \in Working <=> at[r] \in Working
           /\ \A r \in Requests : at[r] \in Working => at'[r] = at[r]
           /\ UNCHANGED up
  <1> USE DEF Places, Working, Place
  <1>1. CASE CmdInit \/ CmdPasswd \/ Elapse \/ \E t \in Tokens, ok \in BOOLEAN : Logout(t, ok)
    BY <1>1 DEF CmdInit, CmdPasswd, WriteConfig, Elapse, Logout
  <1>2. CASE \E r \in Requests : VerifyLogin(r) \/ VerifyOld(r)
    BY <1>2 DEF VerifyLogin, VerifyOld
  <1>3. CASE \E r \in Requests, ok \in BOOLEAN :
                 NewSession(r, ok) \/ SaveConfig(r, ok) \/ SetPasswordHash(r, ok)
                 \/ RevokeAllSessions(r, ok)
    BY <1>3 DEF NewSession, SaveConfig, SetPasswordHash, RevokeAllSessions
  <1> QED BY <1>1, <1>2, <1>3 DEF AuthStep

\* The one key and counter a request at work is about.
LEMMA RequestAnswer ==
    ASSUME LoginInv, NEW r \in Requests, at[r] \in Working
    PROVE  /\ holds[r] \in Challenges /\ answer[holds[r]] \in Answers
           /\ answer[holds[r]].key \in Keys /\ answer[holds[r]].count \in Nat
           /\ device[answer[holds[r]].key] # Absent
           /\ answer[holds[r]].count <= device[answer[holds[r]].key]
           /\ up
  <1>1. holds[r] \in Challenges /\ answer[holds[r]] # Absent
    BY DEF LoginInv, RequestType
  <1>2. answer[holds[r]] \in Answers
    BY <1>1 DEF LoginInv, CeremonyType
  <1>3. up
    BY DEF LoginInv, Quiet, Working, AuthType
  <1> QED BY <1>1, <1>2, <1>3 DEF LoginInv, AnswersReached, Answers

LEMMA QuietNext == LoginInv /\ LoginNext => Quiet'
  <1> SUFFICES ASSUME RequestType, Quiet, LoginNext PROVE Quiet'
    BY DEF LoginInv
  <1> USE DEF Quiet
  <1>1. CASE LoginOpen
    BY <1>1 DEF LoginOpen, AuthOpen
  <1>2. CASE LoginCrash
    BY <1>2 DEF LoginCrash, AuthCrash
  <1>3. CASE PasswordStep
    <2>1. CASE CmdInit \/ CmdPasswd \/ Elapse
      BY <2>1 DEF CmdInit, CmdPasswd, WriteConfig, Elapse
    <2>2. CASE \E r \in Requests : VerifyLogin(r) \/ VerifyOld(r)
      BY <2>2 DEF VerifyLogin, VerifyOld
    <2>3. CASE \E r \in Requests, ok \in BOOLEAN :
                   NewSession(r, ok) \/ SaveConfig(r, ok) \/ SetPasswordHash(r, ok)
                   \/ RevokeAllSessions(r, ok)
      BY <2>3 DEF NewSession, SaveConfig, SetPasswordHash, RevokeAllSessions
    <2>4. CASE \E t \in Tokens, ok \in BOOLEAN : Logout(t, ok)
      BY <2>4 DEF Logout
    <2> QED BY <1>3, <2>1, <2>2, <2>3, <2>4 DEF PasswordStep, AuthStep
  <1>4. CASE PasskeyStep
    <2>1. CASE ElapseChallenges \/ (\E c \in Challenges, k \in Keys :
                                        BeginRegistration(c, k) \/ BeginLogin(c, k))
               \/ \E k \in Keys, ok \in BOOLEAN : RemoveKey(k, ok)
      BY <2>1 DEF ElapseChallenges, BeginRegistration, BeginLogin, Stash, RemoveKey, authVars
    <2>2. CASE \E r \in Requests, c \in Challenges, what \in {"register", "login"} :
                   Redeem(r, c, what)
      BY <2>2 DEF Redeem
    <2>3. CASE \E r \in Requests : VerifyAssertion(r)
      BY <2>3 DEF VerifyAssertion
    <2>4. CASE \E r \in Requests, ok \in BOOLEAN : AddKey(r, ok) \/ UpdateSignCount(r, ok)
      BY <2>4 DEF AddKey, UpdateSignCount
    <2> QED BY <1>4, <2>1, <2>2, <2>3, <2>4 DEF PasskeyStep
  <1> QED BY <1>1, <1>2, <1>3, <1>4 DEF LoginNext

\* Begun challenges.
LEMMA CeremonyNext == LoginInv /\ LoginNext => (CeremonyType /\ AnswersReached)'
  <1> SUFFICES ASSUME LoginInv, LoginNext PROVE (CeremonyType /\ AnswersReached)'
    OBVIOUS
  <1>0. KeyType /\ CeremonyType /\ AnswersReached /\ CounterNeverAhead
    BY DEF LoginInv
  <1>1. CASE LoginOpen \/ LoginCrash \/ PasswordStep \/ ElapseChallenges
    <2>1. /\ pending' \subseteq pending /\ old' \subseteq pending'
          /\ UNCHANGED <<kind, answer, device>>
      BY <1>0, <1>1 DEF LoginOpen, LoginCrash, PasswordStep, ElapseChallenges, keyVars, keyMemory,
                        keySeen, CeremonyType
    <2> QED BY <1>0, <2>1 DEF CeremonyType, AnswersReached, Begun
  <1>2. ASSUME NEW c \in Challenges, NEW k \in Keys, NEW what \in {"register", "login"},
               Stash(c, what, k), NEW n \in Nat, device' = [device EXCEPT ![k] = n],
               device[k] # Absent => device[k] <= n
        PROVE  (CeremonyType /\ AnswersReached)'
    <2> DEFINE a == [key |-> k, count |-> n]
    <2>1. device'[k] = n /\ a \in Answers /\ a.key = k /\ a.count = n /\ a # Absent
          /\ what # Absent
      BY <1>0, <1>2, WebLoginAssumption DEF KeyType, Answers
    <2>2. /\ kind' = [kind EXCEPT ![c] = what] /\ answer' = [answer EXCEPT ![c] = a]
          /\ pending' = (pending \ old) \cup {c} /\ old' = {}
          /\ kind[c] = Absent
      BY <1>2, <2>1 DEF Stash
    <2> HIDE DEF a
    <2>3. CeremonyType'
      BY <1>0, <2>1, <2>2 DEF CeremonyType, Begun
    <2>4. AnswersReached'
      <3> SUFFICES ASSUME NEW d \in Challenges, answer'[d] # Absent
                   PROVE  /\ device'[answer'[d].key] # Absent
                          /\ answer'[d].count <= device'[answer'[d].key]
        BY DEF AnswersReached
      <3>1. CASE d = c
        BY <1>0, <2>1, <2>2, <3>1, WebLoginAssumption DEF CeremonyType
      <3>2. CASE d # c
        <4>1. /\ answer'[d] = answer[d] /\ answer[d].key \in Keys /\ answer[d].count \in Nat
              /\ device[answer[d].key] # Absent /\ answer[d].count <= device[answer[d].key]
          BY <1>0, <2>2, <3>2 DEF CeremonyType, AnswersReached, Answers
        <4>2. device[answer[d].key] \in Nat
          BY <1>0, <4>1 DEF KeyType
        <4> QED BY <1>0, <1>2, <4>1, <4>2, WebLoginAssumption DEF KeyType
      <3> QED BY <3>1, <3>2
    <2> QED BY <2>3, <2>4
  <1>3. ASSUME NEW c \in Challenges, NEW k \in Keys, BeginRegistration(c, k)
        PROVE  (CeremonyType /\ AnswersReached)'
    <2> DEFINE n == IF device[k] = Absent THEN 0 ELSE device[k]
    <2>1. /\ n \in Nat /\ device' = [device EXCEPT ![k] = n]
          /\ device[k] # Absent => device[k] <= n
          /\ Stash(c, "register", k)
      BY <1>0, <1>3 DEF KeyType, BeginRegistration
    <2> QED BY <1>2, <2>1
  <1>4. ASSUME NEW c \in Challenges, NEW k \in Keys, BeginLogin(c, k)
        PROVE  (CeremonyType /\ AnswersReached)'
    <2>1. device[k] \in Nat
      BY <1>0, <1>4 DEF KeyType, BeginLogin, Registered, CounterNeverAhead
    <2>2. /\ device[k] + 1 \in Nat /\ device' = [device EXCEPT ![k] = device[k] + 1]
          /\ device[k] <= device[k] + 1 /\ Stash(c, "login", k)
      BY <1>4, <2>1 DEF BeginLogin
    <2> QED BY <1>2, <2>2
  <1>5. CASE \E r \in Requests, c \in Challenges, what \in {"register", "login"} : Redeem(r, c, what)
    <2>1. pending' \subseteq pending /\ old' = {} /\ UNCHANGED <<kind, answer, device>>
      BY <1>5 DEF Redeem, keySeen
    <2> QED BY <1>0, <2>1 DEF CeremonyType, AnswersReached, Begun
  <1>6. CASE \/ \E r \in Requests : VerifyAssertion(r)
             \/ \E r \in Requests, ok \in BOOLEAN : AddKey(r, ok) \/ UpdateSignCount(r, ok)
             \/ \E k \in Keys, ok \in BOOLEAN : RemoveKey(k, ok)
    <2>1. UNCHANGED <<pending, old, kind, answer, device>>
      BY <1>6 DEF VerifyAssertion, AddKey, UpdateSignCount, RemoveKey, keySeen
    <2> QED BY <1>0, <2>1 DEF CeremonyType, AnswersReached, Begun
  <1> QED BY <1>1, <1>3, <1>4, <1>5, <1>6 DEF LoginNext, PasskeyStep


\* Requests, and the challenges they hold.
LEMMA RequestNext == LoginInv /\ LoginNext => (RequestType /\ ChallengeSpent)'
  <1> SUFFICES ASSUME LoginInv, LoginNext PROVE (RequestType /\ ChallengeSpent)'
    OBVIOUS
  <1>0. CeremonyType /\ RequestType /\ ChallengeSpent
    BY DEF LoginInv
  <1>a. CeremonyType'
    BY CeremonyNext
  \* An answer that is there stays.
  <1>b. \A c \in Challenges : answer[c] # Absent => answer'[c] # Absent
    <2>1. CASE \E c \in Challenges, k \in Keys : BeginRegistration(c, k) \/ BeginLogin(c, k)
      <3>1. PICK c \in Challenges, k \in Keys : BeginRegistration(c, k) \/ BeginLogin(c, k)
        BY <2>1
      <3>2. kind[c] = Absent /\ \A d \in Challenges : d # c => answer'[d] = answer[d]
        BY <1>0, <3>1 DEF BeginRegistration, BeginLogin, Stash, CeremonyType
      <3> QED BY <1>0, <3>2 DEF CeremonyType
    <2>2. CASE ~\E c \in Challenges, k \in Keys : BeginRegistration(c, k) \/ BeginLogin(c, k)
      <3>1. UNCHANGED answer
        BY <2>2 DEF LoginNext, LoginOpen, LoginCrash, PasswordStep, PasskeyStep, ElapseChallenges,
                    Redeem, VerifyAssertion, AddKey, UpdateSignCount, RemoveKey, keyVars, keySeen
      <3> QED BY <3>1
    <2> QED BY <2>1, <2>2
  <1>1. CASE LoginOpen \/ ElapseChallenges \/ \E k \in Keys, ok \in BOOLEAN : RemoveKey(k, ok)
    <2>1. UNCHANGED <<at, holds, pending>>
      BY <1>1 DEF LoginOpen, AuthOpen, ElapseChallenges, RemoveKey, authVars
    <2> QED BY <1>0, <1>b, <2>1 DEF RequestType, ChallengeSpent
  <1>2. CASE LoginCrash
    <2>1. /\ at' = [r \in Requests |-> "idle"] /\ holds' = [r \in Requests |-> Absent]
      BY <1>2 DEF LoginCrash, AuthCrash
    <2> QED BY <2>1 DEF RequestType, ChallengeSpent, Places, Working
  <1>3. CASE PasswordStep
    <2>1. /\ UNCHANGED <<holds, pending>> /\ AuthStep
      BY <1>3 DEF PasswordStep, keyVars, keyMemory
    <2>2. /\ at' \in [Requests -> Places]
          /\ \A r \in Requests : at'[r] \in Working <=> at[r] \in Working
      BY <1>0, <2>1, PasswordFrame DEF RequestType
    <2> QED BY <1>0, <1>b, <2>1, <2>2 DEF RequestType, ChallengeSpent
  <1>4. CASE \E c \in Challenges, k \in Keys : BeginRegistration(c, k) \/ BeginLogin(c, k)
    <2>1. PICK c \in Challenges, k \in Keys : BeginRegistration(c, k) \/ BeginLogin(c, k)
      BY <1>4
    <2>2. /\ kind[c] = Absent /\ pending' \subseteq pending \cup {c}
          /\ UNCHANGED <<at, holds>>
      BY <2>1 DEF BeginRegistration, BeginLogin, Stash, authVars
    <2>3. \A r \in Requests : holds[r] # Absent => holds[r] # c
      BY <1>0, <2>2 DEF RequestType, CeremonyType
    <2> QED BY <1>0, <1>b, <2>2, <2>3 DEF RequestType, ChallengeSpent
  <1>5. ASSUME NEW r \in Requests, NEW c \in Challenges, NEW what \in {"register", "login"},
               Redeem(r, c, what)
        PROVE  (RequestType /\ ChallengeSpent)'
    <2>1. CASE c \in pending \ old /\ kind[c] = what
      <3>1. /\ at' = [at EXCEPT ![r] = what] /\ holds' = [holds EXCEPT ![r] = c]
            /\ pending' = pending \ (old \cup {c}) /\ c \in pending
            /\ UNCHANGED answer
        BY <1>5, <2>1 DEF Redeem, Place, keySeen
      <3>2. answer[c] # Absent /\ c # Absent
        BY <1>0, <3>1, WebLoginAssumption DEF CeremonyType, Begun, Challenges
      <3>3. RequestType'
        BY <1>0, <3>1, <3>2 DEF RequestType, Places, Working
      <3>4. ChallengeSpent'
        BY <1>0, <3>1, <3>2 DEF RequestType, ChallengeSpent
      <3> QED BY <3>3, <3>4
    <2>2. CASE ~(c \in pending \ old /\ kind[c] = what)
      <3>1. UNCHANGED <<at, holds>> /\ pending' \subseteq pending
        BY <1>5, <2>2 DEF Redeem
      <3> QED BY <1>0, <1>b, <3>1 DEF RequestType, ChallengeSpent
    <2> QED BY <2>1, <2>2
  <1>6. CASE \/ \E r \in Requests : VerifyAssertion(r)
             \/ \E r \in Requests, ok \in BOOLEAN : AddKey(r, ok) \/ UpdateSignCount(r, ok)
    <2>1. PICK r \in Requests :
              /\ at[r] \in Working /\ UNCHANGED pending
              /\ \/ /\ at' = [at EXCEPT ![r] = "verified"] /\ UNCHANGED holds
                 \/ /\ \/ at' = [at EXCEPT ![r] = "mint"]
                       \/ at' = [at EXCEPT ![r] = "idle"]
                    /\ holds' = [holds EXCEPT ![r] = Absent]
      BY <1>6 DEF VerifyAssertion, AddKey, UpdateSignCount, Place, Release, Refuse, Working
    <2>2. RequestType'
      BY <1>0, <1>b, <2>1 DEF RequestType, Places, Working
    <2>3. ChallengeSpent'
      BY <1>0, <2>1 DEF RequestType, ChallengeSpent
    <2> QED BY <2>2, <2>3
  <1> QED BY <1>1, <1>2, <1>3, <1>4, <1>5, <1>6 DEF LoginNext, PasskeyStep

-----------------------------------------------------------------------------
(* The credential store.                                                   *)

\* What a step may do to the credentials, in memory and on disk.
KeyWrite(k, value, ok) ==
    /\ creds' = [creds EXCEPT ![k] = value]
    /\ credsFile' = creds' \/ (~ok /\ UNCHANGED credsFile)

LEMMA KeyTypeNext == LoginInv /\ LoginNext => (KeyType /\ CounterNeverAhead)'
  <1> SUFFICES ASSUME LoginInv, LoginNext PROVE (KeyType /\ CounterNeverAhead)'
    OBVIOUS
  <1>0. KeyType /\ CounterNeverAhead
    BY DEF LoginInv
  <1>1. CASE \/ LoginOpen \/ LoginCrash \/ PasswordStep \/ ElapseChallenges
             \/ \E r \in Requests, c \in Challenges, what \in {"register", "login"} :
                    Redeem(r, c, what)
             \/ \E r \in Requests : VerifyAssertion(r)
    <2>1. /\ creds' \in {creds, credsFile, NoKeys}
          /\ UNCHANGED <<credsFile, device, confirmed, removed>>
      BY <1>1 DEF LoginOpen, LoginCrash, PasswordStep, ElapseChallenges, Redeem, VerifyAssertion,
                  Refuse, keyVars, keyMemory, keySeen
    <2>2. creds' \in [Keys -> Nat \cup {Absent}]
      BY <1>0, <2>1 DEF KeyType, NoKeys
    <2>3. \A k \in Keys : creds'[k] \in {creds[k], credsFile[k], Absent}
      BY <2>1 DEF NoKeys
    <2> QED BY <1>0, <2>1, <2>2, <2>3 DEF KeyType, CounterNeverAhead
  <1>2. CASE \E c \in Challenges, k \in Keys : BeginRegistration(c, k) \/ BeginLogin(c, k)
    <2>1. PICK k \in Keys : \E c \in Challenges : BeginRegistration(c, k) \/ BeginLogin(c, k)
      BY <1>2
    <2>2. device[k] \in Nat \cup {Absent}
      BY <1>0 DEF KeyType
    <2>3. UNCHANGED <<creds, credsFile, confirmed, removed>>
      BY <2>1 DEF BeginRegistration, BeginLogin, Stash
    <2>4. CASE device[k] = Absent
      <3>1. creds[k] = Absent /\ credsFile[k] = Absent
        BY <1>0, <2>4 DEF CounterNeverAhead
      <3>2. device' = [device EXCEPT ![k] = 0]
        BY <2>1, <2>4, <3>1 DEF BeginRegistration, BeginLogin, Registered
      <3>3. \A j \in Keys : j # k => device'[j] = device[j]
        BY <1>0, <3>2 DEF KeyType
      <3> QED BY <1>0, <2>3, <3>1, <3>2, <3>3 DEF KeyType, CounterNeverAhead
    <2>5. CASE device[k] # Absent
      <3>1. device' = device \/ device' = [device EXCEPT ![k] = device[k] + 1]
        BY <1>0, <2>1, <2>5 DEF BeginRegistration, BeginLogin, KeyType
      <3>2. device[k] \in Nat /\ device[k] + 1 \in Nat
        BY <2>2, <2>5
      <3>3. device' \in [Keys -> Nat \cup {Absent}]
        BY <1>0, <3>1, <3>2 DEF KeyType
      <3>4. ASSUME NEW j \in Keys, NEW stored \in {creds[j], credsFile[j]}, stored # Absent
            PROVE  device'[j] # Absent /\ stored <= device'[j]
        <4>1. /\ stored \in Nat /\ device[j] \in Nat /\ stored <= device[j]
          BY <1>0, <3>4 DEF KeyType, CounterNeverAhead
        <4> QED BY <1>0, <3>1, <3>2, <4>1, WebLoginAssumption DEF KeyType
      <3> QED BY <1>0, <2>3, <3>3, <3>4 DEF KeyType, CounterNeverAhead
    <2> QED BY <2>4, <2>5
  <1>3. ASSUME NEW k \in Keys, NEW value \in Nat \cup {Absent}, NEW ok \in BOOLEAN,
               KeyWrite(k, value, ok), UNCHANGED device,
               value # Absent => device[k] # Absent /\ value <= device[k],
               confirmed' \subseteq confirmed \cup {k},
               removed' \in [Keys -> {"no", "asked", "gone"}]
        PROVE  (KeyType /\ CounterNeverAhead)'
    <2>1. /\ creds' \in [Keys -> Nat \cup {Absent}] /\ credsFile' \in [Keys -> Nat \cup {Absent}]
          /\ creds'[k] = value /\ \A j \in Keys : j # k => creds'[j] = creds[j]
          /\ credsFile' = creds' \/ credsFile' = credsFile
      BY <1>0, <1>3 DEF KeyWrite, KeyType
    <2> QED BY <1>0, <1>3, <2>1 DEF KeyType, CounterNeverAhead
  <1>4. ASSUME NEW r \in Requests, NEW ok \in BOOLEAN, AddKey(r, ok) \/ UpdateSignCount(r, ok)
        PROVE  (KeyType /\ CounterNeverAhead)'
    <2> DEFINE k == answer[holds[r]].key
               n == answer[holds[r]].count
    <2>1. /\ k \in Keys /\ n \in Nat /\ device[k] # Absent /\ n <= device[k]
      BY <1>4, RequestAnswer DEF AddKey, UpdateSignCount, Working
    <2>2. CASE UNCHANGED <<creds, credsFile>> /\ UNCHANGED <<device, confirmed, removed>>
      BY <1>0, <2>2 DEF KeyType, CounterNeverAhead
    <2>3. CASE KeyWrite(k, n, ok)
      <3>1. /\ UNCHANGED device /\ confirmed' \subseteq confirmed \cup {k}
            /\ removed' \in [Keys -> {"no", "asked", "gone"}]
        BY <1>0, <1>4 DEF AddKey, UpdateSignCount, keySeen, KeyType
      <3> HIDE DEF k, n
      <3> QED BY <1>3, <2>1, <2>3, <3>1
    <2>4. \/ UNCHANGED <<creds, credsFile, device, confirmed, removed>>
          \/ KeyWrite(k, n, ok)
      BY <1>4 DEF AddKey, UpdateSignCount, Refuse, KeyWrite, PersistKeys, keySeen
    <2> QED BY <2>2, <2>3, <2>4
  <1>5. ASSUME NEW k \in Keys, NEW ok \in BOOLEAN, RemoveKey(k, ok)
        PROVE  (KeyType /\ CounterNeverAhead)'
    <2>1. KeyWrite(k, Absent, ok) /\ UNCHANGED <<device, confirmed>>
      BY <1>5 DEF RemoveKey, KeyWrite, PersistKeys
    <2>2. removed' \in [Keys -> {"no", "asked", "gone"}]
      BY <1>0, <1>5 DEF RemoveKey, KeyType
    <2> QED BY <1>3, <2>1, <2>2
  <1> QED BY <1>1, <1>2, <1>4, <1>5 DEF LoginNext, PasskeyStep

LEMMA PasskeysNext == LoginInv /\ LoginNext => (PasskeysHonoured /\ RemovedForGood)'
  <1> SUFFICES ASSUME LoginInv, LoginNext PROVE (PasskeysHonoured /\ RemovedForGood)'
    OBVIOUS
  <1>0. KeyType /\ PasskeysHonoured /\ RemovedForGood
    BY DEF LoginInv
  <1>a. up => \A k \in Keys :
            /\ k \in confirmed /\ removed[k] = "no" => credsFile[k] # Absent /\ creds[k] # Absent
            /\ removed[k] = "gone" => creds[k] = Absent /\ credsFile[k] = Absent
    BY <1>0 DEF PasskeysHonoured, RemovedForGood, InMemory, KeyType
  <1>b. ASSUME confirmed' \subseteq Keys,
               \A k \in Keys :
                   /\ k \in confirmed' /\ removed'[k] = "no"
                          => credsFile'[k] # Absent /\ creds'[k] # Absent
                   /\ removed'[k] = "gone" => creds'[k] = Absent /\ credsFile'[k] = Absent
        PROVE  (PasskeysHonoured /\ RemovedForGood)'
    BY <1>b DEF PasskeysHonoured, RemovedForGood, InMemory
  <1> USE DEF PasskeysHonoured, RemovedForGood, InMemory
  <1>1. CASE LoginOpen
    BY <1>0, <1>1 DEF LoginOpen, keySeen
  <1>2. CASE LoginCrash
    BY <1>0, <1>2 DEF LoginCrash, AuthCrash, NoKeys, keySeen
  <1>3. CASE PasswordStep
    <2>1. UNCHANGED <<creds, credsFile, confirmed, removed, up>>
      BY <1>3, PasswordFrame DEF PasswordStep, keyVars, keyMemory, keySeen, LoginInv, RequestType
    <2> QED BY <1>0, <2>1
  <1>4. CASE ElapseChallenges
             \/ (\E c \in Challenges, k \in Keys : BeginRegistration(c, k) \/ BeginLogin(c, k))
             \/ (\E r \in Requests, c \in Challenges, what \in {"register", "login"} :
                    Redeem(r, c, what))
             \/ \E r \in Requests : VerifyAssertion(r)
    <2>1. UNCHANGED <<creds, credsFile, confirmed, removed>>
      BY <1>4 DEF ElapseChallenges, BeginRegistration, BeginLogin, Stash, Redeem, VerifyAssertion,
                  Refuse, keySeen
    <2>2. UNCHANGED up
      BY <1>4, KeyFrame DEF PasskeyStep
    <2> QED BY <1>0, <2>1, <2>2
  <1>5. ASSUME NEW r \in Requests, NEW ok \in BOOLEAN, AddKey(r, ok) \/ UpdateSignCount(r, ok)
        PROVE  (PasskeysHonoured /\ RemovedForGood)'
    <2> DEFINE k == answer[holds[r]].key
               n == answer[holds[r]].count
    <2>1. k \in Keys /\ n \in Nat /\ n # Absent /\ up
      BY <1>5, RequestAnswer, WebLoginAssumption DEF AddKey, UpdateSignCount, Working
    <2>2. up' = up
      BY <1>5, KeyFrame DEF PasskeyStep
    <2>3. CASE UNCHANGED <<creds, credsFile, confirmed, removed>>
      BY <1>0, <2>2, <2>3
    <2>4. CASE /\ KeyWrite(k, n, ok)
               /\ creds[k] # Absent /\ UNCHANGED <<confirmed, removed>>
      <3> HIDE DEF k, n
      <3>1. /\ creds'[k] = n /\ \A j \in Keys : j # k => creds'[j] = creds[j]
            /\ credsFile' = creds' \/ credsFile' = credsFile
        BY <1>0, <2>1, <2>4 DEF KeyWrite, KeyType
      <3>2. confirmed' \subseteq Keys
        BY <1>0, <2>4 DEF KeyType
      <3> QED BY <1>a, <1>b, <2>1, <2>4, <3>1, <3>2
    <2>5. CASE /\ KeyWrite(k, n, ok) /\ creds[k] = Absent
               /\ confirmed' = IF ok THEN confirmed \cup {k} ELSE confirmed
               /\ removed' = [removed EXCEPT ![k] =
                                 IF ok THEN "no" ELSE IF removed[k] = "gone" THEN "asked"
                                                                          ELSE removed[k]]
      <3> HIDE DEF k, n
      <3>1. /\ creds'[k] = n /\ \A j \in Keys : j # k => creds'[j] = creds[j]
            /\ credsFile' = creds' \/ (~ok /\ UNCHANGED credsFile)
        BY <1>0, <2>1, <2>5 DEF KeyWrite, KeyType
      <3>2. \A j \in Keys : j # k => removed'[j] = removed[j]
        BY <1>0, <2>1, <2>5 DEF KeyType
      <3>3. removed'[k] # "gone"
        BY <1>0, <2>1, <2>5 DEF KeyType
      <3>4. k \in confirmed' /\ removed'[k] = "no" => ok
        BY <1>0, <2>1, <2>5 DEF KeyType
      <3>5. confirmed' \subseteq Keys /\ \A j \in Keys : j # k /\ j \in confirmed' => j \in confirmed
        BY <1>0, <2>1, <2>5 DEF KeyType
      <3>6. ASSUME NEW j \in Keys
            PROVE  /\ j \in confirmed' /\ removed'[j] = "no"
                          => credsFile'[j] # Absent /\ creds'[j] # Absent
                   /\ removed'[j] = "gone" => creds'[j] = Absent /\ credsFile'[j] = Absent
        <4>1. CASE j = k
          BY <2>1, <3>1, <3>3, <3>4, <4>1
        <4>2. CASE j # k
          BY <1>a, <2>1, <3>1, <3>2, <3>5, <4>2
        <4> QED BY <4>1, <4>2
      <3> QED BY <1>b, <3>5, <3>6
    <2>6. \/ UNCHANGED <<creds, credsFile, confirmed, removed>>
          \/ /\ KeyWrite(k, n, ok)
             /\ creds[k] # Absent /\ UNCHANGED <<confirmed, removed>>
          \/ /\ KeyWrite(k, n, ok) /\ creds[k] = Absent
             /\ confirmed' = IF ok THEN confirmed \cup {k} ELSE confirmed
             /\ removed' = [removed EXCEPT ![k] =
                               IF ok THEN "no" ELSE IF removed[k] = "gone" THEN "asked"
                                                                        ELSE removed[k]]
      BY <1>5 DEF AddKey, UpdateSignCount, Refuse, KeyWrite, PersistKeys, keySeen
    <2> HIDE DEF k, n
    <2> QED BY <2>3, <2>4, <2>5, <2>6
  <1>6. ASSUME NEW k \in Keys, NEW ok \in BOOLEAN, RemoveKey(k, ok)
        PROVE  (PasskeysHonoured /\ RemovedForGood)'
    <2>1. /\ creds'[k] = Absent /\ \A j \in Keys : j # k => creds'[j] = creds[j]
          /\ credsFile' = creds' \/ (~ok /\ UNCHANGED credsFile)
          /\ removed'[k] = (IF ok THEN "gone" ELSE "asked")
          /\ \A j \in Keys : j # k => removed'[j] = removed[j]
          /\ UNCHANGED confirmed /\ up
      BY <1>0, <1>6 DEF RemoveKey, PersistKeys, KeyType, authVars
    <2>2. confirmed' \subseteq Keys
      BY <1>0, <2>1 DEF KeyType
    <2> QED BY <1>a, <1>b, <2>1, <2>2
  <1> QED BY <1>1, <1>2, <1>3, <1>4, <1>5, <1>6 DEF LoginNext, PasskeyStep


-----------------------------------------------------------------------------
(* The theorems.                                                           *)

LEMMA LoginInvariant == LoginSpec => []LoginInv
  <1>1. LoginInv /\ UNCHANGED allVars => LoginInv'
    BY DEF LoginInv, AuthType, KeyType, CeremonyType, RequestType, Quiet, HandedHonoured,
           RevokedForGood, ChallengeSpent, AnswersReached, CounterNeverAhead, PasskeysHonoured,
           RemovedForGood, Kept, InMemory, Begun, Tokens, allVars, authVars, authDisk, authMemory,
           authSeen, keyVars, keyMemory, keySeen
  <1>2. LoginInv /\ LoginNext => LoginInv'
    BY AuthTypeNext, HandedNext, RevokedNext, QuietNext, CeremonyNext, RequestNext, KeyTypeNext,
       PasskeysNext DEF LoginInv
  <1>3. LoginInv /\ [LoginNext]_allVars => LoginInv'
    BY <1>1, <1>2
  <1> QED BY <1>3, LoginInvInit, PTL DEF LoginSpec

\* The variables keep their types, and a request works on a challenge just while it
\* is in a ceremony.
THEOREM LoginTypeCorrect == LoginSpec => []LoginTypeOK
  <1>1. LoginInv => LoginTypeOK
    BY DEF LoginInv, AuthType, KeyType, CeremonyType, RequestType, Places, Working, LoginTypeOK
  <1> QED BY <1>1, LoginInvariant, PTL

\* A session whose cookie was handed out is accepted until it ends or expires.
THEOREM SessionsKept == LoginSpec => []HandedHonoured
  BY LoginInvariant, PTL DEF LoginInv

\* What a logout or a change of password ended on disk stays ended.
THEOREM RevocationLasts == LoginSpec => []RevokedForGood
  BY LoginInvariant, PTL DEF LoginInv

\* A challenge is redeemed once.
THEOREM ChallengeOnce == LoginSpec => []ChallengeSpent
  BY LoginInvariant, PTL DEF LoginInv

\* No key is locked out by a counter that ran ahead of its authenticator.
THEOREM CounterKeptBack == LoginSpec => []CounterNeverAhead
  BY LoginInvariant, PTL DEF LoginInv

\* A passkey that was confirmed is there until its removal is asked for.
THEOREM PasskeysKept == LoginSpec => []PasskeysHonoured
  BY LoginInvariant, PTL DEF LoginInv

\* A passkey that was removed on disk stays removed.
THEOREM RemovalLasts == LoginSpec => []RemovedForGood
  BY LoginInvariant, PTL DEF LoginInv


=============================================================================
