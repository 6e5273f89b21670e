------------------------------ MODULE Accounts ------------------------------
(***************************************************************************)
(* User accounts: the records and name indexes of userStore.ts, the API    *)
(* keys of apiKeyStore.ts, the refresh tokens of refreshTokenStore.ts, and *)
(* the requests of auth.routes.ts and admin.routes.ts that change them.    *)
(* Nothing in Redis is changed in a transaction: a request is the sequence *)
(* of its commands, and those of different requests interleave.            *)
(*                                                                         *)
(* What a request creates carries the request's own name: its user id, key *)
(* id, webhook id or token is fresh.  A caller that has no live record is  *)
(* turned away; access tokens outlive everything else.  Of the requests    *)
(* that only read, POST /refresh is the state predicate CanRefresh.        *)
(***************************************************************************)
EXTENDS Naturals, FiniteSets

CONSTANTS
    Requests,    \* calls of the API
    Plans,       \* the call each of them makes (constructors below); Call: none
    Seeded,      \* users there are before
    Values,      \* usernames and e-mail addresses
    Passwords,   \* "p0": that of who registers
    SeedRecords, \* possible records of the seeded users
    SeedKeys, SeedTokens, SeedHooks,  \* what they own: id -> user
    MaxFaults,   \* bound: interruptions of requests
    None         \* null

Users == Seeded \cup Requests
Keys == DOMAIN SeedKeys \cup Requests
Tokens == DOMAIN SeedTokens \cup Requests
Hooks == DOMAIN SeedHooks \cup Requests
Owner == Users \cup {None}

Field == {"name", "mail"}
UserFields == {"name", "mail", "pw", "role", "tier"}
Tiers == {"free", "starter", "professional", "enterprise"}
Text == Values \cup Passwords \cup {"user", "admin"} \cup Tiers
NoUpdate == [x \in UserFields |-> None]
Gone == NoUpdate           \* no key user:<id>

\* crypto.randomUUID, randomBytes: what a request creates is new.
ASSUME NamesAssumption ==
    /\ None \notin Users \cup Text
    /\ Requests \cap (Seeded \cup DOMAIN SeedKeys \cup DOMAIN SeedTokens \cup DOMAIN SeedHooks) = {}
ASSUME PasswordsAssumption == "p0" \in Passwords
ASSUME FaultsAssumption == MaxFaults \in Nat
\* Seeded users have names and addresses of their own.
ASSUME SeedAssumption ==
    /\ SeedRecords \subseteq [Seeded -> [UserFields -> Text]]
    /\ \A seed \in SeedRecords, f \in Field, u, v \in Seeded :
          seed[u][f] \in Values /\ (seed[u][f] = seed[v][f] => u = v)
    /\ \A owned \in {SeedKeys, SeedTokens, SeedHooks} :
          \A i \in DOMAIN owned : owned[i] \in Seeded

-----------------------------------------------------------------------------
(* The calls *)

Call == [kind |-> "", caller |-> None, user |-> None, set |-> NoUpdate,
         pw |-> None, item |-> None]

\* Slip: the role is taken from the body.
Register_AnyRole(name, mail) ==
    [Call EXCEPT !.kind = "register",
        !.set = [name |-> name, mail |-> mail, pw |-> "p0", role |-> "admin", tier |-> "free"]]

\* POST /auth/register; the user is the request itself
Register(name, mail) ==
    [Call EXCEPT !.kind = "register",
        !.set = [name |-> name, mail |-> mail, pw |-> "p0", role |-> "user", tier |-> "free"]]
\* POST /auth/login with a username or an e-mail address
Login(value, pw) == [Call EXCEPT !.kind = "login", !.item = value, !.pw = pw]
Logout(token) == [Call EXCEPT !.kind = "logout", !.item = token]

Own(kind, u) == [Call EXCEPT !.kind = kind, !.caller = u, !.user = u]
LogoutAll(u) == Own("logoutAll", u)
Patch(u, name, mail) ==
    [Own("patch", u) EXCEPT !.set.name = name, !.set.mail = mail]
ChangePassword(u, current, new) ==
    [Own("password", u) EXCEPT !.pw = current, !.set.pw = new]
DeleteMe(u) == Own("delete", u)
CreateKey(u) == Own("createKey", u)
RevokeKey(u, key) == [Own("revokeKey", u) EXCEPT !.item = key]
CreateHook(u) == Own("createHook", u)
\* any request with an API key for credentials
UseKey(key) == [Call EXCEPT !.kind = "useKey", !.item = key]

\* /admin/users/:userId; all but upgrade turn the caller's own id away with 400
Admin(kind, a, u) == [Call EXCEPT !.kind = kind, !.caller = a, !.user = u]
Upgrade(a, u, tier) == [Admin("upgrade", a, u) EXCEPT !.set.tier = tier]
MakeAdmin(a, u) == [Admin("makeAdmin", a, u) EXCEPT !.set.role = "admin"]
RevokeAdmin(a, u) == [Admin("revokeAdmin", a, u) EXCEPT !.set.role = "user"]
AdminDelete(a, u) == Admin("adminDelete", a, u)

\* The calls there are, from callers with credentials of a user, for items
\* the API can name.
IsCall(c) ==
    \/ c = Call
    \/ c = Register(c.set.name, c.set.mail) /\ {c.set.name, c.set.mail} \subseteq Values
    \/ c = Login(c.item, c.pw) /\ c.item \in Values /\ c.pw \in Passwords
    \/ c = Logout(c.item) /\ c.item \in Tokens
    \/ c = UseKey(c.item) /\ c.item \in Keys
    \/ /\ c.user \in Users
       /\ \/ c \in {LogoutAll(c.user), DeleteMe(c.user), CreateKey(c.user), CreateHook(c.user)}
          \/ /\ c = Patch(c.user, c.set.name, c.set.mail)
             /\ {c.set.name, c.set.mail} \subseteq Values \cup {None}
          \/ c = ChangePassword(c.user, c.pw, c.set.pw) /\ {c.pw, c.set.pw} \subseteq Passwords
          \/ c = RevokeKey(c.user, c.item) /\ c.item \in Keys
    \/ /\ {c.user, c.caller} \subseteq Users
       /\ \/ c = Upgrade(c.caller, c.user, c.set.tier) /\ c.set.tier \in Tiers
          \/ /\ c.caller # c.user
             /\ c \in {MakeAdmin(c.caller, c.user), RevokeAdmin(c.caller, c.user),
                       AdminDelete(c.caller, c.user)}

ASSUME PlansAssumption == \A plan \in Plans, r \in Requests : IsCall(plan[r])

AdminKinds == {"upgrade", "makeAdmin", "revokeAdmin", "adminDelete"}
Updates == {"patch", "password", "upgrade", "makeAdmin", "revokeAdmin"}
Deletes == {"delete", "adminDelete"}
SessionEnding == {"logoutAll", "password"}
\* Calls that write the record of their user.
Writes == Updates \cup Deletes \cup {"register"}

-----------------------------------------------------------------------------

VARIABLES
    record,    \* key user:<id>
    index,     \* keys user:username:<name> and user:email:<mail>
    keyData,   \* key apikey:<hash>: its owner
    keyIds,    \* keys apikeyid:<id>
    keySet,    \* set user:<id>:apikeys
    token,     \* key refresh_token:<hash>: its user
    tokenSet,  \* set user:<id>:refresh_tokens
    hook,      \* key webhook:<id>: its owner
    hookIndex, \* keys user:<id>:webhooks:<id>
    op,        \* the call of each request
    pc,        \* the command it is at, or its answer
    field,     \* the index that command is about
    copy,      \* the user record it has read
    who,       \* a user id it has read
    todo,      \* ids it has read and has yet to treat
    met,       \* history: pairs of requests that overlapped
    had,       \* history: the user's tokens when the request began
    serial,    \* history: the records if updates did not overlap
    wasAdmin,  \* history: users that have been administrators
    faults

userVars == <<record, index>>
keyVars == <<keyData, keyIds, keySet>>
tokenVars == <<token, tokenSet>>
hookVars == <<hook, hookIndex>>
localVars == <<field, copy, who, todo>>
history == <<met, had, serial, wasAdmin>>
vars == <<userVars, keyVars, tokenVars, hookVars, op, pc, localVars, history, faults>>

Answers == {"ok", "refused", "failed"}
Active(r) == pc[r] \notin Answers \cup {"new"}
Target(r) == IF op[r].kind = "register" THEN r ELSE op[r].user

Init ==
    /\ \E seed \in SeedRecords :
          /\ record = [u \in Users |-> IF u \in Seeded THEN seed[u] ELSE Gone]
          /\ index = [f \in Field |-> [v \in Values |->
                        IF \E u \in Seeded : seed[u][f] = v
                        THEN CHOOSE u \in Seeded : seed[u][f] = v ELSE None]]
    /\ keyData = [k \in Keys |-> IF k \in DOMAIN SeedKeys THEN SeedKeys[k] ELSE None]
    /\ keyIds = DOMAIN SeedKeys
    /\ keySet = [u \in Users |-> { k \in DOMAIN SeedKeys : SeedKeys[k] = u }]
    /\ token = [t \in Tokens |-> IF t \in DOMAIN SeedTokens THEN SeedTokens[t] ELSE None]
    /\ tokenSet = [u \in Users |-> { t \in DOMAIN SeedTokens : SeedTokens[t] = u }]
    /\ hook = [h \in Hooks |-> IF h \in DOMAIN SeedHooks THEN SeedHooks[h] ELSE None]
    /\ hookIndex = [u \in Users |-> { h \in DOMAIN SeedHooks : SeedHooks[h] = u }]
    /\ op \in Plans
    /\ pc = [r \in Requests |-> IF op[r] = Call THEN "ok" ELSE "new"]
    /\ field = [r \in Requests |-> "name"]
    /\ copy = [r \in Requests |-> Gone]
    /\ who = [r \in Requests |-> None]
    /\ todo = [r \in Requests |-> {}]
    /\ met = {} /\ had = [r \in Requests |-> {}]
    /\ serial = record
    /\ wasAdmin = { u \in Users : record[u].role = "admin" }
    /\ faults = 0

Exists(u) == record[u] # Gone

GoTo(r, next) == pc' = [pc EXCEPT ![r] = next]

-----------------------------------------------------------------------------
(* Arrival and credentials *)

First(kind) ==
    CASE kind = "register" -> "check"
      [] kind = "login"    -> "findName"
      [] kind = "logout"   -> "getToken"
      [] kind = "useKey"   -> "useKey"
      [] OTHER             -> "auth"

Arrive(r) ==
    /\ pc[r] = "new"
    /\ GoTo(r, First(op[r].kind))
    /\ met' = met \cup { {r, s} : s \in { q \in Requests : Active(q) } }
    /\ had' = [had EXCEPT ![r] = IF op[r].user = None THEN {} ELSE tokenSet[op[r].user]]
    /\ UNCHANGED <<userVars, keyVars, tokenVars, hookVars, op, localVars, serial,
                   wasAdmin, faults>>

Routed(kind) ==
    CASE kind = "logoutAll"  -> "members"
      [] kind = "patch"      -> "read"
      [] kind = "revokeKey"  -> "getKeyId"
      [] kind = "createHook" -> "setHook"
      [] OTHER               -> "load"

\* authenticateJWT reads the caller; requireAdmin looks at the role read
Authenticate(r) ==
    /\ pc[r] = "auth"
    /\ LET caller == record[op[r].caller]
       IN  GoTo(r, IF caller = Gone \/ (op[r].kind \in AdminKinds /\ caller.role # "admin")
                   THEN "refused" ELSE Routed(op[r].kind))
    /\ UNCHANGED <<userVars, keyVars, tokenVars, hookVars, op, localVars, history, faults>>

\* What the handler asks of the user it reads first.
Acceptable(o, user) ==
    /\ user # Gone
    /\ o.kind = "makeAdmin" => user.role # "admin"
    /\ o.kind = "revokeAdmin" => user.role = "admin"
    /\ o.kind = "password" => user.pw = o.pw

\* The getUserById of the handler itself (of generateApiKey, for createKey)
Load(r) ==
    /\ pc[r] = "load"
    /\ GoTo(r, IF ~Acceptable(op[r], record[op[r].user]) THEN "refused"
               ELSE IF op[r].kind = "createKey" THEN "setKey" ELSE "read")
    /\ UNCHANGED <<userVars, keyVars, tokenVars, hookVars, op, localVars, history, faults>>

-----------------------------------------------------------------------------
(* createUser and updateUser *)

\* A new value for f is asked for.
Moves(o, user, f) == o.set[f] # None /\ o.set[f] # user[f]

\* The getUserById of updateUser or deleteUser.  deleteUser finding nothing
\* is not an error to its callers.
Read(r) ==
    /\ pc[r] = "read"
    /\ LET o == op[r]
           user == record[o.user]
       IN  /\ copy' = [copy EXCEPT ![r] = user]
           /\ field' = [field EXCEPT ![r] = IF Moves(o, user, "name") THEN "name" ELSE "mail"]
           /\ GoTo(r, CASE user = Gone -> IF o.kind \in Deletes THEN "ok" ELSE "refused"
                        [] user # Gone /\ o.kind \in Deletes -> "keys"
                        [] OTHER -> IF \E f \in Field : Moves(o, user, f)
                                    THEN "check" ELSE "write")
    /\ UNCHANGED <<userVars, keyVars, tokenVars, hookVars, op, who, todo, history, faults>>

\* GET of the index: is the new value free?
Check(r) ==
    /\ pc[r] = "check"
    /\ LET f == field[r]
           holder == index[f][op[r].set[f]]
           new == op[r].kind = "register"
       IN  \/ /\ holder # None /\ (new \/ holder # op[r].user)
              /\ GoTo(r, "refused") /\ UNCHANGED field
           \/ /\ ~new /\ holder \in {None, op[r].user}
              /\ GoTo(r, "drop") /\ UNCHANGED field
           \/ /\ new /\ holder = None
              /\ GoTo(r, IF f = "name" THEN "check" ELSE "write")
              /\ field' = [field EXCEPT ![r] = IF f = "name" THEN "mail" ELSE "name"]
    /\ UNCHANGED <<userVars, keyVars, tokenVars, hookVars, op, copy, who, todo, history,
                   faults>>

\* Slip: the entry of the old value stays.
Drop_Forgotten(r) ==
    /\ pc[r] = "drop"
    /\ IF op[r].kind \in Deletes
       THEN /\ GoTo(r, IF field[r] = "name" THEN "drop" ELSE "ok")
            /\ field' = [field EXCEPT ![r] = "mail"]
       ELSE GoTo(r, "set") /\ UNCHANGED field
    /\ UNCHANGED <<userVars, keyVars, tokenVars, hookVars, op, copy, who, todo, history,
                   faults>>

\* DEL of an index entry of the record read: before the new one is set, and
\* at the end of deleteUser
Drop(r) ==
    /\ pc[r] = "drop"
    /\ index' = [index EXCEPT ![field[r]][copy[r][field[r]]] = None]
    /\ IF op[r].kind \in Deletes
       THEN /\ GoTo(r, IF field[r] = "name" THEN "drop" ELSE "ok")
            /\ field' = [field EXCEPT ![r] = "mail"]
       ELSE GoTo(r, "set") /\ UNCHANGED field
    /\ UNCHANGED <<record, keyVars, tokenVars, hookVars, op, copy, who, todo, history,
                   faults>>

\* SET of an index entry
SetIndex(r) ==
    /\ pc[r] = "set"
    /\ LET o == op[r]
           f == field[r]
           more == f = "name" /\ (o.kind = "register" \/ Moves(o, copy[r], "mail"))
       IN  /\ index' = [index EXCEPT ![f][o.set[f]] = Target(r)]
           /\ field' = [field EXCEPT ![r] = IF more THEN "mail" ELSE f]
           /\ GoTo(r, IF o.kind = "register"
                      THEN (IF more THEN "set" ELSE "setToken")
                      ELSE (IF more THEN "check" ELSE "write"))
    /\ UNCHANGED <<record, keyVars, tokenVars, hookVars, op, copy, who, todo, history,
                   faults>>

\* Slip: { ...user, ...updates } of a PATCH with fields left undefined.
Updated_Undefined(user, updates) ==
    [x \in UserFields |-> IF x = "tier" \/ updates[x] # None THEN updates[x] ELSE user[x]]

\* { ...user, ...updates }
Updated(user, updates) ==
    [x \in UserFields |-> IF updates[x] # None THEN updates[x] ELSE user[x]]

\* Slip: the record is written from what updateUser was given.
WriteUser_FieldsOnly(r) ==
    /\ pc[r] = "write"
    /\ LET u == Target(r)
           o == op[r]
       IN  /\ record' = [record EXCEPT ![u] = o.set]
           /\ serial' = [serial EXCEPT ![u] =
                           IF @ = Gone /\ o.kind # "register" THEN Gone
                           ELSE Updated(@, o.set)]
           /\ who' = [who EXCEPT ![r] = u]
           /\ GoTo(r, CASE o.kind = "register" -> "set"
                        [] o.kind = "password" -> "members"
                        [] OTHER -> "ok")
    /\ UNCHANGED <<index, keyVars, tokenVars, hookVars, op, field, copy, todo, met, had,
                   wasAdmin, faults>>

\* SET user:<id>: the whole record, from what was read
WriteUser(r) ==
    /\ pc[r] = "write"
    /\ LET u == Target(r)
           o == op[r]
       IN  /\ record' = [record EXCEPT ![u] = Updated(copy[r], o.set)]
           /\ serial' = [serial EXCEPT ![u] =
                           IF @ = Gone /\ o.kind # "register" THEN Gone
                           ELSE Updated(@, o.set)]
           /\ wasAdmin' = wasAdmin \cup { v \in {u} : record'[u].role = "admin" }
           /\ who' = [who EXCEPT ![r] = u]
           /\ GoTo(r, CASE o.kind = "register" -> "set"
                        [] o.kind = "password" -> "members"
                        [] OTHER -> "ok")
    /\ UNCHANGED <<index, keyVars, tokenVars, hookVars, op, field, copy, todo, met, had,
                   faults>>

-----------------------------------------------------------------------------
(* Refresh tokens: storeRefreshToken, revokeRefreshToken,                   *)
(* revokeAllUserRefreshTokens                                               *)

\* getUserByUsername, then getUserByEmail: GET of an index
FindUser(r) ==
    /\ pc[r] \in {"findName", "findMail"}
    /\ LET f == IF pc[r] = "findName" THEN "name" ELSE "mail"
           u == index[f][op[r].item]
       IN  /\ who' = [who EXCEPT ![r] = u]
           /\ field' = [field EXCEPT ![r] = f]
           /\ GoTo(r, CASE u # None -> "found"
                        [] u = None /\ f = "name" -> "findMail"
                        [] OTHER -> "refused")
    /\ UNCHANGED <<userVars, keyVars, tokenVars, hookVars, op, copy, todo, history, faults>>

\* GET of the user it names, and the password
Found(r) ==
    /\ pc[r] = "found"
    /\ LET user == record[who[r]]
       IN  GoTo(r, CASE user = Gone -> IF field[r] = "name" THEN "findMail" ELSE "refused"
                     [] user # Gone /\ user.pw # op[r].pw -> "refused"
                     [] OTHER -> "setToken")
    /\ UNCHANGED <<userVars, keyVars, tokenVars, hookVars, op, localVars, history, faults>>

StoreToken(r) ==
    /\ \/ /\ pc[r] = "setToken" /\ GoTo(r, "addToken")
          /\ token' = [token EXCEPT ![r] = who[r]]
          /\ UNCHANGED tokenSet
       \/ /\ pc[r] = "addToken" /\ GoTo(r, "ok")
          /\ tokenSet' = [tokenSet EXCEPT ![who[r]] = @ \cup {r}]
          /\ UNCHANGED token
    /\ UNCHANGED <<userVars, keyVars, hookVars, op, localVars, history, faults>>

\* POST /auth/logout: GET, SREM if there was one, DEL
RevokeToken(r) ==
    /\ LET t == op[r].item
       IN  \/ /\ pc[r] = "getToken"
              /\ who' = [who EXCEPT ![r] = token[t]]
              /\ GoTo(r, IF token[t] = None THEN "delToken" ELSE "remToken")
              /\ UNCHANGED tokenVars
           \/ /\ pc[r] = "remToken" /\ GoTo(r, "delToken")
              /\ tokenSet' = [tokenSet EXCEPT ![who[r]] = @ \ {t}]
              /\ UNCHANGED <<token, who>>
           \/ /\ pc[r] = "delToken" /\ GoTo(r, "ok")
              /\ token' = [token EXCEPT ![t] = None]
              /\ UNCHANGED <<tokenSet, who>>
    /\ UNCHANGED <<userVars, keyVars, hookVars, op, field, copy, todo, history, faults>>

\* Slip: the set is cleared, the tokens are left to expire.
RevokeAll_OnlySet(r) ==
    /\ pc[r] = "members" /\ GoTo(r, "ok")
    /\ tokenSet' = [tokenSet EXCEPT ![op[r].user] = {}]
    /\ UNCHANGED <<userVars, keyVars, token, hookVars, op, localVars, history, faults>>

\* POST /auth/refresh gives a new access token for t.
CanRefresh(t) == token[t] # None /\ Exists(token[t])

\* SMEMBERS; the DEL of every token at once; DEL of the set
RevokeAll(r) ==
    /\ LET u == op[r].user
       IN  \/ /\ pc[r] = "members"
              /\ todo' = [todo EXCEPT ![r] = tokenSet[u]]
              /\ GoTo(r, IF tokenSet[u] = {} THEN "ok" ELSE "revoke")
              /\ UNCHANGED tokenVars
           \/ /\ pc[r] = "revoke"
              /\ \E t \in todo[r] :
                    /\ token' = [token EXCEPT ![t] = None]
                    /\ todo' = [todo EXCEPT ![r] = @ \ {t}]
              /\ GoTo(r, IF todo'[r] = {} THEN "clear" ELSE "revoke")
              /\ UNCHANGED tokenSet
           \/ /\ pc[r] = "clear" /\ GoTo(r, "ok")
              /\ tokenSet' = [tokenSet EXCEPT ![u] = {}]
              /\ UNCHANGED <<token, todo>>
    /\ UNCHANGED <<userVars, keyVars, hookVars, op, field, copy, who, history, faults>>

-----------------------------------------------------------------------------
(* API keys: generateApiKey, validateApiKey, revokeApiKey; POST /webhooks   *)

CreateApiKey(r) ==
    /\ LET u == op[r].user
       IN  \/ /\ pc[r] = "setKey" /\ GoTo(r, "addKey")
              /\ keyData' = [keyData EXCEPT ![r] = u]
              /\ UNCHANGED <<keyIds, keySet>>
           \/ /\ pc[r] = "addKey" /\ GoTo(r, "setKeyId")
              /\ keySet' = [keySet EXCEPT ![u] = @ \cup {r}]
              /\ UNCHANGED <<keyData, keyIds>>
           \/ /\ pc[r] = "setKeyId" /\ GoTo(r, "ok")
              /\ keyIds' = keyIds \cup {r}
              /\ UNCHANGED <<keyData, keySet>>
    /\ UNCHANGED <<userVars, tokenVars, hookVars, op, localVars, history, faults>>

\* validateApiKey: GET of the key, then the SET of last_used_at that nobody
\* waits for, from what was read.  The GET of the user changes nothing.
UseApiKey(r) ==
    /\ LET k == op[r].item
       IN  \/ /\ pc[r] = "useKey"
              /\ who' = [who EXCEPT ![r] = keyData[k]]
              /\ GoTo(r, IF keyData[k] = None THEN "refused" ELSE "touch")
              /\ UNCHANGED keyData
           \/ /\ pc[r] = "touch"
              /\ keyData' = [keyData EXCEPT ![k] = who[r]]
              /\ GoTo(r, "ok")
              /\ UNCHANGED who
    /\ UNCHANGED <<userVars, keyIds, keySet, tokenVars, hookVars, op, field, copy, todo,
                   history, faults>>

\* Slip: the key id goes, the key stays.
RevokeApiKey_OnlyId(r) ==
    /\ pc[r] = "getKeyId" /\ GoTo(r, "ok")
    /\ keyIds' = keyIds \ {op[r].item}
    /\ UNCHANGED <<userVars, keyData, keySet, tokenVars, hookVars, op, localVars, history,
                   faults>>

\* revokeApiKey: two GETs and the owner's check, then DEL, DEL, SREM
RevokeApiKey(r) ==
    /\ LET k == op[r].item
           u == op[r].user
       IN  \/ /\ pc[r] = "getKeyId"
              /\ GoTo(r, IF k \in keyIds THEN "getKey" ELSE "refused")
              /\ UNCHANGED keyVars
           \/ /\ pc[r] = "getKey"
              /\ GoTo(r, IF keyData[k] = u THEN "delKey" ELSE "refused")
              /\ UNCHANGED keyVars
           \/ /\ pc[r] = "delKey" /\ GoTo(r, "delKeyId")
              /\ keyData' = [keyData EXCEPT ![k] = None]
              /\ UNCHANGED <<keyIds, keySet>>
           \/ /\ pc[r] = "delKeyId" /\ GoTo(r, "remKey")
              /\ keyIds' = keyIds \ {k}
              /\ UNCHANGED <<keyData, keySet>>
           \/ /\ pc[r] = "remKey" /\ GoTo(r, "ok")
              /\ keySet' = [keySet EXCEPT ![u] = @ \ {k}]
              /\ UNCHANGED <<keyData, keyIds>>
    /\ UNCHANGED <<userVars, tokenVars, hookVars, op, localVars, history, faults>>

\* createWebhook: the record, the index
CreateWebhook(r) ==
    /\ \/ /\ pc[r] = "setHook" /\ GoTo(r, "setHookIndex")
          /\ hook' = [hook EXCEPT ![r] = op[r].user]
          /\ UNCHANGED hookIndex
       \/ /\ pc[r] = "setHookIndex" /\ GoTo(r, "ok")
          /\ hookIndex' = [hookIndex EXCEPT ![op[r].user] = @ \cup {r}]
          /\ UNCHANGED hook
    /\ UNCHANGED <<userVars, keyVars, tokenVars, op, localVars, history, faults>>

-----------------------------------------------------------------------------
(* deleteUser, after its first GET                                          *)

\* Slip: the set of the keys goes, the keys stay.
DeleteKeys_OnlySet(r) ==
    /\ pc[r] = "keys" /\ GoTo(r, "hooks")
    /\ keySet' = [keySet EXCEPT ![op[r].user] = {}]
    /\ UNCHANGED <<userVars, keyData, keyIds, tokenVars, hookVars, op, localVars, history,
                   faults>>

\* SMEMBERS of the keys; per key GET of its id and, if it is there, DEL and
\* DEL; DEL of the set
DeleteKeys(r) ==
    /\ LET u == op[r].user
       IN  \/ /\ pc[r] = "keys"
              /\ todo' = [todo EXCEPT ![r] = keySet[u]]
              /\ GoTo(r, IF keySet[u] = {} THEN "hooks" ELSE "keyOf")
              /\ UNCHANGED <<who, keyVars>>
           \/ /\ pc[r] = "keyOf" /\ todo[r] # {}
              /\ \E k \in todo[r] :
                    IF k \in keyIds
                    THEN /\ who' = [who EXCEPT ![r] = k] /\ GoTo(r, "eraseKey")
                         /\ UNCHANGED todo
                    ELSE /\ todo' = [todo EXCEPT ![r] = @ \ {k}] /\ UNCHANGED <<who, pc>>
              /\ UNCHANGED keyVars
           \/ /\ pc[r] = "eraseKey" /\ GoTo(r, "eraseKeyId")
              /\ keyData' = [keyData EXCEPT ![who[r]] = None]
              /\ UNCHANGED <<keyIds, keySet, who, todo>>
           \/ /\ pc[r] = "eraseKeyId" /\ GoTo(r, "keyOf")
              /\ keyIds' = keyIds \ {who[r]}
              /\ todo' = [todo EXCEPT ![r] = @ \ {who[r]}]
              /\ UNCHANGED <<keyData, keySet, who>>
           \/ /\ pc[r] = "keyOf" /\ todo[r] = {} /\ GoTo(r, "hooks")
              /\ keySet' = [keySet EXCEPT ![u] = {}]
              /\ UNCHANGED <<keyData, keyIds, who, todo>>
    /\ UNCHANGED <<userVars, tokenVars, hookVars, op, field, copy, history, faults>>

\* SCAN of the webhook index; per webhook DEL of the record (and of its
\* deliveries), DEL of the index key
DeleteHooks(r) ==
    /\ LET u == op[r].user
       IN  \/ /\ pc[r] = "hooks"
              /\ todo' = [todo EXCEPT ![r] = hookIndex[u]]
              /\ GoTo(r, IF hookIndex[u] = {} THEN "erase" ELSE "eraseHook")
              /\ UNCHANGED <<who, hookVars>>
           \/ /\ pc[r] = "eraseHook"
              /\ \E h \in todo[r] :
                    /\ hook' = [hook EXCEPT ![h] = None]
                    /\ who' = [who EXCEPT ![r] = h]
                    /\ todo' = [todo EXCEPT ![r] = @ \ {h}]
              /\ GoTo(r, "unlistHook")
              /\ UNCHANGED hookIndex
           \/ /\ pc[r] = "unlistHook"
              /\ hookIndex' = [hookIndex EXCEPT ![u] = @ \ {who[r]}]
              /\ GoTo(r, IF todo[r] = {} THEN "erase" ELSE "eraseHook")
              /\ UNCHANGED <<hook, who, todo>>
    /\ UNCHANGED <<userVars, keyVars, tokenVars, op, field, copy, history, faults>>

\* DEL of the record; Drop deletes the index entries
EraseUser(r) ==
    /\ pc[r] = "erase" /\ GoTo(r, "drop")
    /\ record' = [record EXCEPT ![op[r].user] = Gone]
    /\ serial' = [serial EXCEPT ![op[r].user] = Gone]
    /\ field' = [field EXCEPT ![r] = "name"]
    /\ UNCHANGED <<index, keyVars, tokenVars, hookVars, op, copy, who, todo, met, had,
                   wasAdmin, faults>>

-----------------------------------------------------------------------------

\* Commands fail, or the process dies: those requests stop where they are.
Interrupt ==
    /\ faults < MaxFaults /\ faults' = faults + 1
    /\ \E rs \in SUBSET { r \in Requests : Active(r) } \ {{}} :
          pc' = [r \in Requests |-> IF r \in rs THEN "failed" ELSE pc[r]]
    /\ UNCHANGED <<userVars, keyVars, tokenVars, hookVars, op, localVars, history>>

Command(r) ==
    \/ Authenticate(r) \/ Load(r)
    \/ Read(r) \/ Check(r) \/ Drop(r) \/ SetIndex(r) \/ WriteUser(r)
    \/ FindUser(r) \/ Found(r) \/ StoreToken(r) \/ RevokeToken(r) \/ RevokeAll(r)
    \/ CreateApiKey(r) \/ UseApiKey(r) \/ RevokeApiKey(r) \/ CreateWebhook(r)
    \/ DeleteKeys(r) \/ DeleteHooks(r) \/ EraseUser(r)

Done == (\A r \in Requests : pc[r] \in Answers) /\ UNCHANGED vars

Next == (\E r \in Requests : Arrive(r) \/ Command(r)) \/ Interrupt \/ Done

Spec == Init /\ [][Next]_vars

-----------------------------------------------------------------------------
(* Properties *)

TypeOK ==
    /\ record \in [Users -> [UserFields -> Text] \cup {Gone}]
    /\ index \in [Field -> [Values -> Owner]]
    /\ keyData \in [Keys -> Owner] /\ keyIds \subseteq Keys
    /\ keySet \in [Users -> SUBSET Keys]
    /\ token \in [Tokens -> Owner] /\ tokenSet \in [Users -> SUBSET Tokens]
    /\ hook \in [Hooks -> Owner] /\ hookIndex \in [Users -> SUBSET Hooks]
    /\ op \in Plans
    /\ field \in [Requests -> Field]
    /\ faults \in 0..MaxFaults

\* Two calls that write the record of u were under way at the same time.
Clash(u) ==
    \E r, s \in Requests :
        /\ r # s /\ {r, s} \in met
        /\ {op[r].kind, op[s].kind} \subseteq Writes /\ Target(r) = u /\ Target(s) = u

\* Two calls asked for the same username or address at the same time.
Contended(f, v) ==
    \E r, s \in Requests : r # s /\ {r, s} \in met /\ op[r].set[f] = v /\ op[s].set[f] = v

\* A write of u stopped half-way: it was interrupted, or it moved the
\* username and then found the e-mail address taken.
Torn(u) ==
    \E r \in Requests :
        /\ Target(r) = u /\ op[r].kind \in Writes
        /\ \/ pc[r] = "failed"
           \/ /\ pc[r] = "refused"
              /\ \A f \in Field : op[r].set[f] # None

\* No update is lost and no deleted user comes back, unless two calls that
\* write the same record overlap (updateUser writes back what it read).
RecordsAreSerial == \A u \in Users : ~Clash(u) => record[u] = serial[u]

\* r gives v up or asks for it.
Touches(r, f, v) ==
    op[r].kind \in Writes /\ v \in {copy[r][f], op[r].set[f]}

Settled(f, v) ==
    /\ ~Contended(f, v)
    /\ \A r \in Requests :
          Touches(r, f, v) => ~Active(r) /\ ~Clash(Target(r)) /\ ~Torn(Target(r))

\* The index names exactly the user that has a username or an address, but
\* for those that two calls asked for at once and those of users that two
\* calls changed at once or one left half-changed (userStore.ts:40, 115).
IndexesAgree ==
    \A f \in Field, v \in Values : Settled(f, v) =>
        \A u \in Users : index[f][v] = u <=> record[u][f] = v

\* An administrator is made by an administrator; a role that was taken away
\* can only come back with the record of one that had it.
AdminsAreMade ==
    [][\A u \in Users :
          record[u].role # "admin" /\ record'[u].role = "admin" =>
             \/ u \in wasAdmin
             \/ \E r \in Requests :
                   pc[r] = "write" /\ op[r].kind = "makeAdmin" /\ Target(r) = u
                   /\ op[r].caller \in wasAdmin]_vars

\* Changing the password or logging out everywhere ends every session that
\* was listed when it began (auth.routes.ts:227, 347).  Two exceptions: a
\* logout under way has taken its token off the list before it deletes it,
\* and a second logout everywhere clears a list that has grown since it was
\* read.
SessionsEnd ==
    \A r \in Requests :
        op[r].kind \in SessionEnding /\ pc[r] = "ok" =>
            \A t \in had[r] : CanRefresh(t) =>
                \E s \in Requests \ {r} : {r, s} \in met
                    /\ \/ op[s] = Logout(t)
                       \/ op[s].kind \in SessionEnding /\ op[s].user = op[r].user

Overlapped(r, kinds) == \E s \in Requests \ {r} : {r, s} \in met /\ op[s].kind \in kinds

\* A revoked key is of no use any more, unless it was used while it was
\* revoked (apiKeyStore.ts:100).
RevokedKeyIsDead ==
    \A r \in Requests :
        op[r].kind = "revokeKey" /\ pc[r] = "ok" /\ ~Overlapped(r, {"useKey"}) =>
            keyData[op[r].item] = None

\* Two calls about u or with an API key overlapped, or one stopped half-way.
Disturbed(u) ==
    LET about == { s \in Requests : Target(s) = u \/ op[s].kind = "useKey" }
    IN  \/ \E r, s \in about : r # s /\ {r, s} \in met
        \/ \E s \in about : pc[s] = "failed" \/ Torn(u)

\* deleteUser leaves no name, key or webhook of the user behind, unless
\* calls about the same user overlap or were left half-done.
DeletedUserIsGone ==
    \A r \in Requests :
        LET u == Target(r)
        IN  op[r].kind \in Deletes /\ pc[r] = "ok" /\ ~Disturbed(u) =>
                /\ ~Exists(u)
                /\ \A f \in Field, v \in Values : index[f][v] # u
                /\ \A k \in Keys : keyData[k] # u
                /\ \A h \in Hooks : hook[h] # u
=============================================================================
