--------------------------- MODULE AccountsProofs ---------------------------
(***************************************************************************)
(* What the user accounts guarantee for any number of requests, users and  *)
(* keys, however the commands of the requests interleave and wherever they *)
(* are interrupted.                                                        *)
(***************************************************************************)
EXTENDS Accounts, TLAPS

Records == { user \in [UserFields -> Text] : \A f \in Field : user[f] \in Values }
Unowned == {"", "register", "login", "logout", "useKey"}
Kinds == Unowned \cup AdminKinds
         \cup {"logoutAll", "patch", "password", "delete", "createKey", "revokeKey", "createHook"}

\* What a call of each kind carries.
Shape(c) ==
    /\ c.kind \in Kinds
    /\ c.set \in [UserFields -> Text \cup {None}]
    /\ \A f \in Field : c.set[f] \in Values \cup {None}
    /\ c.user \in Owner
    /\ c.kind = "" => c = Call
    /\ c.kind \notin Unowned => c.user \in Users /\ c.caller \in Users
    /\ c.kind = "register" => /\ \A f \in Field : c.set[f] \in Values
                              /\ c.set \in Records /\ c.user = None
    /\ c.kind = "login" => c.item \in Values
    /\ c.kind = "logout" => c.item \in Tokens /\ c = Logout(c.item)
    /\ c.kind \in {"useKey", "revokeKey"} => c.item \in Keys
    /\ c.set["role"] = "admin" => c.kind = "makeAdmin"
    /\ c.kind \notin {"register", "patch"} => \A f \in Field : c.set[f] = None

LEMMA Words ==
    /\ {"user", "admin", "free", "p0"} \subseteq Text /\ None \notin Text
    /\ None \notin Users /\ None \notin Values /\ None \in Owner /\ Users \subseteq Owner
    /\ Tiers \subseteq Text /\ Passwords \subseteq Text /\ Values \subseteq Text
    /\ UserFields = {"name", "mail", "pw", "role", "tier"} /\ Field = {"name", "mail"}
  BY NamesAssumption, PasswordsAssumption DEF Text, Tiers, Owner, UserFields, Field

\* A call that changes none or one of the fields that are not indexed.
LEMMA PlainShape ==
    /\ NoUpdate \in [UserFields -> Text \cup {None}]
    /\ \A x \in UserFields : NoUpdate[x] = None
    /\ \A x \in UserFields \ Field, v \in Text :
          /\ [NoUpdate EXCEPT ![x] = v] \in [UserFields -> Text \cup {None}]
          /\ \A y \in UserFields : [NoUpdate EXCEPT ![x] = v][y] = IF y = x THEN v ELSE None
  BY DEF NoUpdate

LEMMA CallsHaveShape ==
    ASSUME NEW c, IsCall(c) PROVE Shape(c)
<1> USE Words
<1>1. ASSUME c.set = NoUpdate, c.kind \in Kinds \ {"register"}, c.user \in Owner,
             c.kind \notin Unowned => c.user \in Users /\ c.caller \in Users,
             c.kind = "" => c = Call, c.kind = "login" => c.item \in Values,
             c.kind = "logout" => c.item \in Tokens /\ c = Logout(c.item),
             c.kind \in {"useKey", "revokeKey"} => c.item \in Keys
      PROVE  Shape(c)
  <2>1. c.set \in [UserFields -> Text \cup {None}] /\ \A x \in UserFields : c.set[x] = None
    BY <1>1, PlainShape
  <2>2. c.set["role"] # "admin" /\ \A f \in Field : c.set[f] = None
    BY <2>1
  <2> QED BY <1>1, <2>1, <2>2 DEF Shape
<1>2. ASSUME NEW x \in UserFields \ Field, NEW v \in Text, c.set = [NoUpdate EXCEPT ![x] = v],
             c.kind \in Kinds \ Unowned, c.kind \notin {"patch", "revokeKey"},
             c.user \in Users, c.caller \in Users,
             x = "role" /\ v = "admin" => c.kind = "makeAdmin"
      PROVE  Shape(c)
  <2>1. c.set \in [UserFields -> Text \cup {None}]
    BY <1>2, PlainShape
  <2>2. \A y \in UserFields : c.set[y] = IF y = x THEN v ELSE None
    BY <1>2, PlainShape
  <2>3. \A f \in Field : f \in UserFields /\ c.set[f] = None
    BY <1>2, <2>2
  <2>4. c.set["role"] = "admin" => c.kind = "makeAdmin"
    BY <1>2, <2>2
  <2>5. c.kind \in Kinds /\ c.kind \notin Unowned
    BY <1>2
  <2> QED BY <1>2, <2>1, <2>3, <2>4, <2>5 DEF Shape, Unowned
<1>3. CASE c = Call
  BY <1>1, <1>3 DEF Call, Kinds, Unowned
<1>4. CASE c = Register(c.set.name, c.set.mail) /\ {c.set.name, c.set.mail} \subseteq Values
  <2>1. c.set = [name |-> c.set.name, mail |-> c.set.mail, pw |-> "p0", role |-> "user",
                 tier |-> "free"] /\ c.kind = "register" /\ c.user = None
    BY <1>4 DEF Register, Call
  <2>2. c.set \in [UserFields -> Text] /\ c.set \in Records
    BY <1>4, <2>1 DEF Records
  <2>3. c.set \in [UserFields -> Text \cup {None}]
    BY <2>2
  <2>4. c.set["name"] \in Values /\ c.set["mail"] \in Values /\ c.set["role"] = "user"
    BY <1>4, <2>1
  <2> QED BY <2>1, <2>2, <2>3, <2>4 DEF Shape, Kinds, Unowned
<1>5. CASE c.user \in Users /\ c = Patch(c.user, c.set.name, c.set.mail)
             /\ {c.set.name, c.set.mail} \subseteq Values \cup {None}
  <2>1. /\ c.kind = "patch" /\ c.caller \in Users
        /\ c.set = [[NoUpdate EXCEPT !.name = c.set.name] EXCEPT !.mail = c.set.mail]
    BY <1>5 DEF Patch, Own, Call
  <2>2. /\ c.set \in [UserFields -> Text \cup {None}] /\ c.set["name"] \in Values \cup {None}
        /\ c.set["mail"] \in Values \cup {None} /\ c.set["role"] = None
    BY <1>5, <2>1 DEF NoUpdate
  <2> QED BY <1>5, <2>1, <2>2 DEF Shape, Kinds, Unowned
<1>6. CASE c = Login(c.item, c.pw) /\ c.item \in Values /\ c.pw \in Passwords
  BY <1>1, <1>6 DEF Login, Call, Kinds, Unowned
<1>7. CASE c = Logout(c.item) /\ c.item \in Tokens
  <2>1. c.set = NoUpdate /\ c.kind = "logout" /\ c.user = None
    BY <1>7 DEF Logout, Call
  <2> QED BY <1>1, <1>7, <2>1 DEF Kinds, Unowned
<1>8. CASE c = UseKey(c.item) /\ c.item \in Keys
  <2>1. c.set = NoUpdate /\ c.kind = "useKey" /\ c.user = None
    BY <1>8 DEF UseKey, Call
  <2> QED BY <1>1, <1>8, <2>1 DEF Kinds, Unowned
<1>9. CASE c.user \in Users
             /\ c \in {LogoutAll(c.user), DeleteMe(c.user), CreateKey(c.user), CreateHook(c.user)}
  <2>1. /\ c.set = NoUpdate /\ c.caller \in Users
        /\ c.kind \in {"logoutAll", "delete", "createKey", "createHook"}
    BY <1>9 DEF LogoutAll, DeleteMe, CreateKey, CreateHook, Own, Call
  <2> QED BY <1>1, <1>9, <2>1 DEF Kinds, Unowned
<1>10. CASE c.user \in Users /\ c = ChangePassword(c.user, c.pw, c.set.pw)
              /\ {c.pw, c.set.pw} \subseteq Passwords
  <2>1. c.set = [NoUpdate EXCEPT !["pw"] = c.set.pw] /\ c.kind = "password" /\ c.caller \in Users
    BY <1>10 DEF ChangePassword, Own, Call
  <2>2. "pw" \in UserFields \ Field /\ c.set.pw \in Text
    BY <1>10
  <2> QED BY <1>2, <1>10, <2>1, <2>2 DEF Kinds, Unowned
<1>11. CASE c.user \in Users /\ c = RevokeKey(c.user, c.item) /\ c.item \in Keys
  <2>1. c.set = NoUpdate /\ c.kind = "revokeKey" /\ c.caller \in Users
    BY <1>11 DEF RevokeKey, Own, Call
  <2> QED BY <1>1, <1>11, <2>1 DEF Kinds, Unowned
<1>12. CASE {c.user, c.caller} \subseteq Users /\ c = Upgrade(c.caller, c.user, c.set.tier)
              /\ c.set.tier \in Tiers
  <2>1. c.set = [NoUpdate EXCEPT !["tier"] = c.set.tier] /\ c.kind = "upgrade"
    BY <1>12 DEF Upgrade, Admin, Call
  <2>2. "tier" \in UserFields \ Field /\ c.set.tier \in Text
    BY <1>12
  <2> QED BY <1>2, <1>12, <2>1, <2>2 DEF Kinds, Unowned, AdminKinds
<1>13. CASE {c.user, c.caller} \subseteq Users /\ c = MakeAdmin(c.caller, c.user)
  <2>1. c.set = [NoUpdate EXCEPT !["role"] = "admin"] /\ c.kind = "makeAdmin"
    BY <1>13 DEF MakeAdmin, Admin, Call
  <2>2. "role" \in UserFields \ Field
    OBVIOUS
  <2> QED BY <1>2, <1>13, <2>1, <2>2 DEF Kinds, Unowned, AdminKinds
<1>14. CASE {c.user, c.caller} \subseteq Users /\ c = RevokeAdmin(c.caller, c.user)
  <2>1. c.set = [NoUpdate EXCEPT !["role"] = "user"] /\ c.kind = "revokeAdmin"
    BY <1>14 DEF RevokeAdmin, Admin, Call
  <2>2. "role" \in UserFields \ Field
    OBVIOUS
  <2> QED BY <1>2, <1>14, <2>1, <2>2 DEF Kinds, Unowned, AdminKinds
<1>15. CASE {c.user, c.caller} \subseteq Users /\ c = AdminDelete(c.caller, c.user)
  <2>1. c.set = NoUpdate /\ c.kind = "adminDelete"
    BY <1>15 DEF AdminDelete, Admin, Call
  <2> QED BY <1>1, <1>15, <2>1 DEF Kinds, Unowned, AdminKinds
<1> QED BY <1>3, <1>4, <1>5, <1>6, <1>7, <1>8, <1>9, <1>10, <1>11, <1>12, <1>13, <1>14, <1>15
        DEF IsCall

-----------------------------------------------------------------------------
(* Types, and where a request can be *)

Updating == {"read", "check", "drop", "set", "write"}
Erasing == {"keys", "keyOf", "eraseKey", "eraseKeyId", "hooks", "eraseHook", "unlistHook", "erase"}
Places ==
    Answers \cup Updating \cup Erasing
    \cup {"new", "auth", "load", "findName", "findMail", "found", "setToken", "addToken",
          "getToken", "remToken", "delToken", "members", "revoke", "clear", "setKey", "addKey",
          "setKeyId", "useKey", "touch", "getKeyId", "getKey", "delKey", "delKeyId", "remKey",
          "setHook", "setHookIndex"}

UserTypes ==
    /\ record \in [Users -> Records \cup {Gone}]
    /\ index \in [Field -> [Values -> Owner]]
KeyTypes ==
    keyData \in [Keys -> Owner] /\ keyIds \subseteq Keys /\ keySet \in [Users -> SUBSET Keys]
TokenTypes == token \in [Tokens -> Owner] /\ tokenSet \in [Users -> SUBSET Tokens]
HookTypes == hook \in [Hooks -> Owner] /\ hookIndex \in [Users -> SUBSET Hooks]
LocalTypes ==
    /\ pc \in [Requests -> Places]
    /\ field \in [Requests -> Field]
    /\ copy \in [Requests -> Records \cup {Gone}]
    /\ who \in [Requests -> Users \cup Keys \cup Hooks \cup {None}]
    /\ todo \in [Requests -> SUBSET (Tokens \cup Keys \cup Hooks)]
HistoryTypes ==
    /\ had \in [Requests -> SUBSET Tokens]
    /\ serial \in [Users -> [UserFields -> Text \cup {None}]]
    /\ wasAdmin \subseteq Users
    /\ met \subseteq SUBSET Requests
    /\ faults \in 0..MaxFaults
Types == UserTypes /\ KeyTypes /\ TokenTypes /\ HookTypes /\ LocalTypes /\ HistoryTypes

\* Each kind of call has its own commands.
Flow(r) ==
    LET at == pc[r]
        kind == op[r].kind
    IN  /\ at = "new" => kind # ""
        /\ at = "auth" => kind \notin Unowned
        /\ at = "load" => kind \in {"password", "createKey", "delete"} \cup AdminKinds
        /\ at = "read" => kind \in Updates \cup Deletes
        /\ at \in {"check", "set"} => kind \in {"register", "patch"}
        /\ at = "drop" => kind \in Deletes \cup {"patch"}
        /\ at = "write" => kind \in Updates \cup {"register"}
        /\ at \in {"findName", "findMail", "found"} => kind = "login"
        /\ at \in {"setToken", "addToken"} => kind \in {"register", "login"}
        /\ at \in {"getToken", "remToken", "delToken"} => kind = "logout"
        /\ at \in {"members", "revoke", "clear"} => kind \in SessionEnding
        /\ at \in {"setKey", "addKey", "setKeyId"} => kind = "createKey"
        /\ at \in {"useKey", "touch"} => kind = "useKey"
        /\ at \in {"getKeyId", "getKey", "delKey", "delKeyId", "remKey"} => kind = "revokeKey"
        /\ at \in {"setHook", "setHookIndex"} => kind = "createHook"
        /\ at \in Erasing => kind \in Deletes

\* What a request has read is what its next commands need.
Holds(r) ==
    LET at == pc[r]
    IN  /\ op[r].kind = "register" => copy[r] = Gone
        /\ at \in {"check", "drop", "set", "write"} \cup Erasing /\ op[r].kind # "register" =>
              copy[r] \in Records
        /\ at \in {"check", "set"} \/ (at = "drop" /\ op[r].kind = "patch") =>
              op[r].set[field[r]] \in Values
        /\ at \in {"found", "setToken", "addToken", "remToken", "touch"} => who[r] \in Users
        /\ at \in {"set", "setToken", "addToken"} /\ op[r].kind = "register" => who[r] = r
        /\ at \in {"eraseKey", "eraseKeyId"} => who[r] \in Keys
        /\ at = "unlistHook" => who[r] \in Hooks
        /\ at = "revoke" => todo[r] \subseteq Tokens
        /\ at \in {"keyOf", "eraseKey", "eraseKeyId"} => todo[r] \subseteq Keys
        /\ at \in {"eraseHook", "unlistHook"} => todo[r] \subseteq Hooks

\* The inductive invariant the others rest on.
AccountsInv ==
    /\ op \in Plans
    /\ Types
    /\ \A r \in Requests : Shape(op[r]) /\ Flow(r) /\ Holds(r)

\* Only r goes on.
Alone(r) ==
    /\ op' = op
    /\ \A q \in Requests \ {r} :
          /\ pc'[q] = pc[q] /\ field'[q] = field[q] /\ copy'[q] = copy[q]
          /\ who'[q] = who[q] /\ todo'[q] = todo[q]

LEMMA OneGoesOn ==
    ASSUME AccountsInv, NEW r \in Requests, Alone(r), Types', Flow(r)', Holds(r)'
    PROVE  AccountsInv'
<1>1. op' \in Plans /\ \A q \in Requests : Shape(op[q])'
  BY DEF Alone, AccountsInv
<1>2. ASSUME NEW q \in Requests, q # r PROVE Flow(q)' /\ Holds(q)'
  <2>1. /\ pc'[q] = pc[q] /\ field'[q] = field[q] /\ copy'[q] = copy[q]
        /\ who'[q] = who[q] /\ todo'[q] = todo[q] /\ op' = op
    BY <1>2 DEF Alone
  <2>2. Flow(q) /\ Holds(q)
    BY DEF AccountsInv
  <2>3. Flow(q)'
    BY <2>1, <2>2 DEF Flow
  <2>4. Holds(q)'
    BY <2>1, <2>2 DEF Holds
  <2> QED BY <2>3, <2>4
<1> QED BY <1>1, <1>2 DEF AccountsInv

LEMMA LoadTyped ==
    ASSUME AccountsInv, NEW r \in Requests, Load(r)
    PROVE  AccountsInv' /\ Alone(r)
<1>1. pc[r] = "load" /\ Types /\ Shape(op[r]) /\ Flow(r) /\ Holds(r)
  BY DEF Load, AccountsInv
<1>2. /\ UNCHANGED <<userVars, keyVars, tokenVars, hookVars, op, localVars, history, faults>>
      /\ \E next \in {"refused", "setKey", "read"} : pc' = [pc EXCEPT ![r] = next]
      /\ pc'[r] = "setKey" => op[r].kind = "createKey"
      /\ pc'[r] = "read" => op[r].kind # "createKey"
  BY DEF Load, GoTo, Types, LocalTypes, AccountsInv
<1>3. Types'
  BY <1>1, <1>2 DEF Types, UserTypes, KeyTypes, TokenTypes, HookTypes, LocalTypes, HistoryTypes,
       userVars, keyVars, tokenVars, hookVars, localVars, history, Places, Updating, Answers
<1>4. Alone(r)
  BY <1>1, <1>2 DEF Alone, Types, LocalTypes, localVars
<1>5. Flow(r)' /\ Holds(r)'
  BY <1>1, <1>2 DEF Flow, Holds, Types, LocalTypes, localVars, Erasing, Updates, Deletes, AdminKinds
<1> QED BY <1>3, <1>4, <1>5, OneGoesOn

LEMMA ReadTyped ==
    ASSUME AccountsInv, NEW r \in Requests, Read(r)
    PROVE  AccountsInv' /\ Alone(r)
<1>1. /\ pc[r] = "read" /\ Types /\ Shape(op[r]) /\ Flow(r) /\ Holds(r)
      /\ op[r].kind \in Updates \cup Deletes /\ op[r].kind \notin Unowned /\ op[r].user \in Users
  BY DEF Read, AccountsInv, Flow, Shape, Unowned, Updates, Deletes
<1>2. PICK f \in Field, next \in {"ok", "refused", "keys", "check", "write"} :
         /\ UNCHANGED <<userVars, keyVars, tokenVars, hookVars, op, who, todo, history, faults>>
         /\ copy' = [copy EXCEPT ![r] = record[op[r].user]]
         /\ field' = [field EXCEPT ![r] = f]
         /\ pc' = [pc EXCEPT ![r] = next]
         /\ next \in {"keys", "check", "write"} => record[op[r].user] # Gone
         /\ next = "keys" => op[r].kind \in Deletes
         /\ next \in {"check", "write"} => op[r].kind \notin Deletes
         /\ next = "check" => op[r].set[f] # None
  BY <1>1, Words DEF Read, GoTo, Moves
<1>3. record[op[r].user] \in Records \cup {Gone}
  BY <1>1 DEF Types, UserTypes
<1>4. Types'
  BY <1>1, <1>2, <1>3 DEF Types, UserTypes, KeyTypes, TokenTypes, HookTypes, LocalTypes,
       HistoryTypes, userVars, keyVars, tokenVars, hookVars, history, Places, Updating,
       Erasing, Answers
<1>5. Alone(r)
  BY <1>1, <1>2 DEF Alone, Types, LocalTypes
<1>6. op[r].kind # "register" /\ (next = "check" => op[r].kind = "patch" /\ op[r].set[f] \in Values)
  BY <1>1, <1>2 DEF Shape, Unowned, Updates, Deletes, AdminKinds
<1>7. /\ pc'[r] = next /\ op'[r] = op[r] /\ field'[r] = f /\ copy'[r] = record[op[r].user]
      /\ next \in {"keys", "check", "write"} => copy'[r] \in Records
  BY <1>1, <1>2, <1>3 DEF Types, LocalTypes
<1>8. Flow(r)'
  BY <1>1, <1>2, <1>6, <1>7 DEF Flow, Erasing, Updates, Deletes, AdminKinds
<1>9. Holds(r)'
  BY <1>1, <1>2, <1>6, <1>7 DEF Holds, Erasing
<1> QED BY <1>4, <1>5, <1>8, <1>9, OneGoesOn

LEMMA ArriveTyped ==
    ASSUME AccountsInv, NEW r \in Requests, Arrive(r)
    PROVE  AccountsInv' /\ Alone(r)
<1>1. /\ pc[r] = "new" /\ Types /\ Shape(op[r]) /\ Flow(r) /\ Holds(r)
      /\ op[r].user \in Users \cup {None}
  BY DEF Arrive, AccountsInv, Shape, Owner
<1>2. PICK next \in {"check", "findName", "getToken", "useKey", "auth"} :
         /\ UNCHANGED <<userVars, keyVars, tokenVars, hookVars, op, localVars, serial, wasAdmin,
                        faults>>
         /\ pc' = [pc EXCEPT ![r] = next]
         /\ next = "check" <=> op[r].kind = "register"
         /\ next = "findName" => op[r].kind = "login"
         /\ next = "getToken" => op[r].kind = "logout"
         /\ next = "useKey" => op[r].kind = "useKey"
         /\ next = "auth" => op[r].kind \notin Unowned
  BY <1>1 DEF Arrive, GoTo, First, Flow, Unowned
<1>3. met' \subseteq SUBSET Requests /\ had' \in [Requests -> SUBSET Tokens]
  BY <1>1 DEF Arrive, Types, HistoryTypes, TokenTypes
<1>4. Types'
  BY <1>1, <1>2, <1>3 DEF Types, UserTypes, KeyTypes, TokenTypes, HookTypes, LocalTypes,
       HistoryTypes, userVars, keyVars, tokenVars, hookVars, localVars, Places, Updating
<1>5. Alone(r)
  BY <1>1, <1>2 DEF Alone, Types, LocalTypes, localVars
<1>6. /\ pc'[r] = next /\ op' = op /\ UNCHANGED localVars /\ field[r] \in Field
      /\ op[r].kind = "register" => \A f \in Field : op[r].set[f] \in Values
  BY <1>1, <1>2 DEF Types, LocalTypes, Shape
<1>7. Flow(r)'
  BY <1>2, <1>6 DEF Flow, Erasing
<1>8. Holds(r)'
  BY <1>1, <1>2, <1>6 DEF Holds, Erasing, localVars
<1> QED BY <1>4, <1>5, <1>7, <1>8, OneGoesOn

LEMMA AuthenticateTyped ==
    ASSUME AccountsInv, NEW r \in Requests, Authenticate(r)
    PROVE  AccountsInv' /\ Alone(r)
<1>1. /\ pc[r] = "auth" /\ Types /\ Shape(op[r]) /\ Flow(r) /\ Holds(r)
      /\ op[r].kind \in Kinds \ Unowned
  BY DEF Authenticate, AccountsInv, Flow, Shape
<1>2. PICK next \in {"refused", "members", "read", "getKeyId", "setHook", "load"} :
         /\ UNCHANGED <<userVars, keyVars, tokenVars, hookVars, op, localVars, history, faults>>
         /\ pc' = [pc EXCEPT ![r] = next]
         /\ next = "members" => op[r].kind = "logoutAll"
         /\ next = "read" => op[r].kind = "patch"
         /\ next = "getKeyId" => op[r].kind = "revokeKey"
         /\ next = "setHook" => op[r].kind = "createHook"
         /\ next = "load" => op[r].kind \in {"password", "createKey", "delete"} \cup AdminKinds
  BY <1>1 DEF Authenticate, GoTo, Routed, Kinds
<1>3. Types'
  BY <1>1, <1>2 DEF Types, UserTypes, KeyTypes, TokenTypes, HookTypes, LocalTypes,
       HistoryTypes, userVars, keyVars, tokenVars, hookVars, localVars, history, Places,
       Updating, Answers
<1>4. Alone(r)
  BY <1>1, <1>2 DEF Alone, Types, LocalTypes, localVars
<1>5. pc'[r] = next /\ op' = op /\ UNCHANGED localVars
  BY <1>1, <1>2 DEF Types, LocalTypes
<1>6. Flow(r)'
  BY <1>2, <1>5 DEF Flow, Erasing, Updates, SessionEnding
<1>7. Holds(r)'
  BY <1>1, <1>2, <1>5 DEF Holds, Erasing, localVars
<1> QED BY <1>3, <1>4, <1>6, <1>7, OneGoesOn

LEMMA CheckTyped ==
    ASSUME AccountsInv, NEW r \in Requests, Check(r)
    PROVE  AccountsInv' /\ Alone(r)
<1>1. /\ pc[r] = "check" /\ Types /\ Shape(op[r]) /\ Flow(r) /\ Holds(r)
      /\ op[r].kind \in {"register", "patch"} /\ op[r].set[field[r]] \in Values
  BY DEF Check, AccountsInv, Flow, Holds
<1>2. PICK f \in Field, next \in {"refused", "drop", "check", "write"} :
         /\ UNCHANGED <<userVars, keyVars, tokenVars, hookVars, op, copy, who, todo, history, faults>>
         /\ pc' = [pc EXCEPT ![r] = next]
         /\ field' = [field EXCEPT ![r] = f]
         /\ next = "drop" => op[r].kind = "patch" /\ f = field[r]
         /\ next \in {"check", "write"} => op[r].kind = "register"
  <2>1. field = [field EXCEPT ![r] = field[r]] /\ field[r] \in Field /\ {"name", "mail"} = Field
    BY <1>1 DEF Types, LocalTypes, Field
  <2> QED BY <1>1, <2>1 DEF Check, GoTo
<1>3. Types'
  BY <1>1, <1>2 DEF Types, UserTypes, KeyTypes, TokenTypes, HookTypes, LocalTypes,
       HistoryTypes, userVars, keyVars, tokenVars, hookVars, history, Places, Updating, Answers
<1>4. Alone(r)
  BY <1>1, <1>2 DEF Alone, Types, LocalTypes
<1>5. /\ pc'[r] = next /\ op' = op /\ field'[r] = f /\ copy' = copy
      /\ op[r].kind = "register" => \A x \in Field : op[r].set[x] \in Values
  BY <1>1, <1>2 DEF Types, LocalTypes, Shape
<1>6. Flow(r)'
  BY <1>1, <1>2, <1>5 DEF Flow, Erasing
<1>7. Holds(r)'
  BY <1>1, <1>2, <1>5 DEF Holds, Erasing
<1> QED BY <1>3, <1>4, <1>6, <1>7, OneGoesOn

LEMMA DropTyped ==
    ASSUME AccountsInv, NEW r \in Requests, Drop(r)
    PROVE  AccountsInv' /\ Alone(r)
<1>1. /\ pc[r] = "drop" /\ Types /\ Shape(op[r]) /\ Flow(r) /\ Holds(r)
      /\ op[r].kind \in Deletes \cup {"patch"}
  BY DEF Drop, AccountsInv, Flow
<1>2. PICK f \in Field, next \in {"drop", "ok", "set"} :
         /\ UNCHANGED <<record, keyVars, tokenVars, hookVars, op, copy, who, todo, history, faults>>
         /\ pc' = [pc EXCEPT ![r] = next]
         /\ field' = [field EXCEPT ![r] = f]
         /\ index' = [index EXCEPT ![field[r]][copy[r][field[r]]] = None]
         /\ next = "set" => op[r].kind = "patch" /\ f = field[r]
         /\ next = "drop" => op[r].kind \in Deletes
  <2>1. field = [field EXCEPT ![r] = field[r]] /\ field[r] \in Field /\ "mail" \in Field
    BY <1>1 DEF Types, LocalTypes, Field
  <2> QED BY <1>1, <2>1 DEF Drop, GoTo
<1>3. Types'
  BY <1>1, <1>2, Words DEF Types, UserTypes, KeyTypes, TokenTypes, HookTypes, LocalTypes,
       HistoryTypes, keyVars, tokenVars, hookVars, history, Places, Updating, Answers
<1>4. Alone(r)
  BY <1>1, <1>2 DEF Alone, Types, LocalTypes
<1>5. pc'[r] = next /\ op' = op /\ field'[r] = f /\ copy' = copy /\ op[r].kind # "register"
  BY <1>1, <1>2 DEF Types, LocalTypes, Deletes
<1>6. Flow(r)'
  BY <1>1, <1>2, <1>5 DEF Flow, Erasing
<1>7. Holds(r)'
  BY <1>1, <1>2, <1>5 DEF Holds, Erasing, Deletes
<1> QED BY <1>3, <1>4, <1>6, <1>7, OneGoesOn

LEMMA SetIndexTyped ==
    ASSUME AccountsInv, NEW r \in Requests, SetIndex(r)
    PROVE  AccountsInv' /\ Alone(r)
<1>1. /\ pc[r] = "set" /\ Types /\ Shape(op[r]) /\ Flow(r) /\ Holds(r)
      /\ op[r].kind \in {"register", "patch"} /\ op[r].set[field[r]] \in Values
      /\ Target(r) \in Users
  BY DEF SetIndex, AccountsInv, Flow, Holds, Shape, Unowned, Target, Users
<1>2. PICK f \in Field, next \in {"set", "setToken", "check", "write"} :
         /\ UNCHANGED <<record, keyVars, tokenVars, hookVars, op, copy, who, todo, history, faults>>
         /\ pc' = [pc EXCEPT ![r] = next]
         /\ field' = [field EXCEPT ![r] = f]
         /\ index' = [index EXCEPT ![field[r]][op[r].set[field[r]]] = Target(r)]
         /\ next \in {"set", "setToken"} <=> op[r].kind = "register"
         /\ next = "check" => op[r].set[f] # None
  <2>1. field[r] \in Field /\ "mail" \in Field
    BY <1>1 DEF Types, LocalTypes, Field
  <2> QED BY <1>1, <2>1 DEF SetIndex, GoTo, Moves
<1>3. Types'
  BY <1>1, <1>2, Words DEF Types, UserTypes, KeyTypes, TokenTypes, HookTypes, LocalTypes,
       HistoryTypes, keyVars, tokenVars, hookVars, history, Places, Updating, Answers
<1>4. Alone(r)
  BY <1>1, <1>2 DEF Alone, Types, LocalTypes
<1>5. /\ pc'[r] = next /\ op' = op /\ field'[r] = f /\ copy' = copy /\ who' = who
      /\ op[r].kind = "register" => \A x \in Field : op[r].set[x] \in Values
      /\ next = "check" => op[r].set[f] \in Values
  BY <1>1, <1>2 DEF Types, LocalTypes, Shape
<1>6. Flow(r)'
  BY <1>1, <1>2, <1>5 DEF Flow, Erasing, Updates
<1>7. Holds(r)'
  <2>1. op[r].kind = "register" => who[r] = r /\ r \in Users
    BY <1>1 DEF Holds, Users
  <2> QED BY <1>1, <1>2, <1>5, <2>1 DEF Holds, Erasing
<1> QED BY <1>3, <1>4, <1>6, <1>7, OneGoesOn

LEMMA UpdatesAreTyped ==
    ASSUME NEW s, NEW user, s \in [UserFields -> Text \cup {None}],
           \A f \in Field : s[f] \in Values \cup {None},
           user \in [UserFields -> Text \cup {None}]
    PROVE  /\ Updated(user, s) \in [UserFields -> Text \cup {None}]
           /\ user \in Records \/ s \in Records => Updated(user, s) \in Records
<1>1. Updated(user, s) \in [UserFields -> Text \cup {None}]
  BY DEF Updated
<1>2. \A x \in UserFields : Updated(user, s)[x] = IF s[x] # None THEN s[x] ELSE user[x]
  BY DEF Updated
<1>3. ASSUME user \in Records \/ s \in Records PROVE Updated(user, s) \in Records
  <2>1. \A x \in UserFields : Updated(user, s)[x] \in Text
    BY <1>2, <1>3, Words DEF Records
  <2>2. \A f \in Field : Updated(user, s)[f] \in Values
    BY <1>2, <1>3, Words DEF Records
  <2>3. Updated(user, s) \in [UserFields -> Text]
    BY <2>1 DEF Updated
  <2> QED BY <2>2, <2>3 DEF Records
<1> QED BY <1>1, <1>3

LEMMA RecordsAreReal ==
    /\ Gone \in [UserFields -> Text \cup {None}] /\ Gone \notin Records
    /\ Records \subseteq [UserFields -> Text \cup {None}]
  BY Words DEF Gone, NoUpdate, Records

LEMMA WriteTyped ==
    ASSUME AccountsInv, NEW r \in Requests, WriteUser(r)
    PROVE  AccountsInv' /\ Alone(r)
<1>1. /\ pc[r] = "write" /\ Types /\ Shape(op[r]) /\ Flow(r) /\ Holds(r)
      /\ op[r].kind \in Updates \cup {"register"}
      /\ Target(r) \in Users
      /\ op[r].kind = "register" => Target(r) = r
  BY DEF WriteUser, AccountsInv, Flow, Shape, Unowned, Target, Users, Updates
<1>2. Updated(copy[r], op[r].set) \in Records
  <2>1. op[r].kind = "register" => op[r].set \in Records /\ copy[r] = Gone
    BY <1>1 DEF Shape, Holds
  <2>2. op[r].kind # "register" => copy[r] \in Records
    BY <1>1 DEF Holds
  <2>3. /\ op[r].set \in [UserFields -> Text \cup {None}]
        /\ \A f \in Field : op[r].set[f] \in Values \cup {None}
    BY <1>1 DEF Shape
  <2> QED BY <2>1, <2>2, <2>3, UpdatesAreTyped, RecordsAreReal
<1>3. PICK next \in {"set", "members", "ok"} :
         /\ UNCHANGED <<index, keyVars, tokenVars, hookVars, op, field, copy, todo, met, had, faults>>
         /\ pc' = [pc EXCEPT ![r] = next]
         /\ who' = [who EXCEPT ![r] = Target(r)]
         /\ record' = [record EXCEPT ![Target(r)] = Updated(copy[r], op[r].set)]
         /\ next = "set" <=> op[r].kind = "register"
         /\ next = "members" => op[r].kind = "password"
  BY <1>1 DEF WriteUser, GoTo
<1>4. serial' \in [Users -> [UserFields -> Text \cup {None}]] /\ wasAdmin' \subseteq Users
  <2>1. /\ op[r].set \in [UserFields -> Text \cup {None}]
        /\ \A f \in Field : op[r].set[f] \in Values \cup {None}
        /\ serial[Target(r)] \in [UserFields -> Text \cup {None}]
    BY <1>1 DEF Shape, Types, HistoryTypes
  <2>2. Updated(serial[Target(r)], op[r].set) \in [UserFields -> Text \cup {None}]
    BY <2>1, UpdatesAreTyped
  <2>3. \E s \in {Gone, Updated(serial[Target(r)], op[r].set)} :
           serial' = [serial EXCEPT ![Target(r)] = s]
    BY <1>1 DEF WriteUser
  <2>4. serial' \in [Users -> [UserFields -> Text \cup {None}]]
    BY <1>1, <2>2, <2>3, RecordsAreReal DEF Types, HistoryTypes
  <2>5. wasAdmin' \subseteq Users
    BY <1>1 DEF WriteUser, Types, HistoryTypes
  <2> QED BY <2>4, <2>5
<1>5. Types'
  BY <1>1, <1>2, <1>3, <1>4 DEF Types, UserTypes, KeyTypes, TokenTypes, HookTypes, LocalTypes,
       HistoryTypes, keyVars, tokenVars, hookVars, Places, Updating, Answers
<1>6. Alone(r)
  BY <1>1, <1>3 DEF Alone, Types, LocalTypes
<1>7. /\ pc'[r] = next /\ op' = op /\ field' = field /\ copy' = copy /\ who'[r] = Target(r)
      /\ field[r] \in Field
      /\ op[r].kind = "register" => \A x \in Field : op[r].set[x] \in Values
  BY <1>1, <1>3 DEF Types, LocalTypes, Shape
<1>8. Flow(r)'
  BY <1>1, <1>3, <1>7 DEF Flow, Erasing, SessionEnding
<1>9. Holds(r)'
  BY <1>1, <1>3, <1>7 DEF Holds, Erasing
<1> QED BY <1>5, <1>6, <1>8, <1>9, OneGoesOn

LEMMA FindUserTyped ==
    ASSUME AccountsInv, NEW r \in Requests, FindUser(r)
    PROVE  AccountsInv' /\ Alone(r)
<1>1. /\ pc[r] \in {"findName", "findMail"} /\ Types /\ Shape(op[r]) /\ Flow(r) /\ Holds(r)
      /\ op[r].kind = "login" /\ op[r].item \in Values
  BY DEF FindUser, AccountsInv, Flow, Shape
<1>2. PICK f \in Field, u \in Owner, next \in {"found", "findMail", "refused"} :
         /\ UNCHANGED <<userVars, keyVars, tokenVars, hookVars, op, copy, todo, history, faults>>
         /\ pc' = [pc EXCEPT ![r] = next]
         /\ field' = [field EXCEPT ![r] = f]
         /\ who' = [who EXCEPT ![r] = u]
         /\ next = "found" => u # None
  <2>1. \A f \in Field : index[f][op[r].item] \in Owner
    BY <1>1 DEF Types, UserTypes
  <2> QED BY <1>1, <2>1, Words DEF FindUser, GoTo
<1>3. Types'
  BY <1>1, <1>2 DEF Types, UserTypes, KeyTypes, TokenTypes, HookTypes, LocalTypes,
       HistoryTypes, userVars, keyVars, tokenVars, hookVars, history, Places, Answers, Owner
<1>4. Alone(r)
  BY <1>1, <1>2 DEF Alone, Types, LocalTypes
<1>5. /\ pc'[r] = next /\ op' = op /\ who'[r] = u /\ (next = "found" => u \in Users)
  BY <1>1, <1>2 DEF Types, LocalTypes, Owner
<1>6. Flow(r)'
  BY <1>1, <1>2, <1>5 DEF Flow, Erasing
<1>7. Holds(r)'
  BY <1>1, <1>2, <1>5 DEF Holds, Erasing
<1> QED BY <1>3, <1>4, <1>6, <1>7, OneGoesOn

LEMMA FoundTyped ==
    ASSUME AccountsInv, NEW r \in Requests, Found(r)
    PROVE  AccountsInv' /\ Alone(r)
<1>1. /\ pc[r] = "found" /\ Types /\ Shape(op[r]) /\ Flow(r) /\ Holds(r)
      /\ op[r].kind = "login" /\ who[r] \in Users
  BY DEF Found, AccountsInv, Flow, Holds
<1>2. PICK next \in {"findMail", "refused", "setToken"} :
         /\ UNCHANGED <<userVars, keyVars, tokenVars, hookVars, op, localVars, history, faults>>
         /\ pc' = [pc EXCEPT ![r] = next]
  BY <1>1 DEF Found, GoTo
<1>3. Types'
  BY <1>1, <1>2 DEF Types, UserTypes, KeyTypes, TokenTypes, HookTypes, LocalTypes,
       HistoryTypes, userVars, keyVars, tokenVars, hookVars, localVars, history, Places, Answers
<1>4. Alone(r)
  BY <1>1, <1>2 DEF Alone, Types, LocalTypes, localVars
<1>5. pc'[r] = next /\ op' = op /\ UNCHANGED localVars
  BY <1>1, <1>2 DEF Types, LocalTypes
<1>6. Flow(r)'
  BY <1>1, <1>2, <1>5 DEF Flow, Erasing
<1>7. Holds(r)'
  BY <1>1, <1>2, <1>5 DEF Holds, Erasing, localVars
<1> QED BY <1>3, <1>4, <1>6, <1>7, OneGoesOn

LEMMA StoreTokenTyped ==
    ASSUME AccountsInv, NEW r \in Requests, StoreToken(r)
    PROVE  AccountsInv' /\ Alone(r)
<1>1. /\ pc[r] \in {"setToken", "addToken"} /\ Types /\ Shape(op[r]) /\ Flow(r) /\ Holds(r)
      /\ op[r].kind \in {"register", "login"} /\ who[r] \in Users
  BY DEF StoreToken, AccountsInv, Flow, Holds
<1>2. PICK next \in {"addToken", "ok"} :
         /\ UNCHANGED <<userVars, keyVars, hookVars, op, localVars, history, faults>>
         /\ pc' = [pc EXCEPT ![r] = next]
  BY <1>1 DEF StoreToken, GoTo
<1>3. TokenTypes'
  BY <1>1 DEF StoreToken, Types, TokenTypes, Owner, Tokens
<1>4. Types'
  BY <1>1, <1>2, <1>3 DEF Types, UserTypes, KeyTypes, HookTypes, LocalTypes,
       HistoryTypes, userVars, keyVars, hookVars, localVars, history, Places, Answers
<1>5. Alone(r)
  BY <1>1, <1>2 DEF Alone, Types, LocalTypes, localVars
<1>6. pc'[r] = next /\ op' = op /\ UNCHANGED localVars
  BY <1>1, <1>2 DEF Types, LocalTypes
<1>7. Flow(r)'
  BY <1>1, <1>2, <1>6 DEF Flow, Erasing
<1>8. Holds(r)'
  BY <1>1, <1>2, <1>6 DEF Holds, Erasing, localVars
<1> QED BY <1>4, <1>5, <1>7, <1>8, OneGoesOn

LEMMA RevokeTokenTyped ==
    ASSUME AccountsInv, NEW r \in Requests, RevokeToken(r)
    PROVE  AccountsInv' /\ Alone(r)
<1>1. /\ pc[r] \in {"getToken", "remToken", "delToken"} /\ Types /\ Shape(op[r]) /\ Flow(r)
      /\ op[r].kind = "logout" /\ op[r].item \in Tokens /\ Holds(r)
      /\ pc[r] = "remToken" => who[r] \in Users
  BY DEF RevokeToken, AccountsInv, Flow, Holds, Shape
<1>2. token[op[r].item] \in Owner
  BY <1>1 DEF Types, TokenTypes
<1>3. PICK u \in Users \cup Keys \cup Hooks \cup {None}, next \in {"remToken", "delToken", "ok"} :
         /\ UNCHANGED <<userVars, keyVars, hookVars, op, field, copy, todo, history, faults>>
         /\ pc' = [pc EXCEPT ![r] = next]
         /\ who' = [who EXCEPT ![r] = u]
         /\ next = "remToken" => u \in Users
  <2>1. who = [who EXCEPT ![r] = who[r]] /\ who[r] \in Users \cup Keys \cup Hooks \cup {None}
    BY <1>1 DEF Types, LocalTypes
  <2> QED BY <1>1, <1>2, <2>1 DEF RevokeToken, GoTo, Owner
<1>4. TokenTypes'
  <2>1. None \in Owner /\ token \in [Tokens -> Owner] /\ tokenSet \in [Users -> SUBSET Tokens]
    BY <1>1, Words DEF Types, TokenTypes
  <2>2. token' = token \/ token' = [token EXCEPT ![op[r].item] = None]
    BY <1>1 DEF RevokeToken, tokenVars
  <2>3. tokenSet' = tokenSet
        \/ tokenSet' = [tokenSet EXCEPT ![who[r]] = tokenSet[who[r]] \ {op[r].item}]
    BY <1>1 DEF RevokeToken, tokenVars
  <2>4. token' \in [Tokens -> Owner]
    BY <2>1, <2>2
  <2>5. tokenSet' \in [Users -> SUBSET Tokens]
    BY <2>1, <2>3
  <2> QED BY <2>4, <2>5 DEF TokenTypes
<1>5. Types'
  BY <1>1, <1>3, <1>4 DEF Types, UserTypes, KeyTypes, HookTypes, LocalTypes,
       HistoryTypes, userVars, keyVars, hookVars, history, Places, Answers
<1>6. Alone(r)
  BY <1>1, <1>3 DEF Alone, Types, LocalTypes
<1>7. pc'[r] = next /\ op' = op /\ who'[r] = u
  BY <1>1, <1>3 DEF Types, LocalTypes
<1>8. Flow(r)'
  BY <1>1, <1>3, <1>7 DEF Flow, Erasing
<1>9. Holds(r)'
  BY <1>1, <1>3, <1>7 DEF Holds, Erasing
<1> QED BY <1>5, <1>6, <1>8, <1>9, OneGoesOn

LEMMA RevokeAllTyped ==
    ASSUME AccountsInv, NEW r \in Requests, RevokeAll(r)
    PROVE  AccountsInv' /\ Alone(r)
<1>1. /\ pc[r] \in {"members", "revoke", "clear"} /\ Types /\ Shape(op[r]) /\ Flow(r) /\ Holds(r)
      /\ op[r].kind \in SessionEnding /\ op[r].user \in Users
      /\ pc[r] = "revoke" => todo[r] \subseteq Tokens
  BY DEF RevokeAll, AccountsInv, Flow, Holds, Shape, SessionEnding, Unowned
<1>2. PICK ts \in SUBSET (Tokens \cup Keys \cup Hooks), next \in {"ok", "revoke", "clear"} :
         /\ UNCHANGED <<userVars, keyVars, hookVars, op, field, copy, who, history, faults>>
         /\ pc' = [pc EXCEPT ![r] = next]
         /\ todo' = [todo EXCEPT ![r] = ts]
         /\ next = "revoke" => ts \subseteq Tokens
  <2>1. todo = [todo EXCEPT ![r] = todo[r]] /\ todo[r] \subseteq Tokens \cup Keys \cup Hooks
    BY <1>1 DEF Types, LocalTypes
  <2>2. tokenSet[op[r].user] \subseteq Tokens
    BY <1>1 DEF Types, TokenTypes
  <2>3. /\ UNCHANGED <<userVars, keyVars, hookVars, op, field, copy, who, history, faults>>
        /\ \E next \in {"ok", "revoke", "clear"} : pc' = [pc EXCEPT ![r] = next]
        /\ pc'[r] = "revoke" => pc[r] \in {"members", "revoke"}
    BY <1>1 DEF RevokeAll, GoTo, Types, LocalTypes
  <2>4. CASE pc[r] = "members"
    BY <1>1, <2>2, <2>3, <2>4 DEF RevokeAll, GoTo
  <2>5. CASE pc[r] = "revoke"
    <3>1. \E t \in todo[r] : todo' = [todo EXCEPT ![r] = todo[r] \ {t}]
      BY <1>1, <2>5 DEF RevokeAll
    <3> QED BY <1>1, <2>3, <2>5, <3>1
  <2>6. CASE pc[r] = "clear"
    BY <1>1, <2>1, <2>3, <2>6 DEF RevokeAll, GoTo
  <2> QED BY <1>1, <2>4, <2>5, <2>6
<1>3. TokenTypes'
  <2>1. None \in Owner /\ token \in [Tokens -> Owner] /\ tokenSet \in [Users -> SUBSET Tokens]
    BY <1>1, Words DEF Types, TokenTypes
  <2>2. token' = token \/ \E t \in todo[r] : token' = [token EXCEPT ![t] = None]
    BY <1>1 DEF RevokeAll, tokenVars
  <2>3. tokenSet' = tokenSet \/ tokenSet' = [tokenSet EXCEPT ![op[r].user] = {}]
    BY <1>1 DEF RevokeAll, tokenVars
  <2>4. token' \in [Tokens -> Owner]
    BY <2>1, <2>2
  <2>5. tokenSet' \in [Users -> SUBSET Tokens]
    BY <2>1, <2>3
  <2> QED BY <2>4, <2>5 DEF TokenTypes
<1>4. Types'
  BY <1>1, <1>2, <1>3 DEF Types, UserTypes, KeyTypes, HookTypes, LocalTypes,
       HistoryTypes, userVars, keyVars, hookVars, history, Places, Answers
<1>5. Alone(r)
  BY <1>1, <1>2 DEF Alone, Types, LocalTypes
<1>6. pc'[r] = next /\ op' = op /\ todo'[r] = ts
  BY <1>1, <1>2 DEF Types, LocalTypes
<1>7. Flow(r)'
  BY <1>1, <1>2, <1>6 DEF Flow, Erasing
<1>8. Holds(r)'
  BY <1>1, <1>2, <1>6 DEF Holds, Erasing, SessionEnding
<1> QED BY <1>4, <1>5, <1>7, <1>8, OneGoesOn

LEMMA CreateApiKeyTyped ==
    ASSUME AccountsInv, NEW r \in Requests, CreateApiKey(r)
    PROVE  AccountsInv' /\ Alone(r)
<1>1. /\ pc[r] \in {"setKey", "addKey", "setKeyId"} /\ Types /\ Shape(op[r]) /\ Flow(r) /\ Holds(r)
      /\ op[r].kind = "createKey" /\ op[r].user \in Users
  BY DEF CreateApiKey, AccountsInv, Flow, Shape, Unowned
<1>2. PICK next \in {"addKey", "setKeyId", "ok"} :
         /\ UNCHANGED <<userVars, tokenVars, hookVars, op, localVars, history, faults>>
         /\ pc' = [pc EXCEPT ![r] = next]
  BY <1>1 DEF CreateApiKey, GoTo
<1>3. KeyTypes'
  BY <1>1 DEF CreateApiKey, Types, KeyTypes, Owner, Keys
<1>4. Types'
  BY <1>1, <1>2, <1>3 DEF Types, UserTypes, TokenTypes, HookTypes, LocalTypes,
       HistoryTypes, userVars, tokenVars, hookVars, localVars, history, Places, Answers
<1>5. Alone(r)
  BY <1>1, <1>2 DEF Alone, Types, LocalTypes, localVars
<1>6. pc'[r] = next /\ op' = op /\ UNCHANGED localVars
  BY <1>1, <1>2 DEF Types, LocalTypes
<1>7. Flow(r)'
  BY <1>1, <1>2, <1>6 DEF Flow, Erasing
<1>8. Holds(r)'
  BY <1>1, <1>2, <1>6 DEF Holds, Erasing, localVars
<1> QED BY <1>4, <1>5, <1>7, <1>8, OneGoesOn

LEMMA UseApiKeyTyped ==
    ASSUME AccountsInv, NEW r \in Requests, UseApiKey(r)
    PROVE  AccountsInv' /\ Alone(r)
<1>1. /\ pc[r] \in {"useKey", "touch"} /\ Types /\ Shape(op[r]) /\ Flow(r) /\ Holds(r)
      /\ op[r].kind = "useKey" /\ op[r].item \in Keys /\ (pc[r] = "touch" => who[r] \in Users)
  BY DEF UseApiKey, AccountsInv, Flow, Shape, Holds
<1>2. keyData[op[r].item] \in Owner
  BY <1>1 DEF Types, KeyTypes
<1>3. PICK u \in Users \cup Keys \cup Hooks \cup {None}, next \in {"touch", "refused", "ok"} :
         /\ UNCHANGED <<userVars, keyIds, keySet, tokenVars, hookVars, op, field, copy, todo,
                        history, faults>>
         /\ pc' = [pc EXCEPT ![r] = next]
         /\ who' = [who EXCEPT ![r] = u]
         /\ next = "touch" => u \in Users
  <2>1. who = [who EXCEPT ![r] = who[r]] /\ who[r] \in Users \cup Keys \cup Hooks \cup {None}
    BY <1>1 DEF Types, LocalTypes
  <2> QED BY <1>1, <1>2, <2>1 DEF UseApiKey, GoTo, Owner
<1>4. KeyTypes'
  BY <1>1, Words DEF UseApiKey, Types, KeyTypes
<1>5. Types'
  BY <1>1, <1>3, <1>4 DEF Types, UserTypes, TokenTypes, HookTypes, LocalTypes,
       HistoryTypes, userVars, tokenVars, hookVars, history, Places, Answers
<1>6. Alone(r)
  BY <1>1, <1>3 DEF Alone, Types, LocalTypes
<1>7. pc'[r] = next /\ op' = op /\ who'[r] = u
  BY <1>1, <1>3 DEF Types, LocalTypes
<1>8. Flow(r)'
  BY <1>1, <1>3, <1>7 DEF Flow, Erasing
<1>9. Holds(r)'
  BY <1>1, <1>3, <1>7 DEF Holds, Erasing
<1> QED BY <1>5, <1>6, <1>8, <1>9, OneGoesOn

LEMMA RevokeApiKeyTyped ==
    ASSUME AccountsInv, NEW r \in Requests, RevokeApiKey(r)
    PROVE  AccountsInv' /\ Alone(r)
<1>1. /\ pc[r] \in {"getKeyId", "getKey", "delKey", "delKeyId", "remKey"}
      /\ Types /\ Shape(op[r]) /\ Flow(r) /\ Holds(r)
      /\ op[r].kind = "revokeKey" /\ op[r].item \in Keys /\ op[r].user \in Users
  BY DEF RevokeApiKey, AccountsInv, Flow, Shape, Unowned
<1>2. PICK next \in {"refused", "getKey", "delKey", "delKeyId", "remKey", "ok"} :
         /\ UNCHANGED <<userVars, tokenVars, hookVars, op, localVars, history, faults>>
         /\ pc' = [pc EXCEPT ![r] = next]
  BY <1>1 DEF RevokeApiKey, GoTo
<1>3. KeyTypes'
  BY <1>1, Words DEF RevokeApiKey, Types, KeyTypes, keyVars
<1>4. Types'
  BY <1>1, <1>2, <1>3 DEF Types, UserTypes, TokenTypes, HookTypes, LocalTypes,
       HistoryTypes, userVars, tokenVars, hookVars, localVars, history, Places, Answers
<1>5. Alone(r)
  BY <1>1, <1>2 DEF Alone, Types, LocalTypes, localVars
<1>6. pc'[r] = next /\ op' = op /\ UNCHANGED localVars
  BY <1>1, <1>2 DEF Types, LocalTypes
<1>7. Flow(r)'
  BY <1>1, <1>2, <1>6 DEF Flow, Erasing
<1>8. Holds(r)'
  BY <1>1, <1>2, <1>6 DEF Holds, Erasing, localVars
<1> QED BY <1>4, <1>5, <1>7, <1>8, OneGoesOn

LEMMA CreateWebhookTyped ==
    ASSUME AccountsInv, NEW r \in Requests, CreateWebhook(r)
    PROVE  AccountsInv' /\ Alone(r)
<1>1. /\ pc[r] \in {"setHook", "setHookIndex"} /\ Types /\ Shape(op[r]) /\ Flow(r) /\ Holds(r)
      /\ op[r].kind = "createHook" /\ op[r].user \in Users
  BY DEF CreateWebhook, AccountsInv, Flow, Shape, Unowned
<1>2. PICK next \in {"setHookIndex", "ok"} :
         /\ UNCHANGED <<userVars, keyVars, tokenVars, op, localVars, history, faults>>
         /\ pc' = [pc EXCEPT ![r] = next]
  BY <1>1 DEF CreateWebhook, GoTo
<1>3. HookTypes'
  BY <1>1 DEF CreateWebhook, Types, HookTypes, Owner, Hooks
<1>4. Types'
  BY <1>1, <1>2, <1>3 DEF Types, UserTypes, KeyTypes, TokenTypes, LocalTypes,
       HistoryTypes, userVars, keyVars, tokenVars, localVars, history, Places, Answers
<1>5. Alone(r)
  BY <1>1, <1>2 DEF Alone, Types, LocalTypes, localVars
<1>6. pc'[r] = next /\ op' = op /\ UNCHANGED localVars
  BY <1>1, <1>2 DEF Types, LocalTypes
<1>7. Flow(r)'
  BY <1>1, <1>2, <1>6 DEF Flow, Erasing
<1>8. Holds(r)'
  BY <1>1, <1>2, <1>6 DEF Holds, Erasing, localVars
<1> QED BY <1>4, <1>5, <1>7, <1>8, OneGoesOn

LEMMA DeleteKeysTyped ==
    ASSUME AccountsInv, NEW r \in Requests, DeleteKeys(r)
    PROVE  AccountsInv' /\ Alone(r)
<1>1. /\ pc[r] \in {"keys", "keyOf", "eraseKey", "eraseKeyId"}
      /\ Types /\ Shape(op[r]) /\ Flow(r) /\ Holds(r)
      /\ op[r].kind \in Deletes /\ op[r].user \in Users /\ copy[r] \in Records
      /\ op[r].kind # "register"
  BY DEF DeleteKeys, AccountsInv, Flow, Shape, Unowned, Holds, Erasing, Deletes
<1>2. /\ pc[r] # "keys" => todo[r] \subseteq Keys
      /\ pc[r] \in {"eraseKey", "eraseKeyId"} => who[r] \in Keys
      /\ who[r] \in Users \cup Keys \cup Hooks \cup {None}
      /\ todo[r] \subseteq Tokens \cup Keys \cup Hooks /\ keySet[op[r].user] \subseteq Keys
      /\ pc = [pc EXCEPT ![r] = pc[r]] /\ who = [who EXCEPT ![r] = who[r]]
      /\ todo = [todo EXCEPT ![r] = todo[r]]
  BY <1>1 DEF Holds, Types, LocalTypes, KeyTypes
<1>3. /\ UNCHANGED <<userVars, tokenVars, hookVars, op, field, copy, history, faults>>
      /\ \E u \in Users \cup Keys \cup Hooks \cup {None},
            ks \in SUBSET (Tokens \cup Keys \cup Hooks),
            next \in {"keyOf", "eraseKey", "eraseKeyId", "hooks"} :
         /\ pc' = [pc EXCEPT ![r] = next]
         /\ who' = [who EXCEPT ![r] = u]
         /\ todo' = [todo EXCEPT ![r] = ks]
         /\ next # "hooks" => ks \subseteq Keys
         /\ next \in {"eraseKey", "eraseKeyId"} => u \in Keys
  <2>1. CASE pc[r] = "keys"
    BY <1>1, <1>2, <2>1 DEF DeleteKeys, GoTo
  <2>2. CASE pc[r] = "keyOf" /\ todo[r] = {}
    BY <1>1, <1>2, <2>2 DEF DeleteKeys, GoTo
  <2>3. CASE pc[r] = "eraseKey"
    BY <1>1, <1>2, <2>3 DEF DeleteKeys, GoTo
  <2>4. CASE pc[r] = "eraseKeyId"
    BY <1>1, <1>2, <2>4 DEF DeleteKeys, GoTo
  <2>5. CASE pc[r] = "keyOf" /\ todo[r] # {}
    <3>1. PICK k \in todo[r] :
             \/ /\ who' = [who EXCEPT ![r] = k] /\ GoTo(r, "eraseKey") /\ UNCHANGED todo
             \/ /\ todo' = [todo EXCEPT ![r] = todo[r] \ {k}] /\ UNCHANGED <<who, pc>>
      BY <1>1, <2>5 DEF DeleteKeys
    <3>2. k \in Keys /\ todo[r] \ {k} \subseteq Keys
      BY <1>2, <2>5
    <3>3. UNCHANGED <<userVars, tokenVars, hookVars, op, field, copy, history, faults>>
      BY DEF DeleteKeys
    <3> QED BY <1>2, <2>5, <3>1, <3>2, <3>3 DEF GoTo
  <2> QED BY <1>1, <2>1, <2>2, <2>3, <2>4, <2>5
<1>4. PICK u \in Users \cup Keys \cup Hooks \cup {None},
           ks \in SUBSET (Tokens \cup Keys \cup Hooks),
           next \in {"keyOf", "eraseKey", "eraseKeyId", "hooks"} :
         /\ pc' = [pc EXCEPT ![r] = next]
         /\ who' = [who EXCEPT ![r] = u]
         /\ todo' = [todo EXCEPT ![r] = ks]
         /\ next # "hooks" => ks \subseteq Keys
         /\ next \in {"eraseKey", "eraseKeyId"} => u \in Keys
  BY <1>3
<1>5. KeyTypes'
  <2>1. None \in Owner /\ KeyTypes
    BY <1>1, Words DEF Types
  <2>2. /\ keyData' = keyData \/ keyData' = [keyData EXCEPT ![who[r]] = None]
        /\ keyIds' \subseteq keyIds
        /\ keySet' = keySet \/ keySet' = [keySet EXCEPT ![op[r].user] = {}]
    BY <1>1 DEF DeleteKeys, keyVars
  <2> QED BY <2>1, <2>2 DEF KeyTypes
<1>6. Types'
  BY <1>1, <1>3, <1>4, <1>5 DEF Types, UserTypes, TokenTypes, HookTypes, LocalTypes,
       HistoryTypes, userVars, tokenVars, hookVars, history, Places, Erasing
<1>7. Alone(r)
  BY <1>1, <1>3, <1>4 DEF Alone, Types, LocalTypes
<1>8. pc'[r] = next /\ op' = op /\ who'[r] = u /\ todo'[r] = ks /\ copy' = copy
  BY <1>1, <1>3, <1>4 DEF Types, LocalTypes
<1>9. Flow(r)'
  BY <1>1, <1>4, <1>8 DEF Flow, Erasing
<1>10. Holds(r)'
  BY <1>1, <1>4, <1>8 DEF Holds, Erasing
<1> QED BY <1>6, <1>7, <1>9, <1>10, OneGoesOn

LEMMA DeleteHooksTyped ==
    ASSUME AccountsInv, NEW r \in Requests, DeleteHooks(r)
    PROVE  AccountsInv' /\ Alone(r)
<1>1. /\ pc[r] \in {"hooks", "eraseHook", "unlistHook"}
      /\ Types /\ Shape(op[r]) /\ Flow(r) /\ Holds(r)
      /\ op[r].kind \in Deletes /\ op[r].user \in Users /\ copy[r] \in Records
      /\ op[r].kind # "register"
  BY DEF DeleteHooks, AccountsInv, Flow, Shape, Unowned, Holds, Erasing, Deletes
<1>2. /\ pc[r] # "hooks" => todo[r] \subseteq Hooks
      /\ pc[r] = "unlistHook" => who[r] \in Hooks
      /\ who[r] \in Users \cup Keys \cup Hooks \cup {None}
      /\ todo[r] \subseteq Tokens \cup Keys \cup Hooks /\ hookIndex[op[r].user] \subseteq Hooks
      /\ who = [who EXCEPT ![r] = who[r]] /\ todo = [todo EXCEPT ![r] = todo[r]]
  BY <1>1 DEF Holds, Types, LocalTypes, HookTypes
<1>3. /\ UNCHANGED <<userVars, keyVars, tokenVars, op, field, copy, history, faults>>
      /\ \E u \in Users \cup Keys \cup Hooks \cup {None},
            hs \in SUBSET (Tokens \cup Keys \cup Hooks),
            next \in {"eraseHook", "unlistHook", "erase"} :
         /\ pc' = [pc EXCEPT ![r] = next]
         /\ who' = [who EXCEPT ![r] = u]
         /\ todo' = [todo EXCEPT ![r] = hs]
         /\ next # "erase" => hs \subseteq Hooks
         /\ next = "unlistHook" => u \in Hooks
  <2>1. CASE pc[r] = "hooks"
    BY <1>1, <1>2, <2>1 DEF DeleteHooks, GoTo
  <2>2. CASE pc[r] = "unlistHook"
    BY <1>1, <1>2, <2>2 DEF DeleteHooks, GoTo
  <2>3. CASE pc[r] = "eraseHook"
    <3>1. PICK h \in todo[r] :
             who' = [who EXCEPT ![r] = h] /\ todo' = [todo EXCEPT ![r] = todo[r] \ {h}]
      BY <1>1, <2>3 DEF DeleteHooks
    <3>2. h \in Hooks /\ todo[r] \ {h} \subseteq Hooks
      BY <1>2, <2>3
    <3>3. /\ UNCHANGED <<userVars, keyVars, tokenVars, op, field, copy, history, faults>>
          /\ pc' = [pc EXCEPT ![r] = "unlistHook"]
      BY <2>3 DEF DeleteHooks, GoTo
    <3> QED BY <1>2, <3>1, <3>2, <3>3
  <2> QED BY <1>1, <2>1, <2>2, <2>3
<1>4. PICK u \in Users \cup Keys \cup Hooks \cup {None},
           hs \in SUBSET (Tokens \cup Keys \cup Hooks),
           next \in {"eraseHook", "unlistHook", "erase"} :
         /\ pc' = [pc EXCEPT ![r] = next]
         /\ who' = [who EXCEPT ![r] = u]
         /\ todo' = [todo EXCEPT ![r] = hs]
         /\ next # "erase" => hs \subseteq Hooks
         /\ next = "unlistHook" => u \in Hooks
  BY <1>3
<1>5. HookTypes'
  <2>1. None \in Owner /\ HookTypes
    BY <1>1, Words DEF Types
  <2>2. /\ hook' = hook \/ \E h \in todo[r] : hook' = [hook EXCEPT ![h] = None]
        /\ hookIndex' = hookIndex
           \/ hookIndex' = [hookIndex EXCEPT ![op[r].user] = hookIndex[op[r].user] \ {who[r]}]
    BY <1>1 DEF DeleteHooks, hookVars
  <2> QED BY <2>1, <2>2 DEF HookTypes
<1>6. Types'
  BY <1>1, <1>3, <1>4, <1>5 DEF Types, UserTypes, KeyTypes, TokenTypes, LocalTypes,
       HistoryTypes, userVars, keyVars, tokenVars, history, Places, Erasing
<1>7. Alone(r)
  BY <1>1, <1>3, <1>4 DEF Alone, Types, LocalTypes
<1>8. pc'[r] = next /\ op' = op /\ who'[r] = u /\ todo'[r] = hs /\ copy' = copy
  BY <1>1, <1>3, <1>4 DEF Types, LocalTypes
<1>9. Flow(r)'
  BY <1>1, <1>4, <1>8 DEF Flow, Erasing
<1>10. Holds(r)'
  BY <1>1, <1>4, <1>8 DEF Holds, Erasing
<1> QED BY <1>6, <1>7, <1>9, <1>10, OneGoesOn

LEMMA EraseUserTyped ==
    ASSUME AccountsInv, NEW r \in Requests, EraseUser(r)
    PROVE  AccountsInv' /\ Alone(r)
<1>1. /\ pc[r] = "erase" /\ Types /\ Shape(op[r]) /\ Flow(r) /\ Holds(r)
      /\ op[r].kind \in Deletes /\ op[r].user \in Users /\ copy[r] \in Records
      /\ op[r].kind \notin {"register", "patch"}
  BY DEF EraseUser, AccountsInv, Flow, Shape, Unowned, Holds, Erasing, Deletes
<1>2. /\ UNCHANGED <<index, keyVars, tokenVars, hookVars, op, copy, who, todo, met, had, wasAdmin, faults>>
      /\ pc' = [pc EXCEPT ![r] = "drop"]
      /\ field' = [field EXCEPT ![r] = "name"]
      /\ record' = [record EXCEPT ![op[r].user] = Gone]
      /\ serial' = [serial EXCEPT ![op[r].user] = Gone]
  BY DEF EraseUser, GoTo
<1>3. "name" \in Field
  BY DEF Field
<1>4. Types'
  BY <1>1, <1>2, <1>3, RecordsAreReal DEF Types, UserTypes, KeyTypes, TokenTypes, HookTypes,
       LocalTypes, HistoryTypes, keyVars, tokenVars, hookVars, Places, Updating
<1>5. Alone(r)
  BY <1>1, <1>2 DEF Alone, Types, LocalTypes
<1>6. pc'[r] = "drop" /\ op' = op /\ copy' = copy
  BY <1>1, <1>2 DEF Types, LocalTypes
<1>7. Flow(r)'
  BY <1>1, <1>6 DEF Flow, Erasing
<1>8. Holds(r)'
  BY <1>1, <1>6 DEF Holds, Erasing
<1> QED BY <1>4, <1>5, <1>7, <1>8, OneGoesOn

LEMMA InterruptTyped ==
    ASSUME AccountsInv, Interrupt PROVE AccountsInv'
<1>1. /\ Types
      /\ UNCHANGED <<userVars, keyVars, tokenVars, hookVars, op, localVars, history>>
      /\ \A q \in Requests : pc'[q] = pc[q] \/ pc'[q] = "failed"
      /\ pc' \in [Requests -> Places]
  BY DEF Interrupt, AccountsInv, Types, LocalTypes, Places, Answers
<1>2. faults' \in 0..MaxFaults
  <2>1. faults \in Nat /\ faults < MaxFaults /\ faults' = faults + 1
    BY <1>1, FaultsAssumption DEF Interrupt, Types, HistoryTypes
  <2> QED BY <2>1, FaultsAssumption
<1>3. Types'
  BY <1>1, <1>2 DEF Types, UserTypes, KeyTypes, TokenTypes, HookTypes, LocalTypes,
       HistoryTypes, userVars, keyVars, tokenVars, hookVars, localVars, history
<1>4. ASSUME NEW q \in Requests PROVE Shape(op[q])' /\ Flow(q)' /\ Holds(q)'
  <2>1. Shape(op[q]) /\ Flow(q) /\ Holds(q)
    BY DEF AccountsInv
  <2>2. Flow(q)'
    BY <1>1, <2>1 DEF Flow, Erasing
  <2>3. Holds(q)'
    BY <1>1, <2>1 DEF Holds, Erasing, localVars
  <2>4. Shape(op[q])'
    BY <1>1, <2>1
  <2> QED BY <2>2, <2>3, <2>4
<1>5. op' \in Plans
  BY <1>1 DEF AccountsInv
<1> QED BY <1>3, <1>4, <1>5 DEF AccountsInv

LEMMA AccountsInit == Init => AccountsInv
<1> SUFFICES ASSUME Init PROVE AccountsInv
  OBVIOUS
<1>1. \A r \in Requests : Shape(op[r])
  BY CallsHaveShape, PlansAssumption DEF Init
<1>2. UserTypes /\ wasAdmin \subseteq Users /\ serial \in [Users -> [UserFields -> Text \cup {None}]]
  <2>1. PICK seed \in SeedRecords :
          /\ record = [u \in Users |-> IF u \in Seeded THEN seed[u] ELSE Gone]
          /\ index = [f \in Field |-> [v \in Values |->
                        IF \E u \in Seeded : seed[u][f] = v
                        THEN CHOOSE u \in Seeded : seed[u][f] = v ELSE None]]
    BY DEF Init
  <2>2. \A u \in Seeded : seed[u] \in Records
    BY SeedAssumption DEF Records
  <2>3. record \in [Users -> Records \cup {Gone}]
    BY <2>1, <2>2
  <2>4. index \in [Field -> [Values -> Owner]]
    BY <2>1, Words DEF Owner, Users
  <2>5. wasAdmin \subseteq Users /\ serial = record
    BY DEF Init
  <2> QED BY <2>3, <2>4, <2>5, RecordsAreReal DEF UserTypes
<1>3. KeyTypes /\ TokenTypes /\ HookTypes
  <2>1. /\ \A i \in DOMAIN SeedKeys : SeedKeys[i] \in Owner
        /\ \A i \in DOMAIN SeedTokens : SeedTokens[i] \in Owner
        /\ \A i \in DOMAIN SeedHooks : SeedHooks[i] \in Owner /\ None \in Owner
    BY SeedAssumption, Words DEF Owner, Users
  <2>2. None \in Owner
    BY Words
  <2>3. KeyTypes
    BY <2>1, <2>2 DEF Init, KeyTypes, Keys
  <2>4. TokenTypes
    BY <2>1, <2>2 DEF Init, TokenTypes, Tokens
  <2>5. HookTypes
    BY <2>1, <2>2 DEF Init, HookTypes, Hooks
  <2> QED BY <2>3, <2>4, <2>5
<1>4. LocalTypes
  BY DEF Init, LocalTypes, Places, Answers, Field
<1>5. had \in [Requests -> SUBSET Tokens] /\ met \subseteq SUBSET Requests /\ faults \in 0..MaxFaults
  BY FaultsAssumption DEF Init
<1>6. Types
  BY <1>2, <1>3, <1>4, <1>5 DEF Types, HistoryTypes
<1>7. ASSUME NEW r \in Requests PROVE Flow(r) /\ Holds(r)
  <2>1. pc[r] \in {"ok", "new"} /\ copy[r] = Gone /\ (pc[r] = "new" => op[r] # Call)
    BY DEF Init
  <2>2. op[r].kind = "" => op[r] = Call
    BY <1>1 DEF Shape
  <2>3. Flow(r)
    BY <2>1, <2>2 DEF Flow, Erasing
  <2>4. Holds(r)
    BY <2>1 DEF Holds, Erasing
  <2> QED BY <2>3, <2>4
<1>8. op \in Plans
  BY DEF Init
<1> QED BY <1>1, <1>6, <1>7, <1>8 DEF AccountsInv

LEMMA CommandTyped ==
    ASSUME AccountsInv, NEW r \in Requests, Command(r)
    PROVE  AccountsInv' /\ Alone(r)
  BY AuthenticateTyped, LoadTyped, ReadTyped, CheckTyped, DropTyped, SetIndexTyped,
     WriteTyped, FindUserTyped, FoundTyped, StoreTokenTyped, RevokeTokenTyped, RevokeAllTyped,
     CreateApiKeyTyped, UseApiKeyTyped, RevokeApiKeyTyped, CreateWebhookTyped, DeleteKeysTyped,
     DeleteHooksTyped, EraseUserTyped DEF Command

LEMMA AccountsStep == AccountsInv /\ [Next]_vars => AccountsInv'
<1> SUFFICES ASSUME AccountsInv, [Next]_vars PROVE AccountsInv'
  OBVIOUS
<1>1. CASE UNCHANGED vars
  <2>1. Types'
    BY <1>1 DEF AccountsInv, vars, Types, UserTypes, KeyTypes, TokenTypes, HookTypes, LocalTypes,
       HistoryTypes, userVars, keyVars, tokenVars, hookVars, localVars, history
  <2>2. ASSUME NEW r \in Requests PROVE Shape(op[r])' /\ Flow(r)' /\ Holds(r)'
    BY <1>1 DEF AccountsInv, vars, localVars, Flow, Holds
  <2> QED BY <1>1, <2>1, <2>2 DEF AccountsInv, vars
<1>2. ASSUME NEW r \in Requests, Arrive(r) PROVE AccountsInv'
  BY <1>2, ArriveTyped
<1>3. ASSUME NEW r \in Requests, Command(r) PROVE AccountsInv'
  BY <1>3, CommandTyped
<1> QED BY <1>1, <1>2, <1>3, InterruptTyped DEF Next, Done

(***************************************************************************)
(* userStore.ts, apiKeyStore.ts, refreshTokenStore.ts: what Redis holds of *)
(* the accounts has its shape, however requests interleave or stop.        *)
(***************************************************************************)
THEOREM AccountsTyped == Spec => []TypeOK
<1>1. AccountsInv => TypeOK
  <2> SUFFICES ASSUME AccountsInv PROVE TypeOK
    OBVIOUS
  <2>1. record \in [Users -> [UserFields -> Text] \cup {Gone}]
    BY DEF AccountsInv, Types, UserTypes, Records
  <2>2. op \in Plans /\ Types
    BY DEF AccountsInv
  <2> QED BY <2>1, <2>2 DEF TypeOK, Types, UserTypes, KeyTypes, TokenTypes, HookTypes,
          LocalTypes, HistoryTypes
<1> QED BY <1>1, AccountsInit, AccountsStep, PTL DEF Spec

-----------------------------------------------------------------------------
(* Which requests meet *)

\* Requests that are under way together have met.
MetInv == \A r, s \in Requests : r # s /\ Active(r) /\ Active(s) => {r, s} \in met

\* A command is that of an active request, which is not new again.
LEMMA CommandsAreActive ==
    ASSUME AccountsInv, NEW r \in Requests, Command(r)
    PROVE  Active(r) /\ UNCHANGED <<met, had>> /\ pc'[r] # "new"
<1>a. pc \in [Requests -> Places]
  BY DEF AccountsInv, Types, LocalTypes
<1>1. CASE Authenticate(r) \/ Load(r) \/ Read(r) \/ Check(r) \/ Drop(r) \/ SetIndex(r)
  BY <1>a, <1>1 DEF Authenticate, Load, Read, Check, Drop, SetIndex, Active, Answers, history, GoTo,
     Routed
<1>2. CASE WriteUser(r) \/ FindUser(r) \/ Found(r) \/ StoreToken(r) \/ RevokeToken(r)
  BY <1>a, <1>2 DEF WriteUser, FindUser, Found, StoreToken, RevokeToken, Active, Answers, history, GoTo
<1>3. CASE CreateApiKey(r) \/ UseApiKey(r) \/ RevokeApiKey(r) \/ CreateWebhook(r) \/ RevokeAll(r)
  BY <1>a, <1>3 DEF CreateApiKey, UseApiKey, RevokeApiKey, CreateWebhook, RevokeAll, Active, Answers,
     history, GoTo
<1>4. CASE DeleteKeys(r) \/ DeleteHooks(r) \/ EraseUser(r)
  BY <1>a, <1>4 DEF DeleteKeys, DeleteHooks, EraseUser, Active, Answers, history, GoTo
<1> QED BY <1>1, <1>2, <1>3, <1>4 DEF Command

\* What a step does to the requests as such: one arrives, goes on, or some
\* stop; nothing is forgotten.
LEMMA StepsOfRequests ==
    ASSUME AccountsInv, MetInv, [Next]_vars
    PROVE  /\ MetInv' /\ op' = op /\ met \subseteq met'
           /\ \A q \in Requests : pc[q] \in Answers => pc'[q] = pc[q] /\ had'[q] = had[q]
           /\ \A q \in Requests : pc[q] # "new" => pc'[q] # "new" /\ had'[q] = had[q]
<1>1. CASE UNCHANGED vars
  BY <1>1 DEF vars, history, MetInv, Active
<1>2. ASSUME NEW r \in Requests, Arrive(r)
      PROVE  /\ MetInv' /\ op' = op /\ met \subseteq met'
             /\ \A q \in Requests : q # r => pc'[q] = pc[q] /\ had'[q] = had[q]
             /\ pc[r] = "new"
  <2>1. /\ pc[r] = "new" /\ op' = op
        /\ \A q \in Requests : q # r => pc'[q] = pc[q] /\ had'[q] = had[q]
        /\ met' = met \cup { {r, s} : s \in { q \in Requests : Active(q) } }
    BY <1>2 DEF Arrive, GoTo, AccountsInv, Types, LocalTypes, HistoryTypes
  <2>2. ASSUME NEW p \in Requests, NEW s \in Requests, p # s, Active(p)', Active(s)'
        PROVE  {p, s} \in met'
    <3>1. CASE p # r /\ s # r
      BY <2>1, <2>2, <3>1 DEF MetInv, Active
    <3>2. CASE p = r
      <4>1. Active(s)
        BY <2>1, <2>2, <3>2 DEF Active
      <4> QED BY <2>1, <3>2, <4>1
    <3>3. CASE s = r
      <4>1. Active(p) /\ {p, s} = {s, p}
        BY <2>1, <2>2, <3>3 DEF Active
      <4> QED BY <2>1, <3>3, <4>1
    <3> QED BY <3>1, <3>2, <3>3
  <2> QED BY <2>1, <2>2 DEF MetInv
<1>3. ASSUME NEW r \in Requests, Command(r)
      PROVE  /\ MetInv' /\ UNCHANGED <<op, met, had>> /\ Active(r) /\ pc'[r] # "new"
             /\ \A q \in Requests : q # r => pc'[q] = pc[q]
  <2>1. /\ Active(r) /\ UNCHANGED <<op, met, had>> /\ pc'[r] # "new"
        /\ \A q \in Requests : q # r => pc'[q] = pc[q]
    BY <1>3, CommandTyped, CommandsAreActive DEF Alone
  <2>2. \A q \in Requests : Active(q)' => Active(q)
    BY <2>1 DEF Active
  <2> QED BY <2>1, <2>2 DEF MetInv
<1>4. CASE Interrupt
  <2>1. /\ UNCHANGED <<op, met, had>>
        /\ \A q \in Requests : pc'[q] = pc[q] \/ (Active(q) /\ pc'[q] = "failed")
    BY <1>4 DEF Interrupt, history
  <2>2. MetInv'
    BY <2>1 DEF MetInv, Active, Answers
  <2> QED BY <2>1, <2>2 DEF Active, Answers
<1> QED BY <1>1, <1>2, <1>3, <1>4 DEF Next, Done, Active, Answers

LEMMA MetBegin == Init => MetInv
  BY DEF Init, MetInv, Active, Answers

LEMMA MetStep == AccountsInv /\ MetInv /\ [Next]_vars => MetInv'
  BY StepsOfRequests

\* What happens to one request.
LEMMA Ways ==
    ASSUME AccountsInv, [Next]_vars, NEW r \in Requests
    PROVE  \/ UNCHANGED <<pc[r], field[r], copy[r], who[r], todo[r]>>
           \/ Active(r) /\ pc'[r] = "failed" /\ UNCHANGED <<localVars>>
           \/ Arrive(r)
           \/ Command(r)
<1>1. CASE UNCHANGED vars
  BY <1>1 DEF vars, localVars
<1>2. ASSUME NEW q \in Requests, Arrive(q) \/ Command(q), q # r
      PROVE  UNCHANGED <<pc[r], field[r], copy[r], who[r], todo[r]>>
  BY <1>2, ArriveTyped, CommandTyped DEF Alone
<1>3. CASE Interrupt
  BY <1>3 DEF Interrupt, localVars
<1> QED BY <1>1, <1>2, <1>3 DEF Next, Done

\* The commands of each kind of call.
LEMMA CommandsOfKinds ==
    ASSUME AccountsInv, NEW r \in Requests, Command(r)
    PROVE  LET kind == op[r].kind
           IN  /\ kind = "register" =>
                     Check(r) \/ WriteUser(r) \/ SetIndex(r) \/ StoreToken(r)
               /\ kind = "login" => FindUser(r) \/ Found(r) \/ StoreToken(r)
               /\ kind = "logout" => RevokeToken(r)
               /\ kind = "useKey" => UseApiKey(r)
               /\ kind = "patch" => \/ Authenticate(r) \/ Read(r) \/ Check(r) \/ Drop(r)
                                    \/ SetIndex(r) \/ WriteUser(r)
               /\ kind \in Updates \ {"patch", "password"} =>
                     Authenticate(r) \/ Load(r) \/ Read(r) \/ WriteUser(r)
               /\ kind = "password" => \/ Authenticate(r) \/ Load(r) \/ Read(r) \/ WriteUser(r)
                                       \/ RevokeAll(r)
               /\ kind = "logoutAll" => Authenticate(r) \/ RevokeAll(r)
               /\ kind = "createKey" => Authenticate(r) \/ Load(r) \/ CreateApiKey(r)
               /\ kind = "revokeKey" => Authenticate(r) \/ RevokeApiKey(r)
               /\ kind = "createHook" => Authenticate(r) \/ CreateWebhook(r)
               /\ kind \in Deletes => \/ Authenticate(r) \/ Load(r) \/ Read(r) \/ Drop(r)
                                      \/ DeleteKeys(r) \/ DeleteHooks(r) \/ EraseUser(r)
<1>1. /\ Authenticate(r) => op[r].kind \notin Unowned
      /\ Load(r) => op[r].kind \in {"password", "createKey", "delete"} \cup AdminKinds
      /\ Read(r) => op[r].kind \in Updates \cup Deletes
      /\ Check(r) \/ SetIndex(r) => op[r].kind \in {"register", "patch"}
      /\ Drop(r) => op[r].kind \in Deletes \cup {"patch"}
      /\ WriteUser(r) => op[r].kind \in Updates \cup {"register"}
      /\ FindUser(r) \/ Found(r) => op[r].kind = "login"
  BY DEF AccountsInv, Flow, Authenticate, Load, Read, Check, SetIndex, Drop, WriteUser, FindUser,
     Found
<1>2. /\ StoreToken(r) => op[r].kind \in {"register", "login"}
      /\ RevokeToken(r) => op[r].kind = "logout"
      /\ RevokeAll(r) => op[r].kind \in SessionEnding
      /\ CreateApiKey(r) => op[r].kind = "createKey"
      /\ UseApiKey(r) => op[r].kind = "useKey"
      /\ RevokeApiKey(r) => op[r].kind = "revokeKey"
      /\ CreateWebhook(r) => op[r].kind = "createHook"
      /\ DeleteKeys(r) \/ DeleteHooks(r) \/ EraseUser(r) => op[r].kind \in Deletes
  BY DEF AccountsInv, Flow, StoreToken, RevokeToken, RevokeAll, CreateApiKey, UseApiKey,
     RevokeApiKey, CreateWebhook, DeleteKeys, DeleteHooks, EraseUser, Erasing
<1> QED BY <1>1, <1>2 DEF Command, Unowned, Updates, Deletes, SessionEnding, AdminKinds

-----------------------------------------------------------------------------
(* User records *)

LEMMA CallsStay == ASSUME AccountsInv, [Next]_vars PROVE op' = op
  BY ArriveTyped, CommandTyped DEF Alone, Next, Done, Interrupt, vars

\* Two commands change records, and one the copies of them.
LEMMA RecordSteps ==
    ASSUME [Next]_vars
    PROVE  \/ UNCHANGED <<record, serial, wasAdmin, copy>>
           \/ \E r \in Requests : WriteUser(r) /\ copy' = copy
           \/ \E r \in Requests : EraseUser(r) /\ UNCHANGED <<copy, wasAdmin>>
           \/ \E r \in Requests : Read(r) /\ UNCHANGED <<record, serial, wasAdmin>>
<1>1. CASE UNCHANGED vars \/ Interrupt
  BY <1>1 DEF vars, userVars, localVars, history, Interrupt
<1>2. ASSUME NEW r \in Requests, Arrive(r) PROVE UNCHANGED <<record, serial, wasAdmin, copy>>
  BY <1>2 DEF Arrive, userVars, localVars
<1>3. ASSUME NEW r \in Requests, Command(r)
      PROVE  \/ UNCHANGED <<record, serial, wasAdmin, copy>>
             \/ WriteUser(r) /\ copy' = copy
             \/ EraseUser(r) /\ UNCHANGED <<copy, wasAdmin>>
             \/ Read(r) /\ UNCHANGED <<record, serial, wasAdmin>>
  <2>1. CASE Authenticate(r) \/ Load(r) \/ Read(r) \/ Check(r) \/ Drop(r) \/ SetIndex(r)
             \/ WriteUser(r)
    BY <2>1 DEF Authenticate, Load, Read, Check, Drop, SetIndex, WriteUser, userVars, localVars,
       history
  <2>2. CASE FindUser(r) \/ Found(r) \/ StoreToken(r) \/ RevokeToken(r) \/ RevokeAll(r)
    BY <2>2 DEF FindUser, Found, StoreToken, RevokeToken, RevokeAll, userVars, localVars, history
  <2>3. CASE CreateApiKey(r) \/ UseApiKey(r) \/ RevokeApiKey(r) \/ CreateWebhook(r)
             \/ DeleteKeys(r) \/ DeleteHooks(r) \/ EraseUser(r)
    BY <2>3 DEF CreateApiKey, UseApiKey, RevokeApiKey, CreateWebhook, DeleteKeys, DeleteHooks,
       EraseUser, userVars, localVars, history
  <2> QED BY <1>3, <2>1, <2>2, <2>3 DEF Command
<1> QED BY <1>1, <1>2, <1>3 DEF Next, Done

\* Requests that got past the check of their caller's role.
Admitted(r) == pc[r] \notin {"new", "auth", "refused", "failed"}

\* Whoever is an administrator, has a copy that says so, or makes another
\* one, has been an administrator.
AdminInv ==
    /\ \A u \in Users : record[u].role = "admin" => u \in wasAdmin
    /\ \A r \in Requests : copy[r].role = "admin" => Target(r) \in wasAdmin
    /\ \A r \in Requests : op[r].kind = "makeAdmin" /\ Admitted(r) => op[r].caller \in wasAdmin

LEMMA AdminInit == Init => AdminInv
<1> SUFFICES ASSUME Init PROVE AdminInv
  OBVIOUS
<1>1. wasAdmin = { u \in Users : record[u].role = "admin" }
  BY DEF Init
<1>2. \A r \in Requests : copy[r].role # "admin"
  <2>1. \A r \in Requests : copy[r] = Gone
    BY DEF Init
  <2>2. Gone.role # "admin"
    BY Words DEF Gone, NoUpdate
  <2> QED BY <2>1, <2>2
<1>3. \A r \in Requests : Admitted(r) => op[r] = Call
  BY DEF Init, Admitted
<1>4. Call.kind # "makeAdmin"
  BY DEF Call
<1> QED BY <1>1, <1>2, <1>3, <1>4 DEF AdminInv

\* How a request gets past the check.
LEMMA Admission ==
    ASSUME AccountsInv, AdminInv, [Next]_vars, NEW r \in Requests, op[r].kind = "makeAdmin",
           Admitted(r)'
    PROVE  op[r].caller \in wasAdmin
<1>1. CASE Admitted(r)
  BY <1>1 DEF AdminInv
<1>2. CASE ~Admitted(r)
  <2>1. \/ Arrive(r) \/ Authenticate(r)
    <3>1. pc'[r] # pc[r] /\ pc'[r] # "failed" /\ pc[r] \in {"new", "auth", "refused", "failed"}
      BY <1>2 DEF Admitted
    <3>2. ~UNCHANGED vars /\ ~Interrupt
      BY <3>1 DEF vars, Interrupt
    <3>3. ASSUME NEW q \in Requests, Arrive(q) \/ Command(q) PROVE q = r
      BY <3>1, <3>3, ArriveTyped, CommandTyped DEF Alone
    <3>4. Arrive(r) \/ Command(r)
      BY <3>2, <3>3 DEF Next, Done
    <3>5. pc[r] \in {"new", "auth"} \/ Arrive(r)
      BY <3>1, <3>4, CommandsAreActive DEF Active, Answers
    <3> QED BY <3>1, <3>4, <3>5, CommandsAreActive DEF Command, Active, Load, Read, Check, Drop, SetIndex, WriteUser,
         FindUser, Found, StoreToken, RevokeToken, RevokeAll, CreateApiKey, UseApiKey, RevokeApiKey,
         CreateWebhook, DeleteKeys, DeleteHooks, EraseUser
  <2>2. pc \in [Requests -> Places] /\ op[r].caller \in Users
    BY DEF AccountsInv, Types, LocalTypes, Shape, Unowned
  <2>3. ~Arrive(r)
    BY <2>2 DEF Arrive, GoTo, First, Admitted
  <2>4. Authenticate(r)
    BY <2>1, <2>3
  <2>5. record[op[r].caller].role = "admin"
    BY <2>2, <2>4 DEF Authenticate, GoTo, Admitted, AdminKinds
  <2> QED BY <2>2, <2>5 DEF AdminInv
<1> QED BY <1>1, <1>2

LEMMA AdminStep ==
    ASSUME AccountsInv, AdminInv, [Next]_vars
    PROVE  /\ AdminInv'
           /\ \A u \in Users :
                 record[u].role # "admin" /\ record'[u].role = "admin" =>
                    \/ u \in wasAdmin
                    \/ \E r \in Requests :
                          pc[r] = "write" /\ op[r].kind = "makeAdmin" /\ Target(r) = u
                          /\ op[r].caller \in wasAdmin
<1> DEFINE Made(u) == \E r \in Requests :
                          pc[r] = "write" /\ op[r].kind = "makeAdmin" /\ Target(r) = u
                          /\ op[r].caller \in wasAdmin
<1>a. /\ Types /\ op' = op
      /\ \A r \in Requests : Shape(op[r]) /\ Flow(r) /\ Holds(r) /\ Target(r)' = Target(r)
  BY CallsStay DEF AccountsInv, Target
<1>b. ASSUME wasAdmin \subseteq wasAdmin'
      PROVE  \A r \in Requests : op'[r].kind = "makeAdmin" /\ Admitted(r)' => op'[r].caller \in wasAdmin'
  BY <1>a, <1>b, Admission
<1>1. CASE UNCHANGED <<record, serial, wasAdmin, copy>>
  BY <1>a, <1>b, <1>1 DEF AdminInv
<1>2. ASSUME NEW r \in Requests, WriteUser(r), copy' = copy
      PROVE  AdminInv' /\ \A u \in Users :
                record[u].role # "admin" /\ record'[u].role = "admin" => u \in wasAdmin \/ Made(u)
  <2>1. /\ pc[r] = "write" /\ record' = [record EXCEPT ![Target(r)] = Updated(copy[r], op[r].set)]
        /\ wasAdmin' = wasAdmin \cup { v \in {Target(r)} : record'[Target(r)].role = "admin" }
    BY <1>2 DEF WriteUser
  <2>2. \A u \in Users : u # Target(r) => record'[u] = record[u]
    BY <1>a, <2>1 DEF Types, UserTypes
  <2>3. AdminInv'
    BY <1>a, <1>b, <1>2, <2>1, <2>2 DEF AdminInv
  <2>4. ASSUME Target(r) \in Users, record'[Target(r)].role = "admin"
        PROVE  Target(r) \in wasAdmin \/ Made(Target(r))
    <3>1. Updated(copy[r], op[r].set).role = "admin"
      BY <1>a, <2>1, <2>4 DEF Types, UserTypes
    <3>2. \/ op[r].set["role"] = "admin"
          \/ copy[r].role = "admin"
      BY <3>1, Words DEF Updated
    <3>3. op[r].set["role"] = "admin" => op[r].kind = "makeAdmin" /\ Admitted(r)
      BY <1>a, <2>1 DEF Shape, Admitted
    <3> QED BY <2>1, <3>2, <3>3 DEF AdminInv
  <2> QED BY <2>2, <2>3, <2>4
<1>3. ASSUME NEW r \in Requests, EraseUser(r), UNCHANGED <<copy, wasAdmin>>
      PROVE  AdminInv' /\ \A u \in Users : record'[u].role = "admin" => record[u].role = "admin"
  <2>1. record' = [record EXCEPT ![op[r].user] = Gone] /\ Gone.role # "admin"
    BY <1>3, Words DEF EraseUser, Gone, NoUpdate
  <2>2. \A u \in Users : record'[u].role = "admin" => record[u].role = "admin"
    BY <1>a, <2>1 DEF Types, UserTypes
  <2> QED BY <1>a, <1>b, <1>3, <2>2 DEF AdminInv
<1>4. ASSUME NEW r \in Requests, Read(r), UNCHANGED <<record, serial, wasAdmin>>
      PROVE  AdminInv'
  <2>1. /\ copy' = [copy EXCEPT ![r] = record[op[r].user]] /\ pc[r] = "read"
        /\ op[r].kind \in Updates \cup Deletes
    BY <1>a, <1>4 DEF Read, Flow
  <2>2. Target(r) = op[r].user /\ op[r].user \in Users
    BY <1>a, <2>1 DEF Target, Shape, Unowned, Updates, Deletes
  <2>3. \A q \in Requests : copy'[q] = IF q = r THEN record[op[r].user] ELSE copy[q]
    BY <1>a, <2>1 DEF Types, LocalTypes
  <2> QED BY <1>a, <1>b, <1>4, <2>2, <2>3 DEF AdminInv
<1> QED BY <1>1, <1>2, <1>3, <1>4, RecordSteps

(***************************************************************************)
(* admin.routes.ts: only administrators make administrators, and a role    *)
(* that was taken away can only come back with an older record.            *)
(***************************************************************************)
THEOREM AdminsAreMadeByAdmins == Spec => AdminsAreMade
<1>1. AccountsInv /\ AdminInv /\ [Next]_vars => AdminInv'
  BY AdminStep
<1>2. AccountsInv /\ AdminInv /\ [Next]_vars =>
         [\A u \in Users :
             record[u].role # "admin" /\ record'[u].role = "admin" =>
                \/ u \in wasAdmin
                \/ \E r \in Requests :
                      pc[r] = "write" /\ op[r].kind = "makeAdmin" /\ Target(r) = u
                      /\ op[r].caller \in wasAdmin]_vars
  BY AdminStep
<1> QED BY <1>1, <1>2, AccountsInit, AccountsStep, AdminInit, PTL DEF Spec, AdminsAreMade

\* r is about to write what it has read, or a record that is not there yet.
Midway(r) == op[r].kind \in Updates /\ pc[r] \in {"check", "drop", "set", "write"}
Unborn(r) == op[r].kind = "register" /\ pc[r] \in {"new", "check", "write"}

\* While nobody else writes the record of u, what has been read of it stays
\* true.
SerialInv ==
    \A u \in Users : ~Clash(u) =>
        /\ record[u] = serial[u]
        /\ \A r \in Requests : Midway(r) /\ Target(r) = u => copy[r] = record[u]
        /\ \A r \in Requests : Unborn(r) /\ Target(r) = u => record[u] = Gone

LEMMA WritersClash ==
    ASSUME MetInv, NEW r \in Requests, NEW q \in Requests, q # r, Active(q), Active(r),
           op[q].kind \in Writes, op[r].kind \in Writes, Target(q) = Target(r)
    PROVE  Clash(Target(r))
  BY DEF MetInv, Clash

LEMMA ClashesStay ==
    ASSUME op' = op, met \subseteq met', NEW u PROVE Clash(u) => Clash(u)'
  BY DEF Clash, Target

LEMMA SerialInit == Init => SerialInv
<1> SUFFICES ASSUME Init PROVE SerialInv
  OBVIOUS
<1>1. serial = record /\ \A r \in Requests : pc[r] \in {"ok", "new"}
  BY DEF Init
<1>2. \A r \in Requests : record[r] = Gone
  BY NamesAssumption DEF Init, Users
<1>3. \A r \in Requests : Unborn(r) => Target(r) = r
  BY DEF Unborn, Target
<1> QED BY <1>1, <1>2, <1>3 DEF SerialInv, Midway

LEMMA UnbornBefore ==
    ASSUME AccountsInv, [Next]_vars, NEW r \in Requests, Unborn(r)'
    PROVE  Unborn(r)
<1>1. op' = op /\ pc \in [Requests -> Places] /\ op[r].kind = "register"
  BY CallsStay DEF AccountsInv, Types, LocalTypes, Unborn
<1>2. CASE Command(r)
  BY <1>1, <1>2, CommandsOfKinds DEF Check, WriteUser, SetIndex, StoreToken, GoTo, Unborn
<1> QED BY <1>1, <1>2, Ways DEF Unborn, Arrive, Active

LEMMA MidwayBefore ==
    ASSUME AccountsInv, [Next]_vars, NEW r \in Requests, Midway(r)'
    PROVE  Midway(r) \/ Read(r)
<1>1. op' = op /\ pc \in [Requests -> Places] /\ op[r].kind \in Updates
  BY CallsStay DEF AccountsInv, Types, LocalTypes, Midway
<1>2. CASE Command(r)
  <2>1. pc'[r] \in {"check", "drop", "set", "write"}
    BY DEF Midway
  <2>2. \/ Authenticate(r) \/ Load(r) \/ Read(r) \/ Check(r) \/ Drop(r) \/ SetIndex(r)
        \/ WriteUser(r) \/ RevokeAll(r)
    BY <1>1, <1>2, CommandsOfKinds
  <2>3. ~Authenticate(r) /\ ~Load(r) /\ ~RevokeAll(r)
    BY <1>1, <2>1 DEF Authenticate, Routed, Load, RevokeAll, GoTo
  <2> QED BY <1>1, <2>2, <2>3 DEF Check, Drop, SetIndex, WriteUser, Midway
<1>3. CASE Arrive(r)
  BY <1>1, <1>3 DEF Arrive, GoTo, First, Midway, Updates
<1> QED BY <1>1, <1>2, <1>3, Ways DEF Midway

LEMMA SerialStep == AccountsInv /\ MetInv /\ SerialInv /\ [Next]_vars => SerialInv'
<1> SUFFICES ASSUME AccountsInv, MetInv, SerialInv, [Next]_vars, NEW u \in Users, ~Clash(u)'
             PROVE  /\ record'[u] = serial'[u]
                    /\ \A r \in Requests : Midway(r)' /\ Target(r)' = u => copy'[r] = record'[u]
                    /\ \A r \in Requests : Unborn(r)' /\ Target(r)' = u => record'[u] = Gone
  BY DEF SerialInv
<1>a. /\ Types /\ op' = op /\ met \subseteq met'
      /\ \A r \in Requests : Shape(op[r]) /\ Flow(r) /\ Holds(r) /\ Target(r)' = Target(r)
  BY StepsOfRequests DEF AccountsInv, Target
<1>b. /\ ~Clash(u) /\ record[u] = serial[u]
      /\ \A r \in Requests : Midway(r) /\ Target(r) = u => copy[r] = record[u]
      /\ \A r \in Requests : Unborn(r) /\ Target(r) = u => record[u] = Gone
  BY <1>a, ClashesStay DEF SerialInv
<1>c. \A r \in Requests : Unborn(r)' => Unborn(r)
  BY UnbornBefore
<1>d. \A r \in Requests : Midway(r)' => Midway(r) \/ Read(r)
  BY MidwayBefore
<1>e. \A r \in Requests : Midway(r) => Active(r) /\ op[r].kind \in Writes
  BY DEF Midway, Active, Answers, Writes
<1>1. CASE UNCHANGED <<record, serial, wasAdmin, copy>>
  <2>1. \A r \in Requests : Read(r) => copy'[r] = record[op[r].user] /\ op[r].kind # "register"
    BY <1>a DEF Read, Types, LocalTypes, Flow, Updates, Deletes
  <2>2. \A r \in Requests : Read(r) => copy[r] = record[Target(r)]
    BY <1>1, <2>1 DEF Target
  <2>3. \A r \in Requests : Midway(r)' /\ Target(r) = u => copy[r] = record[u]
    BY <1>b, <1>d, <2>2
  <2> QED BY <1>a, <1>b, <1>c, <1>1, <2>3
<1>2. ASSUME NEW r \in Requests, WriteUser(r), copy' = copy
      PROVE  /\ record'[u] = serial'[u]
             /\ \A q \in Requests : Midway(q)' /\ Target(q) = u => copy'[q] = record'[u]
             /\ \A q \in Requests : Unborn(q)' /\ Target(q) = u => record'[u] = Gone
  <2>1. /\ pc[r] = "write" /\ op[r].kind \in Writes /\ Active(r)
        /\ record' = [record EXCEPT ![Target(r)] = Updated(copy[r], op[r].set)]
        /\ serial' = [serial EXCEPT ![Target(r)] =
              IF serial[Target(r)] = Gone /\ op[r].kind # "register" THEN Gone
              ELSE Updated(serial[Target(r)], op[r].set)]
        /\ pc'[r] \in {"set", "members", "ok"} /\ ~Midway(r)' /\ ~Unborn(r)'
    BY <1>a, <1>2 DEF WriteUser, GoTo, Types, LocalTypes, Flow, Writes, Active, Answers, Midway,
       Unborn, Updates
  <2>2. ~Read(r)
    BY <2>1 DEF Read
  <2>3. \A q \in Requests : q # r => ~Read(q)
    BY <2>1, <1>2, WriteTyped DEF Read, Alone, GoTo, Types, LocalTypes, AccountsInv
  <2>4. CASE Target(r) # u
    <3>1. record'[u] = record[u] /\ serial'[u] = serial[u]
      BY <1>a, <2>1, <2>4 DEF Types, UserTypes, HistoryTypes
    <3> QED BY <1>2, <1>b, <1>c, <1>d, <2>2, <2>3, <3>1
  <2>5. CASE Target(r) = u
    <3>1. record'[u] = Updated(copy[r], op[r].set)
      BY <1>a, <2>1, <2>5 DEF Types, UserTypes
    <3>2. record[u] = serial[u] /\ copy[r] = record[u] /\ (op[r].kind # "register" => record[u] # Gone)
      <4>1. CASE op[r].kind = "register"
        BY <1>a, <1>b, <2>1, <2>5, <4>1 DEF Unborn, Holds
      <4>2. CASE op[r].kind # "register"
        <5>1. Midway(r) /\ copy[r] \in Records
          BY <1>a, <2>1, <4>2 DEF Midway, Writes, Holds, Flow
        <5> QED BY <1>b, <2>5, <4>2, <5>1, RecordsAreReal
      <4> QED BY <4>1, <4>2
    <3>3. serial'[u] = Updated(copy[r], op[r].set)
      BY <1>a, <2>1, <2>5, <3>2 DEF Types, HistoryTypes
    <3>4. ASSUME NEW q \in Requests, q # r, Target(q) = u, op[q].kind \in Writes
          PROVE  ~Active(q)
      BY <1>b, <2>1, <2>5, <3>4, WritersClash
    <3>5. \A q \in Requests : Target(q) = u => ~Midway(q)'
      BY <1>d, <1>e, <2>1, <2>2, <2>3, <3>4
    <3>6. \A q \in Requests : Target(q) = u => ~Unborn(q)'
      <4> SUFFICES ASSUME NEW q \in Requests, Target(q) = u, Unborn(q)' PROVE FALSE
        OBVIOUS
      <4>1. Unborn(q) /\ q # r /\ ~Active(q)
        BY <1>c, <2>1, <3>4 DEF Unborn, Writes
      <4>2. q = u /\ record[u] = Gone
        BY <1>b, <4>1 DEF Unborn, Target
      <4>3. op[r].kind = "register" => Target(r) = r
        BY DEF Target
      <4> QED BY <2>5, <3>2, <4>1, <4>2, <4>3
    <3> QED BY <3>1, <3>3, <3>5, <3>6
  <2> QED BY <2>4, <2>5
<1>3. ASSUME NEW r \in Requests, EraseUser(r), UNCHANGED <<copy, wasAdmin>>
      PROVE  /\ record'[u] = serial'[u]
             /\ \A q \in Requests : Midway(q)' /\ Target(q) = u => copy'[q] = record'[u]
             /\ \A q \in Requests : Unborn(q)' /\ Target(q) = u => record'[u] = Gone
  <2>1. /\ pc[r] = "erase" /\ op[r].kind \in Deletes /\ Active(r) /\ Target(r) = op[r].user
        /\ record' = [record EXCEPT ![op[r].user] = Gone]
        /\ serial' = [serial EXCEPT ![op[r].user] = Gone]
    BY <1>a, <1>3 DEF EraseUser, Flow, Erasing, Active, Answers, Target, Deletes
  <2>2. \A q \in Requests : ~Read(q)
    BY <1>3, <2>1, EraseUserTyped DEF Read, Alone, GoTo, EraseUser, AccountsInv, Types, LocalTypes
  <2>3. CASE Target(r) # u
    <3>1. record'[u] = record[u] /\ serial'[u] = serial[u]
      BY <1>a, <2>1, <2>3 DEF Types, UserTypes, HistoryTypes
    <3> QED BY <1>3, <1>b, <1>c, <1>d, <2>2, <3>1
  <2>4. CASE Target(r) = u
    <3>1. record'[u] = Gone /\ serial'[u] = Gone
      BY <1>a, <2>1, <2>4 DEF Types, UserTypes, HistoryTypes
    <3>2. ASSUME NEW q \in Requests, q # r, Target(q) = u, op[q].kind \in Writes
          PROVE  ~Active(q)
      BY <1>b, <2>1, <2>4, <3>2, WritersClash DEF Writes
    <3>3. ~Midway(r)
      BY <2>1 DEF Midway, Deletes, Updates
    <3>4. \A q \in Requests : Target(q) = u => ~Midway(q)'
      BY <1>d, <1>e, <2>2, <3>2, <3>3
    <3> QED BY <3>1, <3>4
  <2> QED BY <2>3, <2>4
<1>4. ASSUME NEW r \in Requests, Read(r), UNCHANGED <<record, serial, wasAdmin>>
      PROVE  /\ record'[u] = serial'[u]
             /\ \A q \in Requests : Midway(q)' /\ Target(q) = u => copy'[q] = record'[u]
             /\ \A q \in Requests : Unborn(q)' /\ Target(q) = u => record'[u] = Gone
  <2>1. /\ copy' = [copy EXCEPT ![r] = record[op[r].user]] /\ pc[r] = "read"
        /\ Target(r) = op[r].user
    BY <1>a, <1>4 DEF Read, Flow, Target, Updates, Deletes
  <2>2. \A q \in Requests : copy'[q] = IF q = r THEN record[Target(r)] ELSE copy[q]
    BY <1>a, <2>1 DEF Types, LocalTypes
  <2>3. \A q \in Requests : q # r => ~Read(q)
    BY <1>4, <2>1, ReadTyped DEF Read, Alone, GoTo, AccountsInv, Types, LocalTypes
  <2> QED BY <1>4, <1>b, <1>c, <1>d, <2>2, <2>3
<1>5. /\ record'[u] = serial'[u]
      /\ \A q \in Requests : Midway(q)' /\ Target(q) = u => copy'[q] = record'[u]
      /\ \A q \in Requests : Unborn(q)' /\ Target(q) = u => record'[u] = Gone
  <2>1. \/ UNCHANGED <<record, serial, wasAdmin, copy>>
        \/ \E r \in Requests : WriteUser(r) /\ copy' = copy
        \/ \E r \in Requests : EraseUser(r) /\ UNCHANGED <<copy, wasAdmin>>
        \/ \E r \in Requests : Read(r) /\ UNCHANGED <<record, serial, wasAdmin>>
    BY RecordSteps
  <2> QED BY <1>a, <1>1, <1>2, <1>3, <1>4, <2>1
<1> QED BY <1>a, <1>5

(***************************************************************************)
(* userStore.ts:99, 141: no update is lost and no deleted user comes back, *)
(* unless calls that write the same record overlap.                        *)
(***************************************************************************)
THEOREM RecordsStaySerial == Spec => []RecordsAreSerial
<1>1. SerialInv => RecordsAreSerial
  BY DEF SerialInv, RecordsAreSerial
<1> QED BY <1>1, MetBegin, MetStep, AccountsInit, AccountsStep, SerialInit, SerialStep, PTL DEF Spec

-----------------------------------------------------------------------------
(* API keys *)

\* What changes keys and their ids.
LEMMA KeySteps ==
    ASSUME [Next]_vars
    PROVE  \/ UNCHANGED <<keyData, keyIds>>
           \/ \E r \in Requests : CreateApiKey(r)
           \/ \E r \in Requests : UseApiKey(r)
           \/ \E r \in Requests : RevokeApiKey(r)
           \/ \E r \in Requests : DeleteKeys(r)
<1>1. CASE UNCHANGED vars \/ Interrupt
  BY <1>1 DEF vars, keyVars, Interrupt
<1>2. ASSUME NEW r \in Requests, Arrive(r) PROVE UNCHANGED <<keyData, keyIds>>
  BY <1>2 DEF Arrive, keyVars
<1>3. ASSUME NEW r \in Requests, Command(r)
      PROVE  \/ UNCHANGED <<keyData, keyIds>>
             \/ CreateApiKey(r) \/ UseApiKey(r) \/ RevokeApiKey(r) \/ DeleteKeys(r)
  <2>1. CASE Authenticate(r) \/ Load(r) \/ Read(r) \/ Check(r) \/ Drop(r) \/ SetIndex(r)
             \/ WriteUser(r)
    BY <2>1 DEF Authenticate, Load, Read, Check, Drop, SetIndex, WriteUser, keyVars
  <2>2. CASE FindUser(r) \/ Found(r) \/ StoreToken(r) \/ RevokeToken(r) \/ RevokeAll(r)
             \/ CreateWebhook(r) \/ DeleteHooks(r) \/ EraseUser(r)
    BY <2>2 DEF FindUser, Found, StoreToken, RevokeToken, RevokeAll, CreateWebhook, DeleteHooks,
       EraseUser, keyVars
  <2> QED BY <1>3, <2>1, <2>2 DEF Command
<1> QED BY <1>1, <1>2, <1>3 DEF Next, Done

\* k is to be created yet; its id is to be stored yet.
Unmade(k) ==
    k \in Requests /\ op[k].kind = "createKey" /\ pc[k] \in {"new", "auth", "load", "setKey"}
Unnamed(k) ==
    k \in Requests /\ op[k].kind = "createKey"
    /\ pc[k] \in {"new", "auth", "load", "setKey", "addKey", "setKeyId"}

\* k is not there, and no request that found it there is about to write it.
Dead(k) ==
    /\ keyData[k] = None
    /\ \A s \in Requests : op[s].kind = "useKey" /\ op[s].item = k => pc[s] # "touch"

KeyInv ==
    /\ \A k \in keyIds : ~Unnamed(k)
    /\ \A r \in Requests : op[r].kind = "revokeKey" =>
          /\ pc[r] \in {"getKey", "delKey", "delKeyId", "remKey", "ok"} => ~Unmade(op[r].item)
          /\ pc[r] \in {"delKeyId", "remKey", "ok"} /\ ~Overlapped(r, {"useKey"}) =>
                Dead(op[r].item)

LEMMA KeyInit == Init => KeyInv
<1> SUFFICES ASSUME Init PROVE KeyInv
  OBVIOUS
<1>1. keyIds \cap Requests = {}
  BY NamesAssumption DEF Init
<1>2. \A r \in Requests : pc[r] \in {"ok", "new"} /\ (pc[r] = "ok" => op[r] = Call)
  BY DEF Init
<1>3. Call.kind = ""
  BY DEF Call
<1> QED BY <1>1, <1>2, <1>3 DEF KeyInv, Unnamed

\* A key that is made stays so.
LEMMA MadeStays ==
    ASSUME AccountsInv, [Next]_vars, NEW k
    PROVE  /\ Unmade(k)' => Unmade(k)
           /\ Unnamed(k)' => Unnamed(k)
<1> SUFFICES ASSUME k \in Requests, op[k].kind = "createKey"
             PROVE  /\ Unmade(k)' => Unmade(k)
                    /\ Unnamed(k)' => Unnamed(k)
  BY CallsStay DEF Unmade, Unnamed
<1>1. op' = op /\ pc \in [Requests -> Places]
  BY CallsStay DEF AccountsInv, Types, LocalTypes
<1>2. CASE Command(k)
  <2>1. Authenticate(k) \/ Load(k) \/ CreateApiKey(k)
    BY <1>2, CommandsOfKinds
  <2> QED BY <1>1, <2>1 DEF Authenticate, Load, CreateApiKey, GoTo, Unmade, Unnamed
<1> QED BY <1>1, <1>2, Ways DEF Unmade, Unnamed, Arrive, Active

LEMMA OverlapsStay ==
    ASSUME op' = op, met \subseteq met', NEW r, NEW kinds
    PROVE  Overlapped(r, kinds) => Overlapped(r, kinds)'
  BY DEF Overlapped

\* A dead key stays dead.
LEMMA DeadStays ==
    ASSUME AccountsInv, [Next]_vars, NEW k \in Keys, Dead(k), ~Unmade(k)
    PROVE  Dead(k)'
<1>1. op' = op /\ pc \in [Requests -> Places] /\ keyData \in [Keys -> Owner]
  BY CallsStay DEF AccountsInv, Types, LocalTypes, KeyTypes
<1>2. ASSUME NEW s \in Requests, op[s].kind = "useKey", op[s].item = k PROVE pc'[s] # "touch"
  <2>1. pc[s] # "touch" /\ keyData[k] = None
    BY <1>2 DEF Dead
  <2>2. CASE Command(s)
    BY <1>1, <1>2, <2>1, <2>2, CommandsOfKinds DEF UseApiKey, GoTo
  <2>3. CASE Arrive(s)
    BY <1>1, <1>2, <2>3 DEF Arrive, GoTo, First
  <2> QED BY <2>1, <2>2, <2>3, Ways
<1>3. keyData'[k] = None
  <2>1. keyData[k] = None
    BY DEF Dead
  <2>2. ASSUME NEW r \in Requests, CreateApiKey(r) PROVE keyData'[k] = None
    <3>1. r # k \/ pc[r] # "setKey"
      BY DEF Unmade, CreateApiKey, AccountsInv, Flow
    <3> QED BY <1>1, <2>1, <2>2, <3>1 DEF CreateApiKey
  <2>3. ASSUME NEW r \in Requests, UseApiKey(r) PROVE keyData'[k] = None
    <3>1. pc[r] = "touch" => op[r].item # k
      BY DEF Dead, AccountsInv, Flow
    <3> QED BY <1>1, <2>1, <2>3, <3>1 DEF UseApiKey
  <2>4. ASSUME NEW r \in Requests, RevokeApiKey(r) PROVE keyData'[k] = None
    BY <1>1, <2>1, <2>4 DEF RevokeApiKey, keyVars
  <2>5. ASSUME NEW r \in Requests, DeleteKeys(r) PROVE keyData'[k] = None
    BY <1>1, <2>1, <2>5 DEF DeleteKeys, keyVars
  <2> QED BY <2>1, <2>2, <2>3, <2>4, <2>5, KeySteps
<1> QED BY <1>1, <1>2, <1>3 DEF Dead

LEMMA KeyStep ==
    ASSUME AccountsInv, MetInv, KeyInv, [Next]_vars
    PROVE  KeyInv'
<1>a. /\ Types /\ op' = op /\ met \subseteq met' /\ pc \in [Requests -> Places]
      /\ \A r \in Requests : Shape(op[r]) /\ Flow(r)
  BY StepsOfRequests DEF AccountsInv, Types, LocalTypes
<1>1. ASSUME NEW k \in keyIds' PROVE ~Unnamed(k)'
  <2>1. CASE k \in keyIds
    BY <2>1, MadeStays DEF KeyInv
  <2>2. CASE k \notin keyIds
    <3>1. CreateApiKey(k) /\ pc[k] = "setKeyId" /\ k \in Requests
      BY <2>2, KeySteps DEF CreateApiKey, UseApiKey, RevokeApiKey, DeleteKeys, keyVars
    <3>2. pc'[k] = "ok"
      BY <1>a, <3>1 DEF CreateApiKey, GoTo
    <3> QED BY <3>2 DEF Unnamed
  <2> QED BY <2>1, <2>2
<1>2. ASSUME NEW r \in Requests, op[r].kind = "revokeKey", NEW k, k = op[r].item
      PROVE  /\ pc'[r] \in {"getKey", "delKey", "delKeyId", "remKey", "ok"} => ~Unmade(k)'
             /\ pc'[r] \in {"delKeyId", "remKey", "ok"} /\ ~Overlapped(r, {"useKey"})' => Dead(k)'
  <2>1. k \in Keys /\ (Unmade(k)' => Unmade(k)) /\ (Unmade(k) => Unnamed(k))
        /\ (Overlapped(r, {"useKey"}) => Overlapped(r, {"useKey"})')
    BY <1>a, <1>2, MadeStays, OverlapsStay DEF Shape, Unmade, Unnamed
  <2>2. /\ pc[r] \in {"getKey", "delKey", "delKeyId", "remKey", "ok"} => ~Unmade(k)
        /\ pc[r] \in {"delKeyId", "remKey", "ok"} /\ ~Overlapped(r, {"useKey"}) => Dead(k)
    BY <1>2 DEF KeyInv
  <2>3. CASE UNCHANGED pc[r] \/ pc'[r] = "failed"
    <3>1. pc[r] \in {"delKeyId", "remKey", "ok"} /\ ~Overlapped(r, {"useKey"}) => Dead(k)'
      BY <2>1, <2>2, DeadStays
    <3> QED BY <2>1, <2>2, <2>3, <3>1
  <2>4. CASE Arrive(r)
    BY <1>2, <1>a, <2>4 DEF Arrive, GoTo, First
  <2>5. CASE Authenticate(r)
    BY <1>2, <1>a, <2>5 DEF Authenticate, GoTo, Routed
  <2>6. CASE RevokeApiKey(r)
    <3>1. CASE pc[r] = "getKeyId"
      <4>1. pc'[r] \in {"getKey", "refused"} /\ (pc'[r] = "getKey" => k \in keyIds)
        BY <1>a, <1>2, <2>6, <3>1 DEF RevokeApiKey, GoTo
      <4> QED BY <2>1, <4>1 DEF KeyInv
    <3>2. CASE pc[r] = "getKey"
      <4>1. pc'[r] \in {"delKey", "refused"}
        BY <1>a, <2>6, <3>2 DEF RevokeApiKey, GoTo
      <4> QED BY <2>1, <2>2, <3>2, <4>1
    <3>3. CASE pc[r] = "delKey"
      <4>a. keyData' = [keyData EXCEPT ![k] = None] /\ keyData \in [Keys -> Owner]
        BY <1>a, <1>2, <2>6, <3>3 DEF RevokeApiKey, Types, KeyTypes
      <4>1. keyData'[k] = None /\ ~Unmade(k)'
        BY <2>1, <2>2, <3>3, <4>a
      <4>2. ASSUME NEW s \in Requests, op[s].kind = "useKey", op[s].item = k, pc'[s] = "touch"
            PROVE  Overlapped(r, {"useKey"})'
        <5>1. s # r /\ pc[s] = "touch"
          BY <1>a, <1>2, <2>6, <4>2, RevokeApiKeyTyped DEF Alone
        <5>2. {r, s} \in met
          BY <3>3, <5>1 DEF MetInv, Active, Answers
        <5> QED BY <1>a, <4>2, <5>1, <5>2 DEF Overlapped
      <4> QED BY <1>a, <4>1, <4>2 DEF Dead
    <3>4. CASE pc[r] \in {"delKeyId", "remKey"}
      <4>1. ~Overlapped(r, {"useKey"}) => Dead(k)'
        BY <2>1, <2>2, <3>4, DeadStays
      <4> QED BY <2>1, <2>2, <3>4, <4>1
    <3> QED BY <2>6, <3>1, <3>2, <3>3, <3>4 DEF RevokeApiKey
  <2> QED BY <1>2, <2>3, <2>4, <2>5, <2>6, Ways, CommandsOfKinds
<1> QED BY <1>a, <1>1, <1>2 DEF KeyInv, Unmade, Dead

(***************************************************************************)
(* apiKeyStore.ts:100: a revoked key is of no use any more, unless it was  *)
(* used while it was revoked.                                              *)
(***************************************************************************)
THEOREM RevokedKeysAreDead == Spec => []RevokedKeyIsDead
<1>1. KeyInv => RevokedKeyIsDead
  BY DEF KeyInv, RevokedKeyIsDead, Dead
<1>2. AccountsInv /\ MetInv /\ KeyInv /\ [Next]_vars => KeyInv'
  BY KeyStep
<1> QED BY <1>1, <1>2, AccountsInit, AccountsStep, MetBegin, MetStep, KeyInit, PTL DEF Spec

-----------------------------------------------------------------------------
(* Sessions *)

\* What changes tokens and the lists of them.
LEMMA TokenSteps ==
    ASSUME [Next]_vars
    PROVE  \/ UNCHANGED tokenVars
           \/ \E r \in Requests : StoreToken(r)
           \/ \E r \in Requests : RevokeToken(r)
           \/ \E r \in Requests : RevokeAll(r)
<1>1. CASE UNCHANGED vars \/ Interrupt
  BY <1>1 DEF vars, tokenVars, Interrupt
<1>2. ASSUME NEW r \in Requests, Arrive(r) PROVE UNCHANGED tokenVars
  BY <1>2 DEF Arrive, tokenVars
<1>3. ASSUME NEW r \in Requests, Command(r)
      PROVE  UNCHANGED tokenVars \/ StoreToken(r) \/ RevokeToken(r) \/ RevokeAll(r)
  <2>1. CASE Authenticate(r) \/ Load(r) \/ Read(r) \/ Check(r) \/ Drop(r) \/ SetIndex(r)
             \/ WriteUser(r) \/ FindUser(r) \/ Found(r)
    BY <2>1 DEF Authenticate, Load, Read, Check, Drop, SetIndex, WriteUser, FindUser, Found,
       tokenVars
  <2>2. CASE CreateApiKey(r) \/ UseApiKey(r) \/ RevokeApiKey(r) \/ CreateWebhook(r)
             \/ DeleteKeys(r) \/ DeleteHooks(r) \/ EraseUser(r)
    BY <2>2 DEF CreateApiKey, UseApiKey, RevokeApiKey, CreateWebhook, DeleteKeys, DeleteHooks,
       EraseUser, tokenVars
  <2> QED BY <1>3, <2>1, <2>2 DEF Command
<1> QED BY <1>1, <1>2, <1>3 DEF Next, Done

\* A token somebody has: nobody is about to store it.
Given(t) == t \in Requests => pc[t] = "ok"

\* Somebody else was ending the session of t, or all of them, meanwhile.
Excused(r, t) ==
    \E s \in Requests \ {r} : {r, s} \in met
        /\ \/ op[s] = Logout(t)
           \/ op[s].kind \in SessionEnding /\ op[s].user = op[r].user
Ended(r, t) == token[t] = None \/ Excused(r, t)

\* Where a call that ends the sessions has not read the list of them.
Listing == {"auth", "load", "read", "check", "drop", "set", "write", "members"}

\* Every token there was when r began is listed, then to do, then ended.
SessionInv ==
    /\ \A u \in Users, t \in Tokens : t \in tokenSet[u] => Given(t)
    /\ \A r \in Requests, t \in Tokens : t \in had[r] =>
          /\ Given(t)
          /\ op[r].kind \in SessionEnding =>
                /\ pc[r] \in Listing => t \in tokenSet[op[r].user] \/ Ended(r, t)
                /\ pc[r] = "revoke" => t \in todo[r] \/ Ended(r, t)
                /\ pc[r] \in {"clear", "ok"} => Ended(r, t)

LEMMA SessionInit == Init => SessionInv
<1> SUFFICES ASSUME Init PROVE SessionInv
  OBVIOUS
<1>1. \A r \in Requests : had[r] = {}
  BY DEF Init
<1>2. \A u \in Users, t \in Tokens : t \in tokenSet[u] => t \notin Requests
  BY NamesAssumption DEF Init
<1> QED BY <1>1, <1>2 DEF SessionInv, Given

LEMMA GivenStays ==
    ASSUME AccountsInv, MetInv, [Next]_vars, NEW t, Given(t) PROVE Given(t)'
  BY StepsOfRequests DEF Given, Answers

\* What has ended stays so, and others only shorten the list when they are
\* there to excuse it.
LEMMA SessionsLast ==
    ASSUME AccountsInv, MetInv, [Next]_vars, NEW r \in Requests, NEW t \in Tokens, Given(t)
    PROVE  /\ Ended(r, t) => Ended(r, t)'
           /\ op[r].kind \in SessionEnding /\ Active(r) /\ t \in tokenSet[op[r].user] =>
                 \/ t \in tokenSet'[op[r].user]
                 \/ Excused(r, t)
                 \/ RevokeAll(r) /\ pc[r] = "clear"
<1>1. /\ Types /\ op' = op /\ met \subseteq met'
      /\ \A s \in Requests : Shape(op[s]) /\ Flow(s) /\ Holds(s)
  BY StepsOfRequests DEF AccountsInv
<1>2. token \in [Tokens -> Owner] /\ tokenSet \in [Users -> SUBSET Tokens]
  BY <1>1 DEF Types, TokenTypes
<1>3. Excused(r, t) => Excused(r, t)'
  BY <1>1 DEF Excused
<1>4. CASE UNCHANGED tokenVars
  BY <1>3, <1>4 DEF tokenVars, Ended
<1>5. ASSUME NEW s \in Requests, StoreToken(s)
      PROVE  /\ token[t] = None => token'[t] = None
             /\ \A u \in Users : t \in tokenSet[u] => t \in tokenSet'[u]
  <2>1. CASE pc[s] = "setToken"
    BY <1>2, <1>5, <2>1 DEF StoreToken, Given
  <2>2. CASE pc[s] = "addToken"
    <3>1. token' = token /\ tokenSet' = [tokenSet EXCEPT ![who[s]] = tokenSet[who[s]] \cup {s}]
      BY <1>5, <2>2 DEF StoreToken
    <3> QED BY <1>2, <3>1
  <2> QED BY <1>5, <2>1, <2>2 DEF StoreToken
<1>6. ASSUME NEW s \in Requests, RevokeToken(s)
      PROVE  /\ token[t] = None => token'[t] = None
             /\ \A u \in Users : t \in tokenSet[u] /\ t \notin tokenSet'[u] =>
                   op[s] = Logout(t) /\ Active(s)
  <2>1. Active(s) /\ op[s].kind = "logout" /\ op[s] = Logout(op[s].item)
    BY <1>1, <1>6 DEF RevokeToken, Active, Answers, Flow, Shape
  <2>2. token' = token \/ token' = [token EXCEPT ![op[s].item] = None]
    BY <1>6 DEF RevokeToken, tokenVars
  <2>3. tokenSet' = tokenSet
        \/ tokenSet' = [tokenSet EXCEPT ![who[s]] = tokenSet[who[s]] \ {op[s].item}]
    BY <1>6 DEF RevokeToken, tokenVars
  <2> QED BY <1>2, <2>1, <2>2, <2>3
<1>7. ASSUME NEW s \in Requests, RevokeAll(s)
      PROVE  /\ token[t] = None => token'[t] = None
             /\ Active(s) /\ op[s].kind \in SessionEnding
             /\ \A u \in Users : t \in tokenSet[u] /\ t \notin tokenSet'[u] =>
                   op[s].user = u /\ pc[s] = "clear"
  <2>1. Active(s) /\ op[s].kind \in SessionEnding
    BY <1>1, <1>7 DEF RevokeAll, Active, Answers, Flow
  <2>2. token' = token \/ \E i \in todo[s] : token' = [token EXCEPT ![i] = None]
    BY <1>7 DEF RevokeAll, tokenVars
  <2>3. tokenSet' = tokenSet
        \/ (tokenSet' = [tokenSet EXCEPT ![op[s].user] = {}] /\ pc[s] = "clear")
    BY <1>7 DEF RevokeAll, tokenVars
  <2> QED BY <1>2, <2>1, <2>2, <2>3
<1>8. Ended(r, t) => Ended(r, t)'
  BY <1>3, <1>4, <1>5, <1>6, <1>7, TokenSteps DEF Ended, tokenVars
<1>9. ASSUME op[r].kind \in SessionEnding, Active(r), t \in tokenSet[op[r].user],
             t \notin tokenSet'[op[r].user]
      PROVE  Excused(r, t) \/ (RevokeAll(r) /\ pc[r] = "clear")
  <2>1. op[r].user \in Users /\ op[r].kind # "logout"
    BY <1>1, <1>9 DEF Shape, SessionEnding, Unowned
  <2>2. CASE UNCHANGED tokenVars
    BY <1>9, <2>2 DEF tokenVars
  <2>3. ASSUME NEW s \in Requests, StoreToken(s) PROVE FALSE
    BY <1>5, <1>9, <2>1, <2>3
  <2>4. ASSUME NEW s \in Requests, RevokeToken(s) PROVE Excused(r, t)
    <3>1. op[s] = Logout(t) /\ Active(s)
      BY <1>6, <1>9, <2>1, <2>4
    <3>2. s # r
      BY <1>1, <2>1, <2>4 DEF RevokeToken, Flow
    <3> QED BY <1>9, <3>1, <3>2 DEF MetInv, Excused
  <2>5. ASSUME NEW s \in Requests, RevokeAll(s)
        PROVE  Excused(r, t) \/ (RevokeAll(r) /\ pc[r] = "clear")
    <3>1. op[s].user = op[r].user /\ pc[s] = "clear" /\ Active(s) /\ op[s].kind \in SessionEnding
      BY <1>7, <1>9, <2>1, <2>5
    <3> QED BY <1>9, <2>5, <3>1 DEF MetInv, Excused
  <2> QED BY <2>2, <2>3, <2>4, <2>5, TokenSteps
<1> QED BY <1>8, <1>9

LEMMA SessionStep ==
    ASSUME AccountsInv, MetInv, SessionInv, [Next]_vars
    PROVE  SessionInv'
<1>a. /\ Types /\ op' = op /\ pc \in [Requests -> Places] /\ tokenSet \in [Users -> SUBSET Tokens]
      /\ todo \in [Requests -> SUBSET (Tokens \cup Keys \cup Hooks)]
      /\ \A s \in Requests : Shape(op[s]) /\ Flow(s) /\ Holds(s)
  BY StepsOfRequests DEF AccountsInv, Types, LocalTypes, TokenTypes
<1>1. ASSUME NEW u \in Users, NEW t \in Tokens, t \in tokenSet'[u] PROVE Given(t)'
  <2>1. CASE t \in tokenSet[u]
    BY <2>1, GivenStays DEF SessionInv
  <2>2. CASE t \notin tokenSet[u]
    <3>1. ASSUME NEW s \in Requests, StoreToken(s) PROVE t = s /\ pc'[s] = "ok"
      BY <1>1, <1>a, <2>2, <3>1 DEF StoreToken, GoTo
    <3>2. ASSUME NEW s \in Requests, RevokeToken(s) PROVE FALSE
      <4>1. tokenSet' = tokenSet
            \/ tokenSet' = [tokenSet EXCEPT ![who[s]] = tokenSet[who[s]] \ {op[s].item}]
        BY <3>2 DEF RevokeToken, tokenVars
      <4> QED BY <1>1, <1>a, <2>2, <4>1
    <3>3. ASSUME NEW s \in Requests, RevokeAll(s) PROVE FALSE
      <4>1. tokenSet' = tokenSet \/ tokenSet' = [tokenSet EXCEPT ![op[s].user] = {}]
        BY <3>3 DEF RevokeAll, tokenVars
      <4> QED BY <1>1, <1>a, <2>2, <4>1
    <3> QED BY <1>1, <2>2, <3>1, <3>2, <3>3, TokenSteps DEF Given, tokenVars
  <2> QED BY <2>1, <2>2
<1>2. ASSUME NEW r \in Requests, NEW t \in Tokens, t \in had'[r]
      PROVE  /\ Given(t)'
             /\ op[r].kind \in SessionEnding =>
                   /\ pc'[r] \in Listing => t \in tokenSet'[op[r].user] \/ Ended(r, t)'
                   /\ pc'[r] = "revoke" => t \in todo'[r] \/ Ended(r, t)'
                   /\ pc'[r] \in {"clear", "ok"} => Ended(r, t)'
  <2>1. CASE Arrive(r)
    <3>1. /\ pc'[r] = First(op[r].kind) /\ UNCHANGED tokenSet
          /\ had'[r] = IF op[r].user = None THEN {} ELSE tokenSet[op[r].user]
      BY <1>a, <2>1 DEF Arrive, GoTo, Types, HistoryTypes, tokenVars
    <3>2. op[r].user \in Users /\ t \in tokenSet[op[r].user]
      BY <1>2, <1>a, <3>1 DEF Shape, Owner
    <3>3. Given(t)'
      BY <3>2, GivenStays DEF SessionInv
    <3>4. op[r].kind \in SessionEnding => pc'[r] = "auth"
      BY <3>1 DEF First, SessionEnding
    <3> QED BY <3>1, <3>2, <3>3, <3>4
  <2>2. CASE ~Arrive(r)
    <3>1. had'[r] = had[r]
      <4>1. ASSUME NEW q \in Requests, Arrive(q) PROVE had'[r] = had[r]
        BY <1>a, <2>2, <4>1 DEF Arrive, Types, HistoryTypes
      <4> QED BY <4>1, CommandsAreActive DEF Next, Done, Interrupt, vars, history
    <3>2. Given(t) /\ Given(t)'
      BY <1>2, <3>1, GivenStays DEF SessionInv
    <3>3. SUFFICES ASSUME op[r].kind \in SessionEnding
          PROVE  /\ pc'[r] \in Listing => t \in tokenSet'[op[r].user] \/ Ended(r, t)'
                 /\ pc'[r] = "revoke" => t \in todo'[r] \/ Ended(r, t)'
                 /\ pc'[r] \in {"clear", "ok"} => Ended(r, t)'
      BY <3>2
    <3>4. /\ pc[r] \in Listing => t \in tokenSet[op[r].user] \/ Ended(r, t)
          /\ pc[r] = "revoke" => t \in todo[r] \/ Ended(r, t)
          /\ pc[r] \in {"clear", "ok"} => Ended(r, t)
      BY <1>2, <3>1, <3>3 DEF SessionInv
    <3>5. /\ Ended(r, t) => Ended(r, t)'
          /\ Active(r) /\ t \in tokenSet[op[r].user] =>
                t \in tokenSet'[op[r].user] \/ Excused(r, t) \/ (RevokeAll(r) /\ pc[r] = "clear")
          /\ Excused(r, t) => Ended(r, t)
          /\ op[r].user \in Users
      BY <1>a, <3>2, <3>3, SessionsLast DEF Ended, Shape, SessionEnding, Unowned
    <3>6. CASE UNCHANGED <<pc[r], todo[r]>>
      BY <3>4, <3>5, <3>6 DEF Listing, Active, Answers
    <3>7. CASE pc'[r] = "failed"
      BY <3>7 DEF Listing
    <3>8. CASE Authenticate(r) \/ Load(r) \/ Read(r) \/ WriteUser(r)
      <4>1. pc[r] \in Listing /\ pc[r] # "clear" /\ pc'[r] \in Listing \cup {"refused"}
        <5>1. CASE Authenticate(r)
          BY <1>a, <3>3, <5>1 DEF Authenticate, GoTo, Routed, Listing, SessionEnding
        <5>2. CASE Load(r)
          BY <1>a, <3>3, <5>2 DEF Load, GoTo, Listing, SessionEnding
        <5>3. CASE Read(r)
          BY <1>a, <3>3, <5>3 DEF Read, GoTo, Listing, SessionEnding, Deletes
        <5>4. CASE WriteUser(r)
          <6>1. op[r].kind = "password"
            BY <1>a, <3>3, <5>4 DEF WriteUser, Flow, SessionEnding, Updates
          <6> QED BY <1>a, <5>4, <6>1 DEF WriteUser, GoTo, Listing
        <5> QED BY <3>8, <5>1, <5>2, <5>3, <5>4
      <4>2. Active(r)
        BY <4>1 DEF Listing, Active, Answers
      <4> QED BY <3>4, <3>5, <4>1, <4>2 DEF Listing
    <3>9. CASE RevokeAll(r)
      <4>1. CASE pc[r] = "members"
        <5>1. /\ todo'[r] = tokenSet[op[r].user]
              /\ pc'[r] = IF tokenSet[op[r].user] = {} THEN "ok" ELSE "revoke"
          BY <1>a, <3>9, <4>1 DEF RevokeAll, GoTo
        <5> QED BY <3>4, <3>5, <4>1, <5>1 DEF Listing
      <4>2. CASE pc[r] = "revoke"
        <5>1. PICK i \in todo[r] : /\ token' = [token EXCEPT ![i] = None]
                                   /\ todo' = [todo EXCEPT ![r] = todo[r] \ {i}]
          BY <3>9, <4>2 DEF RevokeAll
        <5>2. todo'[r] = todo[r] \ {i} /\ pc'[r] = IF todo'[r] = {} THEN "clear" ELSE "revoke"
          BY <1>a, <3>9, <4>2, <5>1 DEF RevokeAll, GoTo
        <5>3. t = i => Ended(r, t)'
          BY <1>a, <5>1 DEF Ended, Types, TokenTypes
        <5> QED BY <3>4, <3>5, <4>2, <5>2, <5>3 DEF Listing
      <4>3. CASE pc[r] = "clear"
        BY <1>a, <3>4, <3>5, <3>9, <4>3 DEF RevokeAll, GoTo, Listing
      <4> QED BY <3>9, <4>1, <4>2, <4>3 DEF RevokeAll
    <3> QED BY <2>2, <3>3, <3>6, <3>7, <3>8, <3>9, Ways, CommandsOfKinds DEF SessionEnding
  <2> QED BY <2>1, <2>2
<1> QED BY <1>a, <1>1, <1>2 DEF SessionInv

(***************************************************************************)
(* auth.routes.ts:227, 347: changing the password and logging out          *)
(* everywhere end every session that was listed when the call began, but   *)
(* for those another call was ending at the time.                          *)
(***************************************************************************)
THEOREM SessionsAreEnded == Spec => []SessionsEnd
<1>1. AccountsInv /\ SessionInv => SessionsEnd
  BY DEF AccountsInv, Types, HistoryTypes, SessionInv, SessionsEnd, Ended, Excused, CanRefresh
<1>2. AccountsInv /\ MetInv /\ SessionInv /\ [Next]_vars => SessionInv'
  BY SessionStep
<1> QED BY <1>1, <1>2, AccountsInit, AccountsStep, MetBegin, MetStep, SessionInit, PTL DEF Spec

-----------------------------------------------------------------------------
(* Usernames and e-mail addresses *)

\* r has read the record it changes or deletes, or makes one, and has not
\* yet brought record and indexes together.
Mid(r) == pc[r] \in {"check", "drop", "set", "write"} \cup Erasing

\* The value for which the index has the user of r while r is at work.
Listed(r, f) ==
    CASE op[r].kind = "register" ->
            IF pc[r] = "set" /\ field[r] = "mail" /\ f = "name" THEN op[r].set[f] ELSE None
      [] op[r].kind \in Deletes ->
            IF pc[r] = "drop" /\ field[r] = "mail" /\ f = "name" THEN None ELSE copy[r][f]
      [] OTHER ->
            IF pc[r] = "write" \/ (field[r] = "mail" /\ f = "name")
            THEN Updated(copy[r], op[r].set)[f]
            ELSE IF pc[r] = "set" /\ field[r] = f THEN None ELSE copy[r][f]

\* Nobody contended for v yet, and no user that has or had it, or is to have
\* it, was changed by two calls at once or left half-changed.
Calm(f, v) ==
    /\ ~Contended(f, v)
    /\ \A r \in Requests : Touches(r, f, v) => ~Clash(Target(r)) /\ ~Torn(Target(r))

\* The index has v for the user that the request at work on it has listed,
\* or for the user whose record says so.
Agrees(f, v) ==
    /\ \A r \in Requests : Mid(r) /\ Touches(r, f, v) =>
          (index[f][v] = Target(r) <=> Listed(r, f) = v)
    /\ \A r \in Requests : Mid(r) /\ ~Touches(r, f, v) => record[Target(r)][f] # v
    /\ \A u \in Users :
          (\A r \in Requests : Mid(r) /\ Target(r) = u => ~Touches(r, f, v)) =>
             (index[f][v] = u <=> record[u][f] = v)
AgreeInv == \A f \in Field, v \in Values : Calm(f, v) => Agrees(f, v)

\* Before it reads a record a request knows of none; what it looks up, drops
\* or sets is a change.
DraftInv ==
    \A r \in Requests :
        /\ pc[r] \in {"new", "auth", "load", "read"} => copy[r] = Gone
        /\ pc[r] = "new" => field[r] = "name"
        /\ op[r].kind = "register" /\ pc[r] = "write" => field[r] = "name"
        /\ op[r].kind = "patch" /\ pc[r] \in {"check", "drop", "set"} =>
              Moves(op[r], copy[r], field[r])
\* Nobody changes a user that is not there yet.
UnbornInv ==
    \A r \in Requests : Unborn(r) =>
        record[r] = Gone /\ \A q \in Requests \ {r} : Target(q) = r => ~Mid(q)
\* What r has written or erased before it sets or drops the indexes.
WrittenInv ==
    \A r \in Requests : ~Clash(Target(r)) =>
        /\ pc[r] = "drop" /\ op[r].kind \in Deletes => record[Target(r)] = Gone
        /\ pc[r] = "set" /\ op[r].kind = "register" => record[r] = op[r].set
\* r has found the new value for f free and not set it yet.
Cleared(r, f) ==
    \/ /\ op[r].kind = "register"
       /\ \/ pc[r] = "check" /\ field[r] = "mail" /\ f = "name"
          \/ pc[r] = "write"
          \/ pc[r] = "set" /\ (field[r] = "name" \/ f = "mail")
    \/ op[r].kind = "patch" /\ pc[r] \in {"drop", "set"} /\ f = field[r]
ClearInv ==
    \A r \in Requests, f \in Field :
        Cleared(r, f) /\ ~Contended(f, op[r].set[f]) =>
            index[f][op[r].set[f]] \in {None, Target(r)}

LEMMA MidWrites ==
    ASSUME AccountsInv, NEW r \in Requests, Mid(r)
    PROVE  Active(r) /\ op[r].kind \in Writes
  BY DEF AccountsInv, Flow, Mid, Active, Answers, Writes, Erasing, Updates

LEMMA DraftStep == AccountsInv /\ DraftInv /\ [Next]_vars => DraftInv'
<1> SUFFICES ASSUME AccountsInv, DraftInv, [Next]_vars, NEW r \in Requests
             PROVE  /\ pc'[r] \in {"new", "auth", "load", "read"} => copy'[r] = Gone
                    /\ pc'[r] = "new" => field'[r] = "name"
                    /\ op[r].kind = "register" /\ pc'[r] = "write" => field'[r] = "name"
                    /\ op[r].kind = "patch" /\ pc'[r] \in {"check", "drop", "set"} =>
                          Moves(op[r], copy'[r], field'[r])
  BY CallsStay DEF DraftInv
<1>1. /\ pc[r] \in {"new", "auth", "load", "read"} => copy[r] = Gone
      /\ pc[r] = "new" => field[r] = "name"
      /\ op[r].kind = "register" /\ pc[r] = "write" => field[r] = "name"
      /\ op[r].kind = "patch" /\ pc[r] \in {"check", "drop", "set"} =>
            Moves(op[r], copy[r], field[r])
      /\ Types /\ Flow(r)
  BY DEF DraftInv, AccountsInv
<1>2. CASE Active(r) /\ pc'[r] = "failed"
  BY <1>2
<1>3. CASE Arrive(r)
  BY <1>1, <1>3 DEF Arrive, GoTo, First, localVars, Types, LocalTypes
<1>4. CASE Command(r)
  <2>1. CASE Authenticate(r) \/ Load(r)
    BY <1>1, <2>1 DEF Authenticate, Load, GoTo, Routed, localVars, Types, LocalTypes
  <2>2. CASE Read(r)
    <3>1. op[r].kind # "register"
      BY <1>1, <2>2 DEF Read, Flow, Updates, Deletes
    <3> QED BY <1>1, <2>2, <3>1, Words DEF Read, GoTo, Types, LocalTypes, Moves
  <2>3. CASE Check(r) \/ Drop(r)
    BY <1>1, <2>3 DEF Check, Drop, GoTo, Types, LocalTypes, Deletes
  <2>4. CASE SetIndex(r)
    BY <1>1, <2>4 DEF SetIndex, GoTo, Types, LocalTypes
  <2>5. CASE WriteUser(r) \/ FindUser(r) \/ Found(r) \/ StoreToken(r) \/ RevokeToken(r) \/ RevokeAll(r)
    BY <1>1, <2>5 DEF WriteUser, FindUser, Found, StoreToken, RevokeToken, RevokeAll, GoTo, Types,
       LocalTypes
  <2>6. CASE CreateApiKey(r) \/ UseApiKey(r) \/ RevokeApiKey(r) \/ CreateWebhook(r)
             \/ DeleteKeys(r) \/ DeleteHooks(r) \/ EraseUser(r)
    BY <1>1, <2>6 DEF CreateApiKey, UseApiKey, RevokeApiKey, CreateWebhook, DeleteKeys, DeleteHooks,
       EraseUser, GoTo, Types, LocalTypes, Flow, Deletes, Erasing
  <2> QED BY <1>4, <2>1, <2>2, <2>3, <2>4, <2>5, <2>6 DEF Command
<1> QED BY <1>1, <1>2, <1>3, <1>4, Ways

\* q is where it was, as far as records and indexes go.
Stays(q) ==
    /\ UNCHANGED <<field[q], copy[q]>>
    /\ pc'[q] = pc[q] \/ {pc[q], pc'[q]} \subseteq Erasing

\* Steps that change no record and no index.
Quiet ==
    /\ UNCHANGED <<record, index, copy>>
    /\ \A q \in Requests : Mid(q)' => Stays(q)
    /\ \A q \in Requests : Mid(q) /\ ~Mid(q)' => pc'[q] = "failed"

LEMMA QuietSteps ==
    ASSUME AccountsInv, [Next]_vars
    PROVE  \/ Quiet
           \/ \E r \in Requests :
                 \/ Arrive(r) /\ op[r].kind = "register"
                 \/ Read(r) \/ Check(r) \/ Drop(r) \/ SetIndex(r) \/ WriteUser(r) \/ EraseUser(r)
<1>a. Types
  BY DEF AccountsInv
<1>1. CASE UNCHANGED vars
  BY <1>1 DEF vars, userVars, localVars, Quiet, Stays, Mid
<1>2. CASE Interrupt
  BY <1>2 DEF Interrupt, userVars, localVars, Quiet, Stays, Mid, Erasing
<1>3. ASSUME NEW r \in Requests, UNCHANGED <<record, index, copy>>, Alone(r),
             Mid(r)' => Stays(r), ~Mid(r) \/ Mid(r)'
      PROVE  Quiet
  <2>1. \A q \in Requests : q # r => (Mid(q)' <=> Mid(q)) /\ Stays(q)
    BY <1>3 DEF Alone, Mid, Stays
  <2> QED BY <1>3, <2>1 DEF Quiet
<1>4. ASSUME NEW r \in Requests, Arrive(r), op[r].kind # "register" PROVE Quiet
  <2>1. ~Mid(r)' /\ ~Mid(r)
    BY <1>a, <1>4 DEF Arrive, GoTo, First, Mid, Erasing, Types, LocalTypes
  <2> QED BY <1>3, <1>4, <2>1, ArriveTyped DEF Arrive, userVars, localVars
<1>5. ASSUME NEW r \in Requests, Command(r)
      PROVE  Quiet \/ Read(r) \/ Check(r) \/ Drop(r) \/ SetIndex(r) \/ WriteUser(r) \/ EraseUser(r)
  <2>a. Alone(r)
    BY <1>5, CommandTyped
  <2>1. CASE Authenticate(r) \/ Load(r)
    <3>1. ~Mid(r) /\ ~Mid(r)'
      BY <1>a, <2>1 DEF Authenticate, Load, GoTo, Routed, Mid, Erasing, Types, LocalTypes
    <3> QED BY <1>3, <2>a, <2>1, <3>1 DEF Authenticate, Load, userVars, localVars
  <2>2. CASE FindUser(r) \/ Found(r) \/ StoreToken(r) \/ RevokeToken(r) \/ RevokeAll(r)
    <3>1. ~Mid(r) /\ ~Mid(r)'
      BY <1>a, <2>2 DEF FindUser, Found, StoreToken, RevokeToken, RevokeAll, GoTo, Mid, Erasing,
         Types, LocalTypes
    <3> QED BY <1>3, <2>a, <2>2, <3>1 DEF FindUser, Found, StoreToken, RevokeToken, RevokeAll,
         userVars, localVars
  <2>3. CASE CreateApiKey(r) \/ UseApiKey(r) \/ RevokeApiKey(r) \/ CreateWebhook(r)
    <3>1. ~Mid(r) /\ ~Mid(r)'
      BY <1>a, <2>3 DEF CreateApiKey, UseApiKey, RevokeApiKey, CreateWebhook, GoTo, Mid, Erasing,
         Types, LocalTypes
    <3> QED BY <1>3, <2>a, <2>3, <3>1 DEF CreateApiKey, UseApiKey, RevokeApiKey, CreateWebhook,
         userVars, localVars
  <2>4. CASE DeleteKeys(r) \/ DeleteHooks(r)
    <3>1. {pc[r], pc'[r]} \subseteq Erasing /\ UNCHANGED <<record, index, copy, field>>
      BY <1>a, <2>4 DEF DeleteKeys, DeleteHooks, GoTo, Erasing, Types, LocalTypes, userVars
    <3>2. Mid(r)' /\ Stays(r)
      BY <3>1 DEF Mid, Stays
    <3> QED BY <1>3, <2>a, <3>1, <3>2
  <2> QED BY <1>5, <2>1, <2>2, <2>3, <2>4 DEF Command
<1> QED BY <1>1, <1>2, <1>4, <1>5 DEF Next, Done

\* The steps that do, one by one.
LEMMA RegisterArrives ==
    ASSUME AccountsInv, NEW r \in Requests, Arrive(r), op[r].kind = "register"
    PROVE  /\ Alone(r) /\ UNCHANGED <<record, index, copy, field>>
           /\ pc[r] = "new" /\ pc'[r] = "check" /\ copy[r] = Gone /\ Target(r) = r
<1>1. Types /\ Holds(r)
  BY DEF AccountsInv
<1> QED BY <1>1, ArriveTyped DEF Arrive, GoTo, First, userVars, localVars, Types, LocalTypes, Holds,
     Target

LEMMA ReadDoes ==
    ASSUME AccountsInv, NEW r \in Requests, Read(r)
    PROVE  /\ Alone(r) /\ UNCHANGED <<record, index>>
           /\ pc[r] = "read" /\ Target(r) = op[r].user
           /\ op[r].kind \in (Updates \cup Deletes) \ {"register"}
           /\ copy'[r] = record[Target(r)]
           /\ field'[r] = IF Moves(op[r], copy'[r], "name") THEN "name" ELSE "mail"
           /\ \/ pc'[r] \in {"ok", "refused"}
              \/ pc'[r] = "keys" /\ op[r].kind \in Deletes
              \/ pc'[r] = "check" /\ op[r].kind \in Updates
              \/ /\ pc'[r] = "write" /\ op[r].kind \in Updates
                 /\ \A f \in Field : ~Moves(op[r], copy'[r], f)
           /\ Mid(r)' => record[Target(r)] # Gone
<1>1. Types /\ Flow(r)
  BY DEF AccountsInv
<1>2. pc[r] = "read" /\ op[r].kind \in (Updates \cup Deletes) \ {"register"}
  BY <1>1 DEF Read, Flow, Updates, Deletes
<1>3. Target(r) = op[r].user
  BY <1>2 DEF Target
<1>4. /\ copy'[r] = record[op[r].user] /\ UNCHANGED <<record, index>> /\ Alone(r)
      /\ field'[r] = IF Moves(op[r], record[op[r].user], "name") THEN "name" ELSE "mail"
  BY <1>1, ReadTyped DEF Read, Types, LocalTypes, userVars
<1>5. \/ pc'[r] \in {"ok", "refused"}
      \/ pc'[r] = "keys" /\ op[r].kind \in Deletes /\ record[op[r].user] # Gone
      \/ pc'[r] = "check" /\ op[r].kind \notin Deletes /\ record[op[r].user] # Gone
      \/ /\ pc'[r] = "write" /\ op[r].kind \notin Deletes /\ record[op[r].user] # Gone
         /\ \A f \in Field : ~Moves(op[r], record[op[r].user], f)
  BY <1>1 DEF Read, GoTo, Types, LocalTypes
<1> QED BY <1>2, <1>3, <1>4, <1>5 DEF Mid, Erasing

LEMMA CheckDoes ==
    ASSUME AccountsInv, NEW r \in Requests, Check(r)
    PROVE  /\ Alone(r) /\ UNCHANGED <<record, index, copy>>
           /\ pc[r] = "check" /\ op[r].kind \in {"register", "patch"}
           /\ op[r].set[field[r]] \in Values
           /\ \/ pc'[r] = "refused" /\ field'[r] = field[r]
              \/ /\ op[r].kind = "patch" /\ pc'[r] = "drop" /\ field'[r] = field[r]
                 /\ index[field[r]][op[r].set[field[r]]] \in {None, Target(r)}
              \/ /\ op[r].kind = "register" /\ index[field[r]][op[r].set[field[r]]] = None
                 /\ \/ field[r] = "name" /\ pc'[r] = "check" /\ field'[r] = "mail"
                    \/ field[r] = "mail" /\ pc'[r] = "write" /\ field'[r] = "name"
<1>1. Types /\ Flow(r) /\ Holds(r) /\ pc[r] = "check"
  BY DEF AccountsInv, Check
<1>2. op[r].kind \in {"register", "patch"} /\ op[r].set[field[r]] \in Values /\ field[r] \in Field
  BY <1>1 DEF Flow, Holds, Types, LocalTypes
<1>3. op[r].kind = "patch" => Target(r) = op[r].user
  BY DEF Target
<1> QED BY <1>1, <1>2, <1>3, CheckTyped, Words DEF Check, GoTo, Types, LocalTypes, userVars

LEMMA DropDoes ==
    ASSUME AccountsInv, NEW r \in Requests, Drop(r)
    PROVE  /\ Alone(r) /\ UNCHANGED <<record, copy>>
           /\ pc[r] = "drop" /\ op[r].kind \in Deletes \cup {"patch"}
           /\ copy[r][field[r]] \in Values
           /\ \A f \in Field, v \in Values :
                 index'[f][v] = IF f = field[r] /\ v = copy[r][f] THEN None ELSE index[f][v]
           /\ \/ op[r].kind = "patch" /\ pc'[r] = "set" /\ field'[r] = field[r]
              \/ op[r].kind \in Deletes /\ field'[r] = "mail"
                 /\ pc'[r] = IF field[r] = "name" THEN "drop" ELSE "ok"
<1>1. Types /\ Flow(r) /\ Holds(r) /\ pc[r] = "drop"
  BY DEF AccountsInv, Drop
<1>2. op[r].kind \in Deletes \cup {"patch"} /\ copy[r] \in Records /\ field[r] \in Field
  BY <1>1 DEF Flow, Holds, Types, LocalTypes, Deletes
<1>3. copy[r][field[r]] \in Values
  BY <1>2 DEF Records
<1>4. index' = [index EXCEPT ![field[r]][copy[r][field[r]]] = None]
  BY DEF Drop
<1>5. \A f \in Field, v \in Values :
         index'[f][v] = IF f = field[r] /\ v = copy[r][f] THEN None ELSE index[f][v]
  BY <1>1, <1>2, <1>3, <1>4 DEF Types, UserTypes
<1>6. "patch" \notin Deletes
  BY DEF Deletes
<1> QED BY <1>1, <1>2, <1>3, <1>5, <1>6, DropTyped DEF Drop, GoTo, Types, LocalTypes

LEMMA SetDoes ==
    ASSUME AccountsInv, NEW r \in Requests, SetIndex(r)
    PROVE  /\ Alone(r) /\ UNCHANGED <<record, copy>>
           /\ pc[r] = "set" /\ op[r].kind \in {"register", "patch"}
           /\ op[r].set[field[r]] \in Values
           /\ \A f \in Field, v \in Values :
                 index'[f][v] = IF f = field[r] /\ v = op[r].set[f] THEN Target(r) ELSE index[f][v]
           /\ \/ op[r].kind = "register" /\ field[r] = "name" /\ pc'[r] = "set" /\ field'[r] = "mail"
              \/ op[r].kind = "register" /\ field[r] = "mail" /\ pc'[r] = "setToken"
              \/ /\ op[r].kind = "patch" /\ field[r] = "name" /\ Moves(op[r], copy[r], "mail")
                 /\ pc'[r] = "check" /\ field'[r] = "mail"
              \/ /\ op[r].kind = "patch" /\ (field[r] = "name" => ~Moves(op[r], copy[r], "mail"))
                 /\ pc'[r] = "write" /\ field'[r] = field[r]
<1>1. Types /\ Flow(r) /\ Holds(r) /\ pc[r] = "set"
  BY DEF AccountsInv, SetIndex
<1>2. op[r].kind \in {"register", "patch"} /\ op[r].set[field[r]] \in Values /\ field[r] \in Field
  BY <1>1 DEF Flow, Holds, Types, LocalTypes
<1>3. index' = [index EXCEPT ![field[r]][op[r].set[field[r]]] = Target(r)]
  BY DEF SetIndex
<1>4. \A f \in Field, v \in Values :
         index'[f][v] = IF f = field[r] /\ v = op[r].set[f] THEN Target(r) ELSE index[f][v]
  BY <1>1, <1>2, <1>3 DEF Types, UserTypes
<1> QED BY <1>1, <1>2, <1>4, SetIndexTyped, Words DEF SetIndex, GoTo, Types, LocalTypes

LEMMA WriteDoes ==
    ASSUME AccountsInv, NEW r \in Requests, WriteUser(r)
    PROVE  /\ Alone(r) /\ UNCHANGED <<index, copy, field>>
           /\ pc[r] = "write" /\ op[r].kind \in Updates \cup {"register"}
           /\ \A u \in Users : record'[u] =
                 IF u = Target(r) THEN Updated(copy[r], op[r].set) ELSE record[u]
           /\ \A f \in Field : Updated(copy[r], op[r].set)[f] =
                 IF op[r].set[f] # None THEN op[r].set[f] ELSE copy[r][f]
           /\ op[r].kind = "register" => Updated(copy[r], op[r].set) = op[r].set
           /\ \/ op[r].kind = "register" /\ pc'[r] = "set"
              \/ op[r].kind # "register" /\ pc'[r] \in {"members", "ok"}
<1>1. Types /\ Flow(r) /\ Holds(r) /\ Shape(op[r]) /\ pc[r] = "write"
  BY DEF AccountsInv, WriteUser
<1>2. op[r].kind \in Updates \cup {"register"}
  BY <1>1 DEF Flow
<1>3. ASSUME op[r].kind = "register" PROVE Updated(copy[r], op[r].set) = op[r].set
  <2>1. op[r].set \in [UserFields -> Text]
    BY <1>1, <1>3 DEF Shape, Records
  <2>2. \A x \in UserFields : op[r].set[x] # None
    BY <2>1, Words
  <2> QED BY <2>1, <2>2 DEF Updated
<1>4. \A f \in Field : Updated(copy[r], op[r].set)[f] =
          IF op[r].set[f] # None THEN op[r].set[f] ELSE copy[r][f]
  BY Words DEF Updated
<1> QED BY <1>1, <1>2, <1>3, <1>4, WriteTyped DEF WriteUser, GoTo, Types, LocalTypes, UserTypes

LEMMA EraseDoes ==
    ASSUME AccountsInv, NEW r \in Requests, EraseUser(r)
    PROVE  /\ Alone(r) /\ UNCHANGED <<index, copy>>
           /\ pc[r] = "erase" /\ op[r].kind \in Deletes
           /\ pc'[r] = "drop" /\ field'[r] = "name"
           /\ \A u \in Users : record'[u] = IF u = Target(r) THEN Gone ELSE record[u]
<1>1. Types /\ Flow(r) /\ pc[r] = "erase"
  BY DEF AccountsInv, EraseUser
<1>2. op[r].kind \in Deletes /\ Target(r) = op[r].user
  BY <1>1 DEF Flow, Erasing, Target, Deletes
<1> QED BY <1>1, <1>2, EraseUserTyped DEF EraseUser, GoTo, Types, LocalTypes, UserTypes

LEMMA TargetsAreUsers ==
    ASSUME AccountsInv, NEW r \in Requests, op[r].kind \in Writes PROVE Target(r) \in Users
  BY DEF AccountsInv, Shape, Target, Users, Writes, Updates, Deletes, Unowned

LEMMA UnbornStep == AccountsInv /\ UnbornInv /\ [Next]_vars => UnbornInv'
<1> SUFFICES ASSUME AccountsInv, UnbornInv, [Next]_vars, NEW r \in Requests, Unborn(r)'
             PROVE  record'[r] = Gone /\ \A q \in Requests \ {r} : Target(q) = r => ~Mid(q)'
  BY CallsStay DEF UnbornInv, Target
<1>1. /\ Unborn(r) /\ record[r] = Gone /\ \A q \in Requests \ {r} : Target(q) = r => ~Mid(q)
      /\ op' = op /\ r \in Users /\ Target(r) = r
  BY UnbornBefore, CallsStay DEF UnbornInv, Users, Unborn, Target
<1>2. CASE Quiet
  BY <1>1, <1>2 DEF Quiet, Stays, Mid
<1>3. ASSUME NEW q \in Requests, (Arrive(q) /\ op[q].kind = "register") \/ Check(q)
      PROVE  record'[r] = Gone /\ \A p \in Requests \ {r} : Target(p) = r => ~Mid(p)'
  <2>1. Alone(q) /\ record' = record /\ (q = r \/ Target(q) # r)
    BY <1>1, <1>3, RegisterArrives, CheckDoes DEF Mid
  <2> QED BY <1>1, <2>1 DEF Alone, Mid
<1>4. ASSUME NEW q \in Requests, Read(q)
      PROVE  record'[r] = Gone /\ \A p \in Requests \ {r} : Target(p) = r => ~Mid(p)'
  BY <1>1, <1>4, ReadDoes DEF Alone, Mid
<1>5. ASSUME NEW q \in Requests, Drop(q) \/ SetIndex(q)
      PROVE  record'[r] = Gone /\ \A p \in Requests \ {r} : Target(p) = r => ~Mid(p)'
  <2>1. Alone(q) /\ record' = record /\ (q = r \/ Target(q) # r)
    BY <1>1, <1>5, DropDoes, SetDoes DEF Mid
  <2> QED BY <1>1, <2>1 DEF Alone, Mid
<1>6. ASSUME NEW q \in Requests, WriteUser(q) \/ EraseUser(q)
      PROVE  record'[r] = Gone /\ \A p \in Requests \ {r} : Target(p) = r => ~Mid(p)'
  <2>1. Mid(q) /\ Alone(q) /\ q # r
    BY <1>1, <1>6, WriteDoes, EraseDoes DEF Mid, Erasing, Unborn, Deletes
  <2>2. record'[r] = record[r] /\ Target(q) # r
    BY <1>1, <1>6, <2>1, WriteDoes, EraseDoes
  <2> QED BY <1>1, <2>1, <2>2 DEF Alone, Mid
<1> QED BY <1>2, <1>3, <1>4, <1>5, <1>6, QuietSteps

\* The steps of one writer, each with what it does to the records.
Edit(q) ==
    \/ Arrive(q) /\ op[q].kind = "register"
    \/ Read(q) \/ Check(q) \/ Drop(q) \/ SetIndex(q) \/ WriteUser(q) \/ EraseUser(q)

LEMMA EditsAreAlone ==
    ASSUME AccountsInv, NEW q \in Requests, Edit(q)
    PROVE  /\ Alone(q) /\ op[q].kind \in Writes
           /\ \A u \in Users : u # Target(q) => record'[u] = record[u]
           /\ record' # record => WriteUser(q) \/ EraseUser(q)
           /\ WriteUser(q) \/ EraseUser(q) => Mid(q)
           /\ ~(Arrive(q) \/ Read(q)) => Mid(q)
<1>a. WriteUser(q) \/ EraseUser(q) => Mid(q)
  BY DEF WriteUser, EraseUser, Mid, Erasing
<1>1. CASE (Arrive(q) /\ op[q].kind = "register") \/ Read(q)
  BY <1>a, <1>1, RegisterArrives, ReadDoes DEF Writes
<1>2. CASE Check(q) \/ Drop(q) \/ SetIndex(q)
  BY <1>2, CheckDoes, DropDoes, SetDoes DEF Writes, Mid, Updates
<1>3. CASE WriteUser(q) \/ EraseUser(q)
  BY <1>3, WriteDoes, EraseDoes DEF Writes, Mid, Erasing
<1> QED BY <1>1, <1>2, <1>3 DEF Edit

LEMMA WrittenStep == AccountsInv /\ MetInv /\ WrittenInv /\ [Next]_vars => WrittenInv'
<1> SUFFICES ASSUME AccountsInv, MetInv, WrittenInv, [Next]_vars,
                    NEW r \in Requests, ~Clash(Target(r))'
             PROVE  /\ pc'[r] = "drop" /\ op[r].kind \in Deletes => record'[Target(r)] = Gone
                    /\ pc'[r] = "set" /\ op[r].kind = "register" => record'[r] = op[r].set
  BY CallsStay DEF WrittenInv, Target
<1>1. /\ ~Clash(Target(r)) /\ op' = op
      /\ pc[r] = "drop" /\ op[r].kind \in Deletes => record[Target(r)] = Gone
      /\ pc[r] = "set" /\ op[r].kind = "register" => record[r] = op[r].set
      /\ op[r].kind = "register" => Target(r) = r
  <2>1. op' = op /\ met \subseteq met' /\ Target(r)' = Target(r)
    BY StepsOfRequests DEF Target
  <2>2. ~Clash(Target(r))
    BY <2>1, ClashesStay
  <2> QED BY <2>1, <2>2 DEF WrittenInv, Target
<1>2. CASE Quiet
  BY <1>1, <1>2 DEF Quiet, Stays, Mid, Erasing
<1>3. ASSUME NEW q \in Requests, q # r, Edit(q), Mid(r)
      PROVE  pc'[r] = pc[r] /\ record'[Target(r)] = record[Target(r)]
  <2>1. Alone(q) /\ Active(r) /\ op[r].kind \in Writes /\ Target(r) \in Users
    BY <1>3, EditsAreAlone, MidWrites, TargetsAreUsers
  <2>2. CASE Target(q) = Target(r)
    <3>1. ~Mid(q)
      BY <1>1, <1>3, <2>1, <2>2, MidWrites, WritersClash
    <3> QED BY <1>3, <2>1, <3>1, EditsAreAlone DEF Alone
  <2> QED BY <1>3, <2>1, <2>2, EditsAreAlone DEF Alone
<1>4. CASE \E q \in Requests : Edit(q) /\ q # r
  BY <1>1, <1>3, <1>4, EditsAreAlone DEF Alone, Mid
<1>5. CASE Edit(r)
  <2>1. CASE (Arrive(r) /\ op[r].kind = "register") \/ Read(r) \/ Check(r)
    BY <1>1, <2>1, RegisterArrives, ReadDoes, CheckDoes DEF Deletes
  <2>2. CASE Drop(r) \/ SetIndex(r)
    BY <1>1, <2>2, DropDoes, SetDoes DEF Deletes
  <2>3. CASE WriteUser(r) \/ EraseUser(r)
    BY <1>1, <2>3, WriteDoes, EraseDoes, TargetsAreUsers DEF Deletes, Writes
  <2> QED BY <1>5, <2>1, <2>2, <2>3 DEF Edit
<1> QED BY <1>2, <1>4, <1>5, QuietSteps DEF Edit

LEMMA ContendersStay ==
    ASSUME op' = op, met \subseteq met', NEW f, NEW v PROVE Contended(f, v) => Contended(f, v)'
  BY DEF Contended

LEMMA ClearStep == AccountsInv /\ MetInv /\ DraftInv /\ ClearInv /\ [Next]_vars => ClearInv'
<1> SUFFICES ASSUME AccountsInv, MetInv, DraftInv, ClearInv, [Next]_vars, NEW r \in Requests, NEW f \in Field,
                    Cleared(r, f)', ~Contended(f, op[r].set[f])'
             PROVE  index'[f][op[r].set[f]] \in {None, Target(r)}
  BY CallsStay DEF ClearInv, Target
<1>1. /\ op' = op /\ ~Contended(f, op[r].set[f])
      /\ Cleared(r, f) => index[f][op[r].set[f]] \in {None, Target(r)}
  <2>1. op' = op /\ met \subseteq met'
    BY StepsOfRequests
  <2>2. ~Contended(f, op[r].set[f])
    BY <2>1, ContendersStay
  <2> QED BY <2>1, <2>2 DEF ClearInv
<1>2. Cleared(r, f) => Mid(r)
  BY DEF Cleared, Mid
<1>3. CASE Quiet
  <2>1. pc'[r] = pc[r] /\ field'[r] = field[r]
    BY <1>1, <1>3 DEF Quiet, Stays, Cleared, Mid, Erasing
  <2> QED BY <1>1, <1>3, <2>1 DEF Quiet, Cleared
<1>4. op[r].set[f] \in Values
  <2>1. Shape(op[r]) /\ Types /\ Holds(r) /\ Holds(r)'
    BY AccountsStep DEF AccountsInv
  <2>2. op[r].kind = "register" => op[r].set[f] \in Values
    BY <2>1 DEF Shape
  <2>3. op[r].kind = "patch" /\ pc'[r] \in {"drop", "set"} /\ f = field'[r] => op[r].set[f] \in Values
    BY <1>1, <2>1 DEF Holds
  <2> QED BY <1>1, <2>2, <2>3 DEF Cleared
<1>5. ASSUME NEW q \in Requests, q # r, Edit(q)
      PROVE  index'[f][op[r].set[f]] \in {None, Target(r)}
  <2>1. Alone(q)
    BY <1>5, EditsAreAlone
  <2>2. Cleared(r, f)
    BY <1>1, <1>5, <2>1 DEF Cleared, Alone
  <2>3. CASE SetIndex(q)
    <3>1. Active(q) /\ Active(r)
      BY <1>2, <2>2, <2>3, MidWrites, SetDoes DEF Mid
    <3>2. ~(op[q].set[f] = op[r].set[f])
      BY <1>1, <1>5, <3>1 DEF MetInv, Contended
    <3> QED BY <1>1, <1>4, <2>2, <2>3, <3>2, SetDoes
  <2>4. CASE Drop(q)
    BY <1>1, <1>4, <2>2, <2>4, DropDoes
  <2>5. CASE ~SetIndex(q) /\ ~Drop(q)
    BY <1>1, <1>5, <2>2, <2>5, RegisterArrives, ReadDoes, CheckDoes, WriteDoes, EraseDoes DEF Edit
  <2> QED BY <2>3, <2>4, <2>5
<1>6. CASE Edit(r)
  <2>1. CASE (Arrive(r) /\ op[r].kind = "register") \/ Read(r)
    BY <1>1, <2>1, RegisterArrives, ReadDoes DEF Cleared, Updates, Deletes, DraftInv
  <2>2. CASE Check(r)
    BY <1>1, <2>2, CheckDoes, Words DEF Cleared
  <2>3. CASE Drop(r)
    BY <1>1, <1>4, <2>3, DropDoes DEF Cleared, Deletes
  <2>4. CASE SetIndex(r)
    BY <1>1, <1>4, <2>4, SetDoes DEF Cleared
  <2>5. CASE WriteUser(r)
    BY <1>1, <2>5, WriteDoes DEF Cleared
  <2>6. CASE EraseUser(r)
    BY <1>1, <2>6, EraseDoes DEF Cleared, Deletes
  <2> QED BY <1>6, <2>1, <2>2, <2>3, <2>4, <2>5, <2>6 DEF Edit
<1> QED BY <1>3, <1>5, <1>6, QuietSteps DEF Edit

LEMMA CalmBefore ==
    ASSUME AccountsInv, MetInv, DraftInv, [Next]_vars, NEW f \in Field, NEW v \in Values, Calm(f, v)'
    PROVE  Calm(f, v)
<1>1. /\ op' = op /\ met \subseteq met'
      /\ \A q \in Requests : pc[q] \in Answers => pc'[q] = pc[q]
  BY StepsOfRequests
<1>2. ~Contended(f, v)
  BY <1>1, ContendersStay DEF Calm
<1>3. ASSUME NEW r \in Requests, Touches(r, f, v) PROVE Touches(r, f, v)'
  <2>1. CASE copy'[r] = copy[r]
    BY <1>1, <1>3, <2>1 DEF Touches
  <2>2. CASE Read(r)
    BY <1>1, <1>3, <2>2, Words DEF Touches, DraftInv, Read, Gone, NoUpdate
  <2>3. Read(r) \/ copy'[r] = copy[r]
    <3>1. ASSUME NEW q \in Requests, Read(q), q # r PROVE copy'[r] = copy[r]
      BY <3>1, ReadDoes DEF Alone
    <3> QED BY <3>1, RecordSteps
  <2> QED BY <2>1, <2>2, <2>3
<1>4. \A u : Torn(u) => Torn(u)'
  BY <1>1 DEF Torn, Target, Answers
<1>5. \A r \in Requests : Touches(r, f, v) => ~Clash(Target(r)) /\ ~Torn(Target(r))
  BY <1>1, <1>3, <1>4, ClashesStay DEF Calm, Target
<1> QED BY <1>2, <1>5 DEF Calm

\* Nobody else is at work on the user of r, or they clash.
Sole(r) == \A q \in Requests \ {r} : Mid(q) /\ Target(q) = Target(r) => Clash(Target(r))

LEMMA WritersAreSole ==
    ASSUME AccountsInv, MetInv, UnbornInv, NEW r \in Requests, op[r].kind \in Writes,
           Active(r) \/ Unborn(r)
    PROVE  Sole(r)
<1>1. Active(r) => Sole(r)
  BY MidWrites, WritersClash DEF Sole
<1>2. Unborn(r) => Sole(r)
  BY DEF Sole, UnbornInv, Unborn, Target
<1> QED BY <1>1, <1>2

\* What is known when a writer r goes on: of its user, nobody else's work
\* touches v.
LEMMA WriterBefore ==
    ASSUME AccountsInv, NEW r \in Requests, op[r].kind \in Writes, Sole(r),
           NEW f \in Field, NEW v \in Values, Calm(f, v), Agrees(f, v)
    PROVE  /\ Touches(r, f, v) => ~Clash(Target(r)) /\ ~Torn(Target(r))
           /\ \A q \in Requests \ {r} : Mid(q) /\ Target(q) = Target(r) =>
                 ~Touches(q, f, v) /\ ~Touches(r, f, v)
           /\ ~(Mid(r) /\ Touches(r, f, v)) =>
                 (index[f][v] = Target(r) <=> record[Target(r)][f] = v)
           /\ Mid(r) /\ Touches(r, f, v) => (index[f][v] = Target(r) <=> Listed(r, f) = v)
           /\ Mid(r) /\ ~Touches(r, f, v) => record[Target(r)][f] # v
<1>1. ASSUME NEW q \in Requests \ {r}, Mid(q), Target(q) = Target(r) PROVE Clash(Target(r))
  BY <1>1 DEF Sole
<1>2. /\ Touches(r, f, v) => ~Clash(Target(r)) /\ ~Torn(Target(r))
      /\ \A q \in Requests \ {r} : Mid(q) /\ Target(q) = Target(r) =>
            ~Touches(q, f, v) /\ ~Touches(r, f, v)
  BY <1>1 DEF Calm
<1>3. ~(Mid(r) /\ Touches(r, f, v)) => (index[f][v] = Target(r) <=> record[Target(r)][f] = v)
  BY <1>2, TargetsAreUsers DEF Agrees
<1> QED BY <1>2, <1>3 DEF Agrees

\* When r goes on, what is to be shown concerns its own user.
LEMMA WriterStep ==
    ASSUME AccountsInv, op' = op, NEW r \in Requests, op[r].kind \in Writes, Sole(r), Alone(r),
           NEW f \in Field, NEW v \in Values, Calm(f, v), Agrees(f, v),
           Touches(r, f, v) => Touches(r, f, v)',
           Touches(r, f, v)' => ~Clash(Target(r)),
           \A u \in Users : u # Target(r) => /\ record'[u] = record[u]
                                             /\ index'[f][v] = u <=> index[f][v] = u,
           record'[Target(r)][f] = v => record[Target(r)][f] = v \/ Touches(r, f, v),
           Mid(r)' /\ Touches(r, f, v)' => (index'[f][v] = Target(r) <=> Listed(r, f)' = v),
           ~(Mid(r)' /\ Touches(r, f, v)') =>
              (index'[f][v] = Target(r) <=> record'[Target(r)][f] = v),
           Mid(r)' /\ ~Touches(r, f, v)' => record'[Target(r)][f] # v
    PROVE  Agrees(f, v)'
<1>a. Target(r) \in Users /\ \A q \in Requests : Target(q)' = Target(q)
  BY TargetsAreUsers DEF Target
<1>b. \A q \in Requests \ {r} :
         /\ Mid(q)' <=> Mid(q)
         /\ Touches(q, f, v)' <=> Touches(q, f, v)
         /\ Listed(q, f)' = Listed(q, f)
         /\ Mid(q) => Target(q) \in Users
  BY TargetsAreUsers, MidWrites DEF Alone, Mid, Touches, Listed
<1>c. \A q \in Requests \ {r} : Mid(q) /\ Target(q) = Target(r) =>
            Clash(Target(r)) /\ ~Touches(q, f, v) /\ record[Target(r)][f] # v
  BY DEF Sole, Calm, Agrees
<1>1. ASSUME NEW q \in Requests, Mid(q)', Touches(q, f, v)'
      PROVE  index'[f][v] = Target(q) <=> Listed(q, f)' = v
  <2>1. CASE q # r
    BY <1>1, <1>b, <1>c, <2>1 DEF Agrees
  <2> QED BY <1>1, <2>1
<1>2. ASSUME NEW q \in Requests, Mid(q)', ~Touches(q, f, v)' PROVE record'[Target(q)][f] # v
  <2>1. CASE q # r /\ Target(q) # Target(r)
    BY <1>2, <1>b, <2>1 DEF Agrees
  <2>2. CASE q # r /\ Target(q) = Target(r)
    BY <1>2, <1>b, <1>c, <2>2 DEF Calm
  <2> QED BY <1>2, <2>1, <2>2
<1>3. ASSUME NEW u \in Users, \A q \in Requests : Mid(q)' /\ Target(q) = u => ~Touches(q, f, v)'
      PROVE  index'[f][v] = u <=> record'[u][f] = v
  <2>1. CASE u # Target(r)
    <3>1. \A q \in Requests : Mid(q) /\ Target(q) = u => ~Touches(q, f, v)
      BY <1>3, <1>b, <2>1
    <3> QED BY <2>1, <3>1 DEF Agrees
  <2>2. CASE u = Target(r)
    BY <1>3, <2>2
  <2> QED BY <2>1, <2>2
<1> QED BY <1>a, <1>1, <1>2, <1>3 DEF Agrees

\* What the requests at work on records and indexes know.
WorkInv == DraftInv /\ UnbornInv /\ WrittenInv /\ ClearInv

LEMMA GoneHasNoName == \A f \in Field, v \in Values : Gone[f] = None /\ None # v
  BY Words DEF Gone, NoUpdate

\* What the indexes are to have for the user of r, as far as r knows.
Says(r, f) == IF Mid(r) THEN Listed(r, f) ELSE record[Target(r)][f]

\* How each step of a writer that nobody clashes with changes that: it does
\* as it changes the indexes.
LEMMA ArriveSays ==
    ASSUME AccountsInv, UnbornInv, op' = op, NEW r \in Requests, Arrive(r), op[r].kind = "register",
           NEW f \in Field
    PROVE  Mid(r)' /\ Says(r, f) = None /\ Says(r, f)' = None
<1>1. pc[r] = "new" /\ pc'[r] = "check" /\ Target(r) = r
  BY RegisterArrives
<1>2. Unborn(r) /\ record[r] = Gone
  BY <1>1 DEF UnbornInv, Unborn
<1>3. Mid(r)' /\ ~Mid(r)
  BY <1>1 DEF Mid, Erasing
<1>4. op'[r].kind = "register" /\ ~(pc'[r] = "set" /\ field'[r] = "mail" /\ f = "name")
  BY <1>1
<1>5. Listed(r, f)' = None
  BY <1>4 DEF Listed, Deletes
<1> QED BY <1>1, <1>2, <1>3, <1>5 DEF Says, Gone, NoUpdate, UserFields, Field

LEMMA ReadSays ==
    ASSUME AccountsInv, op' = op, NEW r \in Requests, Read(r), NEW f \in Field
    PROVE  Says(r, f)' = Says(r, f)
<1>1. /\ UNCHANGED <<record, index>> /\ pc[r] = "read" /\ copy'[r] = record[Target(r)]
      /\ op[r].kind \in (Updates \cup Deletes) \ {"register"}
  BY ReadDoes
<1>2. ~Mid(r) /\ Target(r)' = Target(r)
  BY <1>1 DEF Mid, Erasing, Target
<1>3. ASSUME Mid(r)' PROVE Listed(r, f)' = copy'[r][f]
  <2>1. CASE op[r].kind \in Deletes
    BY <1>1, <1>3, <2>1, ReadDoes DEF Listed, Mid, Erasing, Deletes, Updates
  <2>2. CASE op[r].kind \in Updates
    <3>1. /\ pc'[r] \in {"check", "write"} /\ op[r].kind \notin Deletes \cup {"register"}
          /\ pc'[r] = "write" => ~Moves(op[r], copy'[r], f)
          /\ field'[r] = "mail" /\ f = "name" => ~Moves(op[r], copy'[r], f)
      BY <1>3, <2>2, ReadDoes DEF Mid, Erasing, Updates, Deletes
    <3>2. ~Moves(op[r], copy'[r], f) => Updated(copy'[r], op[r].set)[f] = copy'[r][f]
      BY Words DEF Moves, Updated
    <3> QED BY <3>1, <3>2 DEF Listed
  <2> QED BY <1>1, <2>1, <2>2
<1> QED BY <1>1, <1>2, <1>3 DEF Says

LEMMA CheckSays ==
    ASSUME AccountsInv, SerialInv, DraftInv, op' = op, NEW r \in Requests, Check(r),
           NEW f \in Field, ~Clash(Target(r)), ~Torn(Target(r))'
    PROVE  Says(r, f)' = Says(r, f)
<1>1. /\ Alone(r) /\ UNCHANGED <<record, index, copy>> /\ pc[r] = "check" /\ Mid(r)
      /\ op[r].kind \in {"register", "patch"} /\ op[r].kind \notin Deletes
  BY CheckDoes DEF Deletes, Mid
<1>2. op[r].kind \in Writes /\ Target(r) \in Users /\ Target(r)' = Target(r)
  BY <1>1, TargetsAreUsers DEF Writes, Updates, Target
<1>3. Mid(r)' => Listed(r, f)' = Listed(r, f)
  BY <1>1, CheckDoes DEF Listed, Mid, Erasing
<1>4. ASSUME ~Mid(r)' PROVE Listed(r, f) = record[Target(r)][f]
  <2>1. pc'[r] = "refused" /\ field'[r] = field[r]
    BY <1>4, CheckDoes DEF Mid
  <2>2. ~(\A x \in Field : op[r].set[x] # None)
    BY <1>2, <2>1 DEF Torn, Target
  <2>3. op[r].kind = "patch" /\ Shape(op[r])
    BY <1>1, <2>2, Words DEF AccountsInv, Shape
  <2>4. copy[r] = record[Target(r)]
    BY <1>1, <1>2, <2>3 DEF SerialInv, Midway, Updates
  <2>5. Moves(op[r], copy[r], field[r])
    BY <1>1, <2>3 DEF DraftInv
  <2>6. field[r] = "mail" /\ f = "name" => op[r].set[f] = None
    BY <2>2, <2>5, Words DEF Moves
  <2>7. op[r].set[f] = None => Updated(copy[r], op[r].set)[f] = copy[r][f]
    BY Words DEF Updated
  <2> QED BY <1>1, <2>3, <2>4, <2>6, <2>7 DEF Listed
<1> QED BY <1>1, <1>2, <1>3, <1>4 DEF Says

LEMMA DropSays ==
    ASSUME AccountsInv, WrittenInv, op' = op, NEW r \in Requests, Drop(r), NEW f \in Field,
           ~Clash(Target(r))
    PROVE  /\ Says(r, field[r]) = copy[r][field[r]]
           /\ Says(r, f)' = IF f = field[r] THEN None ELSE Says(r, f)
<1>1. /\ UNCHANGED <<record, copy>> /\ pc[r] = "drop" /\ op[r].kind \in Deletes \cup {"patch"}
      /\ field[r] \in Field /\ Mid(r) /\ Target(r)' = Target(r)
  BY DropDoes DEF AccountsInv, Types, LocalTypes, Mid, Target
<1>2. CASE op[r].kind = "patch"
  <2>1. pc'[r] = "set" /\ field'[r] = field[r] /\ op[r].kind \notin Deletes
    BY <1>2, DropDoes DEF Deletes
  <2>2. Mid(r)' /\ Listed(r, field[r]) = copy[r][field[r]]
    BY <1>1, <1>2, <2>1 DEF Listed, Mid
  <2>3. Listed(r, f)' = IF f = field[r] THEN None ELSE Listed(r, f)
    BY <1>1, <1>2, <2>1 DEF Listed
  <2> QED BY <1>1, <2>2, <2>3 DEF Says
<1>3. CASE op[r].kind \in Deletes
  <2>1. /\ op[r].kind # "register" /\ field'[r] = "mail"
        /\ pc'[r] = IF field[r] = "name" THEN "drop" ELSE "ok"
    BY <1>3, DropDoes, Words DEF Deletes
  <2>2. Listed(r, field[r]) = copy[r][field[r]]
    BY <1>1, <1>3, <2>1 DEF Listed
  <2>3. CASE field[r] = "name"
    BY <1>1, <1>3, <2>1, <2>2, <2>3 DEF Listed, Mid, Says
  <2>4. CASE field[r] # "name"
    <3>1. field[r] = "mail" /\ ~Mid(r)' /\ (f # field[r] => f = "name")
      BY <1>1, <2>1, <2>4 DEF Mid, Erasing, Field
    <3>2. record[Target(r)][f] = None /\ (f # field[r] => Listed(r, f) = None)
      BY <1>1, <1>3, <2>1, <3>1, GoneHasNoName DEF WrittenInv, Listed, Gone, NoUpdate, Field,
         UserFields
    <3> QED BY <1>1, <2>2, <3>1, <3>2 DEF Says
  <2> QED BY <2>3, <2>4
<1> QED BY <1>1, <1>2, <1>3

LEMMA SetSays ==
    ASSUME AccountsInv, WrittenInv, DraftInv, op' = op, NEW r \in Requests, SetIndex(r),
           NEW f \in Field, ~Clash(Target(r))
    PROVE  /\ Says(r, field[r]) = None
           /\ Says(r, f)' = IF f = field[r] THEN op[r].set[f] ELSE Says(r, f)
<1>1. /\ UNCHANGED <<record, copy>> /\ pc[r] = "set" /\ op[r].kind \in {"register", "patch"}
      /\ op[r].kind \notin Deletes
      /\ field[r] \in Field /\ Mid(r) /\ Target(r)' = Target(r)
  BY SetDoes DEF AccountsInv, Types, LocalTypes, Mid, Target, Deletes
<1>2. CASE op[r].kind = "patch"
  <2>1. Moves(op[r], copy[r], field[r])
    BY <1>1, <1>2 DEF DraftInv
  <2>2. \/ field[r] = "name" /\ pc'[r] = "check" /\ field'[r] = "mail"
        \/ /\ (field[r] = "name" => ~Moves(op[r], copy[r], "mail"))
           /\ pc'[r] = "write" /\ field'[r] = field[r]
    BY <1>2, SetDoes
  <2>3. /\ ~Moves(op[r], copy[r], f) => Updated(copy[r], op[r].set)[f] = copy[r][f]
        /\ Moves(op[r], copy[r], f) => Updated(copy[r], op[r].set)[f] = op[r].set[f]
    BY Words DEF Moves, Updated
  <2>4. f # field[r] => Listed(r, f)' = Listed(r, f)
    BY <1>1, <1>2, <2>1, <2>2, <2>3, Words DEF Listed
  <2>5. Listed(r, field[r]) = None /\ (f = field[r] => Listed(r, f)' = op[r].set[f])
    BY <1>1, <1>2, <2>1, <2>2, <2>3, Words DEF Listed
  <2> QED BY <1>1, <2>2, <2>4, <2>5 DEF Says, Mid
<1>3. CASE op[r].kind = "register"
  <2>1. record[Target(r)] = op[r].set
    BY <1>1, <1>3 DEF WrittenInv, Target
  <2>2. CASE field[r] = "name"
    <3>1. pc'[r] = "set" /\ field'[r] = "mail"
      BY <1>3, <2>2, SetDoes
    <3>2. /\ Mid(r)' /\ Listed(r, f) = None
          /\ Listed(r, f)' = IF f = "name" THEN op[r].set[f] ELSE None
      BY <1>1, <1>3, <2>2, <3>1 DEF Listed, Mid
    <3> QED BY <1>1, <1>3, <2>2, <3>2 DEF Says, Listed
  <2>3. CASE field[r] # "name"
    <3>1. field[r] = "mail" /\ pc'[r] = "setToken"
      BY <1>3, <2>3, SetDoes
    <3>2. ~Mid(r)' /\ Listed(r, f) = IF f = "name" THEN op[r].set[f] ELSE None
      BY <1>1, <1>3, <3>1 DEF Listed, Mid, Erasing
    <3> QED BY <1>1, <1>3, <2>1, <3>1, <3>2 DEF Says, Listed, Field
  <2> QED BY <2>2, <2>3
<1> QED BY <1>1, <1>2, <1>3

LEMMA WriteSays ==
    ASSUME AccountsInv, DraftInv, op' = op, NEW r \in Requests, WriteUser(r), NEW f \in Field
    PROVE  Says(r, f)' = Says(r, f)
<1>1. /\ pc[r] = "write" /\ UNCHANGED <<copy, field>> /\ Mid(r) /\ Target(r)' = Target(r)
      /\ op[r].kind \in Updates \cup {"register"} /\ op[r].kind \notin Deletes
  BY WriteDoes DEF Mid, Deletes, Updates, Target
<1>2. Target(r) \in Users
  BY <1>1, TargetsAreUsers DEF Writes
<1>3. CASE op[r].kind # "register"
  <2>1. ~Mid(r)' /\ Listed(r, f) = Updated(copy[r], op[r].set)[f]
    BY <1>1, <1>3, WriteDoes DEF Mid, Erasing, Listed
  <2> QED BY <1>1, <1>2, <2>1, WriteDoes DEF Says
<1>4. CASE op[r].kind = "register"
  <2>1. Mid(r)' /\ pc'[r] = "set" /\ field[r] = "name"
    BY <1>1, <1>4, WriteDoes DEF Mid, DraftInv
  <2>2. Listed(r, f) = None /\ Listed(r, f)' = None
    BY <1>1, <1>4, <2>1 DEF Listed
  <2> QED BY <1>1, <2>1, <2>2 DEF Says
<1> QED BY <1>3, <1>4

LEMMA EraseSays ==
    ASSUME AccountsInv, op' = op, NEW r \in Requests, EraseUser(r), NEW f \in Field
    PROVE  Says(r, f)' = Says(r, f)
<1>1. /\ pc[r] = "erase" /\ pc'[r] = "drop" /\ field'[r] = "name" /\ UNCHANGED copy
      /\ op[r].kind \in Deletes /\ op[r].kind # "register"
  BY EraseDoes DEF Deletes
<1>2. Mid(r) /\ Mid(r)' /\ Listed(r, f) = copy[r][f] /\ Listed(r, f)' = copy[r][f]
  BY <1>1 DEF Mid, Erasing, Listed
<1> QED BY <1>2 DEF Says

LEMMA ArriveAgrees ==
    ASSUME AccountsInv, MetInv, WorkInv, op' = op, NEW r \in Requests, Arrive(r),
           op[r].kind = "register", NEW f \in Field, NEW v \in Values, Calm(f, v), Agrees(f, v)
    PROVE  Agrees(f, v)'
<1>1. /\ Alone(r) /\ UNCHANGED <<record, index, copy, field>>
      /\ pc[r] = "new" /\ pc'[r] = "check" /\ Target(r) = r
  BY RegisterArrives
<1>2. op[r].kind \in Writes /\ Unborn(r) /\ record[r] = Gone /\ Sole(r)
  BY <1>1, WritersAreSole DEF WorkInv, UnbornInv, Unborn, Writes
<1>3. (Touches(r, f, v)' <=> Touches(r, f, v)) /\ Mid(r)' /\ ~Mid(r) /\ Listed(r, f)' = None
  <2>1. (Touches(r, f, v)' <=> Touches(r, f, v)) /\ ~Mid(r)
    BY <1>1 DEF Touches, Mid, Erasing
  <2> QED BY <2>1, ArriveSays DEF Says, WorkInv
<1>4. index[f][v] # r /\ record[r][f] # v
  BY <1>1, <1>2, <1>3, WriterBefore, GoneHasNoName
<1>5. Touches(r, f, v)' => ~Clash(Target(r))
  BY <1>3 DEF Calm
<1> QED BY <1>1, <1>2, <1>3, <1>4, <1>5, WriterStep, Words

LEMMA ReadAgrees ==
    ASSUME AccountsInv, MetInv, WorkInv, op' = op, met \subseteq met', NEW r \in Requests, Read(r),
           NEW f \in Field, NEW v \in Values, Calm(f, v), Calm(f, v)', Agrees(f, v)
    PROVE  Agrees(f, v)'
<1>1. /\ Alone(r) /\ UNCHANGED <<record, index>> /\ pc[r] = "read"
      /\ op[r].kind \in (Updates \cup Deletes) \ {"register"}
      /\ copy'[r] = record[Target(r)] /\ copy[r] = Gone
  BY ReadDoes DEF WorkInv, DraftInv
<1>2. op[r].kind \in Writes /\ Active(r) /\ ~Mid(r) /\ Sole(r)
  BY <1>1, WritersAreSole DEF WorkInv, Writes, Active, Answers, Mid, Erasing
<1>3. index[f][v] = Target(r) <=> record[Target(r)][f] = v
  BY <1>2, WriterBefore
<1>4. Touches(r, f, v) => Touches(r, f, v)'
  BY <1>1, GoneHasNoName DEF Touches
<1>5. Touches(r, f, v)' => ~Clash(Target(r))
  BY ClashesStay DEF Calm, Target
<1>6. Mid(r)' => Listed(r, f)' = record[Target(r)][f]
  BY <1>2, ReadSays DEF Says
<1>7. ~Touches(r, f, v)' => record[Target(r)][f] # v
  BY <1>1 DEF Touches, Writes
<1> QED BY <1>1, <1>2, <1>3, <1>4, <1>5, <1>6, <1>7, WriterStep

LEMMA CheckAgrees ==
    ASSUME AccountsInv, MetInv, SerialInv, WorkInv, op' = op, met \subseteq met', NEW r \in Requests,
           Check(r), NEW f \in Field, NEW v \in Values, Calm(f, v), Calm(f, v)', Agrees(f, v)
    PROVE  Agrees(f, v)'
<1>1. /\ Alone(r) /\ UNCHANGED <<record, index, copy>> /\ pc[r] = "check"
      /\ op[r].kind \in {"register", "patch"} /\ op[r].kind \notin Deletes
  BY CheckDoes DEF Deletes
<1>2. op[r].kind \in Writes /\ Active(r) /\ Mid(r) /\ Sole(r)
  BY <1>1, WritersAreSole DEF WorkInv, Writes, Updates, Active, Answers, Mid
<1>3. Touches(r, f, v)' <=> Touches(r, f, v)
  BY <1>1 DEF Touches
<1>4. /\ Touches(r, f, v) => (index[f][v] = Target(r) <=> Listed(r, f) = v)
      /\ ~Touches(r, f, v) => index[f][v] # Target(r) /\ record[Target(r)][f] # v
  BY <1>2, WriterBefore
<1>5. Touches(r, f, v) => ~Clash(Target(r))
  BY DEF Calm
<1>6. Touches(r, f, v) => Says(r, f)' = Says(r, f)
  BY <1>3, <1>5, CheckSays DEF Calm, WorkInv
<1>7. ~Touches(r, f, v) => index'[f][v] # Target(r) /\ record'[Target(r)][f] # v
  BY <1>1, <1>4
<1>8. Target(r)' = Target(r)
  BY DEF Target
<1> QED BY <1>1, <1>2, <1>3, <1>4, <1>5, <1>6, <1>7, <1>8, WriterStep DEF Says

\* The entry dropped is the user's own.
LEMMA DropAgrees ==
    ASSUME AccountsInv, MetInv, WorkInv, op' = op, NEW r \in Requests,
           Drop(r), NEW f \in Field, NEW v \in Values, Calm(f, v), Agrees(f, v)
    PROVE  Agrees(f, v)'
<1>1. /\ Alone(r) /\ UNCHANGED <<record, copy>> /\ pc[r] = "drop"
      /\ op[r].kind \in Deletes \cup {"patch"}
      /\ index'[f][v] = IF f = field[r] /\ v = copy[r][f] THEN None ELSE index[f][v]
  BY DropDoes
<1>2. op[r].kind \in Writes /\ Active(r) /\ Mid(r) /\ Sole(r) /\ Target(r) \in Users
  <2>1. op[r].kind \in Writes /\ Active(r) /\ Mid(r)
    BY <1>1 DEF Writes, Updates, Active, Answers, Mid
  <2> QED BY <2>1, WritersAreSole, TargetsAreUsers DEF WorkInv
<1>3. Touches(r, f, v)' <=> Touches(r, f, v)
  BY <1>1 DEF Touches
<1>4. /\ Touches(r, f, v) => (index[f][v] = Target(r) <=> Listed(r, f) = v)
      /\ ~Touches(r, f, v) => index[f][v] # Target(r) /\ record[Target(r)][f] # v
  BY <1>2, WriterBefore
<1>5. Touches(r, f, v) => ~Clash(Target(r))
  BY DEF Calm
<1>6. ASSUME Touches(r, f, v)
      PROVE  /\ Says(r, f)' = IF f = field[r] THEN None ELSE Says(r, f)
             /\ index[f][v] = Target(r) <=> Says(r, f) = v
             /\ f = field[r] => Says(r, f) = copy[r][f]
  BY <1>2, <1>4, <1>5, <1>6, DropSays DEF Says, WorkInv
<1>7. f = field[r] /\ v = copy[r][f] => Touches(r, f, v) /\ index[f][v] = Target(r)
  BY <1>2, <1>6 DEF Touches
<1>8. \A u \in Users : u # Target(r) => (index'[f][v] = u <=> index[f][v] = u)
  BY <1>1, <1>7, Words
<1>9. ~Touches(r, f, v) => index'[f][v] # Target(r)
  BY <1>1, <1>4, <1>2, Words
<1>10. Touches(r, f, v) => (index'[f][v] = Target(r) <=> Says(r, f)' = v)
  BY <1>1, <1>2, <1>6, Words
<1>11. Target(r)' = Target(r)
  BY DEF Target
<1> QED BY <1>1, <1>2, <1>3, <1>4, <1>5, <1>8, <1>9, <1>10, <1>11, WriterStep DEF Says

\* The entry set is free or the user's own, as it was when it was looked up.
LEMMA SetAgrees ==
    ASSUME AccountsInv, MetInv, WorkInv, op' = op, NEW r \in Requests,
           SetIndex(r), NEW f \in Field, NEW v \in Values, Calm(f, v), Agrees(f, v)
    PROVE  Agrees(f, v)'
<1>1. /\ Alone(r) /\ UNCHANGED <<record, copy>> /\ pc[r] = "set"
      /\ op[r].kind \in {"register", "patch"} /\ op[r].kind \notin Deletes
      /\ index'[f][v] = IF f = field[r] /\ v = op[r].set[f] THEN Target(r) ELSE index[f][v]
  BY SetDoes DEF Deletes
<1>2. op[r].kind \in Writes /\ Active(r) /\ Mid(r) /\ Sole(r) /\ Target(r) \in Users
  <2>1. op[r].kind \in Writes /\ Active(r) /\ Mid(r)
    BY <1>1 DEF Writes, Updates, Active, Answers, Mid
  <2> QED BY <2>1, WritersAreSole, TargetsAreUsers DEF WorkInv
<1>3. Touches(r, f, v)' <=> Touches(r, f, v)
  BY <1>1 DEF Touches
<1>4. /\ Touches(r, f, v) => (index[f][v] = Target(r) <=> Listed(r, f) = v)
      /\ ~Touches(r, f, v) => index[f][v] # Target(r) /\ record[Target(r)][f] # v
  BY <1>2, WriterBefore
<1>5. Touches(r, f, v) => ~Clash(Target(r))
  BY DEF Calm
<1>6. ASSUME f = field[r], v = op[r].set[f]
      PROVE  Touches(r, f, v) /\ index[f][v] \in {None, Target(r)}
  <2>1. Cleared(r, f)
    BY <1>1, <1>6, Words DEF Cleared
  <2> QED BY <1>2, <1>6, <2>1 DEF Touches, WorkInv, ClearInv, Calm
<1>7. \A u \in Users : u # Target(r) => (index'[f][v] = u <=> index[f][v] = u)
  BY <1>1, <1>6, Words
<1>8. ~Touches(r, f, v) => index'[f][v] # Target(r)
  BY <1>1, <1>4, <1>6
<1>9. Touches(r, f, v) => (index'[f][v] = Target(r) <=> Says(r, f)' = v)
  <2>1. ASSUME Touches(r, f, v)
        PROVE  /\ Says(r, f)' = IF f = field[r] THEN op[r].set[f] ELSE Says(r, f)
               /\ index[f][v] = Target(r) <=> Says(r, f) = v
               /\ f = field[r] => Says(r, f) = None
    BY <1>2, <1>4, <1>5, <2>1, SetSays DEF Says, WorkInv
  <2> QED BY <1>1, <1>2, <2>1, Words
<1>10. Target(r)' = Target(r)
  BY DEF Target
<1> QED BY <1>1, <1>2, <1>3, <1>4, <1>5, <1>7, <1>8, <1>9, <1>10, WriterStep DEF Says

LEMMA WriteAgrees ==
    ASSUME AccountsInv, MetInv, WorkInv, op' = op, NEW r \in Requests,
           WriteUser(r), NEW f \in Field, NEW v \in Values, Calm(f, v), Agrees(f, v)
    PROVE  Agrees(f, v)'
<1>1. /\ Alone(r) /\ UNCHANGED <<index, copy, field>> /\ pc[r] = "write"
      /\ op[r].kind \in Updates \cup {"register"} /\ op[r].kind \notin Deletes
      /\ \A u \in Users : record'[u] =
            IF u = Target(r) THEN Updated(copy[r], op[r].set) ELSE record[u]
      /\ Updated(copy[r], op[r].set)[f] = IF op[r].set[f] # None THEN op[r].set[f] ELSE copy[r][f]
  BY WriteDoes DEF Deletes, Updates
<1>2. op[r].kind \in Writes /\ Active(r) /\ Mid(r) /\ Sole(r) /\ Target(r) \in Users
  <2>1. op[r].kind \in Writes /\ Active(r) /\ Mid(r)
    BY <1>1 DEF Writes, Active, Answers, Mid
  <2> QED BY <2>1, WritersAreSole, TargetsAreUsers DEF WorkInv
<1>3. Touches(r, f, v)' <=> Touches(r, f, v)
  BY <1>1 DEF Touches
<1>4. /\ Touches(r, f, v) => (index[f][v] = Target(r) <=> Listed(r, f) = v)
      /\ ~Touches(r, f, v) => index[f][v] # Target(r) /\ record[Target(r)][f] # v
  BY <1>2, WriterBefore
<1>5. Touches(r, f, v) => ~Clash(Target(r))
  BY DEF Calm
<1>6. record'[Target(r)][f] = v => Touches(r, f, v)
  BY <1>1, <1>2 DEF Touches
<1>7. Says(r, f)' = Says(r, f) /\ Target(r)' = Target(r)
  BY WriteSays DEF WorkInv, Target
<1> QED BY <1>1, <1>2, <1>3, <1>4, <1>5, <1>6, <1>7, WriterStep DEF Says

LEMMA EraseAgrees ==
    ASSUME AccountsInv, MetInv, WorkInv, op' = op, NEW r \in Requests,
           EraseUser(r), NEW f \in Field, NEW v \in Values, Calm(f, v), Agrees(f, v)
    PROVE  Agrees(f, v)'
<1>1. /\ Alone(r) /\ UNCHANGED <<index, copy>> /\ pc[r] = "erase" /\ op[r].kind \in Deletes
      /\ pc'[r] = "drop" /\ field'[r] = "name"
      /\ \A u \in Users : record'[u] = IF u = Target(r) THEN Gone ELSE record[u]
  BY EraseDoes
<1>2. op[r].kind \in Writes /\ Active(r) /\ Mid(r) /\ Mid(r)' /\ Sole(r) /\ Target(r) \in Users
  <2>1. op[r].kind \in Writes /\ Active(r) /\ Mid(r) /\ Mid(r)'
    BY <1>1 DEF Writes, Active, Answers, Mid, Erasing
  <2> QED BY <2>1, WritersAreSole, TargetsAreUsers DEF WorkInv
<1>3. Touches(r, f, v)' <=> Touches(r, f, v)
  BY <1>1 DEF Touches
<1>4. /\ Touches(r, f, v) => (index[f][v] = Target(r) <=> Listed(r, f) = v)
      /\ ~Touches(r, f, v) => index[f][v] # Target(r) /\ record[Target(r)][f] # v
  BY <1>2, WriterBefore
<1>5. Touches(r, f, v) => ~Clash(Target(r))
  BY DEF Calm
<1>6. Listed(r, f)' = Listed(r, f)
  BY <1>2, EraseSays DEF Says
<1>7. record'[Target(r)][f] # v
  BY <1>1, <1>2, GoneHasNoName
<1> QED BY <1>1, <1>2, <1>3, <1>4, <1>5, <1>6, <1>7, WriterStep

\* In a quiet step a writer knows what it knew, or is interrupted.
LEMMA QuietSays ==
    ASSUME AccountsInv, op' = op, Quiet, NEW q \in Requests
    PROVE  /\ Mid(q)' => Mid(q) /\ \A f \in Field : Listed(q, f)' = Listed(q, f)
           /\ Mid(q) /\ ~Mid(q)' => Torn(Target(q))'
<1>1. ASSUME Mid(q)', NEW f \in Field PROVE Mid(q) /\ Listed(q, f)' = Listed(q, f)
  <2>1. UNCHANGED <<field[q], copy[q]>> /\ (pc'[q] = pc[q] \/ {pc[q], pc'[q]} \subseteq Erasing)
    BY <1>1 DEF Quiet, Stays
  <2>2. CASE pc'[q] = pc[q]
    BY <1>1, <2>1, <2>2 DEF Mid, Listed
  <2>3. CASE {pc[q], pc'[q]} \subseteq Erasing
    <3>1. Mid(q) /\ op[q].kind \in Deletes
      BY <2>3 DEF Mid, AccountsInv, Flow
    <3> QED BY <2>1, <2>3, <3>1 DEF Listed, Deletes, Erasing
  <2> QED BY <2>1, <2>2, <2>3
<1>2. ASSUME Mid(q), ~Mid(q)' PROVE Torn(Target(q))'
  BY <1>2, MidWrites DEF Quiet, Torn, Target
<1>3. Mid(q)' => Mid(q)
  BY DEF Quiet, Stays, Mid
<1> QED BY <1>1, <1>2, <1>3

LEMMA QuietAgrees ==
    ASSUME AccountsInv, op' = op, Quiet, NEW f \in Field, NEW v \in Values, Calm(f, v)', Agrees(f, v)
    PROVE  Agrees(f, v)'
<1>1. \A q \in Requests : (Touches(q, f, v)' <=> Touches(q, f, v)) /\ Target(q)' = Target(q)
  BY DEF Quiet, Touches, Target
<1>2. \A q \in Requests : Mid(q)' => Mid(q) /\ Listed(q, f)' = Listed(q, f)
  BY QuietSays
<1>3. \A q \in Requests : Mid(q) /\ ~Mid(q)' => ~Touches(q, f, v)
  BY <1>1, QuietSays DEF Calm
<1>4. record' = record /\ index' = index
  BY DEF Quiet
<1>5. ASSUME NEW u \in Users, \A q \in Requests : Mid(q)' /\ Target(q) = u => ~Touches(q, f, v)
      PROVE  index[f][v] = u <=> record[u][f] = v
  BY <1>3, <1>5 DEF Agrees
<1> QED BY <1>1, <1>2, <1>4, <1>5 DEF Agrees

LEMMA WorkStep == AccountsInv /\ MetInv /\ WorkInv /\ [Next]_vars => WorkInv'
  BY DraftStep, UnbornStep, WrittenStep, ClearStep DEF WorkInv

LEMMA AgreeStep ==
    AccountsInv /\ MetInv /\ SerialInv /\ WorkInv /\ AgreeInv /\ [Next]_vars => AgreeInv'
<1> SUFFICES ASSUME AccountsInv, MetInv, SerialInv, WorkInv, AgreeInv, [Next]_vars,
                    NEW f \in Field, NEW v \in Values, Calm(f, v)'
             PROVE  Agrees(f, v)'
  BY DEF AgreeInv
<1>1. op' = op /\ met \subseteq met'
  BY StepsOfRequests
<1>2. Calm(f, v) /\ Agrees(f, v)
  BY CalmBefore DEF AgreeInv, WorkInv
<1> QED BY <1>1, <1>2, QuietSteps, QuietAgrees, ArriveAgrees, ReadAgrees, CheckAgrees, DropAgrees,
        SetAgrees, WriteAgrees, EraseAgrees

LEMMA WorkInit == Init => WorkInv
<1> SUFFICES ASSUME Init PROVE WorkInv
  OBVIOUS
<1>1. \A r \in Requests : pc[r] \in {"ok", "new"} /\ copy[r] = Gone /\ field[r] = "name"
  BY DEF Init
<1>2. \A r \in Requests : ~Mid(r) /\ record[r] = Gone
  BY <1>1, NamesAssumption DEF Init, Users, Mid, Erasing
<1>3. DraftInv /\ UnbornInv
  BY <1>1, <1>2 DEF DraftInv, UnbornInv
<1>4. WrittenInv /\ ClearInv
  BY <1>1 DEF WrittenInv, ClearInv, Cleared
<1> QED BY <1>3, <1>4 DEF WorkInv

LEMMA AgreesAtFirst == ASSUME Init, NEW f \in Field, NEW v \in Values PROVE Agrees(f, v)
<1>1. \A r \in Requests : ~Mid(r)
  BY DEF Init, Mid, Erasing
<1>2. PICK seed \in SeedRecords :
         /\ record = [u \in Users |-> IF u \in Seeded THEN seed[u] ELSE Gone]
         /\ index[f][v] = IF \E u \in Seeded : seed[u][f] = v
                          THEN CHOOSE u \in Seeded : seed[u][f] = v ELSE None
  BY DEF Init
<1>3. \A u, w \in Seeded : seed[u][f] = seed[w][f] => u = w
  BY SeedAssumption
<1>4. ASSUME NEW u \in Users PROVE index[f][v] = u <=> record[u][f] = v
  <2>1. record[u] = IF u \in Seeded THEN seed[u] ELSE Gone
    BY <1>2
  <2>2. CASE u \in Seeded
    BY <1>2, <1>3, <2>1, <2>2, Words
  <2>3. CASE u \notin Seeded
    <3>1. record[u][f] # v
      BY <2>1, <2>3, GoneHasNoName
    <3>2. (\E w \in Seeded : seed[w][f] = v) => (CHOOSE w \in Seeded : seed[w][f] = v) \in Seeded
      OBVIOUS
    <3>3. index[f][v] # u
      BY <1>2, <2>3, <3>2, Words
    <3> QED BY <3>1, <3>3
  <2> QED BY <2>2, <2>3
<1> QED BY <1>1, <1>4 DEF Agrees

LEMMA AgreeInit == Init => AgreeInv
  BY AgreesAtFirst DEF AgreeInv

(***************************************************************************)
(* userStore.ts:40, 115: the index names exactly the user that has a       *)
(* username or an address, but for those that two calls asked for at once  *)
(* and those of users that two calls changed at once or one left half-     *)
(* changed.                                                                *)
(***************************************************************************)
THEOREM IndexesFollowRecords == Spec => []IndexesAgree
<1>1. AccountsInv /\ AgreeInv => IndexesAgree
  <2> SUFFICES ASSUME AccountsInv, AgreeInv, NEW f \in Field, NEW v \in Values, Settled(f, v)
               PROVE  \A u \in Users : index[f][v] = u <=> record[u][f] = v
    BY DEF IndexesAgree
  <2>1. Agrees(f, v) /\ \A r \in Requests : Touches(r, f, v) => ~Mid(r)
    BY MidWrites DEF AgreeInv, Settled, Calm
  <2> QED BY <2>1 DEF Agrees
<1> QED BY <1>1, MetBegin, MetStep, AccountsInit, AccountsStep, SerialInit, SerialStep, WorkInit,
        WorkStep, AgreeInit, AgreeStep, PTL DEF Spec

-----------------------------------------------------------------------------
(* Deleted users *)

LEMMA CallersAreUsers ==
    ASSUME NEW c, IsCall(c)
    PROVE  /\ c.kind \in Kinds \ (Unowned \cup AdminKinds) => c.caller = c.user
           /\ c.kind \in Unowned => c.user = None
<1> DEFINE Fit == /\ c.kind \in Kinds \ (Unowned \cup AdminKinds) => c.caller = c.user
                  /\ c.kind \in Unowned => c.user = None
<1>1. CASE c = Call
  BY <1>1 DEF Call, Unowned
<1>2. CASE c = Register(c.set.name, c.set.mail)
  <2>1. c.kind = "register" /\ c.user = None
    BY <1>2 DEF Register, Call
  <2> QED BY <2>1 DEF Unowned
<1>3. CASE c = Login(c.item, c.pw)
  <2>1. c.kind = "login" /\ c.user = None
    BY <1>3 DEF Login, Call
  <2> QED BY <2>1 DEF Unowned
<1>4. CASE c = Logout(c.item)
  <2>1. c.kind = "logout" /\ c.user = None
    BY <1>4 DEF Logout, Call
  <2> QED BY <2>1 DEF Unowned
<1>5. CASE c = UseKey(c.item)
  <2>1. c.kind = "useKey" /\ c.user = None
    BY <1>5 DEF UseKey, Call
  <2> QED BY <2>1 DEF Unowned
<1>6. CASE c \in {LogoutAll(c.user), DeleteMe(c.user), CreateKey(c.user), CreateHook(c.user)}
  <2>1. c.caller = c.user /\ c.kind \in {"logoutAll", "delete", "createKey", "createHook"}
    BY <1>6 DEF LogoutAll, DeleteMe, CreateKey, CreateHook, Own, Call
  <2> QED BY <2>1 DEF Unowned
<1>7. CASE c = Patch(c.user, c.set.name, c.set.mail)
  <2>1. c.caller = c.user /\ c.kind = "patch"
    BY <1>7 DEF Patch, Own, Call
  <2> QED BY <2>1 DEF Unowned
<1>8. CASE c = ChangePassword(c.user, c.pw, c.set.pw)
  <2>1. c.caller = c.user /\ c.kind = "password"
    BY <1>8 DEF ChangePassword, Own, Call
  <2> QED BY <2>1 DEF Unowned
<1>9. CASE c = RevokeKey(c.user, c.item)
  <2>1. c.caller = c.user /\ c.kind = "revokeKey"
    BY <1>9 DEF RevokeKey, Own, Call
  <2> QED BY <2>1 DEF Unowned
<1>10. CASE \/ c = Upgrade(c.caller, c.user, c.set.tier)
            \/ c \in {MakeAdmin(c.caller, c.user), RevokeAdmin(c.caller, c.user),
                      AdminDelete(c.caller, c.user)}
  <2>1. c.kind \in AdminKinds
    BY <1>10 DEF Upgrade, MakeAdmin, RevokeAdmin, AdminDelete, Admin, Call, AdminKinds
  <2> QED BY <2>1 DEF Unowned, AdminKinds
<1> QED BY <1>1, <1>2, <1>3, <1>4, <1>5, <1>6, <1>7, <1>8, <1>9, <1>10 DEF IsCall

\* Whose a key or a webhook is, if it is there.
KeyOwner(k) == IF k \in Requests THEN op[k].user ELSE SeedKeys[k]
HookOwner(h) == IF h \in Requests THEN op[h].user ELSE SeedHooks[h]

\* What a request has read belongs to whom it is about.
OwnCopy(r) ==
    /\ pc[r] = "touch" => who[r] = KeyOwner(op[r].item)
    /\ pc[r] \in {"delKey", "delKeyId", "remKey"} => KeyOwner(op[r].item) = op[r].user
    /\ pc[r] \in {"keyOf", "eraseKey", "eraseKeyId"} => \A k \in todo[r] : KeyOwner(k) = op[r].user
    /\ pc[r] \in {"eraseKey", "eraseKeyId"} => KeyOwner(who[r]) = op[r].user
    /\ pc[r] \in {"eraseHook", "unlistHook"} => \A h \in todo[r] : HookOwner(h) = op[r].user
    /\ pc[r] = "unlistHook" => HookOwner(who[r]) = op[r].user
\* Keys and webhooks do not change hands.
OwnInv ==
    /\ \A k \in Keys : keyData[k] \in {None, KeyOwner(k)}
    /\ \A w \in Users : \A k \in keySet[w] : KeyOwner(k) = w
    /\ \A h \in Hooks : hook[h] \in {None, HookOwner(h)}
    /\ \A w \in Users : \A h \in hookIndex[w] : HookOwner(h) = w
    /\ \A r \in Requests : OwnCopy(r)

\* Where a request is about to change keys or webhooks, or has what it has
\* read of them.
Storing == {"touch", "delKey", "delKeyId", "remKey", "keyOf", "eraseKey", "eraseKeyId",
            "eraseHook", "unlistHook"}

\* The steps that change keys or webhooks.
StoreStep(r) ==
    \/ CreateApiKey(r) \/ UseApiKey(r) \/ RevokeApiKey(r) \/ CreateWebhook(r)
    \/ DeleteKeys(r) \/ DeleteHooks(r)

\* The other steps of a request.
LEMMA OtherSteps ==
    ASSUME AccountsInv, NEW r \in Requests, Arrive(r) \/ Command(r), ~StoreStep(r)
    PROVE  UNCHANGED <<keyVars, hookVars>> /\ pc'[r] \notin Storing /\ Alone(r)
<1>a. Types
  BY DEF AccountsInv
<1>1. CASE Arrive(r)
  BY <1>a, <1>1, ArriveTyped DEF Arrive, GoTo, First, Types, LocalTypes, Storing
<1>2. CASE Command(r)
  <2>a. Alone(r)
    BY <1>2, CommandTyped
  <2>1. CASE Authenticate(r) \/ Load(r) \/ Read(r)
    BY <1>a, <2>a, <2>1 DEF Authenticate, Load, Read, GoTo, Routed, Types, LocalTypes, Storing
  <2>2. CASE Check(r) \/ Drop(r) \/ SetIndex(r) \/ WriteUser(r) \/ EraseUser(r)
    BY <1>a, <2>a, <2>2 DEF Check, Drop, SetIndex, WriteUser, EraseUser, GoTo, Types, LocalTypes,
       Storing
  <2>3. CASE FindUser(r) \/ Found(r) \/ StoreToken(r) \/ RevokeToken(r) \/ RevokeAll(r)
    BY <1>a, <2>a, <2>3 DEF FindUser, Found, StoreToken, RevokeToken, RevokeAll, GoTo, Types,
       LocalTypes, Storing
  <2> QED BY <1>2, <2>1, <2>2, <2>3 DEF Command, StoreStep
<1> QED BY <1>1, <1>2

LEMMA StoreSteps ==
    ASSUME AccountsInv, [Next]_vars
    PROVE  \/ /\ UNCHANGED <<keyVars, hookVars>>
              /\ \A q \in Requests : pc'[q] \in Storing => UNCHANGED <<pc[q], who[q], todo[q]>>
           \/ \E r \in Requests : StoreStep(r)
<1>1. CASE UNCHANGED vars \/ Interrupt
  BY <1>1 DEF vars, keyVars, hookVars, localVars, Interrupt, Storing
<1>2. ASSUME NEW r \in Requests, Arrive(r) \/ Command(r), ~StoreStep(r)
      PROVE  /\ UNCHANGED <<keyVars, hookVars>>
             /\ \A q \in Requests : pc'[q] \in Storing => UNCHANGED <<pc[q], who[q], todo[q]>>
  BY <1>2, OtherSteps DEF Alone
<1> QED BY <1>1, <1>2 DEF Next, Done

LEMMA OwnInit == Init => OwnInv
<1> SUFFICES ASSUME Init PROVE OwnInv
  OBVIOUS
<1>1. \A r \in Requests : pc[r] \in {"ok", "new"}
  BY DEF Init
<1>2. \A k \in Keys : keyData[k] \in {None, KeyOwner(k)}
  BY NamesAssumption DEF Init, KeyOwner, Keys
<1>3. \A w \in Users : \A k \in keySet[w] : KeyOwner(k) = w
  BY NamesAssumption DEF Init, KeyOwner
<1>4. \A h \in Hooks : hook[h] \in {None, HookOwner(h)}
  BY NamesAssumption DEF Init, HookOwner, Hooks
<1>5. \A w \in Users : \A h \in hookIndex[w] : HookOwner(h) = w
  BY NamesAssumption DEF Init, HookOwner
<1> QED BY <1>1, <1>2, <1>3, <1>4, <1>5 DEF OwnInv, OwnCopy

LEMMA OwnStep == AccountsInv /\ OwnInv /\ [Next]_vars => OwnInv'
<1> SUFFICES ASSUME AccountsInv, OwnInv, [Next]_vars PROVE OwnInv'
  OBVIOUS
<1>a. /\ Types /\ op' = op /\ \A q \in Requests : Flow(q) /\ Holds(q) /\ Shape(op[q])
      /\ \A k : KeyOwner(k)' = KeyOwner(k) /\ HookOwner(k)' = HookOwner(k)
  BY CallsStay DEF AccountsInv, KeyOwner, HookOwner
<1>1. CASE /\ UNCHANGED <<keyVars, hookVars>>
           /\ \A q \in Requests : pc'[q] \in Storing => UNCHANGED <<pc[q], who[q], todo[q]>>
  <2>1. \A q \in Requests : OwnCopy(q)'
    BY <1>a, <1>1 DEF OwnInv, OwnCopy, Storing
  <2> QED BY <1>a, <1>1, <2>1 DEF OwnInv, keyVars, hookVars
<1>2. ASSUME NEW r \in Requests, Alone(r), OwnCopy(r)',
             \A k \in Keys : keyData'[k] \in {None, KeyOwner(k)},
             \A w \in Users : \A k \in keySet'[w] : KeyOwner(k) = w,
             \A h \in Hooks : hook'[h] \in {None, HookOwner(h)},
             \A w \in Users : \A h \in hookIndex'[w] : HookOwner(h) = w
      PROVE  OwnInv'
  <2>1. \A q \in Requests \ {r} : OwnCopy(q)'
    BY <1>a, <1>2 DEF OwnInv, OwnCopy, Alone
  <2> QED BY <1>a, <1>2, <2>1 DEF OwnInv
<1>b. /\ \A k \in Keys : keyData[k] \in {None, KeyOwner(k)}
      /\ \A w \in Users : \A k \in keySet[w] : KeyOwner(k) = w
      /\ \A h \in Hooks : hook[h] \in {None, HookOwner(h)}
      /\ \A w \in Users : \A h \in hookIndex[w] : HookOwner(h) = w
      /\ \A q \in Requests : OwnCopy(q)
  BY DEF OwnInv
<1>3. ASSUME NEW r \in Requests, CreateApiKey(r) PROVE OwnInv'
  <2>1. r \in Keys /\ KeyOwner(r) = op[r].user /\ UNCHANGED hookVars /\ Alone(r)
    BY <1>3, CreateApiKeyTyped DEF Keys, KeyOwner, CreateApiKey
  <2>2. OwnCopy(r)'
    BY <1>a, <1>3 DEF CreateApiKey, GoTo, OwnCopy, Types, LocalTypes
  <2>3. \A k \in Keys : keyData'[k] \in {None, KeyOwner(k)}
    BY <1>a, <1>b, <1>3, <2>1 DEF CreateApiKey, Types, KeyTypes
  <2>4. \A w \in Users : \A k \in keySet'[w] : KeyOwner(k) = w
    BY <1>a, <1>b, <1>3, <2>1 DEF CreateApiKey, Types, KeyTypes
  <2> QED BY <1>2, <1>b, <2>1, <2>2, <2>3, <2>4 DEF hookVars
<1>4. ASSUME NEW r \in Requests, UseApiKey(r) PROVE OwnInv'
  <2>1. /\ UNCHANGED <<hookVars, keySet>> /\ Alone(r) /\ op[r].kind = "useKey"
        /\ op[r].item \in Keys
    BY <1>a, <1>4, UseApiKeyTyped DEF UseApiKey, Flow, Shape
  <2>2. OwnCopy(r)'
    BY <1>a, <1>b, <1>4, <2>1 DEF UseApiKey, GoTo, OwnCopy, Types, LocalTypes
  <2>3. \A k \in Keys : keyData'[k] \in {None, KeyOwner(k)}
    BY <1>a, <1>b, <1>4, <2>1 DEF UseApiKey, OwnCopy, Types, KeyTypes
  <2> QED BY <1>2, <1>b, <2>1, <2>2, <2>3 DEF hookVars
<1>5. ASSUME NEW r \in Requests, RevokeApiKey(r) PROVE OwnInv'
  <2>1. /\ UNCHANGED <<hookVars>> /\ Alone(r) /\ op[r].kind = "revokeKey"
        /\ op[r].item \in Keys /\ op[r].user \in Users
    BY <1>a, <1>5, RevokeApiKeyTyped DEF RevokeApiKey, Flow, Shape, Unowned
  <2>2. OwnCopy(r)'
    BY <1>a, <1>b, <1>5, <2>1, Words DEF RevokeApiKey, GoTo, OwnCopy, Types, LocalTypes
  <2>3. /\ keyData' \in {keyData, [keyData EXCEPT ![op[r].item] = None]}
        /\ keySet' \in {keySet, [keySet EXCEPT ![op[r].user] = @ \ {op[r].item}]}
    BY <1>5 DEF RevokeApiKey, keyVars
  <2>4. \A k \in Keys : keyData'[k] \in {None, KeyOwner(k)}
    BY <1>a, <1>b, <2>1, <2>3 DEF Types, KeyTypes
  <2>5. \A w \in Users : \A k \in keySet'[w] : KeyOwner(k) = w
    BY <1>a, <1>b, <2>1, <2>3 DEF Types, KeyTypes
  <2> QED BY <1>2, <1>b, <2>1, <2>2, <2>4, <2>5 DEF hookVars
<1>6. ASSUME NEW r \in Requests, CreateWebhook(r) PROVE OwnInv'
  <2>1. r \in Hooks /\ HookOwner(r) = op[r].user /\ UNCHANGED keyVars /\ Alone(r)
    BY <1>6, CreateWebhookTyped DEF Hooks, HookOwner, CreateWebhook
  <2>2. OwnCopy(r)'
    BY <1>a, <1>6 DEF CreateWebhook, GoTo, OwnCopy, Types, LocalTypes
  <2>3. \A k \in Hooks : hook'[k] \in {None, HookOwner(k)}
    BY <1>a, <1>b, <1>6, <2>1 DEF CreateWebhook, Types, HookTypes
  <2>4. \A w \in Users : \A k \in hookIndex'[w] : HookOwner(k) = w
    BY <1>a, <1>b, <1>6, <2>1 DEF CreateWebhook, Types, HookTypes
  <2> QED BY <1>2, <1>b, <2>1, <2>2, <2>3, <2>4 DEF keyVars
<1>7. ASSUME NEW r \in Requests, DeleteKeys(r) PROVE OwnInv'
  <2>1. UNCHANGED hookVars /\ Alone(r) /\ op[r].user \in Users
    BY <1>a, <1>7, DeleteKeysTyped DEF DeleteKeys, Flow, Shape, Unowned, Erasing, Deletes
  <2>2. OwnCopy(r)'
    BY <1>a, <1>b, <1>7, <2>1 DEF DeleteKeys, GoTo, OwnCopy, Types, LocalTypes
  <2>3. /\ keyData' \in {keyData, [keyData EXCEPT ![who[r]] = None]}
        /\ keySet' \in {keySet, [keySet EXCEPT ![op[r].user] = {}]}
    BY <1>7 DEF DeleteKeys, keyVars
  <2>4. \A k \in Keys : keyData'[k] \in {None, KeyOwner(k)}
    BY <1>a, <1>b, <2>3 DEF Types, KeyTypes
  <2>5. \A w \in Users : \A k \in keySet'[w] : KeyOwner(k) = w
    BY <1>a, <1>b, <2>1, <2>3 DEF Types, KeyTypes
  <2> QED BY <1>2, <1>b, <2>1, <2>2, <2>4, <2>5 DEF hookVars
<1>8. ASSUME NEW r \in Requests, DeleteHooks(r) PROVE OwnInv'
  <2>1. UNCHANGED keyVars /\ Alone(r) /\ op[r].user \in Users
    BY <1>a, <1>8, DeleteHooksTyped DEF DeleteHooks, Flow, Shape, Unowned, Erasing, Deletes
  <2>2. OwnCopy(r)'
    BY <1>a, <1>b, <1>8, <2>1 DEF DeleteHooks, GoTo, OwnCopy, Types, LocalTypes
  <2>3. /\ \/ hook' = hook \/ \E h \in todo[r] : hook' = [hook EXCEPT ![h] = None]
        /\ hookIndex' \in {hookIndex, [hookIndex EXCEPT ![op[r].user] = @ \ {who[r]}]}
    BY <1>8 DEF DeleteHooks, hookVars
  <2>4. \A k \in Hooks : hook'[k] \in {None, HookOwner(k)}
    BY <1>a, <1>b, <2>3 DEF Types, HookTypes
  <2>5. \A w \in Users : \A k \in hookIndex'[w] : HookOwner(k) = w
    BY <1>a, <1>b, <2>1, <2>3 DEF Types, HookTypes
  <2> QED BY <1>2, <1>b, <2>1, <2>2, <2>4, <2>5 DEF keyVars
<1> QED BY <1>1, <1>3, <1>4, <1>5, <1>6, <1>7, <1>8, StoreSteps DEF StoreStep

\* A name that leads to u, whom nobody clashes over, is the one that the
\* request at work on u has listed, or that the record says.
NamedInv ==
    \A u \in Users : ~Clash(u) /\ ~Torn(u) =>
        \A f \in Field, v \in Values : index[f][v] = u =>
            /\ \A r \in Requests : Mid(r) /\ Target(r) = u => Listed(r, f) = v
            /\ (\A r \in Requests : Mid(r) => Target(r) # u) => record[u][f] = v

LEMMA NamedEdit ==
    ASSUME AccountsInv, MetInv, SerialInv, WorkInv, op' = op, NEW r \in Requests, Edit(r),
           NEW f \in Field, NEW v \in Values, ~Clash(Target(r)), ~Torn(Target(r))',
           index[f][v] = Target(r) => Says(r, f) = v, index'[f][v] = Target(r)
    PROVE  Says(r, f)' = v
<1>1. Target(r) \in Users /\ field[r] \in Field /\ Target(r)' = Target(r)
  BY TargetsAreUsers, EditsAreAlone DEF AccountsInv, Types, LocalTypes, Target
<1>2. CASE Arrive(r) /\ op[r].kind = "register"
  BY <1>2, RegisterArrives, ArriveSays, Words DEF WorkInv
<1>3. CASE Read(r)
  BY <1>3, ReadDoes, ReadSays
<1>4. CASE Check(r)
  BY <1>4, CheckDoes, CheckSays DEF WorkInv
<1>5. CASE Drop(r)
  BY <1>1, <1>5, DropDoes, DropSays, Words DEF WorkInv
<1>6. CASE SetIndex(r)
  <2>1. /\ Says(r, field[r]) = None
        /\ Says(r, f)' = IF f = field[r] THEN op[r].set[f] ELSE Says(r, f)
        /\ index'[f][v] = IF f = field[r] /\ v = op[r].set[f] THEN Target(r) ELSE index[f][v]
    BY <1>6, SetDoes, SetSays DEF WorkInv
  <2> QED BY <1>1, <2>1, Words
<1>7. CASE WriteUser(r)
  BY <1>7, WriteDoes, WriteSays DEF WorkInv
<1>8. CASE EraseUser(r)
  BY <1>8, EraseDoes, EraseSays
<1> QED BY <1>2, <1>3, <1>4, <1>5, <1>6, <1>7, <1>8 DEF Edit

LEMMA NamedStep == AccountsInv /\ MetInv /\ SerialInv /\ WorkInv /\ NamedInv /\ [Next]_vars => NamedInv'
<1> SUFFICES ASSUME AccountsInv, MetInv, SerialInv, WorkInv, NamedInv, [Next]_vars,
                    NEW u \in Users, ~Clash(u)', ~Torn(u)', NEW f \in Field, NEW v \in Values,
                    index'[f][v] = u
             PROVE  /\ \A r \in Requests : Mid(r)' /\ Target(r)' = u => Listed(r, f)' = v
                    /\ (\A r \in Requests : Mid(r)' => Target(r)' # u) => record'[u][f] = v
  BY DEF NamedInv
<1>1. /\ op' = op /\ met \subseteq met' /\ \A q \in Requests : Target(q)' = Target(q)
      /\ \A q \in Requests : pc[q] \in Answers => pc'[q] = pc[q]
  BY StepsOfRequests DEF Target
<1>2. ~Clash(u) /\ ~Torn(u)
  BY <1>1, ClashesStay DEF Torn, Answers
<1>3. index[f][v] = u =>
         /\ \A r \in Requests : Mid(r) /\ Target(r) = u => Listed(r, f) = v
         /\ (\A r \in Requests : Mid(r) => Target(r) # u) => record[u][f] = v
  BY <1>2 DEF NamedInv
<1>4. CASE Quiet
  <2>1. record' = record /\ index' = index
    BY <1>4 DEF Quiet
  <2>2. \A r \in Requests : Mid(r)' => Mid(r) /\ Listed(r, f)' = Listed(r, f)
    BY <1>1, <1>4, QuietSays
  <2>3. \A r \in Requests : Mid(r) /\ Target(r) = u => Mid(r)'
    BY <1>1, <1>4, QuietSays
  <2> QED BY <1>1, <1>3, <2>1, <2>2, <2>3
<1>5. ASSUME NEW q \in Requests, Edit(q), Target(q) # u
      PROVE  /\ \A r \in Requests : Mid(r)' /\ Target(r)' = u => Listed(r, f)' = v
             /\ (\A r \in Requests : Mid(r)' => Target(r)' # u) => record'[u][f] = v
  <2>1. Alone(q) /\ record'[u] = record[u]
    BY <1>5, EditsAreAlone
  <2>2. index[f][v] = u
    <3>1. CASE Drop(q)
      BY <3>1, DropDoes, Words
    <3>2. CASE SetIndex(q)
      BY <1>5, <3>2, SetDoes
    <3> QED BY <1>5, <3>1, <3>2, RegisterArrives, ReadDoes, CheckDoes, WriteDoes, EraseDoes DEF Edit
  <2>3. \A r \in Requests \ {q} : (Mid(r)' <=> Mid(r)) /\ Listed(r, f)' = Listed(r, f)
    BY <1>1, <2>1 DEF Alone, Mid, Listed
  <2> QED BY <1>1, <1>3, <1>5, <2>1, <2>2, <2>3
<1>6. ASSUME NEW q \in Requests, Edit(q), Target(q) = u
      PROVE  /\ \A r \in Requests : Mid(r)' /\ Target(r)' = u => Listed(r, f)' = v
             /\ (\A r \in Requests : Mid(r)' => Target(r)' # u) => record'[u][f] = v
  <2>1. Alone(q) /\ op[q].kind \in Writes /\ (Active(q) \/ Unborn(q))
    <3>1. Arrive(q) /\ op[q].kind = "register" => Unborn(q)
      BY DEF Arrive, Unborn
    <3>2. Read(q) => Active(q)
      BY DEF Read, Active, Answers
    <3>3. Arrive(q) => pc[q] = "new"
      BY DEF Arrive
    <3>4. ~(Arrive(q) \/ Read(q)) => Active(q)
      BY <1>6, EditsAreAlone, MidWrites
    <3>5. Edit(q) /\ pc[q] = "new" => op[q].kind = "register"
      BY DEF Edit, Read, Check, Drop, SetIndex, WriteUser, EraseUser
    <3> QED BY <1>6, <3>1, <3>2, <3>3, <3>4, <3>5, EditsAreAlone
  <2>2. \A r \in Requests \ {q} : Mid(r) => Target(r) # u
    BY <1>2, <1>6, <2>1, WritersAreSole DEF Sole, WorkInv
  <2>3. \A r \in Requests \ {q} : Mid(r)' => Target(r) # u
    BY <2>1, <2>2 DEF Alone, Mid
  <2>4. index[f][v] = u => Says(q, f) = v
    BY <1>3, <1>6, <2>2 DEF Says
  <2>5. Says(q, f)' = v
    BY <1>1, <1>2, <1>6, <2>4, NamedEdit
  <2> QED BY <1>1, <1>6, <2>3, <2>5 DEF Says
<1> QED BY <1>4, <1>5, <1>6, QuietSteps DEF Edit

LEMMA NamedInit == Init => NamedInv
<1> SUFFICES ASSUME Init, NEW f \in Field, NEW v \in Values, NEW u \in Users
             PROVE  /\ \A r \in Requests : ~Mid(r)
                    /\ index[f][v] = u => record[u][f] = v
  BY DEF NamedInv
<1>1. \A r \in Requests : ~Mid(r)
  BY DEF Init, Mid, Erasing
<1>2. Agrees(f, v)
  BY AgreesAtFirst
<1> QED BY <1>1, <1>2 DEF Agrees

\* The requests that can change what belongs to u.
About(s, u) == Target(s) = u \/ op[s].kind = "useKey"

\* A key of u is on its lists, or being made; so is a webhook.
Kept(k, u) ==
    \/ k \in keySet[u] /\ k \in keyIds
    \/ /\ k \in Requests /\ op[k].kind = "createKey"
       /\ pc[k] = "addKey" \/ (pc[k] = "setKeyId" /\ k \in keySet[u])
HookKept(h, u) ==
    \/ h \in hookIndex[u]
    \/ h \in Requests /\ op[h].kind = "createHook" /\ pc[h] = "setHookIndex"
\* What a use and a revocation of a key of u know of it.
KeyKnown(r, u) ==
    /\ pc[r] = "touch" /\ who[r] = u => keyData[op[r].item] = u
    /\ pc[r] \in {"delKeyId", "remKey"} /\ op[r].user = u => keyData[op[r].item] # u
\* How far the deletion r of u has come with the keys, the webhooks and the
\* rest.
KeysGo(r, u) ==
    /\ pc[r] \in {"keyOf", "eraseKey", "eraseKeyId"} => \A k \in Keys : keyData[k] = u => k \in todo[r]
    /\ pc[r] = "eraseKeyId" => keyData[who[r]] # u
    /\ pc[r] \in {"hooks", "eraseHook", "unlistHook", "erase", "drop", "ok"} =>
          \A k \in Keys : keyData[k] # u
HooksGo(r, u) ==
    /\ pc[r] \in {"eraseHook", "unlistHook"} => \A h \in Hooks : hook[h] = u => h \in todo[r]
    /\ pc[r] = "unlistHook" => hook[who[r]] # u
    /\ pc[r] \in {"erase", "drop", "ok"} => \A h \in Hooks : hook[h] # u
UserGoes(r, u) ==
    /\ pc[r] = "read" => record[u] # Gone
    /\ pc[r] = "ok" =>
          /\ record[u] = Gone
          /\ \A q \in Requests \ {r} : Target(q) = u =>
                pc[q] \in Answers \/ (pc[q] \in {"new", "auth", "load"} /\ op[q].kind # "register")
Safe(u) ==
    /\ \A k \in Keys : keyData[k] = u => Kept(k, u)
    /\ \A h \in Hooks : hook[h] = u => HookKept(h, u)
    /\ \A r \in Requests : KeyKnown(r, u)
    /\ \A r \in Requests : op[r].kind \in Deletes /\ Target(r) = u =>
          KeysGo(r, u) /\ HooksGo(r, u) /\ UserGoes(r, u)
GoneInv == \A u \in Users : ~Disturbed(u) => Safe(u)
\* A user that is being deleted has been there.
BornInv ==
    \A r \in Requests, q \in Requests :
        op[r].kind \in Deletes /\ pc[r] \in {"read", "drop", "ok"} \cup Erasing /\ Target(r) = q =>
            ~Unborn(q)

LEMMA BornStep == AccountsInv /\ UnbornInv /\ BornInv /\ [Next]_vars => BornInv'
<1> SUFFICES ASSUME AccountsInv, UnbornInv, BornInv, [Next]_vars, NEW r \in Requests,
                    NEW q \in Requests, op[r].kind \in Deletes,
                    pc'[r] \in {"read", "drop", "ok"} \cup Erasing, Target(r) = q, Unborn(q)
             PROVE  FALSE
  BY UnbornBefore, CallsStay DEF BornInv, Target
<1>1. pc[r] \notin {"read", "drop", "ok"} \cup Erasing
  BY DEF BornInv
<1>2. Types /\ Target(r) = op[r].user /\ op[r].kind # "register" /\ q \in Users
  BY DEF AccountsInv, Target, Deletes, Users
<1>3. record[q] = Gone
  BY DEF UnbornInv
<1>4. CASE Arrive(r)
  BY <1>2, <1>4 DEF Arrive, GoTo, First, Types, LocalTypes, Deletes, Erasing
<1>5. CASE Command(r)
  <2>1. Authenticate(r) \/ Load(r)
    <3>1. \/ Authenticate(r) \/ Load(r) \/ Read(r) \/ Drop(r)
          \/ DeleteKeys(r) \/ DeleteHooks(r) \/ EraseUser(r)
      BY <1>5, CommandsOfKinds
    <3> QED BY <1>1, <3>1 DEF Read, Drop, DeleteKeys, DeleteHooks, EraseUser, Erasing
  <2>2. CASE Authenticate(r)
    BY <1>2, <2>2 DEF Authenticate, GoTo, Routed, Types, LocalTypes, Deletes, Erasing
  <2>3. CASE Load(r)
    BY <1>2, <1>3, <2>3 DEF Load, Acceptable, GoTo, Types, LocalTypes, Erasing
  <2> QED BY <2>1, <2>2, <2>3
<1> QED BY <1>1, <1>4, <1>5, Ways DEF Erasing

\* A user that nothing disturbs was not disturbed before, and nobody clashes
\* over it.
LEMMA UndisturbedBefore ==
    ASSUME AccountsInv, MetInv, [Next]_vars, NEW u \in Users, ~Disturbed(u)'
    PROVE  ~Disturbed(u)
<1>1. /\ op' = op /\ met \subseteq met'
      /\ \A q \in Requests : pc[q] \in Answers => pc'[q] = pc[q]
  BY StepsOfRequests
<1>2. /\ \A r \in Requests : About(r, u)' <=> About(r, u)
      /\ Torn(u) => Torn(u)'
  BY <1>1 DEF About, Target, Torn, Answers
<1>3. ~Disturbed(u) <=> /\ \A r, s \in Requests : About(r, u) /\ About(s, u) /\ r # s => {r, s} \notin met
                        /\ \A s \in Requests : About(s, u) => pc[s] # "failed" /\ ~Torn(u)
  BY DEF Disturbed, About
<1>4. /\ \A r, s \in Requests : About(r, u)' /\ About(s, u)' /\ r # s => {r, s} \notin met'
      /\ \A s \in Requests : About(s, u)' => pc'[s] # "failed" /\ ~Torn(u)'
  BY DEF Disturbed, About
<1>5. \A r, s \in Requests : About(r, u) /\ About(s, u) /\ r # s => {r, s} \notin met
  BY <1>1, <1>2, <1>4
<1>6. \A s \in Requests : About(s, u) => pc[s] # "failed" /\ ~Torn(u)
  BY <1>1, <1>2, <1>4 DEF Answers
<1> QED BY <1>3, <1>5, <1>6

LEMMA UndisturbedMeans ==
    ASSUME NEW u \in Users, ~Disturbed(u)
    PROVE  /\ ~Clash(u) /\ ~Torn(u)
           /\ \A r, s \in Requests : About(r, u) /\ About(s, u) /\ r # s => {r, s} \notin met
           /\ \A s \in Requests : About(s, u) => pc[s] # "failed"
<1>1. /\ \A r, s \in Requests : About(r, u) /\ About(s, u) /\ r # s => {r, s} \notin met
      /\ \A s \in Requests : About(s, u) => pc[s] # "failed" /\ ~Torn(u)
  BY DEF Disturbed, About
<1>2. ~Clash(u)
  BY <1>1 DEF Clash, About
<1>3. ~Torn(u)
  BY <1>1 DEF Torn, About
<1> QED BY <1>1, <1>2, <1>3

\* Nothing of u changes, nor does a request that can change it.
Elsewhere(u) ==
    /\ \A q \in Requests : About(q, u) => UNCHANGED <<pc[q], who[q], todo[q]>>
    /\ record'[u] = record[u] /\ keySet'[u] = keySet[u] /\ hookIndex'[u] = hookIndex[u]
    /\ \A k \in Keys : keyData'[k] = u <=> keyData[k] = u
    /\ \A k \in Keys : KeyOwner(k) = u => (k \in keyIds' <=> k \in keyIds)
    /\ \A h \in Hooks : hook'[h] = u <=> hook[h] = u

LEMMA StoresElsewhere ==
    ASSUME AccountsInv, OwnInv, NEW r \in Requests, StoreStep(r), NEW u \in Users, ~About(r, u)
    PROVE  Elsewhere(u)
<1>a. Types /\ OwnCopy(r) /\ Flow(r) /\ Holds(r) /\ Shape(op[r]) /\ u # None
  BY Words DEF AccountsInv, OwnInv
<1>b. /\ \A k \in Keys : keyData[k] \in {None, KeyOwner(k)}
      /\ \A h \in Hooks : hook[h] \in {None, HookOwner(h)}
  BY DEF OwnInv
<1>c. Alone(r) /\ record' = record /\ Command(r)
  <2>1. Command(r)
    BY DEF StoreStep, Command
  <2>2. record' = record
    BY DEF StoreStep, CreateApiKey, UseApiKey, RevokeApiKey, CreateWebhook, DeleteKeys, DeleteHooks,
       userVars
  <2> QED BY <2>1, <2>2, CommandTyped
<1>d. op[r].kind # "useKey" /\ ~UseApiKey(r) /\ Target(r) # u
  BY <1>a DEF About, UseApiKey, Flow
<1>e. \A q \in Requests : About(q, u) => UNCHANGED <<pc[q], who[q], todo[q]>>
  BY <1>c DEF Alone
<1>1. CASE CreateApiKey(r)
  <2>1. op[r].user # u /\ r \in Keys /\ UNCHANGED hookVars
    BY <1>a, <1>d, <1>1 DEF CreateApiKey, Flow, Target, Keys
  <2>2. KeyOwner(r) # u
    BY <2>1 DEF KeyOwner
  <2>3. /\ keyData' \in {keyData, [keyData EXCEPT ![r] = op[r].user]}
        /\ keySet' \in {keySet, [keySet EXCEPT ![op[r].user] = @ \cup {r}]}
        /\ keyIds' \in {keyIds, keyIds \cup {r}}
    BY <1>1 DEF CreateApiKey
  <2>4. \A k \in Keys : keyData'[k] = u <=> keyData[k] = u
    BY <1>a, <1>b, <2>1, <2>2, <2>3 DEF Types, KeyTypes
  <2>5. keySet'[u] = keySet[u] /\ \A k \in Keys : KeyOwner(k) = u => (k \in keyIds' <=> k \in keyIds)
    BY <1>a, <2>1, <2>2, <2>3 DEF Types, KeyTypes
  <2> QED BY <1>c, <1>e, <2>1, <2>4, <2>5 DEF Elsewhere, hookVars
<1>2. CASE RevokeApiKey(r)
  <2>1. op[r].user # u /\ UNCHANGED hookVars
    BY <1>a, <1>d, <1>2 DEF RevokeApiKey, Flow, Target
  <2>2. UNCHANGED keyVars \/ KeyOwner(op[r].item) = op[r].user
    BY <1>a, <1>2 DEF RevokeApiKey, OwnCopy
  <2>3. /\ keyData' \in {keyData, [keyData EXCEPT ![op[r].item] = None]}
        /\ keySet' \in {keySet, [keySet EXCEPT ![op[r].user] = @ \ {op[r].item}]}
        /\ keyIds' \in {keyIds, keyIds \ {op[r].item}}
    BY <1>2 DEF RevokeApiKey, keyVars
  <2>4. \A k \in Keys : keyData'[k] = u <=> keyData[k] = u
    BY <1>a, <1>b, <2>1, <2>2, <2>3 DEF Types, KeyTypes, keyVars
  <2>5. keySet'[u] = keySet[u] /\ \A k \in Keys : KeyOwner(k) = u => (k \in keyIds' <=> k \in keyIds)
    BY <1>a, <2>1, <2>2, <2>3 DEF Types, KeyTypes, keyVars
  <2> QED BY <1>c, <1>e, <2>1, <2>4, <2>5 DEF Elsewhere, hookVars
<1>3. CASE CreateWebhook(r)
  <2>1. op[r].user # u /\ r \in Hooks /\ UNCHANGED keyVars
    BY <1>a, <1>d, <1>3 DEF CreateWebhook, Flow, Target, Hooks
  <2>2. HookOwner(r) # u
    BY <2>1 DEF HookOwner
  <2>3. /\ hook' \in {hook, [hook EXCEPT ![r] = op[r].user]}
        /\ hookIndex' \in {hookIndex, [hookIndex EXCEPT ![op[r].user] = @ \cup {r}]}
    BY <1>3 DEF CreateWebhook
  <2>4. \A k \in Hooks : hook'[k] = u <=> hook[k] = u
    BY <1>a, <1>b, <2>1, <2>2, <2>3 DEF Types, HookTypes
  <2>5. hookIndex'[u] = hookIndex[u]
    BY <1>a, <2>1, <2>3 DEF Types, HookTypes
  <2> QED BY <1>c, <1>e, <2>1, <2>4, <2>5 DEF Elsewhere, keyVars
<1>4. CASE DeleteKeys(r)
  <2>1. op[r].user # u /\ UNCHANGED hookVars
    BY <1>a, <1>d, <1>4 DEF DeleteKeys, Flow, Target, Erasing, Deletes
  <2>2. UNCHANGED <<keyData, keyIds>> \/ KeyOwner(who[r]) = op[r].user
    BY <1>a, <1>4 DEF DeleteKeys, OwnCopy, keyVars
  <2>3. /\ keyData' \in {keyData, [keyData EXCEPT ![who[r]] = None]}
        /\ keySet' \in {keySet, [keySet EXCEPT ![op[r].user] = {}]}
        /\ keyIds' \in {keyIds, keyIds \ {who[r]}}
    BY <1>4 DEF DeleteKeys, keyVars
  <2>4. \A k \in Keys : keyData'[k] = u <=> keyData[k] = u
    BY <1>a, <1>b, <2>1, <2>2, <2>3 DEF Types, KeyTypes
  <2>5. keySet'[u] = keySet[u] /\ \A k \in Keys : KeyOwner(k) = u => (k \in keyIds' <=> k \in keyIds)
    BY <1>a, <2>1, <2>2, <2>3 DEF Types, KeyTypes
  <2> QED BY <1>c, <1>e, <2>1, <2>4, <2>5 DEF Elsewhere, hookVars
<1>5. CASE DeleteHooks(r)
  <2>1. op[r].user # u /\ UNCHANGED keyVars
    BY <1>a, <1>d, <1>5 DEF DeleteHooks, Flow, Target, Erasing, Deletes
  <2>2. /\ \/ hook' = hook
           \/ \E h \in todo[r] : hook' = [hook EXCEPT ![h] = None] /\ HookOwner(h) = op[r].user
        /\ hookIndex' \in {hookIndex, [hookIndex EXCEPT ![op[r].user] = @ \ {who[r]}]}
    BY <1>a, <1>5 DEF DeleteHooks, OwnCopy, hookVars
  <2>3. \A k \in Hooks : hook'[k] = u <=> hook[k] = u
    BY <1>a, <1>b, <2>1, <2>2 DEF Types, HookTypes
  <2>4. hookIndex'[u] = hookIndex[u]
    BY <1>a, <2>1, <2>2 DEF Types, HookTypes
  <2> QED BY <1>c, <1>e, <2>1, <2>3, <2>4 DEF Elsewhere, keyVars
<1> QED BY <1>d, <1>1, <1>2, <1>3, <1>4, <1>5 DEF StoreStep

\* As long as nothing disturbs u, a step is elsewhere or that of a request
\* that can change what is u's.
LEMMA StepsAbout ==
    ASSUME AccountsInv, OwnInv, [Next]_vars, NEW u \in Users, ~Disturbed(u)'
    PROVE  Elsewhere(u) \/ \E r \in Requests : About(r, u) /\ (Arrive(r) \/ Command(r))
<1>1. ASSUME NEW r \in Requests, StoreStep(r)
      PROVE  Elsewhere(u) \/ (About(r, u) /\ Command(r))
  BY <1>1, StoresElsewhere DEF StoreStep, Command
<1>2. CASE UNCHANGED <<keyVars, hookVars>>
  <2>1. CASE UNCHANGED vars
    BY <1>2, <2>1 DEF vars, userVars, localVars, keyVars, hookVars, Elsewhere
  <2>2. CASE Interrupt
    <3>1. /\ \A q \in Requests : pc'[q] = pc[q] \/ pc'[q] = "failed"
          /\ op' = op /\ record' = record /\ who' = who /\ todo' = todo
      BY <2>2 DEF Interrupt, userVars, localVars
    <3>2. \A q \in Requests : About(q, u) => pc'[q] # "failed"
      BY <3>1 DEF Disturbed, About, Target
    <3> QED BY <1>2, <3>1, <3>2 DEF Elsewhere, keyVars, hookVars
  <2>3. ASSUME NEW r \in Requests, Arrive(r) \/ Command(r), ~About(r, u), record'[u] = record[u]
        PROVE  Elsewhere(u)
    <3>1. Alone(r)
      BY <2>3, ArriveTyped, CommandTyped
    <3> QED BY <1>2, <2>3, <3>1 DEF Elsewhere, Alone, keyVars, hookVars
  <2>4. ASSUME NEW r \in Requests, WriteUser(r) \/ EraseUser(r)
        PROVE  Elsewhere(u) \/ (About(r, u) /\ Command(r))
    BY <2>3, <2>4, EditsAreAlone DEF Edit, About, Command
  <2>5. CASE record' = record
    BY <2>1, <2>2, <2>3, <2>5 DEF Next, Done
  <2> QED BY <2>4, <2>5, RecordSteps
<1> QED BY <1>1, <1>2, StoreSteps

LEMMA SafeElsewhere ==
    ASSUME AccountsInv, AccountsInv', OwnInv, op' = op, NEW u \in Users, Elsewhere(u), Safe(u)
    PROVE  Safe(u)'
<1>a. /\ \A r \in Requests : Target(r)' = Target(r) /\ (About(r, u)' <=> About(r, u))
      /\ u # None
      /\ \A r \in Requests : Flow(r) /\ Flow(r)' /\ Holds(r) /\ Shape(op[r])
      /\ \A r \in Requests : About(r, u) => UNCHANGED <<pc[r], who[r], todo[r]>>
  BY Words DEF Target, About, AccountsInv, Elsewhere
<1>1. ASSUME NEW k \in Keys, keyData'[k] = u PROVE Kept(k, u)'
  <2>1. keyData[k] = u /\ Kept(k, u) /\ KeyOwner(k) = u
    BY <1>a, <1>1 DEF Elsewhere, Safe, OwnInv
  <2>2. k \in Requests /\ op[k].kind = "createKey" => pc'[k] = pc[k]
    BY <1>a, <2>1 DEF KeyOwner, About, Target
  <2> QED BY <2>1, <2>2 DEF Elsewhere, Kept
<1>2. ASSUME NEW h \in Hooks, hook'[h] = u PROVE HookKept(h, u)'
  <2>1. hook[h] = u /\ HookKept(h, u) /\ HookOwner(h) = u
    BY <1>a, <1>2 DEF Elsewhere, Safe, OwnInv
  <2>2. h \in Requests /\ op[h].kind = "createHook" => pc'[h] = pc[h]
    BY <1>a, <2>1 DEF HookOwner, About, Target
  <2> QED BY <2>1, <2>2 DEF Elsewhere, HookKept
<1>3. ASSUME NEW r \in Requests PROVE KeyKnown(r, u)'
  <2>1. KeyKnown(r, u)
    BY DEF Safe
  <2>2. pc'[r] = "touch" => op[r].kind = "useKey" /\ About(r, u) /\ op[r].item \in Keys
    BY <1>a DEF Flow, About, Shape
  <2>3. pc'[r] \in {"delKeyId", "remKey"} /\ op[r].user = u => About(r, u) /\ op[r].item \in Keys
    BY <1>a DEF Flow, About, Target, Shape
  <2> QED BY <1>a, <2>1, <2>2, <2>3 DEF KeyKnown, Elsewhere
<1>4. ASSUME NEW r \in Requests, op[r].kind \in Deletes, Target(r) = u
      PROVE  KeysGo(r, u)' /\ HooksGo(r, u)' /\ UserGoes(r, u)'
  <2>1. KeysGo(r, u) /\ HooksGo(r, u) /\ UserGoes(r, u)
    BY <1>4 DEF Safe
  <2>2. UNCHANGED <<pc[r], who[r], todo[r]>>
    BY <1>a, <1>4 DEF About
  <2>3. KeysGo(r, u)'
    BY <1>a, <2>1, <2>2 DEF KeysGo, Elsewhere, Holds
  <2>4. HooksGo(r, u)'
    BY <1>a, <2>1, <2>2 DEF HooksGo, Elsewhere, Holds
  <2>5. UserGoes(r, u)'
    BY <1>a, <2>1, <2>2 DEF UserGoes, Elsewhere, About
  <2> QED BY <2>3, <2>4, <2>5
<1> QED BY <1>a, <1>1, <1>2, <1>3, <1>4 DEF Safe

\* Of the requests that can change what is u's, only r is at work.
Only(r, u) == \A q \in Requests \ {r} : About(q, u) => pc[q] \in {"new", "ok", "refused"}

LEMMA OnlyOne ==
    ASSUME AccountsInv, MetInv, [Next]_vars, NEW u \in Users, ~Disturbed(u)', NEW r \in Requests,
           About(r, u), Arrive(r) \/ Command(r)
    PROVE  Only(r, u)
<1> SUFFICES ASSUME NEW q \in Requests \ {r}, About(q, u), pc[q] \notin {"new", "ok", "refused"}
             PROVE  FALSE
  BY DEF Only
<1>1. /\ op' = op /\ met \subseteq met' /\ (About(r, u)' <=> About(r, u))
      /\ About(q, u)' <=> About(q, u)
  BY StepsOfRequests DEF About, Target
<1>2. {r, q} \notin met' /\ ~Disturbed(u)
  BY <1>1, UndisturbedBefore, UndisturbedMeans DEF Disturbed, About
<1>3. Active(q)
  BY <1>2, UndisturbedMeans DEF Active, Answers
<1>4. CASE Arrive(r)
  BY <1>2, <1>3, <1>4 DEF Arrive
<1>5. CASE Command(r)
  BY <1>1, <1>2, <1>3, <1>5, CommandsAreActive DEF MetInv
<1> QED BY <1>4, <1>5

\* What is to be shown of a step of r if only r is at work.
LEMMA SafeIf ==
    ASSUME AccountsInv, NEW u \in Users, NEW r \in Requests, Alone(r), Only(r, u),
           \A k \in Keys : keyData'[k] = u => Kept(k, u)',
           \A h \in Hooks : hook'[h] = u => HookKept(h, u)',
           KeyKnown(r, u)',
           op[r].kind \in Deletes /\ Target(r) = u =>
              KeysGo(r, u)' /\ HooksGo(r, u)' /\ UserGoes(r, u)',
           \A d \in Requests \ {r} : op[d].kind \in Deletes /\ Target(d) = u /\ pc[d] = "ok" =>
              KeysGo(d, u)' /\ HooksGo(d, u)' /\ UserGoes(d, u)'
    PROVE  Safe(u)'
<1>1. op' = op /\ \A q \in Requests : Target(q)' = Target(q)
  BY DEF Alone, Target
<1>2. ASSUME NEW q \in Requests \ {r} PROVE KeyKnown(q, u)'
  <2>1. Flow(q) /\ pc'[q] = pc[q]
    BY DEF AccountsInv, Alone
  <2>2. pc[q] # "touch" /\ (op[q].user = u => pc[q] \notin {"delKeyId", "remKey"})
    BY <2>1 DEF Flow, Only, About, Target
  <2> QED BY <1>1, <2>1, <2>2 DEF KeyKnown
<1>3. ASSUME NEW d \in Requests \ {r}, op[d].kind \in Deletes, Target(d) = u
      PROVE  KeysGo(d, u)' /\ HooksGo(d, u)' /\ UserGoes(d, u)'
  <2>1. pc'[d] = pc[d] /\ pc[d] \in {"new", "ok", "refused"}
    BY <1>3 DEF Alone, Only, About
  <2>2. CASE pc[d] # "ok"
    BY <2>1, <2>2 DEF KeysGo, HooksGo, UserGoes
  <2> QED BY <1>3, <2>2
<1> QED BY <1>1, <1>2, <1>3 DEF Safe

\* Once a deletion of u is over, nobody changes what was u's.
LEMMA OverIsOver ==
    ASSUME AccountsInv, NEW u \in Users, Safe(u), NEW d \in Requests, op[d].kind \in Deletes,
           Target(d) = u, pc[d] = "ok", NEW r \in Requests \ {d}, Target(r) = u,
           Arrive(r) \/ Command(r)
    PROVE  /\ UNCHANGED record
           /\ \/ pc'[r] \in Answers
              \/ pc'[r] \in {"new", "auth", "load"} /\ op[r].kind # "register"
           /\ ~StoreStep(r)
<1>1. record[u] = Gone /\ pc[r] \notin Answers /\ Types /\ Flow(r) /\ u # None
  BY Words, CommandsAreActive DEF Safe, UserGoes, AccountsInv, Active, Arrive, Answers
<1>2. pc[r] \in {"new", "auth", "load"} /\ op[r].kind # "register" /\ op[r].user = u
  BY <1>1 DEF Safe, UserGoes, Target
<1>3. op[r].kind \notin Unowned /\ (op[r].kind \notin AdminKinds => op[r].caller = u)
  BY <1>1, <1>2, CallersAreUsers, PlansAssumption DEF AccountsInv, Shape, Kinds
<1>4. ~StoreStep(r)
  BY <1>2 DEF StoreStep, CreateApiKey, UseApiKey, RevokeApiKey, CreateWebhook, DeleteKeys, DeleteHooks
<1>5. CASE Arrive(r)
  <2>1. pc'[r] = "auth"
    BY <1>1, <1>3, <1>5 DEF Arrive, First, GoTo, Types, LocalTypes, Unowned
  <2> QED BY <1>2, <1>4, <1>5, <2>1 DEF Arrive, userVars
<1>6. CASE Command(r)
  <2>1. Authenticate(r) \/ Load(r)
    BY <1>2, <1>4, <1>6 DEF Command, StoreStep, Read, Check, Drop, SetIndex, WriteUser, FindUser,
       Found, StoreToken, RevokeToken, RevokeAll, EraseUser
  <2>2. CASE Authenticate(r)
    <3>1. pc'[r] = "refused" \/ (op[r].kind \in AdminKinds /\ pc'[r] = "load")
      BY <1>1, <1>3, <2>2 DEF Authenticate, Routed, GoTo, Types, LocalTypes, AdminKinds
    <3> QED BY <1>2, <1>4, <2>2, <3>1 DEF Authenticate, userVars, Answers
  <2>3. CASE Load(r)
    BY <1>1, <1>2, <1>4, <2>3 DEF Load, Acceptable, GoTo, Types, LocalTypes, userVars, Answers
  <2> QED BY <2>1, <2>2, <2>3
<1> QED BY <1>5, <1>6

LEMMA SafeOtherStep ==
    ASSUME AccountsInv, WorkInv, BornInv, NEW u \in Users, ~Clash(u), Safe(u),
           NEW r \in Requests, About(r, u), Only(r, u), Arrive(r) \/ Command(r), ~StoreStep(r)
    PROVE  Safe(u)'
<1>a. /\ Alone(r) /\ UNCHANGED <<keyVars, hookVars>> /\ pc'[r] \notin Storing /\ op' = op
      /\ Flow(r) /\ Types /\ pc[r] \notin Answers
  BY OtherSteps, CommandsAreActive DEF Alone, AccountsInv, Active, Arrive, Answers
<1>b. /\ \A k \in Keys : keyData[k] = u => Kept(k, u)
      /\ \A h \in Hooks : hook[h] = u => HookKept(h, u)
      /\ op[r].kind \in Deletes /\ Target(r) = u => KeysGo(r, u) /\ HooksGo(r, u) /\ UserGoes(r, u)
      /\ \A q \in Requests : Target(q)' = Target(q)
  BY <1>a DEF Safe, Target
<1>c. pc[r] \notin {"addKey", "setKeyId", "setHookIndex"}
  <2>1. CASE Arrive(r)
    BY <2>1 DEF Arrive
  <2>2. CASE Command(r)
    <3>1. /\ op[r].kind = "createKey" => Authenticate(r) \/ Load(r)
          /\ op[r].kind = "createHook" => Authenticate(r)
      BY <2>2, CommandsOfKinds DEF StoreStep
    <3> QED BY <1>a, <3>1 DEF Flow, Authenticate, Load
  <2> QED BY <2>1, <2>2
<1>1. \A k \in Keys : keyData'[k] = u => Kept(k, u)'
  BY <1>a, <1>b, <1>c DEF Kept, keyVars, Alone
<1>2. \A h \in Hooks : hook'[h] = u => HookKept(h, u)'
  BY <1>a, <1>b, <1>c DEF HookKept, hookVars, Alone
<1>3. KeyKnown(r, u)'
  BY <1>a DEF KeyKnown, Storing
<1>4. ASSUME NEW d \in Requests \ {r}, op[d].kind \in Deletes, Target(d) = u, pc[d] = "ok"
      PROVE  KeysGo(d, u)' /\ HooksGo(d, u)' /\ UserGoes(d, u)'
  <2>1. KeysGo(d, u) /\ HooksGo(d, u) /\ UserGoes(d, u) /\ pc'[d] = "ok"
    BY <1>a, <1>4 DEF Safe, Alone
  <2>2. KeysGo(d, u)' /\ HooksGo(d, u)'
    BY <1>a, <1>4, <2>1 DEF KeysGo, HooksGo, keyVars, hookVars
  <2>3. record' = record
    <3>1. CASE Target(r) = u
      BY <1>4, <3>1, OverIsOver
    <3>2. CASE op[r].kind = "useKey"
      <4>1. Arrive(r)
        BY <3>2, CommandsOfKinds DEF StoreStep
      <4> QED BY <4>1 DEF Arrive, userVars
    <3> QED BY <3>1, <3>2 DEF About
  <2>4. Target(r) = u => \/ pc'[r] \in Answers
                         \/ pc'[r] \in {"new", "auth", "load"} /\ op[r].kind # "register"
    BY <1>4, OverIsOver
  <2>5. UserGoes(d, u)'
    BY <1>a, <1>b, <1>4, <2>1, <2>3, <2>4 DEF UserGoes, Alone
  <2> QED BY <2>2, <2>5
<1>5. ASSUME op[r].kind \in Deletes, Target(r) = u
      PROVE  KeysGo(r, u)' /\ HooksGo(r, u)' /\ UserGoes(r, u)'
  <2>a. op[r].user = u /\ op[r].kind # "register" /\ op[r].kind # "createKey" /\ op[r].kind \in Writes
    BY <1>5 DEF Target, Deletes, Writes
  <2>b. KeysGo(r, u) /\ HooksGo(r, u) /\ UserGoes(r, u)
    BY <1>b, <1>5
  <2>c. pc[r] \in {"read", "drop", "ok"} \cup Erasing =>
           \A q \in Requests \ {r} : Target(q) = u =>
              pc'[q] \in Answers \/ (pc'[q] \in {"new", "auth", "load"} /\ op[q].kind # "register")
    BY <1>a, <1>5 DEF BornInv, Unborn, Only, About, Alone, Target, Answers
  <2>1. CASE Arrive(r)
    <3>1. pc'[r] = "auth"
      BY <1>a, <1>5, <2>1 DEF Arrive, First, GoTo, Types, LocalTypes, Deletes
    <3> QED BY <3>1 DEF KeysGo, HooksGo, UserGoes
  <2>2. CASE Authenticate(r)
    <3>1. pc'[r] \in {"refused", "load"}
      BY <1>a, <1>5, <2>2 DEF Authenticate, Routed, GoTo, Types, LocalTypes, Deletes
    <3> QED BY <3>1 DEF KeysGo, HooksGo, UserGoes
  <2>3. CASE Load(r)
    <3>1. pc'[r] = "refused" \/ (pc'[r] = "read" /\ record'[u] # Gone)
      BY <1>a, <2>a, <2>3 DEF Load, Acceptable, GoTo, Types, LocalTypes, userVars
    <3> QED BY <3>1 DEF KeysGo, HooksGo, UserGoes
  <2>4. CASE Read(r)
    <3>1. pc'[r] = "keys"
      BY <1>a, <1>5, <2>a, <2>b, <2>4 DEF Read, UserGoes, GoTo, Types, LocalTypes
    <3> QED BY <3>1 DEF KeysGo, HooksGo, UserGoes
  <2>5. CASE EraseUser(r)
    <3>1. pc[r] = "erase" /\ pc'[r] = "drop"
      BY <2>5, EraseDoes
    <3>2. KeysGo(r, u)' /\ HooksGo(r, u)' /\ UserGoes(r, u)'
      BY <1>a, <2>b, <3>1 DEF KeysGo, HooksGo, UserGoes, keyVars, hookVars
    <3> QED BY <3>2
  <2>6. CASE Drop(r)
    <3>1. pc[r] = "drop" /\ pc'[r] \in {"drop", "ok"} /\ record'[u] = record[u]
      BY <1>5, <2>6, DropDoes DEF Deletes
    <3>2. record[u] = Gone
      BY <1>5, <3>1 DEF WorkInv, WrittenInv
    <3>3. KeysGo(r, u)' /\ HooksGo(r, u)'
      BY <1>a, <2>b, <3>1 DEF KeysGo, HooksGo, keyVars, hookVars
    <3>4. UserGoes(r, u)'
      BY <1>a, <1>b, <2>c, <3>1, <3>2 DEF UserGoes
    <3> QED BY <3>3, <3>4
  <2> QED BY <1>5, <2>1, <2>2, <2>3, <2>4, <2>5, <2>6, CommandsOfKinds DEF StoreStep
<1> QED BY <1>a, <1>1, <1>2, <1>3, <1>4, <1>5, SafeIf

\* A step that changes keys or webhooks when nobody else is at work: what
\* it leaves to show is what r itself knows.
LEMMA SafeStore ==
    ASSUME AccountsInv, NEW u \in Users, Safe(u), NEW r \in Requests, Only(r, u), StoreStep(r),
           Target(r) = u,
           \A k \in Keys : keyData'[k] = u => Kept(k, u)',
           \A h \in Hooks : hook'[h] = u => HookKept(h, u)',
           KeyKnown(r, u)',
           op[r].kind \in Deletes => KeysGo(r, u)' /\ HooksGo(r, u)' /\ UserGoes(r, u)'
    PROVE  Safe(u)'
<1>1. Command(r) /\ Alone(r)
  BY CommandTyped DEF StoreStep, Command
<1>2. \A d \in Requests \ {r} : ~(op[d].kind \in Deletes /\ Target(d) = u /\ pc[d] = "ok")
  BY <1>1, OverIsOver
<1> QED BY <1>1, <1>2, SafeIf

LEMMA SafeCreateKey ==
    ASSUME AccountsInv, NEW u \in Users, Safe(u), NEW r \in Requests, Only(r, u), CreateApiKey(r),
           Target(r) = u
    PROVE  Safe(u)'
<1>a. /\ Alone(r) /\ op' = op /\ Flow(r) /\ Types /\ r \in Keys /\ UNCHANGED hookVars
      /\ op[r].kind = "createKey" /\ op[r].user = u /\ op[r].kind \notin Deletes
      /\ pc[r] \in {"setKey", "addKey", "setKeyId"}
  BY CreateApiKeyTyped DEF AccountsInv, Alone, CreateApiKey, Flow, Target, Deletes, Keys
<1>b. /\ \A k \in Keys : keyData[k] = u => Kept(k, u)
      /\ \A h \in Hooks : hook[h] = u => HookKept(h, u)
  BY DEF Safe
<1>1. ASSUME NEW k \in Keys, k # r, keyData'[k] = u PROVE Kept(k, u)'
  <2>1. keyData[k] = u /\ keySet[u] \subseteq keySet'[u] /\ keyIds \subseteq keyIds'
    BY <1>a, <1>1 DEF CreateApiKey, Types, KeyTypes
  <2>2. k \in Requests => pc'[k] = pc[k]
    BY <1>a, <1>1 DEF Alone
  <2> QED BY <1>a, <1>b, <2>1, <2>2 DEF Kept
<1>2. ASSUME keyData'[r] = u PROVE Kept(r, u)'
  <2>1. CASE pc[r] = "setKey"
    BY <1>a, <2>1 DEF CreateApiKey, GoTo, Types, LocalTypes, Kept
  <2>2. CASE pc[r] = "addKey"
    BY <1>a, <2>2 DEF CreateApiKey, GoTo, Types, LocalTypes, KeyTypes, Kept
  <2>3. CASE pc[r] = "setKeyId"
    <3>1. keyData' = keyData /\ keySet' = keySet /\ r \in keyIds'
      BY <2>3 DEF CreateApiKey
    <3>2. r \in keySet[u]
      BY <1>a, <1>b, <1>2, <2>3, <3>1 DEF Kept
    <3> QED BY <3>1, <3>2 DEF Kept
  <2> QED BY <1>a, <2>1, <2>2, <2>3
<1>3. \A h \in Hooks : hook'[h] = u => HookKept(h, u)'
  BY <1>a, <1>b DEF HookKept, hookVars, Alone
<1>4. KeyKnown(r, u)'
  BY <1>a DEF CreateApiKey, GoTo, Types, LocalTypes, KeyKnown
<1> QED BY <1>a, <1>1, <1>2, <1>3, <1>4, SafeStore DEF StoreStep

LEMMA SafeCreateHook ==
    ASSUME AccountsInv, NEW u \in Users, Safe(u), NEW r \in Requests, Only(r, u), CreateWebhook(r),
           Target(r) = u
    PROVE  Safe(u)'
<1>a. /\ Alone(r) /\ op' = op /\ Flow(r) /\ Types /\ r \in Hooks /\ UNCHANGED keyVars
      /\ op[r].kind = "createHook" /\ op[r].user = u /\ op[r].kind \notin Deletes
      /\ pc[r] \in {"setHook", "setHookIndex"}
  BY CreateWebhookTyped DEF AccountsInv, Alone, CreateWebhook, Flow, Target, Deletes, Hooks
<1>b. /\ \A k \in Keys : keyData[k] = u => Kept(k, u)
      /\ \A h \in Hooks : hook[h] = u => HookKept(h, u)
  BY DEF Safe
<1>1. \A k \in Keys : keyData'[k] = u => Kept(k, u)'
  BY <1>a, <1>b DEF Kept, keyVars, Alone
<1>2. ASSUME NEW h \in Hooks, h # r, hook'[h] = u PROVE HookKept(h, u)'
  <2>1. hook[h] = u /\ hookIndex[u] \subseteq hookIndex'[u]
    BY <1>a, <1>2 DEF CreateWebhook, Types, HookTypes
  <2>2. h \in Requests => pc'[h] = pc[h]
    BY <1>a, <1>2 DEF Alone
  <2> QED BY <1>a, <1>b, <2>1, <2>2 DEF HookKept
<1>3. HookKept(r, u)'
  <2>1. CASE pc[r] = "setHook"
    BY <1>a, <2>1 DEF CreateWebhook, GoTo, Types, LocalTypes, HookKept
  <2>2. CASE pc[r] = "setHookIndex"
    BY <1>a, <2>2 DEF CreateWebhook, Types, HookTypes, HookKept
  <2> QED BY <1>a, <2>1, <2>2
<1>4. KeyKnown(r, u)'
  BY <1>a DEF CreateWebhook, GoTo, Types, LocalTypes, KeyKnown
<1> QED BY <1>a, <1>1, <1>2, <1>3, <1>4, SafeStore DEF StoreStep

LEMMA SafeRevoke ==
    ASSUME AccountsInv, NEW u \in Users, Safe(u), NEW r \in Requests, Only(r, u), RevokeApiKey(r),
           Target(r) = u
    PROVE  Safe(u)'
<1>a. /\ Alone(r) /\ op' = op /\ Flow(r) /\ Types /\ op[r].item \in Keys /\ UNCHANGED hookVars
      /\ op[r].kind = "revokeKey" /\ op[r].user = u /\ op[r].kind \notin Deletes /\ u # None
  BY RevokeApiKeyTyped, Words DEF AccountsInv, Alone, RevokeApiKey, Flow, Target, Deletes, Shape
<1>b. /\ \A k \in Keys : keyData[k] = u => Kept(k, u)
      /\ \A h \in Hooks : hook[h] = u => HookKept(h, u)
      /\ KeyKnown(r, u)
  BY DEF Safe
<1>1. /\ keyData' \in {keyData, [keyData EXCEPT ![op[r].item] = None]}
      /\ keyIds' \in {keyIds, keyIds \ {op[r].item}}
      /\ keySet' \in {keySet, [keySet EXCEPT ![u] = @ \ {op[r].item}]}
      /\ UNCHANGED <<keyIds, keySet>> \/ pc[r] \in {"delKeyId", "remKey"}
  BY <1>a DEF RevokeApiKey, keyVars
<1>2. ASSUME NEW k \in Keys, keyData'[k] = u PROVE Kept(k, u)'
  <2>1. keyData[k] = u
    BY <1>a, <1>1, <1>2 DEF Types, KeyTypes
  <2>2. k = op[r].item => UNCHANGED <<keyIds, keySet>>
    BY <1>a, <1>b, <1>1, <2>1 DEF KeyKnown
  <2>3. /\ k \in keySet[u] => k \in keySet'[u]
        /\ k \in keyIds => k \in keyIds'
    BY <1>a, <1>1, <2>2 DEF Types, KeyTypes
  <2>4. k \in Requests /\ op[k].kind = "createKey" => pc'[k] = pc[k]
    BY <1>a DEF Alone
  <2> QED BY <1>a, <1>b, <2>1, <2>3, <2>4 DEF Kept
<1>3. \A h \in Hooks : hook'[h] = u => HookKept(h, u)'
  BY <1>a, <1>b DEF HookKept, hookVars, Alone
<1>4. KeyKnown(r, u)'
  <2>1. pc'[r] # "touch"
    BY <1>a DEF RevokeApiKey, GoTo, Types, LocalTypes
  <2>2. CASE pc[r] = "delKey"
    BY <1>a, <2>1, <2>2 DEF RevokeApiKey, Types, KeyTypes, KeyKnown
  <2>3. CASE pc[r] # "delKey"
    <3>1. keyData' = keyData /\ (pc'[r] \in {"delKeyId", "remKey"} => pc[r] = "delKeyId")
      BY <1>a, <2>3 DEF RevokeApiKey, GoTo, Types, LocalTypes, keyVars
    <3> QED BY <1>a, <1>b, <2>1, <3>1 DEF KeyKnown
  <2> QED BY <2>2, <2>3
<1> QED BY <1>a, <1>2, <1>3, <1>4, SafeStore DEF StoreStep

LEMMA SafeUse ==
    ASSUME AccountsInv, OwnInv, NEW u \in Users, Safe(u), NEW r \in Requests, Only(r, u),
           UseApiKey(r)
    PROVE  Safe(u)'
<1>a. /\ Alone(r) /\ op' = op /\ Flow(r) /\ Types /\ op[r].item \in Keys
      /\ UNCHANGED <<keyIds, keySet, hookVars, record>> /\ pc[r] \in {"useKey", "touch"}
      /\ op[r].kind = "useKey" /\ op[r].kind \notin Deletes /\ u # None
  BY UseApiKeyTyped, Words DEF AccountsInv, Alone, UseApiKey, Flow, Deletes, Shape, userVars
<1>b. /\ \A k \in Keys : keyData[k] = u => Kept(k, u)
      /\ \A h \in Hooks : hook[h] = u => HookKept(h, u)
      /\ KeyKnown(r, u) /\ OwnCopy(r)
      /\ \A k \in Keys : keyData[k] \in {None, KeyOwner(k)}
  BY DEF Safe, OwnInv
<1>c. \A q \in Requests : Target(q)' = Target(q) /\ (Target(q) = u => q # r)
  <2>1. op[r].user = None
    BY <1>a, CallersAreUsers, PlansAssumption DEF AccountsInv, Unowned
  <2> QED BY <1>a, <2>1 DEF Target
<1>1. \A k \in Keys : keyData'[k] = u <=> keyData[k] = u
  <2>1. CASE pc[r] = "touch"
    <3>1. who[r] = KeyOwner(op[r].item) /\ (who[r] = u => keyData[op[r].item] = u)
      BY <1>b, <2>1 DEF OwnCopy, KeyKnown
    <3>2. keyData' = [keyData EXCEPT ![op[r].item] = who[r]]
      BY <2>1 DEF UseApiKey
    <3> QED BY <1>a, <1>b, <3>1, <3>2 DEF Types, KeyTypes
  <2>2. CASE pc[r] = "useKey"
    BY <2>2 DEF UseApiKey
  <2> QED BY <1>a, <2>1, <2>2
<1>2. \A k \in Keys : keyData'[k] = u => Kept(k, u)'
  BY <1>a, <1>b, <1>1 DEF Kept, Alone
<1>3. \A h \in Hooks : hook'[h] = u => HookKept(h, u)'
  BY <1>a, <1>b DEF HookKept, hookVars, Alone
<1>4. KeyKnown(r, u)'
  <2>1. pc'[r] = "touch" => pc[r] = "useKey" /\ who'[r] = keyData[op[r].item]
    BY <1>a DEF UseApiKey, GoTo, Types, LocalTypes
  <2>2. pc'[r] \notin {"delKeyId", "remKey"}
    BY <1>a DEF UseApiKey, GoTo, Types, LocalTypes
  <2> QED BY <1>a, <1>1, <2>1, <2>2 DEF KeyKnown
<1>5. ASSUME NEW d \in Requests \ {r}, op[d].kind \in Deletes, Target(d) = u, pc[d] = "ok"
      PROVE  KeysGo(d, u)' /\ HooksGo(d, u)' /\ UserGoes(d, u)'
  <2>1. KeysGo(d, u) /\ HooksGo(d, u) /\ UserGoes(d, u) /\ pc'[d] = "ok"
    BY <1>a, <1>5 DEF Safe, Alone
  <2>2. KeysGo(d, u)' /\ HooksGo(d, u)'
    BY <1>a, <1>1, <1>5, <2>1 DEF KeysGo, HooksGo, hookVars
  <2>3. UserGoes(d, u)'
    BY <1>a, <1>c, <1>5, <2>1 DEF UserGoes, Alone
  <2> QED BY <2>2, <2>3
<1> QED BY <1>a, <1>2, <1>3, <1>4, <1>5, SafeIf

LEMMA SafeDeleteKeys ==
    ASSUME AccountsInv, OwnInv, NEW u \in Users, Safe(u), NEW r \in Requests, Only(r, u),
           DeleteKeys(r), Target(r) = u
    PROVE  Safe(u)'
<1>a. /\ Alone(r) /\ op' = op /\ Holds(r) /\ Types /\ UNCHANGED hookVars
      /\ op[r].kind \in Deletes /\ op[r].user = u /\ u # None
      /\ pc[r] \in {"keys", "keyOf", "eraseKey", "eraseKeyId"}
  BY DeleteKeysTyped, Words DEF AccountsInv, Alone, DeleteKeys, Flow, Target, Deletes, Erasing
<1>b. /\ \A h \in Hooks : hook[h] = u => HookKept(h, u)
      /\ KeysGo(r, u)
  BY <1>a DEF Safe
<1>c. \A k \in Keys : keyData[k] = u => k \in keySet[u] /\ k \in keyIds
  <2>1. ASSUME NEW k \in Keys, keyData[k] = u PROVE k \in keySet[u] /\ k \in keyIds
    <3>1. Kept(k, u) /\ KeyOwner(k) = u
      BY <1>a, <2>1 DEF Safe, OwnInv
    <3>2. k \in Requests /\ op[k].kind = "createKey" => pc[k] \in {"new", "ok", "refused"}
      BY <1>a, <3>1 DEF KeyOwner, Only, About, Target, Deletes
    <3> QED BY <3>1, <3>2 DEF Kept
  <2> QED BY <2>1
<1>1. /\ \A k \in Keys : keyData'[k] = u => keyData[k] = u /\ k \in keySet'[u] /\ k \in keyIds'
      /\ KeysGo(r, u)' /\ pc'[r] \in {"keyOf", "eraseKey", "eraseKeyId", "hooks"}
  <2>1. CASE pc[r] = "keys"
    <3>1. /\ UNCHANGED keyVars /\ todo'[r] = keySet[u]
          /\ pc'[r] = IF keySet[u] = {} THEN "hooks" ELSE "keyOf"
      BY <1>a, <2>1 DEF DeleteKeys, GoTo, Types, LocalTypes
    <3> QED BY <1>c, <3>1 DEF KeysGo, keyVars
  <2>2. CASE pc[r] = "keyOf" /\ todo[r] # {}
    <3>1. PICK k \in todo[r] :
             IF k \in keyIds THEN who'[r] = k /\ pc'[r] = "eraseKey" /\ todo'[r] = todo[r]
             ELSE todo'[r] = todo[r] \ {k} /\ pc'[r] = "keyOf"
      BY <1>a, <2>2 DEF DeleteKeys, GoTo, Types, LocalTypes
    <3>2. UNCHANGED keyVars
      BY <2>2 DEF DeleteKeys
    <3> QED BY <1>b, <1>c, <2>2, <3>1, <3>2 DEF KeysGo, keyVars
  <2>3. CASE pc[r] = "eraseKey"
    <3>1. /\ keyData' = [keyData EXCEPT ![who[r]] = None] /\ UNCHANGED <<keyIds, keySet, who, todo>>
          /\ pc'[r] = "eraseKeyId" /\ who[r] \in Keys
      BY <1>a, <2>3 DEF DeleteKeys, GoTo, Types, LocalTypes, Holds
    <3>2. \A k \in Keys : keyData'[k] = IF k = who[r] THEN None ELSE keyData[k]
      BY <1>a, <3>1 DEF Types, KeyTypes
    <3> QED BY <1>a, <1>b, <1>c, <2>3, <3>1, <3>2 DEF KeysGo
  <2>4. CASE pc[r] = "eraseKeyId"
    <3>1. /\ UNCHANGED <<keyData, keySet>> /\ keyIds' = keyIds \ {who[r]}
          /\ pc'[r] = "keyOf" /\ todo'[r] = todo[r] \ {who[r]}
      BY <1>a, <2>4 DEF DeleteKeys, GoTo, Types, LocalTypes
    <3> QED BY <1>b, <1>c, <2>4, <3>1 DEF KeysGo
  <2>5. CASE pc[r] = "keyOf" /\ todo[r] = {}
    <3>1. UNCHANGED <<keyData, keyIds>> /\ pc'[r] = "hooks"
      BY <1>a, <2>5 DEF DeleteKeys, GoTo, Types, LocalTypes
    <3> QED BY <1>b, <2>5, <3>1 DEF KeysGo
  <2> QED BY <1>a, <2>1, <2>2, <2>3, <2>4, <2>5
<1>2. \A k \in Keys : keyData'[k] = u => Kept(k, u)'
  BY <1>1 DEF Kept
<1>3. \A h \in Hooks : hook'[h] = u => HookKept(h, u)'
  BY <1>a, <1>b DEF HookKept, hookVars, Alone, Deletes
<1>4. KeyKnown(r, u)' /\ HooksGo(r, u)' /\ UserGoes(r, u)'
  BY <1>1 DEF KeyKnown, HooksGo, UserGoes
<1> QED BY <1>1, <1>2, <1>3, <1>4, SafeStore DEF StoreStep

LEMMA SafeDeleteHooks ==
    ASSUME AccountsInv, OwnInv, NEW u \in Users, Safe(u), NEW r \in Requests, Only(r, u),
           DeleteHooks(r), Target(r) = u
    PROVE  Safe(u)'
<1>a. /\ Alone(r) /\ op' = op /\ Holds(r) /\ Types /\ UNCHANGED keyVars
      /\ op[r].kind \in Deletes /\ op[r].user = u /\ u # None
      /\ pc[r] \in {"hooks", "eraseHook", "unlistHook"}
  BY DeleteHooksTyped, Words DEF AccountsInv, Alone, DeleteHooks, Flow, Target, Deletes, Erasing
<1>b. /\ \A k \in Keys : keyData[k] = u => Kept(k, u)
      /\ KeysGo(r, u) /\ HooksGo(r, u)
  BY <1>a DEF Safe
<1>c. \A h \in Hooks : hook[h] = u => h \in hookIndex[u]
  <2>1. ASSUME NEW h \in Hooks, hook[h] = u PROVE h \in hookIndex[u]
    <3>1. HookKept(h, u) /\ HookOwner(h) = u
      BY <1>a, <2>1 DEF Safe, OwnInv
    <3>2. h \in Requests /\ op[h].kind = "createHook" => pc[h] \in {"new", "ok", "refused"}
      BY <1>a, <3>1 DEF HookOwner, Only, About, Target, Deletes
    <3> QED BY <3>1, <3>2 DEF HookKept
  <2> QED BY <2>1
<1>1. /\ \A h \in Hooks : hook'[h] = u => hook[h] = u /\ h \in hookIndex'[u]
      /\ HooksGo(r, u)' /\ pc'[r] \in {"eraseHook", "unlistHook", "erase"}
  <2>1. CASE pc[r] = "hooks"
    <3>1. /\ UNCHANGED hookVars /\ todo'[r] = hookIndex[u]
          /\ pc'[r] = IF hookIndex[u] = {} THEN "erase" ELSE "eraseHook"
      BY <1>a, <2>1 DEF DeleteHooks, GoTo, Types, LocalTypes
    <3> QED BY <1>c, <3>1 DEF HooksGo, hookVars
  <2>2. CASE pc[r] = "eraseHook"
    <3>1. PICK h \in todo[r] : /\ hook' = [hook EXCEPT ![h] = None]
                               /\ who'[r] = h /\ todo'[r] = todo[r] \ {h}
      BY <1>a, <2>2 DEF DeleteHooks, Types, LocalTypes
    <3>2. hookIndex' = hookIndex /\ pc'[r] = "unlistHook" /\ h \in Hooks
      BY <1>a, <2>2 DEF DeleteHooks, GoTo, Types, LocalTypes, Holds
    <3>3. \A x \in Hooks : hook'[x] = IF x = h THEN None ELSE hook[x]
      BY <1>a, <3>1 DEF Types, HookTypes
    <3> QED BY <1>a, <1>b, <1>c, <2>2, <3>1, <3>2, <3>3 DEF HooksGo
  <2>3. CASE pc[r] = "unlistHook"
    <3>1. /\ UNCHANGED <<hook, who, todo>> /\ hookIndex'[u] = hookIndex[u] \ {who[r]}
          /\ pc'[r] = IF todo[r] = {} THEN "erase" ELSE "eraseHook"
      BY <1>a, <2>3 DEF DeleteHooks, GoTo, Types, LocalTypes, HookTypes
    <3> QED BY <1>b, <1>c, <2>3, <3>1 DEF HooksGo
  <2> QED BY <1>a, <2>1, <2>2, <2>3
<1>2. \A k \in Keys : keyData'[k] = u => Kept(k, u)'
  BY <1>a, <1>b DEF Kept, keyVars, Alone, Deletes
<1>3. \A h \in Hooks : hook'[h] = u => HookKept(h, u)'
  BY <1>1 DEF HookKept
<1>4. KeyKnown(r, u)' /\ KeysGo(r, u)' /\ UserGoes(r, u)'
  BY <1>a, <1>b, <1>1 DEF KeyKnown, KeysGo, UserGoes, keyVars
<1> QED BY <1>1, <1>2, <1>3, <1>4, SafeStore DEF StoreStep

LEMMA GoneStep ==
    /\ AccountsInv /\ MetInv /\ WorkInv /\ OwnInv /\ BornInv /\ GoneInv
    /\ [Next]_vars
    => GoneInv'
<1> SUFFICES ASSUME AccountsInv, MetInv, WorkInv, OwnInv, BornInv, GoneInv, [Next]_vars,
                    NEW u \in Users, ~Disturbed(u)'
             PROVE  Safe(u)'
  BY DEF GoneInv
<1>1. ~Disturbed(u) /\ ~Clash(u) /\ Safe(u)
  BY UndisturbedBefore, UndisturbedMeans DEF GoneInv
<1>2. CASE Elsewhere(u)
  BY <1>1, <1>2, SafeElsewhere, AccountsStep, CallsStay
<1>3. ASSUME NEW r \in Requests, About(r, u), Arrive(r) \/ Command(r) PROVE Safe(u)'
  <2>1. Only(r, u)
    BY <1>3, OnlyOne
  <2>2. StoreStep(r) /\ ~UseApiKey(r) => Target(r) = u
    <3>1. StoreStep(r) /\ ~UseApiKey(r) => op[r].kind # "useKey"
      BY DEF StoreStep, CreateApiKey, RevokeApiKey, CreateWebhook, DeleteKeys, DeleteHooks,
         AccountsInv, Flow, Erasing, Deletes
    <3> QED BY <1>3, <3>1 DEF About
  <2> QED BY <1>1, <1>3, <2>1, <2>2, SafeOtherStep, SafeCreateKey, SafeCreateHook, SafeRevoke,
          SafeUse, SafeDeleteKeys, SafeDeleteHooks DEF StoreStep
<1> QED BY <1>2, <1>3, StepsAbout

LEMMA GoneInit == Init => BornInv /\ GoneInv
<1> SUFFICES ASSUME Init PROVE BornInv /\ GoneInv
  OBVIOUS
<1>1. \A r \in Requests : pc[r] = "new" \/ (pc[r] = "ok" /\ op[r] = Call)
  BY DEF Init
<1>2. \A r \in Requests : op[r].kind \in Deletes => pc[r] = "new"
  <2>1. Call.kind = ""
    BY DEF Call
  <2> QED BY <1>1, <2>1 DEF Deletes
<1>3. BornInv
  BY <1>2 DEF BornInv, Erasing
<1>4. ASSUME NEW u \in Users PROVE Safe(u)
  <2>1. \A k \in Keys : keyData[k] = u => k \in keySet[u] /\ k \in keyIds
    BY Words DEF Init
  <2>2. \A h \in Hooks : hook[h] = u => h \in hookIndex[u]
    BY Words DEF Init
  <2>3. \A r \in Requests : KeyKnown(r, u)
    BY <1>1 DEF KeyKnown
  <2> QED BY <1>2, <2>1, <2>2, <2>3 DEF Safe, Kept, HookKept, KeysGo, HooksGo, UserGoes
<1> QED BY <1>3, <1>4 DEF GoneInv

(***************************************************************************)
(* userStore.ts:139: deleteUser leaves no name, key or webhook of the user *)
(* behind, unless calls about the same user overlap or were left half-     *)
(* done.                                                                   *)
(***************************************************************************)
THEOREM DeletedUsersAreGone == Spec => []DeletedUserIsGone
<1>1. AccountsInv /\ NamedInv /\ GoneInv => DeletedUserIsGone
  <2> SUFFICES ASSUME AccountsInv, NamedInv, GoneInv, NEW r \in Requests, NEW u, u = Target(r),
                      op[r].kind \in Deletes, pc[r] = "ok", ~Disturbed(u)
               PROVE  /\ ~Exists(u)
                      /\ \A f \in Field, v \in Values : index[f][v] # u
                      /\ \A k \in Keys : keyData[k] # u
                      /\ \A h \in Hooks : hook[h] # u
    BY DEF DeletedUserIsGone
  <2>1. u \in Users
    BY TargetsAreUsers DEF Writes
  <2>2. ~Clash(u) /\ ~Torn(u) /\ KeysGo(r, u) /\ HooksGo(r, u) /\ UserGoes(r, u)
    BY <2>1, UndisturbedMeans DEF GoneInv, Safe
  <2>3. record[u] = Gone
    BY <2>2 DEF UserGoes
  <2>4. \A q \in Requests : Mid(q) => Target(q) # u
    BY <2>2 DEF UserGoes, Mid, Erasing, Answers
  <2>5. \A f \in Field, v \in Values : index[f][v] # u
    BY <2>1, <2>2, <2>3, <2>4, GoneHasNoName DEF NamedInv
  <2> QED BY <2>2, <2>3, <2>5 DEF KeysGo, HooksGo, Exists
<1> QED BY <1>1, MetBegin, MetStep, AccountsInit, AccountsStep, SerialInit, SerialStep, WorkInit,
        WorkStep, OwnInit, OwnStep, NamedInit, NamedStep, BornStep, GoneInit, GoneStep,
        PTL DEF Spec, WorkInv
=============================================================================
