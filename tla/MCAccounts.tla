----------------------------- MODULE MCAccounts -----------------------------
EXTENDS Accounts, TLC

CONSTANTS a, b, r1, r2, r3, v1, v2, v3, k1, t1, h1

User(name, mail, role) ==
    [x \in UserFields |-> CASE x = "name" -> name [] x = "mail" -> mail
                            [] x = "pw" -> "p0" [] x = "role" -> role [] OTHER -> "free"]

\* an administrator a, and b, who may be one too
MCSeedRecords ==
    { [u \in Seeded |-> IF u = a THEN User(v1, v1, "admin") ELSE User(v2, v2, role)] :
         role \in {"user", "admin"} }

MCKeys == k1 :> b
MCTokens == t1 :> b
MCHooks == h1 :> b

MCCalls ==
    { Register(v3, v3), Register(v3, v2), Register(v2, v3), Login(v2, "p0"), Login(v3, "p1"),
      Logout(t1), LogoutAll(b), Patch(b, v3, None), Patch(b, None, v3), Patch(b, v3, v1),
      Patch(a, v3, None), ChangePassword(b, "p0", "p1"), DeleteMe(b), CreateKey(b),
      RevokeKey(b, k1), CreateHook(b), UseKey(k1), Upgrade(a, b, "enterprise"), MakeAdmin(a, b),
      RevokeAdmin(a, b), RevokeAdmin(b, a), AdminDelete(a, b) }
\* Those three of which are tried at once
Racy ==
    { Register(v2, v3), Login(v2, "p0"), LogoutAll(b), ChangePassword(b, "p0", "p1"),
      Patch(b, v3, None), AdminDelete(a, b), RevokeKey(b, k1), UseKey(k1) }

MCPlans ==
    { p \in [Requests -> MCCalls \cup {Call}] :
         (\E r \in Requests : p[r] = Call) \/ (\A r \in Requests : p[r] \in Racy) }

Symmetry == Permutations(Requests)
=============================================================================
