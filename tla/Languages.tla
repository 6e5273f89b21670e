------------------------------ MODULE Languages ------------------------------
(***************************************************************************)
(* src/src/core/languages/languageRegistry.ts: the names a submission may  *)
(* give its language.  Names are in lower case (getLanguage lowers them);  *)
(* left out are the two in lower case that every object inherits, which    *)
(* LANGUAGES[name] finds although no language has them.                    *)
(***************************************************************************)

CONSTANT Names       \* names that submissions give

ASSUME NamesAssumption == Names \cap {"constructor", "__proto__"} = {}

Ids == {"python", "c", "java"}

Aliases(id) ==
    CASE id = "python" -> {"py", "python3"}
      [] id = "c"      -> {"gcc"}
      [] id = "java"   -> {"java", "java21"}

IsLanguageSupported(name) == \E id \in Ids : name = id \/ name \in Aliases(id)
=============================================================================
