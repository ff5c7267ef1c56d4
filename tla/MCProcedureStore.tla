---------------------------- MODULE MCProcedureStore ----------------------------
(* Two runs of two users on one store of two graphs, and three pages: a blank  *)
(* one, a sheet and a form on another site.                                    *)
EXTENDS ProcedureStore

open == [type |-> "navigate", what |-> "Sheet URL", at |-> NoCoord]
enter == [type |-> "key_combo", what |-> "Enter", at |-> NoCoord]

MCActions == {open, enter}
MCPages == {"blank", "sheet", "form"}
MCSite == [blank |-> "about:blank", sheet |-> "docs/spreadsheets", form |-> "docs/forms"]
MCDistance == [p \in MCPages |-> [q \in MCPages |->
                 IF p = q THEN 3 ELSE IF "blank" \in {p, q} THEN -1 ELSE 30]]
MCCanonical == [t \in {"Sheet URL", "sheet url", "Enter", "Tab", ""} |->
                  IF t = "Sheet URL" THEN "sheet url" ELSE t]
MCLeads == [a \in MCActions |-> [p \in MCPages |->
              IF a = open THEN "sheet"
              ELSE IF a = enter /\ p = "sheet" THEN "form" ELSE p]]

raw(type, what) == [type |-> type, what |-> what]
MCReplies == {NoReply,
              <<raw("navigate", "sheet url"), raw("", ""), raw("key_combo", "Enter")>>,
              <<raw("navigate", "Sheet URL"), raw("key_combo", "Tab"), raw("key_combo", "Enter")>>}
MCDeeds == {<<open, enter>>}
WorkerSymmetry == Permutations(Runs) \union Permutations(Users)
MCProcedures == 1 .. 2
================================================================================
