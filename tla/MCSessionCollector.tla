------------------------- MODULE MCSessionCollector -------------------------
(***************************************************************************)
(* Instances of SessionCollector for TLC.  f is a chat, g a cron run; "u"  *)
(* is a user record, "c" an assistant record with a tool call and a        *)
(* character of two bytes, "junk" a line that does not parse.              *)
(***************************************************************************)
EXTENDS SessionCollector

CONSTANTS f, g

RoleTable  == [l \in Lines |-> IF l = "u" THEN "user"
                               ELSE IF l = "c" THEN "assistant" ELSE NoRole]
CallsTable == [l \in Lines |-> IF l = "c" THEN 1 ELSE 0]
WidthTable  == [l \in Lines |-> IF l = "c" THEN 3 ELSE 2]
TwoAndOne   == [x \in Files |-> IF x = f THEN 2 ELSE 1]
InsideTable == [l \in Lines |-> IF l = "c" THEN {1} ELSE {}]

=============================================================================
