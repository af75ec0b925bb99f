---------------------------- MODULE MCAdminConsole ----------------------------
(* Two rows: the server holds the first, a filter in use, a template the     *)
(* second extends.  The tabs of objects and macros and the webhooks, whose    *)
(* edits are those of the filters, get one request and one change by others; *)
(* every other page gets two requests.                                       *)
EXTENDS AdminConsole, TLC

CONSTANTS r1, r2

MCRows == {r1, r2}
MCInUse == {r1}
MCParent == r1 :> None @@ r2 :> r1
MCStored == r1 :> 1 @@ r2 :> 0
MCMaxGestures == [a \in Areas |-> IF a \in {"objects", "macros", "webhooks"} THEN 1 ELSE 2]
MCMaxChanges == [a \in Areas |-> IF a \in {"filters", "catalog", "pads", "members"} THEN 0 ELSE 1]
=============================================================================
