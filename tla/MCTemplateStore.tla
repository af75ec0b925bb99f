-------------------------- MODULE MCTemplateStore --------------------------
(* Two templates a, b; "a/x.j2" is a nested file whose derived name is that  *)
(* of a.                                                                     *)
EXTENDS TemplateStore, TLC

CONSTANTS a, b, pa, pax, pb

MCPaths == <<pa, pax, pb>>
MCPathOf == a :> pa @@ b :> pb
MCNameOf == pa :> a @@ pax :> a @@ pb :> b

\* A field alone, another one with the text, and the text alone, which needs
\* no UPDATE.
MCChanges == {{"display_name"}, {"sort_order", "content"}, {"content"}}

\* All files; one of the two with the same name; rows deleted as well.
MCSelections ==
    {[imports |-> Files, deletes |-> {}],
     [imports |-> {pax}, deletes |-> {pa}],
     [imports |-> Files, deletes |-> {pax, pb}]}
=============================================================================
