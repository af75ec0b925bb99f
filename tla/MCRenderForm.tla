---------------------------- MODULE MCRenderForm ----------------------------
(* A device form: the host name fills the site, the site fills the role.   *)
EXTENDS RenderForm, TLC
CONSTANTS host, site, role, none, west, qos

Form == {host, site, role}
Chain == {[on |-> host, to |-> site, auto |-> TRUE, ro |-> FALSE],
          [on |-> site, to |-> role, auto |-> TRUE, ro |-> FALSE]}
Found == none :> west @@ west :> none @@ Null :> none
Conditions == role :> [param |-> site, op |-> "ne", values |-> {none}]
Blank == host :> none @@ site :> west @@ role :> none
=============================================================================
