--------------------------- MODULE MCDataSources ---------------------------
(* Instances of DataSources for TLC.                                        *)
EXTENDS DataSources

CONSTANTS a, b, host1, host2

Fill(p) == [to |-> p, fill |-> TRUE]
Show(p) == [to |-> p, fill |-> FALSE]

From(trigger, mapping, block, ttl) ==
    [trigger |-> trigger, endpoint |-> host1, uses |-> {trigger} \cap Params,
     mapping |-> mapping, block |-> block, secret |-> FALSE, ttl |-> ttl]

At(host, source0) == [source0 EXCEPT !.endpoint = host]
Secret(source0) == [source0 EXCEPT !.secret = TRUE]

\* A template of two sources that fill the same parameter when a form opens, the
\* second one with a secret, blocking, and cached for less long; and one with
\* a source of each kind.
Shared == {<<From(OnLoad, <<Fill(b), Show(a)>>, FALSE, 2),
             Secret(At(host2, From(OnLoad, <<Fill(b)>>, TRUE, 1)))>>,
           <<From(OnLoad, <<Fill(b)>>, FALSE, 1),
             From(a, <<Fill(b)>>, FALSE, 2)>>}

\* Sources that trigger each other: a chain, a circle, a fork of which one
\* branch goes back to where it began, and two sources of one trigger.
Linked == {<<From(a, <<Fill(b)>>, FALSE, 1), From(b, <<>>, TRUE, 0)>>,
           <<From(a, <<Fill(b)>>, FALSE, 0), From(b, <<Fill(a)>>, TRUE, 0)>>,
           <<From(b, <<Fill(b)>>, FALSE, 0), From(a, <<Fill(a), Fill(b)>>, FALSE, 0)>>,
           <<From(a, <<Fill(b)>>, FALSE, 0), From(a, <<Fill(b)>>, TRUE, 0)>>}

Explored == Shared \cup Linked
=============================================================================
