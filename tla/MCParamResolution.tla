------------------------- MODULE MCParamResolution -------------------------
(* Instances of ParamResolution for TLC.                                    *)
EXTENDS ParamResolution

CONSTANTS a, b, c, p, q, g

NoneDefined == [n \in Local |-> Absent]

\* Shared parameters: p may depend on a template's a, g on p.
SharedKinds == {[n \in Proj \cup Glob |-> CASE n = p -> dp [] n = g -> dg [] OTHER -> Plain] :
                   dp \in {Plain, DerivedFrom({a})}, dg \in {Plain, DerivedFrom({p})}}
SharedPlain == [n \in Proj \cup Glob |-> Plain]

\* Every graph of three parameters, in one template.
AnyGraph ==
    [op : {"form"},
     chain : {<<defs, NoneDefined>> :
                 defs \in [Local -> {Plain} \cup
                              {DerivedFrom(d) : d \in SUBSET Local}]},
     shared : {SharedPlain},
     held : {{}}]

\* Two names defined anywhere along two templates, alone or from each other
\* and from p.
TwoNames ==
    {[n \in Local |-> CASE n = a -> da [] n = b -> db [] OTHER -> Absent] :
        da \in {Absent, Plain} \cup {DerivedFrom(d) : d \in SUBSET {b, p}},
        db \in {Absent, Plain} \cup {DerivedFrom(d) : d \in SUBSET {a}}}

AnyForm ==
    [op : {"form"}, chain : [1..Depth -> TwoNames],
     shared : SharedKinds, held : {{}}]

\* A change in a form that holds nothing, one value, or values for everything.
AnyChange ==
    [op : {"change"}, chain : [1..Depth -> TwoNames],
     shared : {SharedPlain}, held : {{}, {a}, {a, b, p}}]

AllInputs == AnyGraph \cup AnyForm \cup AnyChange
=============================================================================
