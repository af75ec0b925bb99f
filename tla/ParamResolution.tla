-------------------------- MODULE ParamResolution --------------------------
(* How a template's parameters get their values (parameter_resolver.py) and *)
(* what a template sees of them when it is rendered (template_renderer.py). *)
(*                                                                          *)
(* A template inherits the parameters of its ancestors; a project and its   *)
(* organization add proj.* and glob.* parameters. A parameter has a default *)
(* or is derived from others. The form resolves all of them from defaults;  *)
(* a change in the form derives the template's own again, from what the     *)
(* form holds. Both put the derived parameters in an order by depth-first   *)
(* search and evaluate them in it. The order in which Python iterates a set *)
(* of names, and the database returns rows, is a free choice here.          *)
(*                                                                          *)
(* Values are terms: they say which definition they come from and what it   *)
(* was applied to. What an expression computes is not modelled, nor are     *)
(* inactive parameters (absent), and what data sources fill in.             *)
EXTENDS Naturals, Sequences

CONSTANTS
    Local,    \* names of template parameters
    Proj,     \* names that begin with "proj."
    Glob,     \* names that begin with "glob."
    Depth,    \* length of the inheritance chain; 1 is the template itself
    Inputs    \* the registries and requests to explore

Names == Local \cup Proj \cup Glob

Plain == [kind |-> "plain", deps |-> {}]
Absent == [kind |-> "absent", deps |-> {}]
DerivedFrom(names) == [kind |-> "derived", deps |-> names]
Definitions == {Plain, Absent} \cup {DerivedFrom(d) : d \in SUBSET Names}

\* One request and the active parameters it finds: those of every template of
\* the chain, the shared ones, and the names the form holds a value for.
Input == [op : {"form", "change"},
          chain : [1..Depth -> [Local -> Definitions]],
          shared : [Proj \cup Glob -> Definitions],
          held : SUBSET Names]

ASSUME NamesAssumption ==
    /\ Local \cap (Proj \cup Glob) = {} /\ Proj \cap Glob = {}
    /\ Depth \in Nat /\ Inputs \subseteq Input

VARIABLES
    input,     \* the request and the registry
    pc,       \* "load", "sort", "evaluate", "done" or "cyclic"
    level,    \* the template of the chain that is visited next
    winner,   \* winner[n]: the template whose n is used, 0 for none
    ctx,      \* the context the expressions are evaluated in
    color,    \* of the search: "white", "grey", "black"
    stack,    \* the running calls of visit: a name, and the loop over its deps
    order,    \* result: derived names, dependencies first
    next      \* the derived parameter that is evaluated next

vars == <<input, pc, level, winner, ctx, color, stack, order, next>>
-----------------------------------------------------------------------------
\* The definition a name is resolved to. Shared parameters are not derived
\* again when the form changes: their values are in what it holds.
Definition(n) ==
    IF n \in Local
    THEN IF winner[n] = 0 THEN Absent ELSE input.chain[winner[n]][n]
    ELSE IF input.op = "form" THEN input.shared[n] ELSE Absent

Origin(n) == IF n \in Local THEN winner[n] ELSE 0

Derived == {n \in Names : Definition(n).kind = "derived"}

\* _get_dependencies, restricted to derived names.
Deps(n) == Definition(n).deps \cap Derived

\* The term of a name that has no entry in a dict, and of one that has.
Unset == <<"unset">>
Default(n) == <<"default", Origin(n), n>>
InForm(n) == <<"held", n>>
Computed(n, context) ==
    <<"computed", Origin(n), n, [d \in Definition(n).deps |-> context[d]]>>

Push(s, n) == Append(s, [name |-> n, todo |-> Deps(n)])
Top == stack[Len(stack)]
-----------------------------------------------------------------------------
Init ==
    /\ input \in Inputs
    /\ pc = "load"
    /\ level = IF input.op = "form" THEN Depth ELSE 1
    /\ winner = [n \in Local |-> 0]
    /\ ctx = [n \in Names |-> Unset]
    /\ color = [n \in Names |-> "white"]
    /\ stack = <<>>
    /\ order = <<>>
    /\ next = 1

\* The form: from the root to the template, later definitions replace earlier.
MergeChain ==
    /\ pc = "load" /\ input.op = "form" /\ level > 0
    /\ winner' = [n \in Local |->
           IF input.chain[level][n].kind # "absent" THEN level ELSE winner[n]]
    /\ level' = level - 1
    /\ UNCHANGED <<input, pc, ctx, color, stack, order, next>>

\* A change: derived definitions only, from the template to the root; the
\* last of a name stays in by_name.
CollectDerived ==
    /\ pc = "load" /\ input.op = "change" /\ level <= Depth
    /\ winner' = [n \in Local |->
           IF input.chain[level][n].kind = "derived" THEN level ELSE winner[n]]
    /\ level' = level + 1
    /\ UNCHANGED <<input, pc, ctx, color, stack, order, next>>

Loaded == IF input.op = "form" THEN level = 0 ELSE level > Depth

\* Every parameter that is not derived enters the context with its default;
\* on a change the context is what the form holds.
BaseContext ==
    [n \in Names |->
        IF input.op = "form"
        THEN IF Definition(n).kind = "plain" THEN Default(n) ELSE Unset
        ELSE IF n \in input.held THEN InForm(n) ELSE Unset]

BuildBaseContext ==
    /\ pc = "load" /\ Loaded
    /\ ctx' = BaseContext
    /\ pc' = "sort"
    /\ UNCHANGED <<input, level, winner, color, stack, order, next>>

\* The loop over all derived parameters calls visit for a white one.
Visit(n) ==
    /\ pc = "sort" /\ stack = <<>>
    /\ n \in Derived /\ color[n] = "white"
    /\ color' = [color EXCEPT ![n] = "grey"]
    /\ stack' = Push(stack, n)
    /\ UNCHANGED <<input, pc, level, winner, ctx, order, next>>

TopWithout(d) == [stack EXCEPT ![Len(stack)].todo = @ \ {d}]

\* Faulty variants: a name that is being visited passes for one that is done; it is
\* waited for.
VisitDependencyTolerant(d) ==
    /\ pc = "sort" /\ stack # <<>> /\ d \in Top.todo
    /\ IF color[d] = "white"
       THEN color' = [color EXCEPT ![d] = "grey"] /\ stack' = Push(TopWithout(d), d)
       ELSE stack' = TopWithout(d) /\ UNCHANGED color
    /\ UNCHANGED <<input, pc, level, winner, ctx, order, next>>

VisitDependencyWaiting(d) ==
    /\ color[d] # "grey"
    /\ VisitDependencyTolerant(d)

\* The loop over the dependencies of the name being visited calls visit.
VisitDependency(d) ==
    /\ pc = "sort" /\ stack # <<>> /\ d \in Top.todo
    /\ \/ /\ color[d] = "white"
          /\ color' = [color EXCEPT ![d] = "grey"]
          /\ stack' = Push(TopWithout(d), d)
          /\ pc' = pc
       \/ /\ color[d] = "black"
          /\ stack' = TopWithout(d)
          /\ UNCHANGED <<color, pc>>
       \/ /\ color[d] = "grey"
          /\ pc' = "cyclic"
          /\ UNCHANGED <<color, stack>>
    /\ UNCHANGED <<input, level, winner, ctx, order, next>>

\* Faulty variants: the result is built from the front; it collects calls, not names.
ReturnInFront ==
    /\ pc = "sort" /\ stack # <<>> /\ Top.todo = {}
    /\ color' = [color EXCEPT ![Top.name] = "black"]
    /\ order' = <<Top.name>> \o order
    /\ stack' = SubSeq(stack, 1, Len(stack) - 1)
    /\ UNCHANGED <<input, pc, level, winner, ctx, next>>

\* visit returns when its loop is over.
Return ==
    /\ pc = "sort" /\ stack # <<>> /\ Top.todo = {}
    /\ color' = [color EXCEPT ![Top.name] = "black"]
    /\ order' = Append(order, Top.name)
    /\ stack' = SubSeq(stack, 1, Len(stack) - 1)
    /\ UNCHANGED <<input, pc, level, winner, ctx, next>>

Sorted ==
    /\ pc = "sort" /\ stack = <<>>
    /\ \A n \in Derived : color[n] # "white"
    /\ pc' = "evaluate"
    /\ UNCHANGED <<input, level, winner, ctx, color, stack, order, next>>

\* Faulty variant: expressions see the context of before, not the result so far.
EvaluateFromBase ==
    /\ pc = "evaluate" /\ next <= Len(order)
    /\ ctx' = [ctx EXCEPT ![order[next]] = Computed(order[next], BaseContext)]
    /\ next' = next + 1
    /\ UNCHANGED <<input, pc, level, winner, color, stack, order>>

\* resolve_derived_params: one expression, in the order of the search.
Evaluate ==
    /\ pc = "evaluate" /\ next <= Len(order)
    /\ ctx' = [ctx EXCEPT ![order[next]] = Computed(order[next], ctx)]
    /\ next' = next + 1
    /\ UNCHANGED <<input, pc, level, winner, color, stack, order>>

Resolve ==
    /\ pc = "evaluate" /\ next > Len(order)
    /\ pc' = "done"
    /\ UNCHANGED <<input, level, winner, ctx, color, stack, order, next>>

Next ==
    \/ MergeChain
    \/ CollectDerived
    \/ BuildBaseContext
    \/ \E n \in Names : Visit(n) \/ VisitDependency(n)
    \/ Return
    \/ Sorted
    \/ Evaluate
    \/ Resolve

\* One request runs by itself: every step that can be taken is.
Spec == Init /\ [][Next]_vars /\ WF_vars(Next)
-----------------------------------------------------------------------------
(* The render: used are the shared names in the template's own body (not in *)
(* what it includes), provided the names the request gives a value for.     *)

\* _build_full_context over the parameters of the form.
FullContext(used, provided) ==
    [n \in Names |->
        IF n \in provided \ Glob THEN InForm(n)
        ELSE IF n \in Derived /\ n \in Local \cup used THEN ctx[n]
        ELSE IF Definition(n).kind = "plain" /\ n \in Local \cup used
        THEN Default(n) ELSE Unset]

\* Faulty variant: glob.* values are passed as well.
LocalContextUnfiltered(used, provided) == FullContext(used, provided)

\* What render passes to Jinja2 besides the globals of the environment.
LocalContext(used, provided) ==
    [n \in Names |-> IF n \in Glob THEN Unset ELSE FullContext(used, provided)[n]]

\* The globals glob and proj hold default_value of every active parameter.
Global(n) == IF input.shared[n].kind = "absent" THEN Unset ELSE Default(n)

\* Jinja2 looks for the first part of a dotted name in what is passed, then in
\* the globals: a nested dict hides the global dict of the same name.
Seen(n, used, provided) ==
    LET passed == LocalContext(used, provided)
        group == IF n \in Glob THEN Glob ELSE Proj
    IN  IF n \in Local \/ \E m \in group : passed[m] # Unset
        THEN passed[n] ELSE Global(n)
-----------------------------------------------------------------------------
Frame == [name : Names, todo : SUBSET Names]

\* Every variable has its shape; a value is a term of any depth, so of the
\* context only the keys are said.
TypeOK ==
    /\ input \in Inputs
    /\ pc \in {"load", "sort", "evaluate", "done", "cyclic"}
    /\ level \in IF input.op = "form" THEN 0..Depth ELSE 1..(Depth + 1)
    /\ winner \in [Local -> 0..Depth]
    /\ DOMAIN ctx = Names
    /\ color \in [Names -> {"white", "grey", "black"}]
    /\ stack \in Seq(Frame)
    /\ order \in Seq(Names)
    /\ next \in Nat

\* "dependencies always appear before the params that depend on them"
\* (_topological_sort), and each appears once, whatever the iteration orders.
DependenciesFirst ==
    \A i \in DOMAIN order :
        LET earlier == {order[j] : j \in 1..(i - 1)}
        IN  Deps(order[i]) \subseteq earlier /\ order[i] \notin earlier

\* A set of derived parameters none of which can be evaluated first.
Circular(S) == S # {} /\ \A n \in S : Deps(n) \cap S # {}

\* "Raises DerivedParamError on circular dependency" (_topological_sort): then
\* and only then, whatever the order of the search.
CyclesAreReported ==
    /\ pc = "cyclic" => \E S \in SUBSET Derived : Circular(S)
    /\ pc \in {"evaluate", "done"} => \A S \in SUBSET Derived : ~ Circular(S)

\* Every derived value is its expression applied to the values the others end
\* with (resolve_derived_params): none was computed from a value that was
\* replaced later, as the form's old values are on a change.
ValuesAgree ==
    pc = "done" => \A n \in Derived : ctx[n] = Computed(n, ctx)

\* "child overrides parent for same-named params" (build_resolution_result):
\* a name resolves to the definition nearest to the template.
ChildWins ==
    input.op = "form" /\ pc # "load" =>
        \A n \in Local, l \in 1..Depth :
            input.chain[l][n].kind # "absent" => winner[n] \in 1..l

\* "glob.* always wins": no value in the request reaches a glob.* name of the
\* template. A proj.* name the template itself uses, and the request leaves
\* alone, is what the form showed for it.
SharedPrevails ==
    pc = "done" /\ input.op = "form" =>
        \A used \in SUBSET (Proj \cup Glob), provided \in SUBSET Names :
            /\ \A n \in Glob : Seen(n, used, provided) = Global(n)
            /\ \A n \in (Proj \cap used) \ provided :
                   Seen(n, used, provided) =
                       IF n \in Derived THEN ctx[n] ELSE Global(n)

\* Every resolution ends: no cycle of expressions holds the search.
ResolutionEnds == <>(pc \in {"done", "cyclic"})
=============================================================================
