----------------------- MODULE ParamResolutionProofs -----------------------
(* Theorems about ParamResolution for any names, any registry, any chain:   *)
(* the search orders dependencies first, reports a cycle when and only when *)
(* there is one, and every derived value agrees with the others.            *)
EXTENDS ParamResolution, TLAPS

-----------------------------------------------------------------------------
(* The inductive invariant of the search. Its parts take the variables that *)
(* the search changes as arguments; what a name depends on stays the same.  *)

\* Nothing is searched before all definitions are loaded.
NotStarted ==
    pc = "load" => /\ stack = <<>> /\ order = <<>> /\ next = 1
                   /\ color = [n \in Names |-> "white"]

\* Black names are the result, grey ones the running calls, each once.
Colored(clr, stk, ord) ==
    /\ \A n \in Names : clr[n] # "white" => n \in Derived
    /\ \A n \in Names : clr[n] = "black" <=> \E i \in DOMAIN ord : ord[i] = n
    /\ \A n \in Names : clr[n] = "grey" <=> \E i \in DOMAIN stk : stk[i].name = n
    /\ \A i, j \in DOMAIN stk : stk[i].name = stk[j].name => i = j

\* A running call has visited all dependencies but those its loop still has
\* and the one whose visit is running.
Framed(clr, stk) ==
    \A i \in DOMAIN stk :
        /\ stk[i].todo \subseteq Deps(stk[i].name)
        /\ \A d \in Deps(stk[i].name) \ stk[i].todo :
               \/ clr[d] = "black"
               \/ i + 1 \in DOMAIN stk /\ stk[i + 1].name = d

\* A call was made for a dependency of its caller.
Chained(stk) ==
    \A i \in DOMAIN stk :
        i + 1 \in DOMAIN stk => stk[i + 1].name \in Deps(stk[i].name)

\* No name of a circle is ever finished.
CirclesOpen(clr) ==
    \A S \in SUBSET Derived : Circular(S) => \A n \in S : clr[n] # "black"

\* Dependencies come first, each name once.
Ordered(ord) ==
    \A i \in DOMAIN ord :
        LET earlier == {ord[j] : j \in 1..(i - 1)}
        IN  Deps(ord[i]) \subseteq earlier /\ ord[i] \notin earlier

SearchInv ==
    /\ NotStarted
    /\ Colored(color, stack, order)
    /\ Framed(color, stack)
    /\ Chained(stack)
    /\ CirclesOpen(color)
    /\ Ordered(order)

\* What has been evaluated agrees with what it was evaluated from.
Agreed(val, ord, nxt) ==
    \A i \in 1..(nxt - 1) :
        i \in DOMAIN ord => val[ord[i]] = Computed(ord[i], val)

\* The search ends with every derived name finished, or at a circle.
OutcomeInv ==
    /\ pc \in {"evaluate", "done"} => \A n \in Derived : color[n] = "black"
    /\ pc = "cyclic" => \E S \in SUBSET Derived : Circular(S)
    /\ pc \in {"load", "sort"} => next = 1
    /\ pc = "done" => next > Len(order)
    /\ Agreed(ctx, order, next)
-----------------------------------------------------------------------------
(* Typing.                                                                  *)

LEMMA InputTyped == ASSUME TypeOK PROVE input \in Input
  BY NamesAssumption DEF TypeOK

LEMMA DepsTyped ==
    Derived \subseteq Names /\ \A n : Deps(n) \subseteq Derived
  BY DEF Derived, Deps

\* A pushed call is a frame.
LEMMA PushTyped ==
    ASSUME NEW s \in Seq(Frame), NEW n \in Names
    PROVE  Push(s, n) \in Seq(Frame)
<1>1. [name |-> n, todo |-> Deps(n)] \in Frame
  BY DepsTyped DEF Frame
<1> QED
  BY <1>1 DEF Push

\* The top call keeps its shape while its loop goes on.
LEMMA TopTyped ==
    ASSUME stack \in Seq(Frame), stack # <<>>, NEW d
    PROVE  /\ Top \in Frame
           /\ Len(stack) \in DOMAIN stack
           /\ TopWithout(d) \in Seq(Frame)
           /\ Len(TopWithout(d)) = Len(stack)
           /\ \A i \in DOMAIN stack : i # Len(stack) => TopWithout(d)[i] = stack[i]
           /\ TopWithout(d)[Len(stack)].name = Top.name
           /\ TopWithout(d)[Len(stack)].todo = Top.todo \ {d}
<1>1. Len(stack) \in DOMAIN stack /\ DOMAIN stack = 1..Len(stack)
  OBVIOUS
<1>2. Top \in Frame
  BY <1>1 DEF Top
<1> DEFINE t == [Top EXCEPT !.todo = Top.todo \ {d}]
<1>3. t \in Frame /\ t.name = Top.name /\ t.todo = Top.todo \ {d}
  BY <1>2 DEF Frame
<1>4. TopWithout(d) = [stack EXCEPT ![Len(stack)] = t]
  BY <1>1 DEF TopWithout, Top
<1> HIDE DEF t
<1> QED
  BY <1>1, <1>2, <1>3, <1>4

THEOREM TypeCorrect == Spec => []TypeOK
<1>1. Init => TypeOK
  <2> SUFFICES ASSUME Init PROVE TypeOK
    OBVIOUS
  <2>1. input \in Input
    BY NamesAssumption DEF Init
  <2>2. input.op \in {"form", "change"}
    BY <2>1 DEF Input
  <2> QED
    BY <2>2, NamesAssumption DEF Init, TypeOK
<1>2. TypeOK /\ [Next]_vars => TypeOK'
  <2> SUFFICES ASSUME TypeOK, [Next]_vars PROVE TypeOK'
    OBVIOUS
  <2> USE NamesAssumption
  <2>0. input.op \in {"form", "change"}
    BY InputTyped DEF Input
  <2>1. CASE MergeChain
    BY <2>0, <2>1 DEF TypeOK, MergeChain
  <2>2. CASE CollectDerived
    BY <2>0, <2>2 DEF TypeOK, CollectDerived
  <2>3. CASE BuildBaseContext
    BY <2>3 DEF TypeOK, BuildBaseContext, BaseContext
  <2>4. ASSUME NEW n \in Names, Visit(n) PROVE TypeOK'
    <3>1. stack' \in Seq(Frame)
      BY <2>4, PushTyped DEF TypeOK, Visit
    <3> QED
      BY <2>4, <3>1 DEF TypeOK, Visit
  <2>5. ASSUME NEW d \in Names, VisitDependency(d) PROVE TypeOK'
    <3>1. stack \in Seq(Frame) /\ stack # <<>>
      BY <2>5 DEF TypeOK, VisitDependency
    <3>2. TopWithout(d) \in Seq(Frame)
      BY <3>1, TopTyped
    <3>3. stack' \in Seq(Frame)
      BY <2>5, <3>1, <3>2, PushTyped DEF VisitDependency
    <3>4. color' \in [Names -> {"white", "grey", "black"}]
      BY <2>5 DEF TypeOK, VisitDependency
    <3>5. pc' \in {"sort", "cyclic"}
      BY <2>5 DEF VisitDependency
    <3>6. UNCHANGED <<input, level, winner, ctx, order, next>>
      BY <2>5 DEF VisitDependency
    <3> QED
      BY <3>3, <3>4, <3>5, <3>6 DEF TypeOK
  <2>6. CASE Return
    <3>1. stack \in Seq(Frame) /\ stack # <<>>
      BY <2>6 DEF TypeOK, Return
    <3>2. Top.name \in Names
      BY <3>1, TopTyped DEF Frame
    <3>3. SubSeq(stack, 1, Len(stack) - 1) \in Seq(Frame)
      BY <3>1
    <3> QED
      BY <2>6, <3>2, <3>3 DEF TypeOK, Return
  <2>7. CASE Sorted
    BY <2>7 DEF TypeOK, Sorted
  <2>8. CASE Evaluate
    BY <2>8 DEF TypeOK, Evaluate
  <2>9. CASE Resolve
    BY <2>9 DEF TypeOK, Resolve
  <2>10. CASE UNCHANGED vars
    BY <2>10 DEF TypeOK, vars
  <2> QED
    BY <2>1, <2>2, <2>3, <2>4, <2>5, <2>6, <2>7, <2>8, <2>9, <2>10 DEF Next
<1> QED
  BY <1>1, <1>2, PTL DEF Spec
-----------------------------------------------------------------------------
(* What a step leaves alone.                                                *)

\* Once the definitions are loaded, what a name depends on does not change,
\* and the invariant speaks of the new values of its arguments only.
LEMMA SameMeaning ==
    ASSUME input' = input, winner' = winner
    PROVE  /\ Derived' = Derived
           /\ Colored(color, stack, order)' <=> Colored(color', stack', order')
           /\ Framed(color, stack)' <=> Framed(color', stack')
           /\ Chained(stack)' <=> Chained(stack')
           /\ CirclesOpen(color)' <=> CirclesOpen(color')
           /\ Ordered(order)' <=> Ordered(order')
           /\ Agreed(ctx, order, next)' <=> Agreed(ctx', order', next')
<1>1. \A n : Definition(n)' = Definition(n) /\ Origin(n)' = Origin(n)
  BY DEF Definition, Origin
<1>2. Derived' = Derived
  BY <1>1 DEF Derived
<1>3. Colored(color, stack, order)' <=> Colored(color', stack', order')
  BY <1>2 DEF Colored
<1>4. Framed(color, stack)' <=> Framed(color', stack')
  BY DEF Framed, Deps, Derived, Definition
<1>5. Chained(stack)' <=> Chained(stack')
  BY DEF Chained, Deps, Derived, Definition
<1>6. CirclesOpen(color)' <=> CirclesOpen(color')
  BY DEF CirclesOpen, Circular, Deps, Derived, Definition
<1>7. Ordered(order)' <=> Ordered(order')
  BY DEF Ordered, Deps, Derived, Definition
<1>8. Agreed(ctx, order, next)' <=> Agreed(ctx', order', next')
  BY DEF Agreed, Computed, Definition, Origin
<1> QED
  BY <1>2, <1>3, <1>4, <1>5, <1>6, <1>7, <1>8

\* With empty stack and result, and everything white, there is nothing to say.
LEMMA NothingSearched ==
    stack = <<>> /\ order = <<>> /\ color = [n \in Names |-> "white"] =>
        /\ Colored(color, stack, order) /\ Framed(color, stack) /\ Chained(stack)
        /\ CirclesOpen(color) /\ Ordered(order)
<1> SUFFICES ASSUME stack = <<>>, order = <<>>,
                    \A n \in Names : color[n] = "white"
             PROVE  /\ Colored(color, stack, order) /\ Framed(color, stack)
                    /\ Chained(stack) /\ CirclesOpen(color) /\ Ordered(order)
  OBVIOUS
<1>1. Framed(color, stack) /\ Chained(stack) /\ Ordered(order)
  BY DEF Framed, Chained, Ordered
<1>2. CirclesOpen(color)
  BY DepsTyped DEF CirclesOpen
<1>3. Colored(color, stack, order)
  BY DEF Colored
<1> QED
  BY <1>1, <1>2, <1>3
-----------------------------------------------------------------------------
(* The steps of the search.                                                 *)

\* A call for a white name that is derived: the name turns grey on top of a
\* stack s that has the calls of the current one.
LEMMA CallStep ==
    ASSUME TypeOK, SearchInv,
           NEW n \in Derived, color[n] = "white",
           NEW s \in Seq(Frame),
           Len(s) = Len(stack),
           \A i \in DOMAIN stack :
               /\ s[i].name = stack[i].name
               /\ i # Len(stack) => s[i] = stack[i],
           s # <<>> =>
               /\ n \in Deps(s[Len(s)].name)
               /\ s[Len(s)].todo \subseteq Deps(s[Len(s)].name)
               /\ \A d \in Deps(s[Len(s)].name) \ s[Len(s)].todo :
                      color[d] = "black" \/ d = n
    PROVE  /\ Colored([color EXCEPT ![n] = "grey"], Push(s, n), order)
           /\ Framed([color EXCEPT ![n] = "grey"], Push(s, n))
           /\ Chained(Push(s, n))
           /\ CirclesOpen([color EXCEPT ![n] = "grey"])
<1> DEFINE clr == [color EXCEPT ![n] = "grey"]
           stk == Push(s, n)
<1>1. n \in Names /\ color \in [Names -> {"white", "grey", "black"}]
  BY DepsTyped DEF TypeOK
<1>2. /\ clr[n] = "grey"
      /\ \A m \in Names : m # n => clr[m] = color[m]
      /\ color[n] = "white"
  BY <1>1
<1>3. /\ DOMAIN stack = 1..Len(s) /\ DOMAIN s = 1..Len(s) /\ Len(s) \in Nat
      /\ DOMAIN stk = 1..(Len(s) + 1)
      /\ \A i \in 1..Len(s) : stk[i] = s[i] /\ stk[i].name = stack[i].name
      /\ stk[Len(s) + 1].name = n
      /\ stk[Len(s) + 1].todo = Deps(n)
  <2>1. /\ DOMAIN s = 1..Len(s) /\ Len(s) \in Nat
        /\ DOMAIN stack = 1..Len(stack)
    BY DEF TypeOK
  <2> DEFINE f == [name |-> n, todo |-> Deps(n)]
  <2>2. f.name = n /\ f.todo = Deps(n)
    OBVIOUS
  <2>3. stk = Append(s, f)
    BY DEF Push
  <2> HIDE DEF f, stk
  <2>4. /\ DOMAIN stk = 1..(Len(s) + 1)
        /\ \A i \in 1..Len(s) : stk[i] = s[i]
        /\ stk[Len(s) + 1] = f
    BY <2>1, <2>3
  <2> QED
    BY <2>1, <2>2, <2>4
<1> HIDE DEF clr, stk
<1>4. Colored(clr, stk, order)
  <2> USE DEF Colored
  <2>0. Colored(color, stack, order)
    BY DEF SearchInv
  <2>1. \A m \in Names : clr[m] # "white" => m \in Derived
    BY <1>2, <2>0
  <2>2. \A m \in Names : clr[m] = "black" <=> \E i \in DOMAIN order : order[i] = m
    BY <1>1, <1>2, <2>0
  <2>3. \A m \in Names : clr[m] = "grey" <=> \E i \in DOMAIN stk : stk[i].name = m
    <3>1. \A m \in Names : clr[m] = "grey" <=> m = n \/ color[m] = "grey"
      BY <1>2
    <3>2. \A m : (\E i \in DOMAIN stk : stk[i].name = m)
                   <=> m = n \/ \E i \in DOMAIN stack : stack[i].name = m
      BY <1>3
    <3> QED
      BY <3>1, <3>2, <2>0
  <2>4. \A i \in DOMAIN stack : stack[i].name # n
    BY <1>1, <2>0
  <2>5. \A i, j \in DOMAIN stk : stk[i].name = stk[j].name => i = j
    BY <1>3, <2>0, <2>4
  <2> QED
    BY <2>1, <2>2, <2>3, <2>5
<1>5. Chained(stk)
  <2> SUFFICES ASSUME NEW i \in DOMAIN stk, i + 1 \in DOMAIN stk
               PROVE  stk[i + 1].name \in Deps(stk[i].name)
    BY DEF Chained
  <2>1. CASE i = Len(s)
    BY <1>3, <2>1
  <2>2. CASE i # Len(s)
    BY <1>3, <2>2 DEF SearchInv, Chained
  <2> QED
    BY <2>1, <2>2
<1>6. CirclesOpen(clr)
  <2>1. \A m \in Names : clr[m] = "black" => color[m] = "black"
    BY <1>2
  <2> QED
    BY <2>1, DepsTyped DEF SearchInv, CirclesOpen
<1>7. Framed(clr, stk)
  <2> SUFFICES ASSUME NEW i \in DOMAIN stk
               PROVE  /\ stk[i].todo \subseteq Deps(stk[i].name)
                      /\ \A d \in Deps(stk[i].name) \ stk[i].todo :
                             \/ clr[d] = "black"
                             \/ i + 1 \in DOMAIN stk /\ stk[i + 1].name = d
    BY DEF Framed
  <2>0. \A d \in Names : color[d] = "black" => clr[d] = "black"
    BY <1>2
  <2>1. CASE i = Len(s) + 1
    BY <1>3, <2>1
  <2>2. CASE i = Len(s)
    <3>1. s # <<>> /\ stk[i] = s[Len(s)] /\ i + 1 \in DOMAIN stk
      BY <1>3, <2>2
    <3> QED
      BY <1>3, <2>0, <2>2, <3>1, DepsTyped
  <2>3. CASE i < Len(s)
    <3>1. stk[i] = stack[i] /\ i \in DOMAIN stack /\ i + 1 \in DOMAIN stack
      BY <1>3, <2>3
    <3>2. i + 1 \in DOMAIN stk /\ stk[i + 1].name = stack[i + 1].name
      BY <1>3, <2>3
    <3> QED
      BY <2>0, <3>1, <3>2, DepsTyped DEF SearchInv, Framed
  <2> QED
    BY <1>3, <2>1, <2>2, <2>3
<1> QED
  BY <1>4, <1>5, <1>6, <1>7 DEF clr, stk

\* A dependency that is finished leaves the loop: the names on the stack stay.
LEMMA SkipStep ==
    ASSUME TypeOK, SearchInv, stack # <<>>, NEW d \in Names, color[d] = "black"
    PROVE  /\ Colored(color, TopWithout(d), order)
           /\ Framed(color, TopWithout(d))
           /\ Chained(TopWithout(d))
<1> DEFINE stk == TopWithout(d)
<1>1. /\ DOMAIN stk = DOMAIN stack /\ Len(stack) \in DOMAIN stack
      /\ \A i \in DOMAIN stack : i # Len(stack) => stk[i] = stack[i]
      /\ stk[Len(stack)].name = stack[Len(stack)].name
      /\ stk[Len(stack)].todo = stack[Len(stack)].todo \ {d}
  <2>1. stack \in Seq(Frame)
    BY DEF TypeOK
  <2> QED
    BY <2>1, TopTyped DEF Top
<1> HIDE DEF stk
<1>2. \A i \in DOMAIN stack : stk[i].name = stack[i].name
  BY <1>1
<1>3. Colored(color, stk, order)
  BY <1>1, <1>2 DEF SearchInv, Colored
<1>4. Chained(stk)
  BY <1>1, <1>2 DEF SearchInv, Chained
<1>5. Framed(color, stk)
  <2>1. \A i \in DOMAIN stack : stk[i].todo \in {stack[i].todo, stack[i].todo \ {d}}
    BY <1>1
  <2> QED
    BY <1>1, <1>2, <2>1 DEF SearchInv, Framed
<1> QED
  BY <1>3, <1>4, <1>5 DEF stk

\* A call whose loop is over returns: its name is finished.
LEMMA ReturnStep ==
    ASSUME TypeOK, SearchInv, stack # <<>>, Top.todo = {}
    PROVE  LET clr == [color EXCEPT ![Top.name] = "black"]
               stk == SubSeq(stack, 1, Len(stack) - 1)
               ord == Append(order, Top.name)
           IN  /\ Colored(clr, stk, ord) /\ Framed(clr, stk) /\ Chained(stk)
               /\ CirclesOpen(clr) /\ Ordered(ord)
<1> DEFINE n == Top.name
           k == Len(stack)
           clr == [color EXCEPT ![n] = "black"]
           stk == SubSeq(stack, 1, k - 1)
           ord == Append(order, n)
<1>1. /\ stack \in Seq(Frame) /\ order \in Seq(Names)
      /\ color \in [Names -> {"white", "grey", "black"}]
  BY DEF TypeOK
<1>2. /\ k \in Nat \ {0} /\ DOMAIN stack = 1..k
      /\ n = stack[k].name /\ stack[k].todo = {} /\ n \in Names
  BY <1>1, TopTyped DEF Top, Frame
<1>3. /\ DOMAIN stk = 1..(k - 1)
      /\ \A i \in 1..(k - 1) : stk[i] = stack[i]
  BY <1>1, <1>2
<1>4. /\ Len(order) \in Nat /\ DOMAIN order = 1..Len(order)
      /\ DOMAIN ord = 1..(Len(order) + 1)
      /\ \A i \in 1..Len(order) : ord[i] = order[i]
      /\ ord[Len(order) + 1] = n
  BY <1>1, <1>2
<1>5. clr[n] = "black" /\ \A m \in Names : m # n => clr[m] = color[m]
  BY <1>1, <1>2
<1>6. color[n] = "grey"
  BY <1>2 DEF SearchInv, Colored
<1> HIDE DEF n, k, clr, stk, ord
<1>7. \A d \in Deps(n) : color[d] = "black"
  BY <1>2 DEF SearchInv, Framed
<1>8. Colored(clr, stk, ord)
  <2>0. Colored(color, stack, order)
    BY DEF SearchInv
  <2>1. \A m \in Names : clr[m] # "white" => m \in Derived
    BY <1>2, <1>5, <1>6, <2>0 DEF Colored
  <2>2. \A m \in Names : clr[m] = "black" <=> \E i \in DOMAIN ord : ord[i] = m
    <3>1. \A m : (\E i \in DOMAIN ord : ord[i] = m)
                   <=> m = n \/ \E i \in DOMAIN order : order[i] = m
      BY <1>4
    <3> QED
      BY <1>5, <2>0, <3>1 DEF Colored
  <2>3. \A m \in Names : clr[m] = "grey" <=> \E i \in DOMAIN stk : stk[i].name = m
    <3>1. \A m \in Names : clr[m] = "grey" <=> m # n /\ color[m] = "grey"
      BY <1>5
    <3>2. \A m : (\E i \in DOMAIN stk : stk[i].name = m)
                   <=> m # n /\ \E i \in DOMAIN stack : stack[i].name = m
      BY <1>2, <1>3, <2>0 DEF Colored
    <3> QED
      BY <3>1, <3>2, <2>0 DEF Colored
  <2>4. \A i, j \in DOMAIN stk : stk[i].name = stk[j].name => i = j
    BY <1>2, <1>3, <2>0 DEF Colored
  <2> QED
    BY <2>1, <2>2, <2>3, <2>4 DEF Colored
<1>9. Chained(stk)
  BY <1>2, <1>3 DEF SearchInv, Chained
<1>10. Framed(clr, stk)
  <2> SUFFICES ASSUME NEW i \in DOMAIN stk
               PROVE  /\ stk[i].todo \subseteq Deps(stk[i].name)
                      /\ \A d \in Deps(stk[i].name) \ stk[i].todo :
                             \/ clr[d] = "black"
                             \/ i + 1 \in DOMAIN stk /\ stk[i + 1].name = d
    BY DEF Framed
  <2>1. stk[i] = stack[i] /\ i \in DOMAIN stack /\ i + 1 \in DOMAIN stack
    BY <1>2, <1>3
  <2>2. (i + 1 \in DOMAIN stk /\ stk[i + 1] = stack[i + 1]) \/ stack[i + 1].name = n
    BY <1>2, <1>3
  <2>3. \A d \in Names : color[d] = "black" => clr[d] = "black"
    BY <1>5
  <2> QED
    BY <1>5, <2>1, <2>2, <2>3, DepsTyped DEF SearchInv, Framed
<1>11. CirclesOpen(clr)
  <2> SUFFICES ASSUME NEW S \in SUBSET Derived, Circular(S),
                      NEW m \in S, clr[m] = "black"
               PROVE  FALSE
    BY DEF CirclesOpen
  <2>1. \A x \in S : color[x] # "black"
    BY DEF SearchInv, CirclesOpen
  <2>2. m = n
    BY <1>5, <2>1, DepsTyped
  <2>3. Deps(n) \cap S # {}
    BY <2>2 DEF Circular
  <2> QED
    BY <1>7, <2>1, <2>3
<1>12. Ordered(ord)
  <2> SUFFICES ASSUME NEW i \in DOMAIN ord
               PROVE  LET earlier == {ord[j] : j \in 1..(i - 1)}
                      IN  Deps(ord[i]) \subseteq earlier /\ ord[i] \notin earlier
    BY DEF Ordered
  <2>1. {ord[j] : j \in 1..(i - 1)} = {order[j] : j \in 1..(i - 1)}
    BY <1>4
  <2>2. CASE i \in DOMAIN order
    BY <1>4, <2>1, <2>2 DEF SearchInv, Ordered
  <2>3. CASE i = Len(order) + 1
    <3>1. \A x \in Names : color[x] = "black" <=> \E j \in 1..(i - 1) : order[j] = x
      BY <1>4, <2>3 DEF SearchInv, Colored
    <3> QED
      BY <1>2, <1>4, <1>6, <1>7, <2>1, <2>3, <3>1, DepsTyped
  <2> QED
    BY <1>4, <2>2, <2>3
<1> QED
  BY <1>8, <1>9, <1>10, <1>11, <1>12 DEF n, k, clr, stk, ord
-----------------------------------------------------------------------------
LEMMA SearchInvariant == Spec => []SearchInv
<1>1. Init => SearchInv
  <2> SUFFICES ASSUME Init PROVE SearchInv
    OBVIOUS
  <2> QED
    BY NothingSearched DEF Init, SearchInv, NotStarted
<1>2. TypeOK /\ SearchInv /\ [Next]_vars => SearchInv'
  <2> SUFFICES ASSUME TypeOK, SearchInv, [Next]_vars PROVE SearchInv'
    OBVIOUS
  \* While definitions are loaded nothing is searched, whatever they are.
  <2>1. ASSUME pc = "load", UNCHANGED <<color, stack, order, next>>
        PROVE  SearchInv'
    <3>1. (stack = <<>> /\ order = <<>> /\ color = [n \in Names |-> "white"])'
      BY <2>1 DEF SearchInv, NotStarted, Names
    <3>2. (/\ Colored(color, stack, order) /\ Framed(color, stack)
           /\ Chained(stack) /\ CirclesOpen(color) /\ Ordered(order))'
      BY <3>1, NothingSearched, PTL
    <3>3. NotStarted'
      BY <2>1, <3>1 DEF SearchInv, NotStarted
    <3> QED
      BY <3>2, <3>3 DEF SearchInv
  \* A step of the search: it is enough to look at what it changes.
  <2>2. ASSUME UNCHANGED <<input, winner>>, pc' # "load",
               Colored(color', stack', order'), Framed(color', stack'),
               Chained(stack'), CirclesOpen(color'), Ordered(order')
        PROVE  SearchInv'
    BY <2>2, SameMeaning DEF SearchInv, NotStarted
  <2>3. ASSUME UNCHANGED <<input, winner, color, stack, order>>, pc' # "load"
        PROVE  SearchInv'
    <3>1. /\ Colored(color', stack', order') /\ Framed(color', stack')
          /\ Chained(stack') /\ CirclesOpen(color') /\ Ordered(order')
      BY <2>3 DEF SearchInv
    <3> QED
      BY <2>2, <2>3, <3>1
  <2>4. CASE MergeChain
    BY <2>1, <2>4 DEF MergeChain
  <2>5. CASE CollectDerived
    BY <2>1, <2>5 DEF CollectDerived
  <2>6. CASE BuildBaseContext
    BY <2>1, <2>6 DEF BuildBaseContext
  <2>7. ASSUME NEW n \in Names, Visit(n) PROVE SearchInv'
    <3>1. n \in Derived /\ color[n] = "white" /\ stack = <<>> /\ stack \in Seq(Frame)
      BY <2>7 DEF Visit, TypeOK
    <3>2. /\ Colored(color', stack', order) /\ Framed(color', stack')
          /\ Chained(stack') /\ CirclesOpen(color')
      BY <2>7, <3>1, CallStep DEF Visit
    <3>3. UNCHANGED <<input, winner, order>> /\ pc' # "load"
      BY <2>7 DEF Visit
    <3> QED
      BY <2>2, <3>2, <3>3 DEF SearchInv
  <2>8. ASSUME NEW d \in Names, VisitDependency(d) PROVE SearchInv'
    <3>1. /\ stack # <<>> /\ stack \in Seq(Frame) /\ d \in Top.todo
          /\ UNCHANGED <<input, winner, order>> /\ pc' # "load"
      BY <2>8 DEF VisitDependency, TypeOK
    <3>2. CASE color[d] = "white"
      <4>1. color' = [color EXCEPT ![d] = "grey"] /\ stack' = Push(TopWithout(d), d)
        BY <2>8, <3>2 DEF VisitDependency
      <4> DEFINE s == TopWithout(d)
      <4>2. /\ s \in Seq(Frame) /\ Len(s) = Len(stack) /\ Len(stack) \in DOMAIN stack
            /\ \A i \in DOMAIN stack : i # Len(stack) => s[i] = stack[i]
            /\ s[Len(stack)].name = Top.name
            /\ s[Len(stack)].todo = Top.todo \ {d}
        BY <3>1, TopTyped
      <4> HIDE DEF s
      <4>3. \A i \in DOMAIN stack : s[i].name = stack[i].name
        BY <4>2 DEF Top
      <4>4. /\ Top.todo \subseteq Deps(Top.name)
            /\ \A e \in Deps(Top.name) \ Top.todo : color[e] = "black"
        BY <3>1, <4>2 DEF SearchInv, Framed, Top
      <4>5. d \in Derived
        BY <3>1, <4>4, DepsTyped
      <4>6. /\ Colored([color EXCEPT ![d] = "grey"], Push(s, d), order)
            /\ Framed([color EXCEPT ![d] = "grey"], Push(s, d))
            /\ Chained(Push(s, d)) /\ CirclesOpen([color EXCEPT ![d] = "grey"])
        BY <3>1, <3>2, <4>2, <4>3, <4>4, <4>5, CallStep
      <4> QED
        BY <2>2, <3>1, <4>1, <4>6 DEF s, SearchInv
    <3>3. CASE color[d] = "black"
      <4>1. color' = color /\ stack' = TopWithout(d)
        BY <2>8, <3>3 DEF VisitDependency
      <4>2. /\ Colored(color', stack', order') /\ Framed(color', stack')
            /\ Chained(stack')
        BY <3>1, <3>3, <4>1, SkipStep
      <4> QED
        BY <2>2, <3>1, <4>1, <4>2 DEF SearchInv
    <3>4. CASE color[d] = "grey"
      <4>1. UNCHANGED <<color, stack>>
        BY <2>8, <3>4 DEF VisitDependency
      <4> QED
        BY <2>3, <3>1, <4>1
    <3> QED
      BY <3>2, <3>3, <3>4 DEF TypeOK
  <2>9. CASE Return
    <3>1. /\ stack # <<>> /\ Top.todo = {}
          /\ UNCHANGED <<input, winner>> /\ pc' # "load"
      BY <2>9 DEF Return
    <3>2. /\ Colored(color', stack', order') /\ Framed(color', stack')
          /\ Chained(stack') /\ CirclesOpen(color') /\ Ordered(order')
      BY <2>9, <3>1, ReturnStep DEF Return
    <3> QED
      BY <2>2, <3>1, <3>2
  <2>10. CASE Sorted
    BY <2>3, <2>10 DEF Sorted
  <2>11. CASE Evaluate
    BY <2>3, <2>11 DEF Evaluate
  <2>12. CASE Resolve
    BY <2>3, <2>12 DEF Resolve
  <2>13. CASE UNCHANGED vars
    <3>1. CASE pc = "load"
      BY <2>1, <2>13, <3>1 DEF vars
    <3>2. CASE pc # "load"
      BY <2>3, <2>13, <3>2 DEF vars
    <3> QED
      BY <3>1, <3>2
  <2> QED
    BY <2>4, <2>5, <2>6, <2>7, <2>8, <2>9, <2>10, <2>11, <2>12, <2>13 DEF Next
<1> QED
  BY <1>1, <1>2, TypeCorrect, PTL DEF Spec
-----------------------------------------------------------------------------
(* What the search comes to.                                                *)

\* A name that is met again while it is visited closes a circle: the calls
\* from its own to the top one.
LEMMA GreyClosesCircle ==
    ASSUME TypeOK, SearchInv, stack # <<>>,
           NEW d \in Top.todo, color[d] = "grey"
    PROVE  \E S \in SUBSET Derived : Circular(S)
<1>1. /\ stack \in Seq(Frame) /\ Len(stack) \in Nat /\ DOMAIN stack = 1..Len(stack)
      /\ Len(stack) \in DOMAIN stack
  BY TopTyped DEF TypeOK
<1>2. d \in Deps(stack[Len(stack)].name) /\ d \in Names
  BY <1>1, DepsTyped DEF SearchInv, Framed, Top
<1>3. PICK k \in DOMAIN stack : stack[k].name = d
  BY <1>2 DEF SearchInv, Colored
<1>7. k \in 1..Len(stack)
  BY <1>1
<1> DEFINE S == {stack[i].name : i \in k..Len(stack)}
<1>4. S \subseteq Derived
  <2>1. \A i \in DOMAIN stack : stack[i].name \in Names
    <3>1. \A i \in DOMAIN stack : stack[i] \in Frame
      BY <1>1
    <3> QED
      BY <3>1 DEF Frame
  <2> QED
    BY <1>1, <1>3, <2>1 DEF SearchInv, Colored
<1>5. d \in S
  BY <1>1, <1>3
<1>6. ASSUME NEW n \in S PROVE Deps(n) \cap S # {}
  <2>1. PICK i \in k..Len(stack) : n = stack[i].name
    OBVIOUS
  <2>2. CASE i = Len(stack)
    BY <1>2, <1>5, <2>1, <2>2
  <2>3. CASE i # Len(stack)
    <3>1. i \in DOMAIN stack /\ i + 1 \in DOMAIN stack /\ i + 1 \in k..Len(stack)
      <4>1. i \in Nat /\ k <= i /\ i < Len(stack) /\ 1 <= k
        <5>1. i \in k..Len(stack) /\ k \in Nat /\ Len(stack) \in Nat
          BY <1>1, <1>7, <2>1
        <5> HIDE DEF S
        <5> QED
          BY <5>1, <1>7, <2>3
      <4> QED
        BY <1>1, <1>7, <4>1
    <3>2. stack[i + 1].name \in Deps(n) /\ stack[i + 1].name \in S
      BY <2>1, <3>1 DEF SearchInv, Chained
    <3> QED
      BY <3>2
  <2> QED
    BY <2>2, <2>3
<1> QED
  BY <1>4, <1>5, <1>6 DEF Circular

\* Evaluating the next name leaves the values of earlier ones and all that
\* they were computed from, and uses nothing that is replaced later.
LEMMA EvaluateStep ==
    ASSUME TypeOK, SearchInv, OutcomeInv, Evaluate
    PROVE  Agreed(ctx', order, next')
<1>1. /\ next \in Nat /\ order \in Seq(Names) /\ DOMAIN ctx = Names
      /\ next <= Len(order) /\ next' = next + 1
      /\ ctx' = [ctx EXCEPT ![order[next]] = Computed(order[next], ctx)]
  BY DEF TypeOK, Evaluate
<1> SUFFICES ASSUME NEW i \in 1..next, i \in DOMAIN order
             PROVE  ctx'[order[i]] = Computed(order[i], ctx')
  <2>1. next' - 1 = next
    BY <1>1
  <2> QED
    BY <2>1 DEF Agreed
<1>2. i \in Nat /\ i <= next /\ next \in DOMAIN order /\ order[i] \in Names
  BY <1>1
<1>3. order[i] \in Derived
  BY <1>2 DEF SearchInv, Colored
<1>4. order[next] \notin Deps(order[i])
  <2>1. /\ order[next] \notin {order[j] : j \in 1..(next - 1)}
        /\ Deps(order[i]) \subseteq {order[j] : j \in 1..(i - 1)}
    BY <1>2 DEF SearchInv, Ordered
  <2>2. 1..(i - 1) \subseteq 1..(next - 1)
    BY <1>1, <1>2
  <2> QED
    BY <2>1, <2>2
<1>5. order[next] \in Derived
  BY <1>1, <1>2 DEF SearchInv, Colored
<1>6. order[next] \notin Definition(order[i]).deps
  BY <1>4, <1>5 DEF Deps
<1>7. \A e : e # order[next] => ctx'[e] = ctx[e]
  BY <1>1
<1>8. Computed(order[i], ctx') = Computed(order[i], ctx)
  BY <1>6, <1>7 DEF Computed
<1>9. CASE i = next
  BY <1>1, <1>2, <1>8, <1>9
<1>10. CASE i < next
  <2>0. i \in 1..(next - 1)
    BY <1>1, <1>10
  <2>1. order[i] # order[next]
    BY <1>2, <2>0 DEF SearchInv, Ordered
  <2>2. ctx[order[i]] = Computed(order[i], ctx)
    BY <2>0 DEF OutcomeInv, Agreed
  <2> QED
    BY <1>7, <1>8, <2>1, <2>2
<1> QED
  BY <1>1, <1>2, <1>9, <1>10

LEMMA OutcomeInvariant == Spec => []OutcomeInv
<1>1. Init => OutcomeInv
  BY DEF Init, OutcomeInv, Agreed
<1>2. TypeOK /\ SearchInv /\ OutcomeInv /\ [Next]_vars => OutcomeInv'
  <2> SUFFICES ASSUME TypeOK, SearchInv, OutcomeInv, [Next]_vars PROVE OutcomeInv'
    OBVIOUS
  \* Until the evaluation begins nothing is said of values.
  <2>2. ASSUME pc' \in {"load", "sort"}, pc \in {"load", "sort"}, next' = next
        PROVE  OutcomeInv'
    <3>1. next' = 1 /\ pc' \notin {"evaluate", "done", "cyclic"}
      BY <2>2 DEF OutcomeInv
    <3>2. Agreed(ctx, order, next)'
      BY <3>1 DEF Agreed
    <3> QED
      BY <2>2, <3>1, <3>2 DEF OutcomeInv
  <2>3. CASE MergeChain
    BY <2>2, <2>3 DEF MergeChain
  <2>4. CASE CollectDerived
    BY <2>2, <2>4 DEF CollectDerived
  <2>5. CASE BuildBaseContext
    BY <2>2, <2>5 DEF BuildBaseContext
  <2>6. ASSUME NEW n \in Names, Visit(n) PROVE OutcomeInv'
    BY <2>2, <2>6 DEF Visit
  <2>7. ASSUME NEW d \in Names, VisitDependency(d) PROVE OutcomeInv'
    <3>1. pc = "sort" /\ stack # <<>> /\ d \in Top.todo /\ UNCHANGED <<input, winner, next>>
      BY <2>7 DEF VisitDependency
    <3>2. CASE color[d] = "grey"
      <4>1. \E S \in SUBSET Derived : Circular(S)
        BY <3>1, <3>2, GreyClosesCircle
      <4>2. (\E S \in SUBSET Derived : Circular(S))'
        BY <3>1, <4>1 DEF Circular, Deps, Derived, Definition
      <4>3. pc' = "cyclic" /\ next' = 1
        BY <2>7, <3>1, <3>2 DEF VisitDependency, OutcomeInv
      <4>4. Agreed(ctx, order, next)'
        BY <4>3 DEF Agreed
      <4> QED
        BY <4>2, <4>3, <4>4 DEF OutcomeInv
    <3>3. CASE color[d] # "grey"
      BY <2>2, <2>7, <3>1, <3>3 DEF VisitDependency
    <3> QED
      BY <3>2, <3>3
  <2>8. CASE Return
    BY <2>2, <2>8 DEF Return
  <2>9. CASE Sorted
    <3>1. \A n \in Derived : color[n] = "black"
      BY <2>9, DepsTyped DEF Sorted, SearchInv, Colored, TypeOK
    <3>2. /\ pc' = "evaluate" /\ next' = 1
          /\ UNCHANGED <<input, winner, color, order, ctx>>
      BY <2>9 DEF Sorted, OutcomeInv
    <3>3. Agreed(ctx, order, next)'
      BY <3>2 DEF Agreed
    <3> QED
      BY <3>1, <3>2, <3>3, SameMeaning DEF OutcomeInv
  <2>10. CASE Evaluate
    <3>1. Agreed(ctx', order', next')
      BY <2>10, EvaluateStep DEF Evaluate
    <3>2. pc = "evaluate" /\ pc' = "evaluate" /\ UNCHANGED <<input, winner, color>>
      BY <2>10 DEF Evaluate
    <3> QED
      BY <3>1, <3>2, SameMeaning DEF OutcomeInv
  <2>11. CASE Resolve
    <3>1. /\ pc = "evaluate" /\ pc' = "done" /\ next' > Len(order')
          /\ UNCHANGED <<input, winner, color, order, ctx, next>>
      BY <2>11 DEF Resolve, TypeOK
    <3>2. Agreed(ctx', order', next')
      BY <3>1 DEF OutcomeInv
    <3> QED
      BY <3>1, <3>2, SameMeaning DEF OutcomeInv
  <2>12. CASE UNCHANGED vars
    <3>1. UNCHANGED <<input, winner, pc, color, order, ctx, next>>
      BY <2>12 DEF vars
    <3>2. Agreed(ctx', order', next')
      BY <3>1 DEF OutcomeInv
    <3>3. (\E S \in SUBSET Derived : Circular(S))'
               <=> \E S \in SUBSET Derived : Circular(S)
      BY <3>1 DEF Circular, Deps, Derived, Definition
    <3> QED
      BY <3>1, <3>2, <3>3, SameMeaning DEF OutcomeInv
  <2> QED
    BY <2>3, <2>4, <2>5, <2>6, <2>7, <2>8, <2>9, <2>10, <2>11, <2>12 DEF Next
<1> QED
  BY <1>1, <1>2, TypeCorrect, SearchInvariant, PTL DEF Spec
-----------------------------------------------------------------------------
(* The theorems.                                                            *)

\* Whatever the graph and the order of the search, the result never has a
\* derived parameter before one it depends on, or twice (_topological_sort).
THEOREM SearchOrders == Spec => []DependenciesFirst
<1>1. SearchInv => DependenciesFirst
  BY DEF SearchInv, Ordered, DependenciesFirst
<1> QED
  BY <1>1, SearchInvariant, PTL

\* DerivedParamError is raised for a cycle and for nothing else, and what is
\* evaluated has none (_topological_sort).
THEOREM CyclesFound == Spec => []CyclesAreReported
<1>1. SearchInv /\ OutcomeInv => CyclesAreReported
  <2> SUFFICES ASSUME SearchInv, OutcomeInv PROVE CyclesAreReported
    OBVIOUS
  <2>1. ASSUME pc \in {"evaluate", "done"}, NEW S \in SUBSET Derived, Circular(S)
        PROVE  FALSE
    <3>1. PICK n \in S : TRUE
      BY <2>1 DEF Circular
    <3> QED
      BY <2>1, <3>1 DEF SearchInv, CirclesOpen, OutcomeInv
  <2> QED
    BY <2>1 DEF CyclesAreReported, OutcomeInv
<1> QED
  BY <1>1, SearchInvariant, OutcomeInvariant, PTL

\* Every derived parameter ends with its expression applied to the final
\* values of the others (resolve_derived_params), on a change as in the form.
THEOREM DerivedAgree == Spec => []ValuesAgree
<1>1. TypeOK /\ SearchInv /\ OutcomeInv => ValuesAgree
  <2> SUFFICES ASSUME TypeOK, SearchInv, OutcomeInv, pc = "done", NEW n \in Derived
               PROVE  ctx[n] = Computed(n, ctx)
    BY DEF ValuesAgree
  <2>1. PICK i \in DOMAIN order : order[i] = n
    BY DepsTyped DEF OutcomeInv, SearchInv, Colored
  <2>2. i \in 1..(next - 1)
    <3>1. order \in Seq(Names) /\ next \in Nat /\ next > Len(order)
      BY DEF OutcomeInv, TypeOK
    <3> QED
      BY <2>1, <3>1
  <2> QED
    BY <2>1, <2>2 DEF OutcomeInv, Agreed
<1> QED
  BY <1>1, TypeCorrect, SearchInvariant, OutcomeInvariant, PTL
-----------------------------------------------------------------------------
(* The inheritance chain.                                                   *)

\* Of the templates merged so far the nearest that defines a name has won.
MergeInv ==
    input.op = "form" =>
        /\ pc # "load" => level = 0
        /\ \A n \in Local, l \in (level + 1)..Depth :
               input.chain[l][n].kind # "absent" => winner[n] \in (level + 1)..l

\* In a form a name has the definition nearest to the template, however long
\* the chain and whichever templates define the name (_merge_chain).
THEOREM NearestWins == Spec => []ChildWins
<1>1. Init => MergeInv
  <2> SUFFICES ASSUME Init, input.op = "form" PROVE MergeInv
    BY DEF MergeInv
  <2>1. level = Depth /\ pc = "load"
    BY DEF Init
  <2>2. (level + 1)..Depth = {}
    BY <2>1, NamesAssumption
  <2> QED
    BY <2>1, <2>2 DEF MergeInv
<1>2. TypeOK /\ MergeInv /\ [Next]_vars => MergeInv'
  <2> SUFFICES ASSUME TypeOK, MergeInv, [Next]_vars, input'.op = "form"
               PROVE  MergeInv'
    BY DEF MergeInv
  <2>0. input' = input /\ input.op = "form" /\ level \in 0..Depth /\ Depth \in Nat
    <3>1. input' = input
      BY DEF Next, MergeChain, CollectDerived, BuildBaseContext, Visit,
             VisitDependency, Return, Sorted, Evaluate, Resolve, vars
    <3> QED
      BY <3>1, NamesAssumption DEF TypeOK
  <2>1. CASE MergeChain
    <3>1. /\ pc' = "load" /\ level' = level - 1 /\ level \in 1..Depth
          /\ winner' = [n \in Local |->
                 IF input.chain[level][n].kind # "absent" THEN level ELSE winner[n]]
      BY <2>0, <2>1 DEF MergeChain
    <3>2. ASSUME NEW n \in Local, NEW l \in level..Depth,
                 input.chain[l][n].kind # "absent"
          PROVE  winner'[n] \in level..l
      <4>1. level \in Nat /\ l \in Nat /\ level <= l /\ l <= Depth
        BY <2>0, <3>1, <3>2
      <4>2. CASE input.chain[level][n].kind # "absent"
        BY <3>1, <4>1, <4>2
      <4>3. CASE input.chain[level][n].kind = "absent"
        <5>1. l \in (level + 1)..Depth
          BY <2>0, <3>2, <4>1, <4>3
        <5>2. winner[n] \in (level + 1)..l
          BY <2>0, <3>2, <5>1 DEF MergeInv
        <5> QED
          BY <3>1, <4>1, <4>3, <5>2
      <4> QED
        BY <4>2, <4>3
    <3>3. level' + 1 = level
      BY <3>1
    <3> QED
      BY <2>0, <3>1, <3>2, <3>3 DEF MergeInv
  <2>2. CASE BuildBaseContext
    <3>1. UNCHANGED <<level, winner>> /\ level = 0
      BY <2>0, <2>2 DEF BuildBaseContext, Loaded
    <3> QED
      BY <2>0, <3>1 DEF MergeInv
  \* No later step loads anything or goes back to it.
  <2>3. ASSUME UNCHANGED <<level, winner>>, pc # "load" \/ pc' = pc
        PROVE  MergeInv'
    BY <2>0, <2>3 DEF MergeInv
  <2>4. CASE CollectDerived
    BY <2>0, <2>4 DEF CollectDerived
  <2>5. ASSUME NEW n \in Names, Visit(n) \/ VisitDependency(n) PROVE MergeInv'
    BY <2>3, <2>5 DEF Visit, VisitDependency
  <2>6. CASE Return \/ Sorted \/ Evaluate \/ Resolve
    BY <2>3, <2>6 DEF Return, Sorted, Evaluate, Resolve
  <2>7. CASE UNCHANGED vars
    BY <2>3, <2>7 DEF vars
  <2> QED
    BY <2>1, <2>2, <2>4, <2>5, <2>6, <2>7 DEF Next
<1>3. TypeOK /\ MergeInv => ChildWins
  <2> SUFFICES ASSUME TypeOK, MergeInv, input.op = "form", pc # "load"
               PROVE  \A n \in Local, l \in 1..Depth :
                          input.chain[l][n].kind # "absent" => winner[n] \in 1..l
    BY DEF ChildWins
  <2>1. level + 1 = 1
    BY DEF MergeInv
  <2> QED
    BY <2>1 DEF MergeInv
<1> QED
  BY <1>1, <1>2, <1>3, TypeCorrect, PTL DEF Spec
-----------------------------------------------------------------------------
(* What a template sees of shared parameters.                               *)

\* A value that was computed is an entry.
LEMMA ComputedIsSet ==
    ASSUME NEW n, NEW context
    PROVE  Computed(n, context) # Unset
BY DEF Computed, Unset

\* "glob.* always wins", whatever the request gives; and a proj.* name that the
\* template uses is what the form showed, though what is passed hides the
\* globals (_build_full_context, render).
THEOREM SharedWins == Spec => []SharedPrevails
<1>1. TypeOK /\ ValuesAgree => SharedPrevails
  <2> SUFFICES ASSUME TypeOK, ValuesAgree, pc = "done", input.op = "form",
                      NEW used \in SUBSET (Proj \cup Glob), NEW provided \in SUBSET Names
               PROVE  /\ \A n \in Glob : Seen(n, used, provided) = Global(n)
                      /\ \A n \in (Proj \cap used) \ provided :
                             Seen(n, used, provided) =
                                 IF n \in Derived THEN ctx[n] ELSE Global(n)
    BY DEF SharedPrevails
  <2> DEFINE passed == LocalContext(used, provided)
  <2>1. ASSUME NEW n \in Glob PROVE Seen(n, used, provided) = Global(n)
    <3>1. n \notin Local /\ \A m \in Glob : passed[m] = Unset
      BY NamesAssumption DEF LocalContext, Names
    <3> QED
      BY <3>1 DEF Seen
  <2>2. ASSUME NEW n \in (Proj \cap used) \ provided
        PROVE  Seen(n, used, provided) = IF n \in Derived THEN ctx[n] ELSE Global(n)
    <3>1. n \notin Local /\ n \notin Glob /\ n \in Names
      BY NamesAssumption DEF Names
    <3>2. Definition(n) = input.shared[n] /\ input.shared[n].kind \in {"plain", "absent", "derived"}
      <4>1. input.shared[n] \in Definitions
        BY InputTyped DEF Input
      <4> QED
        BY <3>1, <4>1 DEF Definition, Definitions, Plain, Absent, DerivedFrom
    <3>3. passed[n] = IF n \in Derived THEN ctx[n] ELSE Global(n)
      <4>1. passed[n] = FullContext(used, provided)[n]
        BY <3>1 DEF LocalContext
      <4>2. n \in Derived <=> input.shared[n].kind = "derived"
        BY <3>1, <3>2 DEF Derived
      <4> QED
        BY <3>1, <3>2, <4>1, <4>2 DEF FullContext, Global
    <3>4. CASE n \in Derived
      <4>1. ctx[n] # Unset
        BY <3>4, ComputedIsSet DEF ValuesAgree
      <4> QED
        BY <3>1, <3>3, <3>4, <4>1 DEF Seen
    <3>5. CASE n \notin Derived
      BY <3>1, <3>3, <3>5 DEF Seen
    <3> QED
      BY <3>4, <3>5
  <2> QED
    BY <2>1, <2>2
<1> QED
  BY <1>1, TypeCorrect, DerivedAgree, PTL
=============================================================================
