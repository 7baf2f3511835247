---------------------------- MODULE PlannerProofs ----------------------------
(***************************************************************************)
(* What planner.Build promises, for every catalog that Load accepts and    *)
(* every request:                                                          *)
(*   - the order respects the dependencies (WalkInv: each call in progress *)
(*     is through with the dependencies that are in the order, except the  *)
(*     one whose call it waits for);                                       *)
(*   - it fails exactly when the selection has no plan (PlanInv: the walk  *)
(*     stays within what the selection needs, forgets nothing of it, and   *)
(*     each call in progress needs the ones above it);                     *)
(*   - a plan can be executed in its order, and its installations wait for *)
(*     their sources (the plan is a sequence of sections, each of which    *)
(*     depends on itself and on sections before it);                       *)
(*   - a plan is what the executors take it for (PlanContract.tla: each    *)
(*     reads the operations in its own way and looks at no dependency),    *)
(*     if they know all its words;                                         *)
(*   - a plan is accepted when it is validated (the walk is determined by  *)
(*     where it begins, and a selection selects itself again).             *)
(* And what catalog.Load promises of every pair of files (Planning.tla):   *)
(*   - Build can work with whatever it accepts, and files without another  *)
(*     defect are refused for a cycle of profiles only (an inheritance has *)
(*     no cycle when no path upwards meets itself, and the paths end       *)
(*     because there are only so many profiles);                           *)
(*   - so the above holds of every plan of accepted files, of any words    *)
(*     where it does not say that the executors know them, and its         *)
(*     repositories serve the target.                                      *)
(* And Resolve-SetupPlan of the older engine resolves what Build resolves  *)
(* (SetupPlan.tla: its calls end, as the packages are finitely many and a  *)
(* call is refused to its own callers; from every state of the walk they   *)
(* come to the same).                                                      *)
(***************************************************************************)
EXTENDS SetupPlan, PositionLemmas, SequenceTheorems, TLAPS

\* A call in progress, when the packages are P.
Frame(P) == [package: P, next: Nat \ {0}]

InOrder(ord, p) == \E j \in 1..Len(ord) : ord[j] = p

\* Every dependency begun by one of the calls st is in ord, or is the call
\* that it waits for, which for the last of them is a call for p.
Awaiting(deps, st, ord, p) ==
  \A k \in 1..Len(st) : \A n \in 1..(st[k].next - 1) :
    /\ n <= Len(deps[st[k].package])
    /\ \/ InOrder(ord, deps[st[k].package][n])
       \/ /\ n = st[k].next - 1
          /\ deps[st[k].package][n] = IF k < Len(st) THEN st[k + 1].package ELSE p

\* The last of them waits for nothing.
Stacked(deps, st, ord) ==
  \A k \in 1..Len(st) : \A n \in 1..(st[k].next - 1) :
    /\ n <= Len(deps[st[k].package])
    /\ \/ InOrder(ord, deps[st[k].package][n])
       \/ /\ n = st[k].next - 1 /\ k < Len(st)
          /\ deps[st[k].package][n] = st[k + 1].package

Ordered(deps, ord) ==
  \A i \in 1..Len(ord) :
    /\ \A n \in 1..Len(deps[ord[i]]) : \E j \in 1..(i - 1) : ord[j] = deps[ord[i]][n]
    /\ \A j \in 1..(i - 1) : ord[j] # ord[i]

\* The inductive invariant.
WalkInv ==
  /\ catalog.dependencies \in [Packages -> Seq(Packages)]
  /\ stack \in Seq(Frame(Packages)) /\ order \in Seq(Packages)
  /\ phase # "walk" => stack = <<>>
  /\ Stacked(catalog.dependencies, stack, order)
  /\ Ordered(catalog.dependencies, order)

-----------------------------------------------------------------------------
\* A call for p on top of callers that wait for it: nothing is behind it yet.
LEMMA Push ==
  ASSUME NEW P, NEW deps \in [P -> Seq(P)], NEW ord \in Seq(P),
         NEW st \in Seq(Frame(P)), NEW p \in P, Awaiting(deps, st, ord, p)
  PROVE  LET pushed == Append(st, [package |-> p, next |-> 1])
         IN  pushed \in Seq(Frame(P)) /\ Stacked(deps, pushed, ord)
<1> DEFINE call == [package |-> p, next |-> 1]
<1> DEFINE pushed == Append(st, call)
<1>1. call \in Frame(P) /\ call.package = p /\ call.next = 1
  BY DEF Frame
<1>2. /\ pushed \in Seq(Frame(P)) /\ Len(st) \in Nat /\ Len(pushed) = Len(st) + 1
      /\ pushed[Len(st) + 1] = call
      /\ \A k \in 1..Len(st) : pushed[k] = st[k]
  BY <1>1
<1> HIDE DEF call, pushed
<1>3. ASSUME NEW k \in 1..Len(pushed), NEW n \in 1..(pushed[k].next - 1)
      PROVE  /\ n <= Len(deps[pushed[k].package])
             /\ \/ InOrder(ord, deps[pushed[k].package][n])
                \/ /\ n = pushed[k].next - 1 /\ k < Len(pushed)
                   /\ deps[pushed[k].package][n] = pushed[k + 1].package
  <2>1. CASE k = Len(st) + 1
    BY <2>1, <1>1, <1>2
  <2>2. CASE k \in 1..Len(st)
    <3>1. /\ pushed[k] = st[k] /\ k < Len(pushed)
          /\ pushed[k + 1].package = IF k < Len(st) THEN st[k + 1].package ELSE p
      <4>1. CASE k = Len(st)
        BY <4>1, <1>1, <1>2
      <4>2. CASE k < Len(st)
        <5>1. k + 1 \in 1..Len(st)
          BY <2>2, <4>2, <1>2
        <5>2. pushed[k + 1] = st[k + 1]
          BY <5>1, <1>2
        <5> QED
          BY <2>2, <4>2, <5>2, <1>2
      <4> QED
        BY <4>1, <4>2, <2>2, <1>2
    <3> QED
      BY <2>2, <3>1 DEF Awaiting
  <2> QED
    BY <2>1, <2>2, <1>2
<1> QED
  BY <1>2, <1>3 DEF Stacked, pushed, call

\* The last call has nothing left: all it depends on is in the order.
LEMMA Finished ==
  ASSUME NEW P, NEW deps \in [P -> Seq(P)], NEW ord \in Seq(P),
         NEW st \in Seq(Frame(P)), st # <<>>, Stacked(deps, st, ord),
         st[Len(st)].next > Len(deps[st[Len(st)].package])
  PROVE  /\ Len(st) \in Nat \ {0} /\ st[Len(st)].package \in P
         /\ \A n \in 1..Len(deps[st[Len(st)].package]) :
              InOrder(ord, deps[st[Len(st)].package][n])
<1>1. Len(st) \in Nat \ {0} /\ st[Len(st)] \in Frame(P)
  OBVIOUS
<1>2. st[Len(st)].package \in P /\ st[Len(st)].next \in Nat
  BY <1>1 DEF Frame
<1>3. deps[st[Len(st)].package] \in Seq(P)
  BY <1>2
<1>4. \A n \in 1..Len(deps[st[Len(st)].package]) : n \in 1..(st[Len(st)].next - 1)
  BY <1>2, <1>3
<1>5. ASSUME NEW n \in 1..Len(deps[st[Len(st)].package])
      PROVE  InOrder(ord, deps[st[Len(st)].package][n])
  <2>1. Len(st) \in 1..Len(st) /\ ~(Len(st) < Len(st))
    BY <1>1
  <2>2. n \in 1..(st[Len(st)].next - 1)
    BY <1>4
  <2> QED
    BY <2>1, <2>2 DEF Stacked
<1> QED
  BY <1>1, <1>2, <1>5

\* p joins the order, if it is not in it.
Joined(ord, p) == IF InOrder(ord, p) THEN ord ELSE Append(ord, p)

LEMMA Join ==
  ASSUME NEW P, NEW deps \in [P -> Seq(P)], NEW ord \in Seq(P), NEW p \in P,
         Ordered(deps, ord), \A n \in 1..Len(deps[p]) : InOrder(ord, deps[p][n])
  PROVE  /\ Joined(ord, p) \in Seq(P) /\ Ordered(deps, Joined(ord, p))
         /\ InOrder(Joined(ord, p), p)
         /\ \A q : InOrder(ord, q) => InOrder(Joined(ord, p), q)
<1>1. CASE InOrder(ord, p)
  BY <1>1 DEF Joined
<1>2. CASE ~InOrder(ord, p)
  <2> DEFINE longer == Append(ord, p)
  <2>1. /\ Joined(ord, p) = longer /\ longer \in Seq(P)
        /\ Len(ord) \in Nat /\ Len(longer) = Len(ord) + 1
        /\ longer[Len(ord) + 1] = p
        /\ \A i \in 1..Len(ord) : longer[i] = ord[i]
    BY <1>2 DEF Joined
  <2> HIDE DEF longer
  <2>2. ASSUME NEW i \in 1..Len(longer)
        PROVE  /\ \A n \in 1..Len(deps[longer[i]]) :
                    \E j \in 1..(i - 1) : longer[j] = deps[longer[i]][n]
               /\ \A j \in 1..(i - 1) : longer[j] # longer[i]
    <3>1. CASE i = Len(ord) + 1
      <4>1. longer[i] = p /\ i - 1 = Len(ord)
        BY <3>1, <2>1
      <4>2. ASSUME NEW n \in 1..Len(deps[p]) PROVE \E j \in 1..Len(ord) : longer[j] = deps[p][n]
        BY <2>1 DEF InOrder
      <4>3. ASSUME NEW j \in 1..Len(ord) PROVE longer[j] # p
        BY <2>1, <1>2 DEF InOrder
      <4> QED
        BY <4>1, <4>2, <4>3
    <3>2. CASE i \in 1..Len(ord)
      <4>1. longer[i] = ord[i] /\ \A j \in 1..(i - 1) : longer[j] = ord[j]
        BY <3>2, <2>1
      <4>2. ASSUME NEW n \in 1..Len(deps[ord[i]])
            PROVE  \E j \in 1..(i - 1) : longer[j] = deps[ord[i]][n]
        <5>1. PICK j \in 1..(i - 1) : ord[j] = deps[ord[i]][n]
          BY <3>2 DEF Ordered
        <5> QED
          BY <5>1, <4>1
      <4>3. ASSUME NEW j \in 1..(i - 1) PROVE longer[j] # ord[i]
        BY <3>2, <4>1 DEF Ordered
      <4> QED
        BY <4>1, <4>2, <4>3
    <3> QED
      BY <3>1, <3>2, <2>1
  <2>3. Ordered(deps, longer)
    BY <2>2 DEF Ordered
  <2>4. InOrder(longer, p) /\ \A q : InOrder(ord, q) => InOrder(longer, q)
    <3>1. Len(ord) + 1 \in 1..Len(longer) /\ \A i \in 1..Len(ord) : i \in 1..Len(longer)
      BY <2>1
    <3>2. ASSUME NEW q, InOrder(ord, q) PROVE InOrder(longer, q)
      <4>1. PICK j \in 1..Len(ord) : ord[j] = q
        BY <3>2 DEF InOrder
      <4> QED
        BY <4>1, <3>1, <2>1 DEF InOrder
    <3> QED
      BY <2>1, <3>1, <3>2 DEF InOrder
  <2> QED
    BY <2>1, <2>3, <2>4
<1> QED
  BY <1>1, <1>2

\* The last call returns to a caller that waited for it.
LEMMA Pop ==
  ASSUME NEW P, NEW deps \in [P -> Seq(P)], NEW ord \in Seq(P), NEW longer \in Seq(P),
         NEW st \in Seq(Frame(P)), st # <<>>, Stacked(deps, st, ord),
         InOrder(longer, st[Len(st)].package),
         \A q : InOrder(ord, q) => InOrder(longer, q)
  PROVE  Front(st) \in Seq(Frame(P)) /\ Stacked(deps, Front(st), longer)
<1> DEFINE rest == Front(st)
<1>1. /\ rest \in Seq(Frame(P)) /\ Len(st) \in Nat \ {0} /\ Len(rest) = Len(st) - 1
      /\ \A k \in 1..(Len(st) - 1) : rest[k] = st[k]
  <2> DEFINE m == Len(st) - 1
  <2>1. Len(st) \in Nat \ {0} /\ 1 \in Int /\ m \in Int /\ \A i \in 1..m : st[i] \in Frame(P)
    OBVIOUS
  <2>2. rest = SubSeq(st, 1, m)
    BY DEF Front
  <2>3. /\ SubSeq(st, 1, m) \in Seq(Frame(P))
        /\ Len(SubSeq(st, 1, m)) = IF 1 <= m THEN m - 1 + 1 ELSE 0
        /\ \A i \in 1..(m - 1 + 1) : SubSeq(st, 1, m)[i] = st[1 + i - 1]
    <3> HIDE DEF m
    <3> QED
      BY <2>1, SubSeqProperties, SMTT(30)
  <2>4. /\ Len(SubSeq(st, 1, m)) = m
        /\ \A i \in 1..m : SubSeq(st, 1, m)[i] = st[i]
    <3>1. m \in Nat /\ m - 1 + 1 = m /\ \A i \in 1..m : 1 + i - 1 = i
      BY <2>1
    <3> QED
      BY <2>3, <3>1
  <2> QED
    BY <2>1, <2>2, <2>3, <2>4
<1> HIDE DEF rest
<1>2. ASSUME NEW k \in 1..Len(rest), NEW n \in 1..(rest[k].next - 1)
      PROVE  /\ n <= Len(deps[rest[k].package])
             /\ \/ InOrder(longer, deps[rest[k].package][n])
                \/ /\ n = rest[k].next - 1 /\ k < Len(rest)
                   /\ deps[rest[k].package][n] = rest[k + 1].package
  <2>0. k \in 1..(Len(st) - 1)
    BY <1>1
  <2>1. k \in 1..Len(st) /\ k \in 1..(Len(st) - 1) /\ rest[k] = st[k]
    BY <2>0, <1>1
  <2>2. /\ n <= Len(deps[st[k].package])
        /\ \/ InOrder(ord, deps[st[k].package][n])
           \/ n = st[k].next - 1 /\ deps[st[k].package][n] = st[k + 1].package
    BY <2>1 DEF Stacked
  <2>3. CASE k = Len(rest)
    BY <2>1, <2>2, <2>3, <1>1
  <2>4. CASE k < Len(rest)
    <3>1. k + 1 \in 1..(Len(st) - 1)
      BY <2>1, <2>4, <1>1
    <3>2. rest[k + 1] = st[k + 1]
      BY <3>1, <1>1
    <3> QED
      BY <2>1, <2>2, <2>4, <3>2
  <2> QED
    BY <2>3, <2>4, <2>1, <1>1
<1> QED
  BY <1>1, <1>2 DEF Stacked, rest

-----------------------------------------------------------------------------
\* Every catalog considered gives each package a list of known packages.
LEMMA InitialWalk == Init => WalkInv
<1> SUFFICES ASSUME Init PROVE WalkInv
    OBVIOUS
<1>1. catalog.dependencies \in [Packages -> Seq(Packages)]
  BY CatalogsAssumption DEF Init, CatalogOK, Packages
<1> QED
  BY <1>1 DEF Init, WalkInv, Stacked, Ordered

\* addPackage for the first package of a selection.
LEMMA VisitKeepsWalk == WalkInv /\ Visit => WalkInv'
<1> SUFFICES ASSUME WalkInv, Visit PROVE WalkInv'
    OBVIOUS
<1> DEFINE p == Head(roots)
<1>1. CASE stack' = <<>>
  BY <1>1 DEF WalkInv, Visit, Stacked, Packages
<1>2. CASE /\ p \in Packages /\ stack' = Append(<<>>, [package |-> p, next |-> 1])
           /\ UNCHANGED phase
  <2>1. <<>> \in Seq(Frame(Packages)) /\ Awaiting(catalog.dependencies, <<>>, order, p)
    BY DEF Awaiting
  <2>2. stack' \in Seq(Frame(Packages)) /\ Stacked(catalog.dependencies, stack', order)
    BY <1>2, <2>1, Push DEF WalkInv
  <2> QED
    BY <1>2, <2>2 DEF WalkInv, Visit, Packages
<1> QED
  BY <1>1, <1>2 DEF Visit, Enter

\* addPackage for the next dependency.
LEMMA DescendKeepsWalk == WalkInv /\ Descend => WalkInv'
<1> SUFFICES ASSUME WalkInv, Descend PROVE WalkInv'
    OBVIOUS
<1> DEFINE L == Len(stack)
<1> DEFINE deps == catalog.dependencies
<1> DEFINE callers == [stack EXCEPT ![L].next = @ + 1]
<1> DEFINE p == deps[Top.package][Top.next]
<1>1. CASE stack' = <<>>
  BY <1>1 DEF WalkInv, Descend, Stacked, Packages
<1>2. CASE /\ p \in Packages /\ stack' = Append(callers, [package |-> p, next |-> 1])
           /\ UNCHANGED phase
  <2>1. L \in Nat \ {0} /\ stack \in Seq(Frame(Packages)) /\ stack[L] \in Frame(Packages)
    BY DEF WalkInv, Descend
  <2>2. /\ Top = stack[L] /\ Top.package \in Packages /\ Top.next \in Nat \ {0}
        /\ deps[Top.package] \in Seq(Packages) /\ Top.next <= Len(deps[Top.package])
    BY <2>1 DEF WalkInv, Descend, Pending, Top, Frame
  <2>3. [stack[L] EXCEPT !.next = @ + 1] \in Frame(Packages)
    BY <2>1 DEF Frame
  <2>4. /\ callers \in Seq(Frame(Packages)) /\ Len(callers) = L
        /\ callers[L].package = Top.package /\ callers[L].next = Top.next + 1
        /\ \A k \in 1..(L - 1) : callers[k] = stack[k]
        /\ \A k \in 1..L : callers[k].package = stack[k].package
    BY <2>1, <2>2, <2>3 DEF Frame
  <2> HIDE DEF callers
  <2>5. ASSUME NEW k \in 1..L, NEW n \in 1..(callers[k].next - 1)
        PROVE  /\ n <= Len(deps[callers[k].package])
               /\ \/ InOrder(order, deps[callers[k].package][n])
                  \/ /\ n = callers[k].next - 1
                     /\ deps[callers[k].package][n] =
                          IF k < L THEN callers[k + 1].package ELSE p
    <3>1. CASE k = L
      <4>1. n \in 1..Top.next /\ ~(k < L) /\ k \in 1..L
        BY <3>1, <2>1, <2>2, <2>4
      <4>2. CASE n = Top.next
        BY <3>1, <4>1, <4>2, <2>2, <2>4
      <4>3. CASE n # Top.next
        <5>1. n \in 1..(stack[k].next - 1)
          BY <3>1, <4>1, <4>3, <2>2
        <5>2. n <= Len(deps[stack[k].package]) /\ InOrder(order, deps[stack[k].package][n])
          BY <3>1, <4>1, <5>1 DEF WalkInv, Stacked
        <5> QED
          BY <3>1, <2>2, <2>4, <5>2
      <4> QED
        BY <4>2, <4>3
    <3>2. CASE k \in 1..(L - 1)
      <4>1. k + 1 \in 1..L /\ k < L /\ callers[k] = stack[k]
            /\ callers[k + 1].package = stack[k + 1].package
        BY <3>2, <2>1, <2>4
      <4> QED
        BY <4>1 DEF WalkInv, Stacked
    <3> QED
      BY <3>1, <3>2, <2>1
  <2>6. Awaiting(deps, callers, order, p)
    BY <2>4, <2>5 DEF Awaiting
  <2>7. stack' \in Seq(Frame(Packages)) /\ Stacked(deps, stack', order)
    BY <1>2, <2>4, <2>6, Push DEF WalkInv
  <2> QED
    BY <1>2, <2>7 DEF WalkInv, Descend, Packages
<1> QED
  BY <1>1, <1>2 DEF Descend, Enter

\* addPackage returns.
LEMMA ReturnKeepsWalk == WalkInv /\ Return => WalkInv'
<1> SUFFICES ASSUME WalkInv, Return PROVE WalkInv'
    OBVIOUS
<1> DEFINE deps == catalog.dependencies
<1>1. /\ deps \in [Packages -> Seq(Packages)] /\ order \in Seq(Packages)
      /\ stack \in Seq(Frame(Packages)) /\ stack # <<>>
      /\ Stacked(deps, stack, order) /\ Ordered(deps, order)
  BY DEF WalkInv, Return
<1>2. stack[Len(stack)] \in Frame(Packages)
  BY <1>1
<1>3. Top.next > Len(deps[Top.package])
  BY <1>1, <1>2 DEF Return, Pending, Top, Frame
<1>4. Top.package \in Packages /\ \A n \in 1..Len(deps[Top.package]) : InOrder(order, deps[Top.package][n])
  BY <1>1, <1>3, Finished DEF Top
<1>5. order' = Joined(order, Top.package)
  BY DEF Return, Joined, InOrder, Contains
<1>6. /\ order' \in Seq(Packages) /\ Ordered(deps, order') /\ InOrder(order', Top.package)
      /\ \A q : InOrder(order, q) => InOrder(order', q)
  BY <1>1, <1>4, <1>5, Join
<1>7. Front(stack) \in Seq(Frame(Packages)) /\ Stacked(deps, Front(stack), order')
  BY <1>1, <1>6, Pop DEF Top
<1> QED
  BY <1>6, <1>7 DEF WalkInv, Return, Packages

LEMMA WalkStep == WalkInv /\ [Next]_vars => WalkInv'
<1> SUFFICES ASSUME WalkInv, [Next]_vars PROVE WalkInv'
    OBVIOUS
<1>1. CASE Select
  <2>1. order' = <<>> /\ stack' = <<>> /\ UNCHANGED catalog
    BY <1>1 DEF Select, WalkInv
  <2> QED
    BY <2>1 DEF WalkInv, Stacked, Ordered, Packages
<1>2. CASE Visit
  BY <1>2, VisitKeepsWalk
<1>3. CASE Descend
  BY <1>3, DescendKeepsWalk
<1>4. CASE Return
  BY <1>4, ReturnKeepsWalk
<1>5. CASE Assemble
  BY <1>5 DEF Assemble, WalkInv, Packages
<1>6. CASE Validate
  BY <1>6 DEF Validate, WalkInv, Packages
<1>7. CASE Compare
  BY <1>7 DEF Compare, WalkInv, Packages
<1>8. CASE UNCHANGED vars
  BY <1>8 DEF vars, WalkInv, Packages
<1> QED
  BY <1>1, <1>2, <1>3, <1>4, <1>5, <1>6, <1>7, <1>8 DEF Next

\* In every state of the walk.
LEMMA OrderedNow == WalkInv => OrderRespectsDependencies
<1> SUFFICES ASSUME WalkInv, NEW i \in DOMAIN order
             PROVE  /\ \A d \in ToSet(catalog.dependencies[order[i]]) : \E j \in 1..(i - 1) : order[j] = d
                    /\ \A j \in 1..(i - 1) : order[j] # order[i]
  BY DEF OrderRespectsDependencies
<1>1. i \in 1..Len(order) /\ order[i] \in Packages
  BY DEF WalkInv
<1>2. DOMAIN catalog.dependencies[order[i]] = 1..Len(catalog.dependencies[order[i]])
  BY <1>1 DEF WalkInv
<1>3. Ordered(catalog.dependencies, order)
  BY DEF WalkInv
<1>4. ASSUME NEW d \in ToSet(catalog.dependencies[order[i]])
      PROVE  \E j \in 1..(i - 1) : order[j] = d
  <2>1. PICK n \in 1..Len(catalog.dependencies[order[i]]) : d = catalog.dependencies[order[i]][n]
    BY <1>2 DEF ToSet
  <2> QED
    BY <2>1, <1>1, <1>3 DEF Ordered
<1> QED
  BY <1>1, <1>3, <1>4 DEF Ordered

\* For every catalog that Load accepts and every request, a package stands in
\* the order after everything it depends on, and once (planner.go:152-167).
THEOREM WalkOrders == Spec => []OrderRespectsDependencies
BY OrderedNow, InitialWalk, WalkStep, PTL DEF Spec

-----------------------------------------------------------------------------
(* Unique: the first occurrences, in order.                                *)

\* What the last value of s adds to the values before it.
Added(s) == IF Contains(Front(s), Last(s)) THEN <<>> ELSE <<Last(s)>>

Short(S, n) == {s \in Seq(S) : Len(s) <= n}

\* g is the recursive function of Unique, for the sequences of D.
Uniquing(D, g) == g = [s \in D |-> IF s = <<>> THEN <<>> ELSE g[Front(s)] \o Added(s)]

LEMMA ShortFront ==
  ASSUME NEW S, NEW n \in Nat, NEW s \in Short(S, n), s # <<>>
  PROVE  n # 0 /\ Front(s) \in Short(S, n - 1) /\ Front(s) \in Short(S, n)
<1>1. s \in Seq(S) /\ Len(s) <= n
  BY DEF Short
<1>2. Len(s) \in Nat \ {0} /\ Front(s) \in Seq(S) /\ Len(Front(s)) = Len(s) - 1
  BY <1>1, FrontProperties
<1> QED BY <1>1, <1>2 DEF Short

LEMMA UniquingExists ==
  ASSUME NEW S, NEW n \in Nat
  PROVE  \E g : Uniquing(Short(S, n), g)
<1> DEFINE Exists(m) == \E g : Uniquing(Short(S, m), g)
           bad == {m \in 1..n : ~Exists(m)}
<1>1. Exists(0)
  <2> DEFINE g == [s \in Short(S, 0) |-> <<>>]
  <2>1. \A s \in Short(S, 0) : s = <<>>
    BY ShortFront
  <2>2. g = [s \in Short(S, 0) |-> IF s = <<>> THEN <<>> ELSE g[Front(s)] \o Added(s)]
    BY <2>1
  <2>3. Uniquing(Short(S, 0), g)
    BY <2>2 DEF Uniquing
  <2> QED BY <2>3
<1>2. ASSUME NEW m \in Nat \ {0}, Exists(m - 1) PROVE Exists(m)
  <2>1. PICK h : Uniquing(Short(S, m - 1), h)
    BY <1>2
  <2> DEFINE g == [s \in Short(S, m) |-> IF s = <<>> THEN <<>> ELSE h[Front(s)] \o Added(s)]
  <2>2. ASSUME NEW s \in Short(S, m - 1) PROVE s \in Short(S, m) /\ g[s] = h[s]
    <3>1. s \in Short(S, m)
      BY DEF Short
    <3>2. h[s] = IF s = <<>> THEN <<>> ELSE h[Front(s)] \o Added(s)
      BY <2>1 DEF Uniquing
    <3> QED BY <3>1, <3>2
  <2>3. ASSUME NEW s \in Short(S, m), s # <<>> PROVE g[Front(s)] = h[Front(s)]
    <3>1. Front(s) \in Short(S, m - 1)
      BY <2>3, ShortFront
    <3> HIDE DEF g
    <3> QED BY <3>1, <2>2
  <2>4. g = [s \in Short(S, m) |-> IF s = <<>> THEN <<>> ELSE g[Front(s)] \o Added(s)]
    <3> DEFINE k == [s \in Short(S, m) |-> IF s = <<>> THEN <<>> ELSE g[Front(s)] \o Added(s)]
    <3>1. ASSUME NEW s \in Short(S, m) PROVE g[s] = k[s]
      <4>1. CASE s = <<>>
        BY <4>1
      <4>2. CASE s # <<>>
        <5>1. g[s] = h[Front(s)] \o Added(s) /\ k[s] = g[Front(s)] \o Added(s)
          BY <4>2
        <5> HIDE DEF g, k
        <5> QED BY <5>1, <2>3, <4>2
      <4> QED BY <4>1, <4>2
    <3>2. g = [s \in Short(S, m) |-> g[s]] /\ k = [s \in Short(S, m) |-> k[s]]
      OBVIOUS
    <3> HIDE DEF g, k
    <3>3. g = k
      BY <3>1, <3>2
    <3> QED BY <3>3 DEF k
  <2>5. Uniquing(Short(S, m), g)
    <3> HIDE DEF g
    <3> QED BY <2>4 DEF Uniquing
  <2> QED BY <2>5
<1> HIDE DEF Exists
<1>3. bad = {}
  <2> SUFFICES ASSUME bad # {} PROVE FALSE
    OBVIOUS
  <2> DEFINE m == Min(bad)
  <2>1. m \in bad /\ \A j \in bad : m <= j
    <3>1. bad \in SUBSET (1..n)
      OBVIOUS
    <3> HIDE DEF bad
    <3> QED BY <3>1, FirstPosition
  <2>2. m \in 1..n /\ ~Exists(m)
    BY <2>1
  <2> HIDE DEF m
  <2>3. m \in Nat \ {0} /\ m - 1 \in Nat /\ (m - 1 = 0 \/ m - 1 \in 1..n) /\ m - 1 < m
    BY <2>2
  <2>4. m - 1 \notin bad
    <3> HIDE DEF bad
    <3> QED BY <2>1, <2>3
  <2>5. Exists(m - 1)
    BY <1>1, <2>3, <2>4
  <2> QED BY <1>2, <2>2, <2>3, <2>5
<1>4. n = 0 \/ n \in 1..n
  OBVIOUS
<1>5. Exists(n)
  BY <1>1, <1>3, <1>4
<1> QED BY <1>5 DEF Exists

\* Two of them agree where both are defined.
LEMMA UniquingAgrees ==
  ASSUME NEW S, NEW m \in Nat, NEW n \in Nat, m <= n,
         NEW g, Uniquing(Short(S, m), g), NEW h, Uniquing(Short(S, n), h)
  PROVE  \A s \in Short(S, m) : s \in Short(S, n) /\ g[s] = h[s]
<1> SUFFICES ASSUME NEW s \in Short(S, m) PROVE s \in Short(S, n) /\ g[s] = h[s]
  OBVIOUS
<1> DEFINE Agree(l) == \A t \in Short(S, l) : t \in Short(S, m) => g[t] = h[t]
           bad == {l \in 1..m : ~Agree(l)}
<1>1. \A t \in Short(S, m) : t \in Short(S, n)
  BY DEF Short
<1>2. \A t \in Short(S, m) :
        /\ g[t] = IF t = <<>> THEN <<>> ELSE g[Front(t)] \o Added(t)
        /\ h[t] = IF t = <<>> THEN <<>> ELSE h[Front(t)] \o Added(t)
  BY <1>1 DEF Uniquing
<1>3. Agree(0)
  BY <1>2, ShortFront
<1>4. ASSUME NEW l \in Nat \ {0}, Agree(l - 1) PROVE Agree(l)
  <2> SUFFICES ASSUME NEW t \in Short(S, l), t \in Short(S, m) PROVE g[t] = h[t]
    OBVIOUS
  <2>1. t # <<>> => Front(t) \in Short(S, l - 1) /\ Front(t) \in Short(S, m)
    BY ShortFront
  <2> QED BY <1>2, <1>4, <2>1
<1> HIDE DEF Agree
<1>5. bad = {}
  <2> SUFFICES ASSUME bad # {} PROVE FALSE
    OBVIOUS
  <2> DEFINE l == Min(bad)
  <2>1. l \in bad /\ \A j \in bad : l <= j
    <3>1. bad \in SUBSET (1..m)
      OBVIOUS
    <3> HIDE DEF bad
    <3> QED BY <3>1, FirstPosition
  <2>2. l \in 1..m /\ ~Agree(l)
    BY <2>1
  <2> HIDE DEF l
  <2>3. l \in Nat \ {0} /\ l - 1 \in Nat /\ (l - 1 = 0 \/ l - 1 \in 1..m) /\ l - 1 < l
    BY <2>2
  <2>4. l - 1 \notin bad
    <3> HIDE DEF bad
    <3> QED BY <2>1, <2>3
  <2>5. Agree(l - 1)
    BY <1>3, <2>3, <2>4
  <2> QED BY <1>4, <2>2, <2>3, <2>5
<1>6. m = 0 \/ m \in 1..m
  OBVIOUS
<1>7. Agree(m)
  BY <1>3, <1>5, <1>6
<1> QED BY <1>1, <1>7 DEF Agree

\* The recursive function of Unique exists.
LEMMA UniqueRecursion ==
  ASSUME NEW S
  PROVE  \E f : Uniquing(Seq(S), f)
<1> DEFINE Table(n) == CHOOSE g : Uniquing(Short(S, n), g)
           f == [s \in Seq(S) |-> Table(Len(s))[s]]
<1>1. \A n \in Nat : Uniquing(Short(S, n), Table(n))
  BY UniquingExists
<1> HIDE DEF Table
<1>2. ASSUME NEW s \in Seq(S)
      PROVE  f[s] = IF s = <<>> THEN <<>> ELSE f[Front(s)] \o Added(s)
  <2>1. Len(s) \in Nat /\ s \in Short(S, Len(s)) /\ f[s] = Table(Len(s))[s]
    BY DEF Short
  <2>2. Table(Len(s))[s] = IF s = <<>> THEN <<>> ELSE Table(Len(s))[Front(s)] \o Added(s)
    BY <1>1, <2>1 DEF Uniquing
  <2>3. CASE s = <<>>
    BY <2>1, <2>2, <2>3
  <2>4. CASE s # <<>>
    <3>0. Front(s) \in Seq(S) /\ Len(Front(s)) \in Nat /\ Len(Front(s)) <= Len(s)
      <4> HIDE DEF f
      <4> QED BY <2>4, FrontProperties
    <3>1. /\ Front(s) \in Seq(S) /\ Len(Front(s)) \in Nat /\ Len(Front(s)) <= Len(s)
          /\ f[Front(s)] = Table(Len(Front(s)))[Front(s)]
      BY <3>0
    <3>2. Front(s) \in Short(S, Len(Front(s)))
      BY <3>1 DEF Short
    <3>3. Table(Len(Front(s)))[Front(s)] = Table(Len(s))[Front(s)]
      <4> HIDE DEF f
      <4>1. Uniquing(Short(S, Len(Front(s))), Table(Len(Front(s)))) /\ Uniquing(Short(S, Len(s)), Table(Len(s)))
        BY <1>1, <2>1, <3>1
      <4> QED BY <2>1, <3>1, <3>2, <4>1, UniquingAgrees
    <3> QED BY <2>1, <2>2, <2>4, <3>1, <3>3
  <2> QED BY <2>3, <2>4
<1>3. f = [s \in Seq(S) |-> IF s = <<>> THEN <<>> ELSE f[Front(s)] \o Added(s)]
  <2> DEFINE k == [s \in Seq(S) |-> IF s = <<>> THEN <<>> ELSE f[Front(s)] \o Added(s)]
  <2>1. \A s \in Seq(S) : f[s] = k[s]
    <3> HIDE DEF f
    <3> QED BY <1>2
  <2>2. f = [s \in Seq(S) |-> f[s]] /\ k = [s \in Seq(S) |-> k[s]]
    OBVIOUS
  <2> HIDE DEF f, k
  <2>3. f = k
    BY <2>1, <2>2
  <2> QED BY <2>3 DEF k
<1> HIDE DEF f
<1> QED BY <1>3 DEF Uniquing

\* u lists the values of s, each at its first position: from[k] is the k-th's.
Firsts(s, u, from) ==
  /\ from \in [1..Len(u) -> 1..Len(s)]
  /\ \A k \in 1..Len(u) : u[k] = s[from[k]]
  /\ \A k, l \in 1..Len(u) : k < l => from[k] < from[l] /\ u[k] # u[l]
  /\ \A i \in 1..Len(s) : \E k \in 1..Len(u) : u[k] = s[i] /\ from[k] <= i

LEMMA FirstsGrow ==
  ASSUME NEW S, NEW s \in Seq(S), s # <<>>,
         NEW u \in Seq(S), NEW from, Firsts(Front(s), u, from)
  PROVE  u \o Added(s) \in Seq(S) /\ \E f : Firsts(s, u \o Added(s), f)
<1> DEFINE n == Len(s)
           r == Front(s)
           L == Len(u)
<1>1. /\ n \in Nat \ {0} /\ Last(s) = s[n] /\ s[n] \in S /\ r \in Seq(S) /\ Len(r) = n - 1
      /\ L \in Nat /\ \A i \in 1..(n - 1) : r[i] = s[i]
  BY FrontProperties
<1> HIDE DEF n, r, L
<1>2. /\ from \in [1..L -> 1..(n - 1)]
      /\ \A k \in 1..L : u[k] = r[from[k]]
      /\ \A k, l \in 1..L : k < l => from[k] < from[l] /\ u[k] # u[l]
      /\ \A i \in 1..(n - 1) : \E k \in 1..L : u[k] = r[i] /\ from[k] <= i
  BY <1>1 DEF Firsts, r, L
<1>3. \A k \in 1..L : from[k] \in 1..(n - 1) /\ from[k] \in 1..n /\ from[k] < n /\ u[k] = s[from[k]]
  <2>1. \A k \in 1..L : from[k] \in 1..(n - 1)
    BY <1>2
  <2>2. \A i \in 1..(n - 1) : i \in 1..n /\ i < n
    BY <1>1
  <2> QED BY <1>1, <1>2, <2>1, <2>2
<1>4. Contains(r, s[n]) <=> \E i \in 1..(n - 1) : s[i] = s[n]
  BY <1>1 DEF Contains
<1>5. CASE Contains(r, s[n])
  <2>1. u \o Added(s) = u
    BY <1>1, <1>5 DEF Added, r
  <2>2. ASSUME NEW i \in 1..n PROVE \E k \in 1..L : u[k] = s[i] /\ from[k] <= i
    <3>1. CASE i = n
      <4>1. PICK j \in 1..(n - 1) : s[j] = s[n]
        BY <1>4, <1>5
      <4>2. PICK k \in 1..L : u[k] = r[j] /\ from[k] <= j
        BY <1>2
      <4>3. from[k] <= n
        BY <1>1, <1>3
      <4> QED BY <1>1, <3>1, <4>1, <4>2, <4>3
    <3>2. CASE i # n
      <4>1. i \in 1..(n - 1)
        BY <1>1, <3>2
      <4> QED BY <1>1, <1>2, <4>1
    <3> QED BY <3>1, <3>2
  <2>3. from \in [1..L -> 1..n]
    BY <1>2, <1>3
  <2>4. Firsts(s, u, from)
    BY <1>2, <1>3, <2>2, <2>3 DEF Firsts, n, L
  <2> QED BY <2>1, <2>4
<1>6. CASE ~Contains(r, s[n])
  <2> DEFINE v == u \o <<s[n]>>
             f == [k \in 1..Len(v) |-> IF k <= L THEN from[k] ELSE n]
  <2>1. u \o Added(s) = v
    BY <1>1, <1>6 DEF Added, r
  <2>2. /\ v \in Seq(S) /\ Len(v) = L + 1 /\ v[L + 1] = s[n]
        /\ \A k \in 1..L : v[k] = u[k]
    BY <1>1 DEF L
  <2> HIDE DEF v
  <2>3. /\ \A k \in 1..L : k \in 1..Len(v) /\ f[k] = from[k] /\ v[k] = u[k] /\ f[k] \in 1..(n - 1)
        /\ f[L + 1] = n /\ L + 1 \in 1..Len(v) /\ n \in 1..n
        /\ \A k \in 1..Len(v) : k \in 1..L \/ k = L + 1
    <3>1. \A k \in 1..L : k \in 1..Len(v) /\ k <= L
      BY <1>1, <2>2
    <3>2. L + 1 \in 1..Len(v) /\ ~(L + 1 <= L) /\ n \in 1..n /\ \A k \in 1..Len(v) : k \in 1..L \/ k = L + 1
      BY <1>1, <2>2
    <3>3. \A k \in 1..L : f[k] = from[k]
      BY <3>1
    <3>4. f[L + 1] = n
      BY <3>2
    <3> HIDE DEF f
    <3> QED BY <1>3, <2>2, <3>1, <3>2, <3>3, <3>4
  <2>4. f \in [1..Len(v) -> 1..n]
    <3>1. \A k \in 1..Len(v) : f[k] \in 1..n
      <4> HIDE DEF f
      <4> QED BY <1>3, <2>3
    <3>2. f = [k \in 1..Len(v) |-> f[k]]
      OBVIOUS
    <3> HIDE DEF f
    <3> QED BY <3>1, <3>2
  <2> HIDE DEF f
  <2>5. \A k \in 1..Len(v) : v[k] = s[f[k]]
    BY <1>3, <2>2, <2>3
  <2>6. ASSUME NEW k \in 1..Len(v), NEW l \in 1..Len(v), k < l
        PROVE  f[k] < f[l] /\ v[k] # v[l]
    <3>1. k \in 1..L
      BY <1>1, <2>2, <2>6
    <3>2. CASE l \in 1..L
      BY <1>2, <2>3, <2>6, <3>1, <3>2
    <3>3. CASE l = L + 1
      <4>1. f[k] \in 1..(n - 1) /\ f[l] = n /\ v[l] = s[n] /\ v[k] = s[f[k]]
        BY <1>3, <2>2, <2>3, <3>1, <3>3
      <4>2. s[f[k]] # s[n]
        BY <1>4, <1>6, <4>1
      <4> QED BY <1>1, <4>1, <4>2
    <3> QED BY <2>3, <3>2, <3>3
  <2>7. ASSUME NEW i \in 1..n PROVE \E k \in 1..Len(v) : v[k] = s[i] /\ f[k] <= i
    <3>1. CASE i = n
      <4>1. v[L + 1] = s[i] /\ f[L + 1] <= i /\ L + 1 \in 1..Len(v)
        BY <1>1, <2>2, <2>3, <3>1
      <4> QED BY <4>1
    <3>2. CASE i # n
      <4>1. i \in 1..(n - 1)
        BY <1>1, <3>2
      <4>2. PICK k \in 1..L : u[k] = r[i] /\ from[k] <= i
        BY <1>2, <4>1
      <4> QED BY <1>1, <2>3, <4>1, <4>2
    <3> QED BY <3>1, <3>2
  <2>8. Firsts(s, v, f)
    BY <2>4, <2>5, <2>6, <2>7 DEF Firsts, n
  <2> QED BY <2>1, <2>2, <2>8
<1> QED BY <1>5, <1>6

LEMMA UniquingFirsts ==
  ASSUME NEW S, NEW g, Uniquing(Seq(S), g), NEW s \in Seq(S)
  PROVE  g[s] \in Seq(S) /\ \E f : Firsts(s, g[s], f)
<1> DEFINE n == Len(s)
           Good(m) == \A t \in Seq(S) : Len(t) = m => g[t] \in Seq(S) /\ \E f : Firsts(t, g[t], f)
           bad == {m \in 1..n : ~Good(m)}
<1>1. n \in Nat
  OBVIOUS
<1>2. \A t \in Seq(S) : g[t] = IF t = <<>> THEN <<>> ELSE g[Front(t)] \o Added(t)
  BY DEF Uniquing
<1>3. Good(0)
  <2> SUFFICES ASSUME NEW t \in Seq(S), Len(t) = 0
               PROVE  g[t] \in Seq(S) /\ \E f : Firsts(t, g[t], f)
    OBVIOUS
  <2> DEFINE none == [i \in 1..0 |-> 1]
  <2>0. t = <<>>
    OBVIOUS
  <2>1a. g[t] = <<>>
    BY <1>2, <2>0
  <2>1b. <<>> \in Seq(S) /\ Len(<<>>) = 0
    BY EmptySeq
  <2>1c. none \in [1..0 -> 1..0]
    OBVIOUS
  <2>1. g[t] = <<>> /\ <<>> \in Seq(S) /\ Len(<<>>) = 0 /\ none \in [1..0 -> 1..0]
    BY <2>1a, <2>1b, <2>1c
  <2>2. Firsts(t, <<>>, none)
    BY <2>1 DEF Firsts
  <2> QED BY <2>1, <2>2
<1>4. ASSUME NEW m \in Nat \ {0}, Good(m - 1) PROVE Good(m)
  <2> SUFFICES ASSUME NEW t \in Seq(S), Len(t) = m
               PROVE  g[t] \in Seq(S) /\ \E f : Firsts(t, g[t], f)
    OBVIOUS
  <2>1. t # <<>>
    BY <1>4
  <2>2. Front(t) \in Seq(S) /\ Len(Front(t)) = m - 1
    BY <2>1, FrontProperties
  <2>3. g[Front(t)] \in Seq(S) /\ \E f : Firsts(Front(t), g[Front(t)], f)
    BY <1>4, <2>2
  <2> DEFINE u == g[Front(t)]
             longer == u \o Added(t)
  <2>4. g[t] = longer
    BY <1>2, <2>1
  <2>5. u \in Seq(S) /\ \E f : Firsts(Front(t), u, f)
    BY <2>3
  <2> HIDE DEF u
  <2>6. longer \in Seq(S) /\ \E f : Firsts(t, longer, f)
    BY <2>1, <2>5, FirstsGrow
  <2> HIDE DEF longer
  <2> QED BY <2>4, <2>6
<1> HIDE DEF Good, n
<1>5. bad = {}
  <2> SUFFICES ASSUME bad # {} PROVE FALSE
    OBVIOUS
  <2> DEFINE m == Min(bad)
  <2>1. m \in bad /\ \A j \in bad : m <= j
    <3>1. bad \in SUBSET (1..n)
      OBVIOUS
    <3> HIDE DEF bad
    <3> QED BY <1>1, <3>1, FirstPosition
  <2>2. m \in 1..n /\ ~Good(m)
    BY <2>1
  <2> HIDE DEF m
  <2>3. m \in Nat \ {0} /\ m - 1 \in Nat /\ (m - 1 = 0 \/ m - 1 \in 1..n) /\ m - 1 < m
    BY <1>1, <2>2
  <2>4. m - 1 \notin bad
    <3> HIDE DEF bad
    <3> QED BY <2>1, <2>3
  <2>5. Good(m - 1)
    BY <1>3, <2>3, <2>4
  <2> QED BY <1>4, <2>2, <2>3, <2>5
<1>6. n = 0 \/ n \in 1..n
  BY <1>1
<1>7. Good(n)
  BY <1>3, <1>5, <1>6
<1> QED BY <1>7 DEF Good, n

\* What appendUnique leaves: the values of all lists, at their first positions.
LEMMA UniqueValues ==
  ASSUME NEW S, NEW lists \in Seq(Seq(S))
  PROVE  /\ FlattenSeq(lists) \in Seq(S) /\ Unique(lists) \in Seq(S)
         /\ \E f : Firsts(FlattenSeq(lists), Unique(lists), f)
<1> DEFINE values == FlattenSeq(lists)
           D == ToSet(values)
           g == CHOOSE g : Uniquing(Seq(D), g)
<1>1. values \in Seq(S)
  BY FlattenLayout
<1> HIDE DEF values
<1>2. values \in Seq(D) /\ D \subseteq S
  BY <1>1 DEF ToSet
<1>3. Uniquing(Seq(D), g)
  BY UniqueRecursion
<1>4. Unique(lists) = g[values]
  BY DEF Unique, Uniquing, Added, values
<1> HIDE DEF g
<1>5. g[values] \in Seq(D) /\ \E f : Firsts(values, g[values], f)
  BY <1>2, <1>3, UniquingFirsts
<1>6. g[values] \in Seq(S)
  BY <1>2, <1>5
<1> QED BY <1>1, <1>4, <1>5, <1>6 DEF values

-----------------------------------------------------------------------------
(* Lineage: a recursion over the profiles.                                 *)

\* The profiles of D and what they inherit from.
Upward(ext, D) == \A p \in D : ToSet(ext[p]) \subseteq D

\* g is the recursive function of Lineage, for the profiles of D.
Ascending(ext, D, g) ==
  g = [p \in D |-> Append(FlattenSeq([k \in DOMAIN ext[p] |-> g[ext[p][k]]]), p)]

Acyclic(ext, P) ==
  \A some \in SUBSET P : some # {} => \E p \in some : ToSet(ext[p]) \cap some = {}

LEMMA AscendingAgrees ==
  ASSUME NEW P, NEW ext, Acyclic(ext, P),
         NEW D \in SUBSET P, Upward(ext, D), NEW g, Ascending(ext, D, g),
         NEW E \in SUBSET P, Upward(ext, E), NEW h, Ascending(ext, E, h)
  PROVE  \A p \in D \cap E : g[p] = h[p]
<1> DEFINE bad == {p \in D \cap E : g[p] # h[p]}
<1> SUFFICES ASSUME bad # {} PROVE FALSE
  OBVIOUS
<1>1. bad \in SUBSET P
  OBVIOUS
<1>2. PICK p \in bad : ToSet(ext[p]) \cap bad = {}
  BY <1>1 DEF Acyclic
<1>3. p \in D /\ p \in E /\ ToSet(ext[p]) \subseteq D /\ ToSet(ext[p]) \subseteq E
  BY DEF Upward
<1>4. \A k \in DOMAIN ext[p] : ext[p][k] \in ToSet(ext[p])
  BY DEF ToSet
<1>5. \A k \in DOMAIN ext[p] : g[ext[p][k]] = h[ext[p][k]]
  BY <1>2, <1>3, <1>4
<1>6. [k \in DOMAIN ext[p] |-> g[ext[p][k]]] = [k \in DOMAIN ext[p] |-> h[ext[p][k]]]
  BY <1>5
<1>7. /\ g[p] = Append(FlattenSeq([k \in DOMAIN ext[p] |-> g[ext[p][k]]]), p)
      /\ h[p] = Append(FlattenSeq([k \in DOMAIN ext[p] |-> h[ext[p][k]]]), p)
  BY <1>3 DEF Ascending
<1> QED BY <1>2, <1>6, <1>7

\* Without an inheritance cycle, the recursive function of Lineage exists.
LEMMA LineageRecursion ==
  ASSUME NEW P, NEW ext \in [P -> Seq(P)], Acyclic(ext, P)
  PROVE  \E g : Ascending(ext, P, g)
<1> DEFINE Covers(p, D) == D \in SUBSET P /\ p \in D /\ Upward(ext, D) /\ \E g : Ascending(ext, D, g)
           D(p) == CHOOSE E : Covers(p, E)
           G(p) == CHOOSE g : Ascending(ext, D(p), g)
           Good == {p \in P : \E E : Covers(p, E)}
           v == [p \in Good |-> G(p)[p]]
<1>1. \A p \in Good : Covers(p, D(p)) /\ Ascending(ext, D(p), G(p))
  OBVIOUS
<1>2. \A p \in Good : D(p) \in SUBSET P /\ p \in D(p) /\ Upward(ext, D(p)) /\ Ascending(ext, D(p), G(p))
  BY <1>1
<1>3. \A p \in Good : D(p) \subseteq Good
  BY <1>1
<1> HIDE DEF D, G, Good, Covers
<1>4. ASSUME NEW p \in Good
      PROVE  /\ ToSet(ext[p]) \subseteq Good
             /\ v[p] = Append(FlattenSeq([k \in DOMAIN ext[p] |-> v[ext[p][k]]]), p)
  <2>1. ToSet(ext[p]) \subseteq D(p) /\ D(p) \subseteq Good
    BY <1>2, <1>3 DEF Upward
  <2>2. ASSUME NEW q \in ToSet(ext[p]) PROVE v[q] = G(p)[q]
    <3>1. q \in Good /\ q \in D(p) \cap D(q) /\ v[q] = G(q)[q]
      BY <1>2, <2>1
    <3> HIDE DEF v
    <3>2. /\ D(p) \in SUBSET P /\ Upward(ext, D(p)) /\ Ascending(ext, D(p), G(p))
          /\ D(q) \in SUBSET P /\ Upward(ext, D(q)) /\ Ascending(ext, D(q), G(q))
      BY <1>2, <3>1
    <3> DEFINE A == D(p)
               B == D(q)
               g == G(p)
               h == G(q)
    <3>3. /\ A \in SUBSET P /\ Upward(ext, A) /\ Ascending(ext, A, g)
          /\ B \in SUBSET P /\ Upward(ext, B) /\ Ascending(ext, B, h)
      BY <3>2
    <3> HIDE DEF A, B, g, h
    <3>4. \A r \in A \cap B : g[r] = h[r]
      BY <3>3, AscendingAgrees
    <3>5. G(p)[q] = G(q)[q]
      BY <3>1, <3>4 DEF A, B, g, h
    <3> QED BY <3>1, <3>5
  <2>3. v[p] = Append(FlattenSeq([k \in DOMAIN ext[p] |-> G(p)[ext[p][k]]]), p)
    BY <1>2 DEF Ascending
  <2> HIDE DEF v
  <2>4. \A k \in DOMAIN ext[p] : v[ext[p][k]] = G(p)[ext[p][k]]
    BY <2>2 DEF ToSet
  <2>5. [k \in DOMAIN ext[p] |-> v[ext[p][k]]] = [k \in DOMAIN ext[p] |-> G(p)[ext[p][k]]]
    BY <2>4
  <2> QED BY <2>1, <2>3, <2>5
<1>5. Good = P
  <2>1. Good \in SUBSET P
    BY DEF Good
  <2> SUFFICES ASSUME P \ Good # {} PROVE FALSE
    BY <2>1
  <2>2. PICK p \in P \ Good : ToSet(ext[p]) \cap (P \ Good) = {}
    BY DEF Acyclic
  <2>3. ToSet(ext[p]) \subseteq Good /\ p \notin Good /\ p \in P
    BY <2>2 DEF ToSet
  <2> DEFINE E == Good \cup {p}
             h == [q \in E |-> Append(FlattenSeq([k \in DOMAIN ext[q] |-> v[ext[q][k]]]), q)]
  <2>4. \A q \in E : ToSet(ext[q]) \subseteq Good
    BY <1>4, <2>3
  <2>5. \A q \in Good : q \in E /\ h[q] = v[q]
    <3> SUFFICES ASSUME NEW q \in Good PROVE h[q] = v[q]
      OBVIOUS
    <3>1. q \in E
      OBVIOUS
    <3>2. h[q] = Append(FlattenSeq([k \in DOMAIN ext[q] |-> v[ext[q][k]]]), q)
      BY <3>1
    <3> HIDE DEF h, v
    <3> QED BY <1>4, <3>2
  <2>6. ASSUME NEW q \in E
        PROVE  h[q] = Append(FlattenSeq([k \in DOMAIN ext[q] |-> h[ext[q][k]]]), q)
    <3>1. h[q] = Append(FlattenSeq([k \in DOMAIN ext[q] |-> v[ext[q][k]]]), q)
      OBVIOUS
    <3> HIDE DEF h, v, E
    <3>2. \A k \in DOMAIN ext[q] : h[ext[q][k]] = v[ext[q][k]]
      BY <2>4, <2>5 DEF ToSet
    <3>3. [k \in DOMAIN ext[q] |-> h[ext[q][k]]] = [k \in DOMAIN ext[q] |-> v[ext[q][k]]]
      BY <3>2
    <3> QED BY <3>1, <3>3
  <2>7. Ascending(ext, E, h)
    <3> DEFINE k == [q \in E |-> Append(FlattenSeq([n \in DOMAIN ext[q] |-> h[ext[q][n]]]), q)]
    <3>1. \A q \in E : h[q] = k[q]
      <4> HIDE DEF h, E
      <4> QED BY <2>6
    <3>2. h = [q \in E |-> h[q]] /\ k = [q \in E |-> k[q]]
      OBVIOUS
    <3> HIDE DEF h, k, E
    <3>3. h = k
      BY <3>1, <3>2
    <3> QED BY <3>3 DEF Ascending, k
  <2>8. Covers(p, E)
    <3>1. E \in SUBSET P /\ p \in E /\ Upward(ext, E)
      BY <2>1, <2>3, <2>4 DEF Upward
    <3> HIDE DEF h, E
    <3> QED BY <2>7, <3>1 DEF Covers
  <2> QED BY <2>3, <2>8 DEF Good
<1>6. Ascending(ext, P, v)
  <2> DEFINE k == [p \in P |-> Append(FlattenSeq([n \in DOMAIN ext[p] |-> v[ext[p][n]]]), p)]
  <2>1. \A p \in P : v[p] = k[p]
    <3> HIDE DEF v
    <3> QED BY <1>4, <1>5
  <2>2. v = [p \in P |-> v[p]] /\ k = [p \in P |-> k[p]]
    BY <1>5
  <2> HIDE DEF v, k
  <2>3. v = k
    BY <2>1, <2>2
  <2> QED BY <2>3 DEF Ascending, k
<1> QED BY <1>6

LEMMA LineageProfiles ==
  ASSUME CatalogOK(catalog), NEW profile \in DOMAIN catalog.profiles
  PROVE  Lineage(profile) \in Seq(DOMAIN catalog.profiles)
<1> DEFINE P == DOMAIN catalog.profiles
           ext == [p \in P |-> catalog.profiles[p].extends]
           walk == CHOOSE g : Ascending(ext, P, g)
<1>1. ext \in [P -> Seq(P)]
  BY DEF CatalogOK
<1>2. Acyclic(ext, P)
  BY DEF CatalogOK, Acyclic
<1>3. Ascending(ext, P, walk)
  BY <1>1, <1>2, LineageRecursion
<1>4. Lineage(profile) = walk[profile]
  <2>1. \A g : Ascending(ext, P, g) <=>
               g = [p \in DOMAIN catalog.profiles |->
                      Append(FlattenSeq([k \in DOMAIN catalog.profiles[p].extends |->
                                           g[catalog.profiles[p].extends[k]]]), p)]
    <3> SUFFICES ASSUME NEW g
                 PROVE  [p \in P |-> Append(FlattenSeq([k \in DOMAIN ext[p] |-> g[ext[p][k]]]), p)]
                        = [p \in P |->
                             Append(FlattenSeq([k \in DOMAIN catalog.profiles[p].extends |->
                                                  g[catalog.profiles[p].extends[k]]]), p)]
      BY DEF Ascending
    <3> QED OBVIOUS
  <2> QED BY <2>1 DEF Lineage
<1> HIDE DEF walk, ext
<1> DEFINE bad == {p \in P : walk[p] \notin Seq(P)}
<1>5. bad = {}
  <2> SUFFICES ASSUME bad # {} PROVE FALSE
    OBVIOUS
  <2>1. PICK p \in bad : ToSet(ext[p]) \cap bad = {}
    BY <1>2 DEF Acyclic
  <2> DEFINE above == [k \in DOMAIN ext[p] |-> walk[ext[p][k]]]
  <2>2. p \in P /\ ext[p] \in Seq(P) /\ DOMAIN ext[p] = 1..Len(ext[p]) /\ Len(ext[p]) \in Nat
    BY <1>1
  <2>3. \A k \in 1..Len(ext[p]) : walk[ext[p][k]] \in Seq(P)
    BY <2>1, <2>2 DEF ToSet
  <2>4. above \in Seq(Seq(P))
    <3>1. above \in [1..Len(ext[p]) -> Seq(P)]
      BY <2>2, <2>3
    <3> QED BY <2>2, <3>1, FunctionIsSeq
  <2>5. FlattenSeq(above) \in Seq(P)
    <3> HIDE DEF above
    <3> QED BY <2>4, FlattenLayout
  <2>6. walk[p] = Append(FlattenSeq(above), p)
    <3>1. walk = [q \in P |-> Append(FlattenSeq([k \in DOMAIN ext[q] |-> walk[ext[q][k]]]), q)]
      BY <1>3 DEF Ascending
    <3> QED BY <2>2, <3>1
  <2>7. walk[p] \in Seq(P)
    BY <2>2, <2>5, <2>6
  <2> QED BY <2>1, <2>7
<1> QED BY <1>4, <1>5

LEMMA InheritedValues ==
  ASSUME CatalogOK(catalog), NEW profile \in DOMAIN catalog.profiles
  PROVE  /\ Inherited(profile, "packages") \in Seq(Packages)
         /\ Inherited(profile, "recommended") \in Seq(DOMAIN catalog.packs)
<1> DEFINE lineage == Lineage(profile)
           lists(field) == [k \in DOMAIN lineage |-> catalog.profiles[lineage[k]][field]]
<1>1. lineage \in Seq(DOMAIN catalog.profiles)
  BY LineageProfiles
<1> HIDE DEF lineage
<1>2. \A k \in DOMAIN lineage :
        /\ catalog.profiles[lineage[k]]["packages"] \in Seq(Packages)
        /\ catalog.profiles[lineage[k]]["recommended"] \in Seq(DOMAIN catalog.packs)
  <2> TAKE k \in DOMAIN lineage
  <2>1. lineage[k] \in DOMAIN catalog.profiles
    BY <1>1
  <2>2. catalog.profiles[lineage[k]] \in
          [extends: Seq(DOMAIN catalog.profiles), packages: Seq(Packages),
           recommended: Seq(DOMAIN catalog.packs)]
    BY <2>1 DEF CatalogOK, Packages
  <2> QED BY <2>2
<1>3. DOMAIN lineage = 1..Len(lineage) /\ Len(lineage) \in Nat
  BY <1>1
<1>4. lists("packages") \in Seq(Seq(Packages)) /\ lists("recommended") \in Seq(Seq(DOMAIN catalog.packs))
  <2>1. /\ lists("packages") \in [1..Len(lineage) -> Seq(Packages)]
        /\ lists("recommended") \in [1..Len(lineage) -> Seq(DOMAIN catalog.packs)]
    BY <1>2, <1>3
  <2> HIDE DEF lists
  <2> QED BY <1>3, <2>1, FunctionIsSeq
<1>5. Unique(lists("packages")) \in Seq(Packages) /\ Unique(lists("recommended")) \in Seq(DOMAIN catalog.packs)
  <2> HIDE DEF lists
  <2> QED BY <1>4, UniqueValues
<1> QED BY <1>5 DEF Inherited, lineage

LEMMA SelectionTyped ==
  ASSUME CatalogOK(catalog), NEW in \in Request, in.profile \in DOMAIN catalog.profiles,
         ToSet(in.packs) \subseteq DOMAIN catalog.packs
  PROVE  SelectedPacks(in) \in Seq(DOMAIN catalog.packs)
<1> DEFINE P == DOMAIN catalog.packs
           recommended == IF in.essentials THEN <<>> ELSE Inherited(in.profile, "recommended")
<1>1. in.profile \in DOMAIN catalog.profiles /\ in.packs \in Seq(P)
  BY DEF Request, ToSet
<1>2. recommended \in Seq(P)
  <2>1. <<>> \in Seq(P)
    BY EmptySeq
  <2> QED BY <1>1, <2>1, InheritedValues
<1> HIDE DEF recommended
<1>3. <<recommended, in.packs>> \in Seq(Seq(P))
  BY <1>1, <1>2, PairIsSeq
<1>4. Unique(<<recommended, in.packs>>) \in Seq(P)
  BY <1>3, UniqueValues
<1> QED BY <1>4 DEF SelectedPacks, recommended

LEMMA RootsTyped ==
  ASSUME CatalogOK(catalog), NEW profile \in DOMAIN catalog.profiles,
         NEW selected \in Seq(DOMAIN catalog.packs)
  PROVE  Roots(profile, selected) \in Seq(Packages)
<1> DEFINE chosen == [k \in DOMAIN selected |-> catalog.packs[selected[k]]]
<1>1. chosen \in Seq(Seq(Packages))
  <2>1. Len(selected) \in Nat /\ DOMAIN selected = 1..Len(selected)
    OBVIOUS
  <2>2. \A pack \in DOMAIN catalog.packs : catalog.packs[pack] \in Seq(Packages)
    BY DEF CatalogOK, Packages
  <2>3. chosen \in [1..Len(selected) -> Seq(Packages)]
    BY <2>1, <2>2
  <2> QED BY <2>1, <2>3, FunctionIsSeq
<1>2. FlattenSeq(chosen) \in Seq(Packages)
  <2> HIDE DEF chosen
  <2> QED BY <1>1, FlattenLayout
<1>3. catalog.core \in Seq(Packages) /\ Inherited(profile, "packages") \in Seq(Packages)
  BY InheritedValues DEF CatalogOK, Packages
<1> HIDE DEF chosen
<1>4. catalog.core \o Inherited(profile, "packages") \o FlattenSeq(chosen) \in Seq(Packages)
  BY <1>2, <1>3
<1> QED BY <1>4 DEF Roots, chosen

-----------------------------------------------------------------------------
(* What a step that leaves the catalog alone leaves alone.                 *)

LEMMA SameCatalog ==
  ASSUME catalog' = catalog
  PROVE  /\ Packages' = Packages
         /\ \A S : Closure(S)' = Closure(S)
         /\ \A p : Lineage(p)' = Lineage(p)
<1>1. Packages' = Packages
  BY DEF Packages
<1>2. ASSUME NEW CONSTANT S PROVE Closure(S)' = Closure(S)
  BY <1>1 DEF Closure
<1>3. ASSUME NEW CONSTANT p PROVE Lineage(p)' = Lineage(p)
  BY DEF Lineage
<1> QED BY <1>1, <1>2, <1>3

LEMMA SameInherited ==
  ASSUME catalog' = catalog, NEW CONSTANT p, NEW CONSTANT f
  PROVE  Inherited(p, f)' = Inherited(p, f)
  BY SameCatalog DEF Inherited

LEMMA SameSelection ==
  ASSUME catalog' = catalog, input' = input
  PROVE  /\ SelectedPacks(input)' = SelectedPacks(input)
         /\ Selection(input)' = Selection(input)
         /\ Closure(Selection(input))' = Closure(Selection(input))
<1>1. SelectedPacks(input)' = SelectedPacks(input)
  BY SameCatalog DEF SelectedPacks, Inherited
<1>2. Roots(input.profile, SelectedPacks(input))' = Roots(input.profile, SelectedPacks(input))
  <2>1. Inherited(input.profile, "packages")' = Inherited(input.profile, "packages")
    BY SameCatalog DEF Inherited
  <2>2. (input.profile)' = input.profile
    OBVIOUS
  <2> DEFINE s == SelectedPacks(input)
  <2>3. s' = s
    BY <1>1
  <2> HIDE DEF s
  <2>4. Roots(input.profile, s)' = Roots(input.profile, s)
    BY <2>1, <2>2, <2>3 DEF Roots
  <2> QED BY <2>4 DEF s
<1>3. Selection(input)' = Selection(input)
  BY <1>2 DEF Selection
<1> QED BY <1>1, <1>3, SameCatalog DEF Closure

LEMMA SameOperations ==
  ASSUME catalog' = catalog, input' = input, packs' = packs, order' = order
  PROVE  Assembled' = Assembled
<1>1. /\ EnsureOperations(order)' = EnsureOperations(order) /\ Repositories(order)' = Repositories(order) /\ UsesDnf(order)' = UsesDnf(order)
      /\ PackageOperations(order)' = PackageOperations(order) /\ ConfigureOperations(order)' = ConfigureOperations(order)
  BY DEF EnsureOperations, Ensures, Remote, RemotePrivilege, Repositories, UsesDnf, FromDnf,
         PackageOperations, ManagerID, Refreshes, ConfigureOperations
<1>2. Operations(order)' = Operations(order)
  BY <1>1 DEF Operations, RepositoryOperations, RefreshOperations
<1> QED BY <1>2 DEF Assembled

-----------------------------------------------------------------------------
(* What Build reaches, and what it returns.                                *)

Known(in) ==
  in.profile \in DOMAIN catalog.profiles /\ ToSet(in.packs) \subseteq DOMAIN catalog.packs

\* The packages the selection needs.
Needed == Closure(Selection(input))

\* Each package with those it depends on, directly or not.
Needs ==
  {x \in Packages \X Packages : x[2] \in Closure(ToSet(catalog.dependencies[x[1]]))}

Typed ==
  /\ CatalogOK(catalog) /\ input \in Request
  /\ phase \in {"select", "walk", "built", "done"} /\ verdict \in {"none", "accepted", "rejected"}
  /\ packs \in Seq(DOMAIN catalog.packs) /\ roots \in Seq(Packages)

\* Nothing selected is forgotten, nothing else is walked to, and each call in
\* progress was made on the way down from those before it.
Reaching ==
  /\ Known(input) /\ packs = SelectedPacks(input)
  /\ \A p \in Selection(input) :
       \/ \E i \in 1..Len(roots) : roots[i] = p
       \/ \E k \in 1..Len(stack) : stack[k].package = p
       \/ InOrder(order, p)
  /\ \A i \in 1..Len(roots) : roots[i] \in Needed
  /\ \A k \in 1..Len(stack) : stack[k].package \in Needed
  /\ \A i \in 1..Len(order) : order[i] \in Needed
  /\ \A k, l \in 1..Len(stack) :
       k < l => <<stack[k].package, stack[l].package>> \in Needs

\* What Build returned.
Returned ==
  \/ result = Failed("unknown-profile") /\ input.profile \notin DOMAIN catalog.profiles
  \/ /\ result = Failed("unknown-pack") /\ input.profile \in DOMAIN catalog.profiles
     /\ ~(ToSet(input.packs) \subseteq DOMAIN catalog.packs)
  \/ /\ result = Failed("cycle") /\ Known(input)
     /\ \E p \in Needed : <<p, p>> \in Needs
  \/ /\ result = Assembled /\ Known(input) /\ packs = SelectedPacks(input)
     /\ ToSet(order) = Needed

\* The inductive invariant.
PlanInv ==
  /\ WalkInv /\ Typed
  /\ phase = "walk" => Reaching
  /\ phase = "built" => Returned

-----------------------------------------------------------------------------
\* A set holds what it needs.
LEMMA ClosureHolds ==
  ASSUME NEW S \in SUBSET Packages
  PROVE  S \subseteq Closure(S) /\ Closure(S) \subseteq Packages
BY DEF Closure

LEMMA ClosureIsClosed ==
  ASSUME catalog.dependencies \in [Packages -> Seq(Packages)], NEW S, NEW p \in Closure(S)
  PROVE  ToSet(catalog.dependencies[p]) \subseteq Closure(S)
<1> SUFFICES ASSUME NEW d \in ToSet(catalog.dependencies[p]) PROVE d \in Closure(S)
  OBVIOUS
<1>1. p \in Packages
  BY DEF Closure
<1>2. d \in Packages
  BY <1>1 DEF ToSet
<1>3. ASSUME NEW T \in SUBSET Packages, S \subseteq T,
             \A q \in T : ToSet(catalog.dependencies[q]) \subseteq T
      PROVE  d \in T
  BY <1>3 DEF Closure
<1> QED BY <1>2, <1>3 DEF Closure

LEMMA ClosureIsLeast ==
  ASSUME NEW S, NEW T \in SUBSET Packages, S \subseteq T,
         \A q \in T : ToSet(catalog.dependencies[q]) \subseteq T
  PROVE  Closure(S) \subseteq T
BY DEF Closure

LEMMA SelectionKnown ==
  ASSUME CatalogOK(catalog), input \in Request, Known(input)
  PROVE  /\ SelectedPacks(input) \in Seq(DOMAIN catalog.packs)
         /\ Roots(input.profile, SelectedPacks(input)) \in Seq(Packages)
         /\ Selection(input) \in SUBSET Packages
<1>1. SelectedPacks(input) \in Seq(DOMAIN catalog.packs)
  BY SelectionTyped DEF Known
<1>2. input.profile \in DOMAIN catalog.profiles
  BY DEF Known
<1>3. Roots(input.profile, SelectedPacks(input)) \in Seq(Packages)
  BY <1>1, <1>2, RootsTyped
<1> QED BY <1>1, <1>3 DEF Selection, ToSet

-----------------------------------------------------------------------------
LEMMA InitialPlan == Init => PlanInv
<1> SUFFICES ASSUME Init PROVE PlanInv
  OBVIOUS
<1>1. CatalogOK(catalog) /\ input \in Request
  BY CatalogsAssumption DEF Init
<1>2. <<>> \in Seq(DOMAIN catalog.packs) /\ <<>> \in Seq(Packages)
  BY EmptySeq
<1> QED BY <1>1, <1>2, InitialWalk DEF Init, PlanInv, Typed

LEMMA SelectPlans == PlanInv /\ Select => PlanInv'
<1> SUFFICES ASSUME PlanInv, Select PROVE PlanInv'
  OBVIOUS
<1>1. CatalogOK(catalog) /\ input \in Request /\ stack = <<>>
  BY DEF PlanInv, Typed, WalkInv, Select
<1>2. /\ UNCHANGED <<catalog, input, stack, subject, verdict>> /\ order' = <<>>
      /\ Packages' = Packages /\ Known(input)' = Known(input)
  BY SameCatalog DEF Select, Known
<1>3. WalkInv'
  BY WalkStep DEF Next, PlanInv
<1>4. CASE ~Known(input)
  <2>1. UNCHANGED <<packs, roots>> /\ phase' = "built"
    BY <1>4 DEF Select, Known
  <2>2. \/ result' = Failed("unknown-profile") /\ input.profile \notin DOMAIN catalog.profiles
        \/ /\ result' = Failed("unknown-pack") /\ input.profile \in DOMAIN catalog.profiles
           /\ ~(ToSet(input.packs) \subseteq DOMAIN catalog.packs)
    BY <1>4 DEF Select, Known
  <2>3. Typed'
    BY <1>2, <2>1 DEF PlanInv, Typed
  <2>4. Returned'
    BY <1>2, <2>2 DEF Returned, Failed
  <2> QED BY <1>3, <2>1, <2>3, <2>4 DEF PlanInv
<1>5. CASE Known(input)
  <2>1. /\ phase' = "walk" /\ packs' = SelectedPacks(input) /\ roots' = Roots(input.profile, packs')
    BY <1>5 DEF Select, Known
  <2>2. /\ packs' \in Seq(DOMAIN catalog.packs) /\ roots' = Roots(input.profile, SelectedPacks(input))
        /\ roots' \in Seq(Packages) /\ Selection(input) \in SUBSET Packages
    BY <1>1, <1>5, <2>1, SelectionKnown
  <2>3. Typed'
    BY <1>2, <2>1, <2>2 DEF PlanInv, Typed
  <2>4. Selection(input) = {roots'[i] : i \in 1..Len(roots')}
    BY <2>2 DEF Selection, ToSet
  <2>5. /\ SelectedPacks(input)' = SelectedPacks(input) /\ Selection(input)' = Selection(input)
        /\ Needed' = Needed
    BY <1>2, SameSelection DEF Needed
  <2>6. Selection(input) \subseteq Needed
    BY <2>2, ClosureHolds DEF Needed
  <2>7. stack' = <<>> /\ order' = <<>>
    BY <1>1, <1>2
  <2>8. Reaching'
    BY <1>2, <1>5, <2>1, <2>4, <2>5, <2>6, <2>7 DEF Reaching
  <2> QED BY <1>3, <2>1, <2>3, <2>8 DEF PlanInv
<1> QED BY <1>4, <1>5

\* What a step of the walk leaves alone.
LEMMA SameNeeds ==
  ASSUME UNCHANGED <<catalog, input, packs>>
  PROVE  /\ Packages' = Packages /\ Known(input)' = Known(input)
         /\ SelectedPacks(input)' = SelectedPacks(input)
         /\ Selection(input)' = Selection(input) /\ Needed' = Needed
         /\ Needs' = Needs
<1>1. Packages' = Packages /\ \A S : Closure(S)' = Closure(S)
  BY SameCatalog
<1>2. Needs' = Needs
  <2>1. \A p : Closure(ToSet(catalog.dependencies[p]))' = Closure(ToSet(catalog.dependencies[p]))
    BY SameCatalog DEF Closure
  <2> QED BY <1>1, <2>1 DEF Needs
<1> QED BY <1>1, <1>2, SameSelection DEF Known, Needed

LEMMA NeededKnown ==
  ASSUME PlanInv
  PROVE  /\ CatalogOK(catalog) /\ catalog.dependencies \in [Packages -> Seq(Packages)]
         /\ Needed \in SUBSET Packages
         /\ \A p \in Needed : ToSet(catalog.dependencies[p]) \subseteq Needed
         /\ Known(input) => Selection(input) \subseteq Needed
<1>1. CatalogOK(catalog) /\ catalog.dependencies \in [Packages -> Seq(Packages)] /\ input \in Request
  BY DEF PlanInv, Typed, WalkInv
<1>2. Needed \in SUBSET Packages
  BY DEF Needed, Closure
<1>3. \A p \in Needed : ToSet(catalog.dependencies[p]) \subseteq Needed
  BY <1>1, ClosureIsClosed DEF Needed
<1>4. Known(input) => Selection(input) \subseteq Needed
  BY <1>1, SelectionKnown, ClosureHolds DEF Needed
<1> QED BY <1>1, <1>2, <1>3, <1>4

LEMMA VisitPlans == PlanInv /\ Visit => PlanInv'
<1> SUFFICES ASSUME PlanInv, Visit PROVE PlanInv'
  OBVIOUS
<1> DEFINE p == Head(roots)
<1>1. /\ phase = "walk" /\ stack = <<>> /\ roots # <<>> /\ roots \in Seq(Packages) /\ Reaching
      /\ UNCHANGED <<catalog, input, packs, order, subject, verdict>> /\ roots' = Tail(roots)
  BY DEF PlanInv, Typed, Visit
<1>2. /\ p = roots[1] /\ p \in Packages /\ 1 \in 1..Len(roots) /\ roots' \in Seq(Packages)
      /\ Len(roots') = Len(roots) - 1 /\ Len(roots) \in Nat
      /\ \A i \in 1..Len(roots') : roots'[i] = roots[i + 1] /\ i + 1 \in 1..Len(roots)
  BY <1>1, HeadTailProperties
<1>3. stack' = Append(<<>>, [package |-> p, next |-> 1]) /\ UNCHANGED <<phase, result>>
  BY <1>2 DEF Visit, Enter
<1>4. Len(stack') = 1 /\ stack'[1].package = p
  BY <1>3
<1>5. /\ Packages' = Packages /\ Known(input)' = Known(input)
      /\ SelectedPacks(input)' = SelectedPacks(input)
      /\ Selection(input)' = Selection(input) /\ Needed' = Needed
  BY <1>1, SameNeeds
<1>6. WalkInv'
  BY WalkStep DEF Next, PlanInv
<1>7. Typed'
  BY <1>1, <1>2, <1>3, <1>5 DEF PlanInv, Typed
<1> HIDE DEF p
<1>8. ASSUME NEW q \in Selection(input)
      PROVE  \/ \E i \in 1..Len(roots') : roots'[i] = q
             \/ \E k \in 1..Len(stack') : stack'[k].package = q
             \/ InOrder(order', q)
  <2>1. CASE \E i \in 1..Len(roots) : roots[i] = q
    <3>1. PICK i \in 1..Len(roots) : roots[i] = q
      BY <2>1
    <3>2. CASE i = 1
      BY <1>2, <1>4, <3>1, <3>2
    <3>3. CASE i # 1
      <4>1. i - 1 \in 1..Len(roots') /\ i - 1 + 1 = i
        BY <1>2, <3>3
      <4> QED BY <1>2, <3>1, <4>1
    <3> QED BY <3>2, <3>3
  <2>2. CASE InOrder(order, q)
    BY <1>1, <2>2 DEF InOrder
  <2> QED BY <1>1, <2>1, <2>2 DEF Reaching
<1>9. /\ \A i \in 1..Len(roots') : roots'[i] \in Needed
      /\ \A k \in 1..Len(stack') : stack'[k].package \in Needed
      /\ \A i \in 1..Len(order') : order'[i] \in Needed
      /\ \A k, l \in 1..Len(stack') : ~(k < l)
  BY <1>1, <1>2, <1>4 DEF Reaching
<1>10. Reaching'
  BY <1>1, <1>5, <1>8, <1>9 DEF Reaching
<1> QED BY <1>1, <1>3, <1>6, <1>7, <1>10 DEF PlanInv

LEMMA DescendPlans == PlanInv /\ Descend => PlanInv'
<1> SUFFICES ASSUME PlanInv, Descend PROVE PlanInv'
  OBVIOUS
<1> DEFINE L == Len(stack)
           deps == catalog.dependencies
           top == stack[L].package
           callers == [stack EXCEPT ![L].next = @ + 1]
           p == deps[Top.package][Top.next]
<1>1. /\ phase = "walk" /\ stack # <<>> /\ stack \in Seq(Frame(Packages)) /\ Reaching
      /\ UNCHANGED <<catalog, input, packs, roots, order, subject, verdict>>
      /\ Pending /\ Enter(p, callers)
  BY DEF PlanInv, WalkInv, Descend
<1>2. /\ CatalogOK(catalog) /\ deps \in [Packages -> Seq(Packages)] /\ Needed \in SUBSET Packages
      /\ \A q \in Needed : ToSet(deps[q]) \subseteq Needed
  BY NeededKnown
<1>3. L \in Nat \ {0} /\ L \in 1..L /\ stack[L] \in Frame(Packages) /\ top \in Needed /\ top \in Packages
  <2>1. L \in Nat \ {0} /\ L \in 1..L /\ stack[L] \in Frame(Packages)
    BY <1>1
  <2>2. top \in Needed
    BY <1>1, <2>1 DEF Reaching
  <2> QED BY <1>2, <2>1, <2>2
<1>4. p \in ToSet(deps[top]) /\ p \in Packages /\ p \in Needed
  <2>1. Top.next \in 1..Len(deps[top]) /\ deps[top] \in Seq(Packages) /\ Top.package = top
    BY <1>1, <1>2, <1>3 DEF Pending, Top, Frame
  <2>2. p = deps[top][Top.next]
    BY <2>1
  <2> HIDE DEF p, deps, top, L, callers
  <2>3. ToSet(deps[top]) = {deps[top][k] : k \in 1..Len(deps[top])}
    BY <2>1, SeqMembers
  <2>4. p \in ToSet(deps[top]) /\ p \in Packages
    BY <2>1, <2>2, <2>3
  <2> QED BY <1>2, <1>3, <2>4
<1>5. Len(callers) = L /\ callers \in Seq(Frame(Packages)) /\ \A k \in 1..L : callers[k].package = stack[k].package
  <2>1. [stack[L] EXCEPT !.next = @ + 1] \in Frame(Packages)
    BY <1>3 DEF Frame
  <2> QED BY <1>1, <1>3, <2>1 DEF Frame
<1> HIDE DEF callers, p, deps, L
<1>6. /\ Packages' = Packages /\ Known(input)' = Known(input)
      /\ SelectedPacks(input)' = SelectedPacks(input)
      /\ Selection(input)' = Selection(input) /\ Needed' = Needed
      /\ Needs' = Needs
  BY <1>1, SameNeeds
<1>7. WalkInv'
  BY WalkStep DEF Next, PlanInv
\* Each call in progress leads to p.
<1>8. ASSUME NEW k \in 1..L PROVE <<stack[k].package, p>> \in Needs
  <2> DEFINE q == stack[k].package
  <2>1. q \in Packages /\ ToSet(deps[q]) \in SUBSET Packages
    <3>1. q \in Needed
      BY <1>1 DEF Reaching, L
    <3> QED BY <1>2, <3>1
  <2> HIDE DEF q
  <2>2. CASE k = L
    <3>1. ToSet(deps[q]) \subseteq Closure(ToSet(deps[q]))
      BY <2>1, ClosureHolds
    <3>2. p \in Closure(ToSet(deps[q]))
      BY <1>4, <2>2, <3>1 DEF q
    <3> QED BY <1>4, <2>1, <3>2 DEF Needs, q, deps
  <2>3. CASE k # L
    <3>1. <<q, top>> \in Needs
      <4>1. k \in 1..Len(stack) /\ L \in 1..Len(stack) /\ k < L
        BY <1>3, <2>3 DEF L
      <4>2. \A m, l \in 1..Len(stack) : m < l => <<stack[m].package, stack[l].package>> \in Needs
        BY <1>1 DEF Reaching
      <4> QED BY <4>1, <4>2 DEF q
    <3>2. top \in Closure(ToSet(deps[q]))
      BY <3>1 DEF Needs, deps
    <3>3. p \in Closure(ToSet(deps[q]))
      BY <1>2, <1>4, <3>2, ClosureIsClosed DEF deps
    <3> QED BY <1>4, <2>1, <3>3 DEF Needs, q, deps
  <2> QED BY <2>2, <2>3
<1>9. CASE \E k \in DOMAIN callers : callers[k].package = p
  <2>1. PICK k \in 1..L : stack[k].package = p
    BY <1>5, <1>9
  <2>2. \E q \in Needed : <<q, q>> \in Needs
    BY <1>4, <1>8, <2>1
  <2>3. phase' = "built" /\ result' = Failed("cycle")
    BY <1>1, <1>9 DEF Enter
  <2>4. Typed'
    BY <1>1, <1>6, <2>3 DEF PlanInv, Typed
  <2>5. Returned'
    <3>1. Known(input)' /\ result' = Failed("cycle")'
      BY <1>1, <1>6, <2>3 DEF Reaching, Failed
    <3> QED BY <1>6, <2>2, <3>1 DEF Returned
  <2> QED BY <1>7, <2>3, <2>4, <2>5 DEF PlanInv
<1>10. CASE ~\E k \in DOMAIN callers : callers[k].package = p
  <2>1. stack' = Append(callers, [package |-> p, next |-> 1]) /\ UNCHANGED <<phase, result>>
    BY <1>1, <1>4, <1>10 DEF Enter
  <2>2. /\ Len(stack') = L + 1 /\ stack'[L + 1].package = p
        /\ \A k \in 1..L : stack'[k].package = stack[k].package
    <3>1. [package |-> p, next |-> 1] \in Frame(Packages)
      BY <1>4 DEF Frame
    <3> QED BY <1>5, <2>1, <3>1, AppendProperties
  <2>3. Typed'
    BY <1>1, <1>6, <2>1 DEF PlanInv, Typed
  <2>4. ASSUME NEW q \in Selection(input)
        PROVE  \/ \E i \in 1..Len(roots') : roots'[i] = q
               \/ \E k \in 1..Len(stack') : stack'[k].package = q
               \/ InOrder(order', q)
    <3>1. CASE \E k \in 1..L : stack[k].package = q
      <4>1. PICK k \in 1..L : stack[k].package = q
        BY <3>1
      <4>2. k \in 1..Len(stack')
        BY <1>3, <2>2
      <4> QED BY <2>2, <4>1, <4>2
    <3> QED BY <1>1, <3>1 DEF Reaching, InOrder, L
  <2>5. ASSUME NEW k \in 1..Len(stack') PROVE k \in 1..L \/ k = L + 1
    BY <1>3, <2>2
  <2>6. \A k \in 1..Len(stack') : stack'[k].package \in Needed
    BY <1>1, <1>4, <2>2, <2>5 DEF Reaching, L
  <2>7. ASSUME NEW k \in 1..Len(stack'), NEW l \in 1..Len(stack'), k < l
        PROVE  <<stack'[k].package, stack'[l].package>> \in Needs
    <3>1. k \in 1..L
      BY <1>3, <2>2, <2>7
    <3>2. CASE l = L + 1
      BY <1>8, <2>2, <3>1, <3>2
    <3>3. CASE l \in 1..L
      BY <1>1, <2>2, <2>7, <3>1, <3>3 DEF Reaching, L
    <3> QED BY <2>5, <3>2, <3>3
  <2>8. /\ \A i \in 1..Len(roots') : roots'[i] \in Needed
        /\ \A i \in 1..Len(order') : order'[i] \in Needed
    BY <1>1 DEF Reaching
  <2>9. Reaching'
    BY <1>1, <1>6, <2>4, <2>6, <2>7, <2>8 DEF Reaching
  <2> QED BY <1>1, <1>7, <2>1, <2>3, <2>9 DEF PlanInv
<1> QED BY <1>9, <1>10

LEMMA ReturnPlans == PlanInv /\ Return => PlanInv'
<1> SUFFICES ASSUME PlanInv, Return PROVE PlanInv'
  OBVIOUS
<1> DEFINE L == Len(stack)
           top == stack[L].package
<1>1. /\ phase = "walk" /\ stack # <<>> /\ stack \in Seq(Frame(Packages)) /\ Reaching
      /\ order \in Seq(Packages)
      /\ UNCHANGED <<catalog, input, phase, packs, roots, result, subject, verdict>>
      /\ stack' = Front(stack) /\ order' = Joined(order, top)
  BY DEF PlanInv, WalkInv, Return, Top, Joined, InOrder, Contains
<1>2. /\ L \in Nat \ {0} /\ L \in 1..L /\ Len(stack') = L - 1
      /\ \A k \in 1..(L - 1) : stack'[k] = stack[k] /\ k \in 1..L
  <2>1. /\ L \in Nat \ {0} /\ Len(Front(stack)) = L - 1
        /\ \A k \in 1..(L - 1) : Front(stack)[k] = stack[k]
    BY <1>1, FrontProperties
  <2>2. stack' = Front(stack)
    BY <1>1
  <2> HIDE DEF L
  <2>3. L \in 1..L /\ \A k \in 1..(L - 1) : k \in 1..L
    BY <2>1
  <2> QED BY <2>1, <2>2, <2>3
<1>3. /\ Packages' = Packages /\ Known(input)' = Known(input)
      /\ SelectedPacks(input)' = SelectedPacks(input)
      /\ Selection(input)' = Selection(input) /\ Needed' = Needed
      /\ Needs' = Needs
  BY <1>1, SameNeeds
<1>4. top \in Needed /\ top \in Packages
  <2>1. top \in Needed
    BY <1>1, <1>2 DEF Reaching
  <2> QED BY <2>1, NeededKnown
<1>5. /\ InOrder(order', top) /\ \A q : InOrder(order, q) => InOrder(order', q)
      /\ \A q : InOrder(order', q) => InOrder(order, q) \/ q = top
  <2>1. CASE InOrder(order, top)
    BY <1>1, <2>1 DEF Joined
  <2>2. CASE ~InOrder(order, top)
    <3> HIDE DEF top
    <3>1. order' = Append(order, top)
      BY <1>1, <2>2 DEF Joined
    <3>2. /\ Len(order') = Len(order) + 1 /\ order'[Len(order) + 1] = top
          /\ \A i \in 1..Len(order) : order'[i] = order[i] /\ i \in 1..Len(order')
          /\ Len(order) + 1 \in 1..Len(order')
          /\ \A i \in 1..Len(order') : i \in 1..Len(order) \/ i = Len(order) + 1
      BY <1>1, <1>4, <3>1
    <3> QED BY <3>2 DEF InOrder
  <2> QED BY <2>1, <2>2
<1> HIDE DEF top
<1>6. WalkInv'
  BY WalkStep DEF Next, PlanInv
<1>7. Typed'
  BY <1>1, <1>3 DEF PlanInv, Typed
<1>8. ASSUME NEW q \in Selection(input)
      PROVE  \/ \E i \in 1..Len(roots') : roots'[i] = q
             \/ \E k \in 1..Len(stack') : stack'[k].package = q
             \/ InOrder(order', q)
  <2>1. CASE \E k \in 1..L : stack[k].package = q
    <3>1. PICK k \in 1..L : stack[k].package = q
      BY <2>1
    <3>2. CASE k = L
      BY <1>5, <3>1, <3>2 DEF top
    <3>3. CASE k # L
      <4>1. k \in 1..(L - 1)
        BY <1>2, <3>3
      <4> QED BY <1>2, <3>1, <4>1
    <3> QED BY <3>2, <3>3
  <2> QED BY <1>1, <1>5, <2>1 DEF Reaching
<1>9. \A i \in 1..Len(order') : order'[i] \in Needed
  <2> TAKE i \in 1..Len(order')
  <2>1. InOrder(order', order'[i])
    BY DEF InOrder
  <2>2. \A q : InOrder(order, q) => q \in Needed
    BY <1>1 DEF Reaching, InOrder
  <2> QED BY <1>4, <1>5, <2>1, <2>2
<1>10. /\ \A i \in 1..Len(roots') : roots'[i] \in Needed
       /\ \A k \in 1..Len(stack') : stack'[k].package \in Needed
       /\ \A k, l \in 1..Len(stack') :
            k < l => <<stack'[k].package, stack'[l].package>> \in Needs
  BY <1>1, <1>2 DEF Reaching
<1>11. Reaching'
  BY <1>1, <1>3, <1>8, <1>9, <1>10 DEF Reaching
<1> QED BY <1>1, <1>6, <1>7, <1>11 DEF PlanInv

LEMMA AssemblePlans == PlanInv /\ Assemble => PlanInv'
<1> SUFFICES ASSUME PlanInv, Assemble PROVE PlanInv'
  OBVIOUS
<1>1. /\ phase = "walk" /\ stack = <<>> /\ roots = <<>> /\ Reaching
      /\ phase' = "built" /\ result' = Assembled
      /\ UNCHANGED <<catalog, input, packs, roots, stack, order, subject, verdict>>
  BY DEF PlanInv, Assemble
<1>2. /\ order \in Seq(Packages) /\ Ordered(catalog.dependencies, order)
      /\ catalog.dependencies \in [Packages -> Seq(Packages)]
  BY DEF PlanInv, WalkInv
<1>3. ToSet(order) = {order[i] : i \in 1..Len(order)} /\ ToSet(order) \in SUBSET Packages
  BY <1>2 DEF ToSet
<1>4. ToSet(order) \subseteq Needed
  BY <1>1, <1>3 DEF Reaching
<1>5. Selection(input) \subseteq ToSet(order)
  <2> SUFFICES ASSUME NEW p \in Selection(input) PROVE p \in ToSet(order)
    OBVIOUS
  <2>1. InOrder(order, p)
    BY <1>1 DEF Reaching
  <2> QED BY <1>3, <2>1 DEF InOrder
<1>6. ASSUME NEW p \in ToSet(order) PROVE ToSet(catalog.dependencies[p]) \subseteq ToSet(order)
  <2> SUFFICES ASSUME NEW d \in ToSet(catalog.dependencies[p]) PROVE d \in ToSet(order)
    OBVIOUS
  <2>1. PICK i \in 1..Len(order) : order[i] = p
    BY <1>3
  <2>2. p \in Packages /\ catalog.dependencies[p] \in Seq(Packages)
    BY <1>2, <1>3
  <2>3. PICK n \in 1..Len(catalog.dependencies[p]) : catalog.dependencies[p][n] = d
    BY <2>2 DEF ToSet
  <2>4. PICK j \in 1..(i - 1) : order[j] = d
    <3>1. n \in 1..Len(catalog.dependencies[order[i]]) /\ catalog.dependencies[order[i]][n] = d
      BY <2>1, <2>3
    <3> QED BY <1>2, <3>1, ZenonT(30) DEF Ordered
  <2>5. j \in 1..Len(order)
    BY <1>2, <2>1
  <2> QED BY <1>3, <2>4, <2>5
<1>7. ToSet(order) = Needed
  BY <1>3, <1>4, <1>5, <1>6, ClosureIsLeast DEF Needed
<1>8. /\ Packages' = Packages /\ Known(input)' = Known(input)
      /\ SelectedPacks(input)' = SelectedPacks(input) /\ Needed' = Needed
  BY <1>1, SameNeeds
<1>9. Assembled' = Assembled
  BY <1>1, SameOperations
<1>10. WalkInv'
  BY WalkStep DEF Next, PlanInv
<1>11. Typed'
  BY <1>1, <1>8 DEF PlanInv, Typed
<1>12. Returned'
  <2>1. ToSet(order)' = ToSet(order)
    BY <1>1
  <2> QED BY <1>1, <1>7, <1>8, <1>9, <2>1 DEF Returned, Reaching
<1> QED BY <1>1, <1>10, <1>11, <1>12 DEF PlanInv

\* A plan that was returned names what it was built from.
LEMMA PlanReturned ==
  ASSUME PlanInv, phase = "built", result.error = "none"
  PROVE  /\ result = [error |-> "none", id |-> [input EXCEPT !.packs = packs],
                      profile |-> input.profile, packs |-> packs, operations |-> Operations(order)]
         /\ Known(input) /\ packs = SelectedPacks(input) /\ ToSet(order) = Needed
         /\ \A p \in Needed : catalog.provider[p] # NoProvider
         /\ \A p \in Needed : \A d \in ToSet(catalog.dependencies[p]) :
              ~(catalog.provider[p].privilege = "elevated" /\ catalog.provider[d].privilege = "user")
<1>1. Returned
  BY DEF PlanInv
<1>2. \A error : Failed(error).error = error
  BY DEF Failed
<1>3. result = Assembled /\ Known(input) /\ packs = SelectedPacks(input) /\ ToSet(order) = Needed
  BY <1>1, <1>2 DEF Returned
<1>4. ~\E p, q \in ToSet(order) : q \in catalog.conflicts[p]
  BY <1>2, <1>3 DEF Assembled
<1>5. {p \in ToSet(order) : catalog.provider[p] = NoProvider} = {}
  <2> SUFFICES ASSUME {p \in ToSet(order) : catalog.provider[p] = NoProvider} # {} PROVE FALSE
    OBVIOUS
  <2>1. Assembled.error = "unsupported"
    BY <1>4 DEF Assembled
  <2> QED BY <1>3, <2>1
<1>6. ~\E p \in ToSet(order) : \E d \in ToSet(catalog.dependencies[p]) :
            /\ catalog.provider[p].privilege = "elevated"
            /\ catalog.provider[d].privilege = "user"
  BY <1>2, <1>3, <1>4, <1>5 DEF Assembled
<1> QED BY <1>3, <1>4, <1>5, <1>6 DEF Assembled

LEMMA ValidatePlans == PlanInv /\ Validate => PlanInv'
<1> SUFFICES ASSUME PlanInv, Validate PROVE PlanInv'
  OBVIOUS
<1>1. /\ phase = "built" /\ phase' \in {"select", "done"}
      /\ UNCHANGED <<catalog, packs, roots, stack, order, result, verdict>> /\ Packages' = Packages
  BY SameCatalog DEF Validate
<1>2. WalkInv'
  BY WalkStep DEF Next, PlanInv
<1>3. input' \in Request
  <2>1. CASE result.error # "none"
    BY <2>1 DEF Validate, PlanInv, Typed
  <2>2. CASE result.error = "none"
    <3>1. result.profile = input.profile /\ result.packs = packs
      BY <1>1, <2>2, PlanReturned
    <3>2. input' = [profile |-> input.profile, packs |-> packs, essentials |-> FALSE]
      BY <2>2, <3>1 DEF Validate
    <3>3. input.profile \in STRING
      BY DEF PlanInv, Typed, Request
    <3>4. packs \in Seq(STRING)
      <4>1. DOMAIN catalog.packs \subseteq STRING
        BY NeededKnown DEF CatalogOK
      <4>2. packs \in Seq(DOMAIN catalog.packs)
        BY DEF PlanInv, Typed
      <4> QED BY <4>1, <4>2, SeqMonotonic
    <3> QED BY <3>2, <3>3, <3>4 DEF Request
  <2> QED BY <2>1, <2>2
<1>4. Typed'
  BY <1>1, <1>3 DEF PlanInv, Typed
<1> QED BY <1>1, <1>2, <1>4 DEF PlanInv

LEMMA ComparePlans == PlanInv /\ Compare => PlanInv'
<1> SUFFICES ASSUME PlanInv, Compare PROVE PlanInv'
  OBVIOUS
<1>1. /\ phase' \in {"select", "done"} /\ verdict' \in {"none", "accepted", "rejected"}
      /\ UNCHANGED <<catalog, packs, roots, stack, order, result, subject>> /\ Packages' = Packages
  BY SameCatalog DEF Compare, PlanInv, Typed
<1>2. WalkInv'
  BY WalkStep DEF Next, PlanInv
<1>3. input' \in Request
  BY DEF Compare, PlanInv, Typed, Request
<1>4. Typed'
  BY <1>1, <1>3 DEF PlanInv, Typed
<1> QED BY <1>1, <1>2, <1>4 DEF PlanInv

LEMMA PlanStep == PlanInv /\ [Next]_vars => PlanInv'
<1> SUFFICES ASSUME PlanInv, UNCHANGED vars PROVE PlanInv'
  BY SelectPlans, VisitPlans, DescendPlans, ReturnPlans, AssemblePlans, ValidatePlans, ComparePlans DEF Next
<1>1. UNCHANGED <<catalog, input, phase, packs, roots, stack, order, result, subject, verdict>>
  BY DEF vars
<1>2. /\ Packages' = Packages /\ Known(input)' = Known(input)
      /\ SelectedPacks(input)' = SelectedPacks(input)
      /\ Selection(input)' = Selection(input) /\ Needed' = Needed /\ Needs' = Needs
      /\ Assembled' = Assembled
  BY <1>1, SameNeeds, SameOperations
<1>3. WalkInv'
  BY WalkStep DEF PlanInv
<1>4. Typed'
  BY <1>1, <1>2 DEF PlanInv, Typed
<1>5. phase = "walk" => Reaching'
  BY <1>1, <1>2 DEF PlanInv, Reaching
<1>6. phase = "built" => Returned'
  BY <1>1, <1>2 DEF PlanInv, Returned, Failed
<1> QED BY <1>1, <1>3, <1>4, <1>5, <1>6 DEF PlanInv

LEMMA PlanInvariant == Spec => []PlanInv
BY InitialPlan, PlanStep, PTL DEF Spec

\* In every state of the planner.
LEMMA TypedNow == PlanInv => TypeOK
<1> SUFFICES ASSUME PlanInv PROVE TypeOK
  OBVIOUS
<1>1. CatalogOK(catalog)
  BY NeededKnown
<1> QED BY <1>1 DEF PlanInv, WalkInv, Typed, TypeOK, Frame

\* In every reachable state every variable holds a value of its kind, though
\* the packs of a plan under validation are those an earlier Build has chosen.
THEOREM TypeCorrect == Spec => []TypeOK
BY TypedNow, PlanInvariant, PTL

-----------------------------------------------------------------------------
(* A failure is just.                                                      *)

\* When the walk is through, nothing it has ordered needs itself.
LEMMA NothingNeedsItself ==
  ASSUME PlanInv, ToSet(order) = Needed, NEW p \in Needed
  PROVE  p \notin Closure(ToSet(catalog.dependencies[p]))
<1>1. /\ order \in Seq(Packages) /\ Ordered(catalog.dependencies, order)
      /\ catalog.dependencies \in [Packages -> Seq(Packages)]
  BY DEF PlanInv, WalkInv
<1>2. PICK i \in 1..Len(order) : order[i] = p
  <2>1. ToSet(order) = {order[k] : k \in 1..Len(order)}
    BY <1>1, SeqMembers
  <2>2. p \in ToSet(order)
    OBVIOUS
  <2> QED BY <2>1, <2>2
<1> DEFINE T == {order[j] : j \in 1..(i - 1)}
<1>3. \A j \in 1..(i - 1) : j \in 1..Len(order) /\ order[j] \in Packages /\ order[j] # p
  BY <1>1, <1>2 DEF Ordered
<1>4. ASSUME NEW j \in 1..i PROVE ToSet(catalog.dependencies[order[j]]) \subseteq T
  <2> SUFFICES ASSUME NEW d \in ToSet(catalog.dependencies[order[j]]) PROVE d \in T
    OBVIOUS
  <2>1. j \in 1..Len(order) /\ order[j] \in Packages
    BY <1>1, <1>2
  <2>2. PICK n \in 1..Len(catalog.dependencies[order[j]]) : catalog.dependencies[order[j]][n] = d
    BY <1>1, <2>1 DEF ToSet
  <2>3. PICK m \in 1..(j - 1) : order[m] = d
    <3>1. \A k \in 1..Len(catalog.dependencies[order[j]]) :
            \E m \in 1..(j - 1) : order[m] = catalog.dependencies[order[j]][k]
      BY <1>1, <2>1 DEF Ordered
    <3> QED BY <2>2, <3>1
  <2>4. m \in 1..(i - 1)
    BY <1>2, <2>3
  <2> QED BY <2>3, <2>4
<1>5. T \in SUBSET Packages /\ p \notin T
  BY <1>3
<1>6. i \in 1..i /\ \A j \in 1..(i - 1) : j \in 1..i
  BY <1>2
<1>7. ToSet(catalog.dependencies[p]) \subseteq T
  BY <1>2, <1>4, <1>6
<1>8. \A q \in T : ToSet(catalog.dependencies[q]) \subseteq T
  BY <1>4, <1>6
<1> HIDE DEF T
<1> QED BY <1>5, <1>7, <1>8, ClosureIsLeast

\* If a machine package needs a user package at all, one depends on one.
LEMMA ElevatedAllTheWay ==
  ASSUME PlanInv, NEW p \in Needed, catalog.provider[p].privilege = "elevated",
         \A q \in Needed : Understood(catalog.provider[q]),
         \A q \in Needed : \A d \in ToSet(catalog.dependencies[q]) :
           ~(catalog.provider[q].privilege = "elevated" /\ catalog.provider[d].privilege = "user"),
         NEW d \in Closure({p})
  PROVE  catalog.provider[d].privilege = "elevated"
<1> DEFINE T == {q \in Needed : catalog.provider[q].privilege = "elevated"}
<1>1. /\ Needed \in SUBSET Packages /\ CatalogOK(catalog)
      /\ \A q \in Needed : ToSet(catalog.dependencies[q]) \subseteq Needed
  BY NeededKnown
<1>2. \A q \in Needed : catalog.provider[q].privilege \in {"elevated", "user"}
  BY DEF Understood
<1>3. T \in SUBSET Packages /\ {p} \subseteq T
  BY <1>1
<1>4. \A q \in T : ToSet(catalog.dependencies[q]) \subseteq T
  BY <1>1, <1>2
<1>5. Closure({p}) \subseteq T
  <2> HIDE DEF T
  <2> QED BY <1>3, <1>4, ClosureIsLeast
<1> QED BY <1>5

LEMMA JustNow == PlanInv => BuildIsJust
<1> SUFFICES ASSUME PlanInv, phase = "built"
             PROVE  /\ result.error = Expected(input)
                    /\ result.error = "unsupported" =>
                         result.packages = {p \in Needed : catalog.provider[p] = NoProvider}
                    /\ result.error = "none" /\ AllUnderstood =>
                         \A p \in Needed : catalog.provider[p].privilege = "elevated" =>
                           \A d \in Closure({p}) : catalog.provider[d].privilege = "elevated"
  BY DEF BuildIsJust, Needed
<1> DEFINE profile == input.profile \in DOMAIN catalog.profiles
           known == ToSet(input.packs) \subseteq DOMAIN catalog.packs
           cyclic == \E p \in Needed : p \in Closure(ToSet(catalog.dependencies[p]))
           clash == \E p, q \in Needed : q \in catalog.conflicts[p]
           missing == \E p \in Needed : catalog.provider[p] = NoProvider
           elevated == \A p \in Needed : catalog.provider[p].privilege = "elevated" =>
                         \A d \in Closure({p}) : catalog.provider[d].privilege = "elevated"
           mixed == \E p \in Needed : \E d \in ToSet(catalog.dependencies[p]) :
                      catalog.provider[p].privilege = "elevated" /\ catalog.provider[d].privilege = "user"
<1>1. Expected(input) = IF ~profile THEN "unknown-profile" ELSE IF ~known THEN "unknown-pack" ELSE IF cyclic THEN "cycle"
                        ELSE IF clash THEN "conflict" ELSE IF missing THEN "unsupported"
                        ELSE IF mixed THEN "topology" ELSE "none"
  BY DEF Expected, Needed
<1>2. /\ Needed \in SUBSET Packages
      /\ catalog.dependencies \in [Packages -> Seq(Packages)]
      /\ \A p \in Needed : ToSet(catalog.dependencies[p]) \subseteq Needed
  BY NeededKnown
<1>3. CASE \/ result = Failed("unknown-profile") /\ ~profile
           \/ result = Failed("unknown-pack") /\ profile /\ ~known
  BY <1>1, <1>3 DEF Failed
<1>4. CASE result = Failed("cycle") /\ Known(input) /\ \E p \in Needed : <<p, p>> \in Needs
  <2>1. cyclic
    BY <1>4 DEF Needs
  <2> HIDE DEF cyclic
  <2> QED BY <1>1, <1>4, <2>1 DEF Failed, Known
<1>5. CASE result = Assembled /\ Known(input) /\ ToSet(order) = Needed
  <2>1. profile /\ known /\ ~cyclic
    BY <1>5, NothingNeedsItself DEF Known
  <2>3. AllUnderstood /\ ~mixed => elevated
    BY <1>5, ElevatedAllTheWay DEF AllUnderstood
  <2>4. Assembled = IF clash THEN Failed("conflict")
                    ELSE IF missing
                    THEN [error |-> "unsupported",
                          packages |-> {p \in Needed : catalog.provider[p] = NoProvider}]
                    ELSE IF mixed THEN Failed("topology")
                    ELSE [error |-> "none", id |-> [input EXCEPT !.packs = packs],
                          profile |-> input.profile, packs |-> packs, operations |-> Operations(order)]
    <3>1. {p \in Needed : catalog.provider[p] = NoProvider} # {} <=> missing
      OBVIOUS
    <3> QED BY <1>5, <3>1 DEF Assembled
  <2> HIDE DEF profile, known, cyclic, clash, missing, mixed, elevated
  <2>5. Expected(input) = IF clash THEN "conflict" ELSE IF missing THEN "unsupported"
                          ELSE IF mixed THEN "topology" ELSE "none"
    BY <1>1, <2>1
  <2>6. CASE clash
    BY <1>5, <2>4, <2>5, <2>6 DEF Failed
  <2>7. CASE ~clash /\ missing
    BY <1>5, <2>4, <2>5, <2>7
  <2>8. CASE ~clash /\ ~missing /\ mixed
    BY <1>5, <2>4, <2>5, <2>8 DEF Failed
  <2>9. CASE ~clash /\ ~missing /\ ~mixed
    <3>1. result.error = "none" /\ Expected(input) = "none"
      BY <1>5, <2>4, <2>5, <2>9
    <3>2. AllUnderstood => elevated
      BY <2>3, <2>9
    <3> QED BY <3>1, <3>2 DEF elevated
  <2> QED BY <2>6, <2>7, <2>8, <2>9
<1> QED BY <1>3, <1>4, <1>5 DEF PlanInv, Returned

\* For every catalog that Load accepts and every request, Build fails exactly
\* when the selection has no plan, and says why (planner.go:152-231).
THEOREM FailsJustly == Spec => []BuildIsJust
BY JustNow, PlanInvariant, PTL

-----------------------------------------------------------------------------
(* Sections of a plan.                                                     *)

\* u holds every value of the lists once, and before a value of a list what
\* comes before it in that list.
Kept(lists, u) ==
  /\ \A k, l \in 1..Len(u) : u[k] = u[l] => k = l
  /\ \A b \in 1..Len(lists) : \A i \in 1..Len(lists[b]) :
       \E k \in 1..Len(u) : u[k] = lists[b][i]
  /\ \A k \in 1..Len(u) : \E b \in 1..Len(lists) : \E i \in 1..Len(lists[b]) :
       /\ u[k] = lists[b][i]
       /\ \A j \in 1..(i - 1) : \E l \in 1..(k - 1) : u[l] = lists[b][j]

\* What appendUnique keeps.
LEMMA UniqueKeeps ==
  ASSUME NEW S, NEW lists \in Seq(Seq(S))
  PROVE  Unique(lists) \in Seq(S) /\ Kept(lists, Unique(lists))
<1> DEFINE u == Unique(lists)
           v == FlattenSeq(lists)
<1>1. v \in Seq(S) /\ u \in Seq(S)
  BY UniqueValues
<1>2. PICK from : Firsts(v, u, from)
  BY UniqueValues
<1>3. PICK block, place : Layout(lists, Len(lists), v, block, place)
  BY FlattenLayout
<1> HIDE DEF u, v
<1>4. Len(u) \in Nat /\ Len(v) \in Nat /\ Len(lists) \in Nat
  BY <1>1
<1>5. /\ \A k \in 1..Len(u) : from[k] \in 1..Len(v) /\ u[k] = v[from[k]]
      /\ \A k, l \in 1..Len(u) : k < l => from[k] < from[l] /\ u[k] # u[l]
      /\ \A i \in 1..Len(v) : \E k \in 1..Len(u) : u[k] = v[i] /\ from[k] <= i
  BY <1>2 DEF Firsts
<1>6. /\ \A i \in 1..Len(v) : /\ block[i] \in 1..Len(lists) /\ place[i] \in Nat \ {0}
                              /\ place[i] <= Len(lists[block[i]]) /\ v[i] = lists[block[i]][place[i]]
      /\ \A i, j \in 1..Len(v) : i < j => block[i] < block[j] \/ (block[i] = block[j] /\ place[i] < place[j])
      /\ \A b \in 1..Len(lists) : \A i \in 1..Len(lists[b]) :
           \E n \in 1..Len(v) : block[n] = b /\ place[n] = i
  BY <1>3 DEF Layout
<1>7. \A k, l \in 1..Len(u) : u[k] = u[l] => k = l
  <2> SUFFICES ASSUME NEW k \in 1..Len(u), NEW l \in 1..Len(u), u[k] = u[l], k # l PROVE FALSE
    OBVIOUS
  <2>1. k < l \/ l < k
    BY <1>4
  <2> QED BY <1>5, <2>1
<1>8. ASSUME NEW b \in 1..Len(lists), NEW i \in 1..Len(lists[b])
      PROVE  \E k \in 1..Len(u) : u[k] = lists[b][i]
  <2>1. PICK n \in 1..Len(v) : block[n] = b /\ place[n] = i
    BY <1>6
  <2>2. v[n] = lists[b][i]
    BY <1>6, <2>1
  <2> QED BY <1>5, <2>2
<1>9. ASSUME NEW k \in 1..Len(u)
      PROVE  \E b \in 1..Len(lists) : \E i \in 1..Len(lists[b]) :
               /\ u[k] = lists[b][i]
               /\ \A j \in 1..(i - 1) : \E l \in 1..(k - 1) : u[l] = lists[b][j]
  <2> DEFINE n == from[k]
             b == block[n]
             i == place[n]
  <2>1. n \in 1..Len(v) /\ u[k] = v[n]
    BY <1>5
  <2> HIDE DEF n
  <2>2. b \in 1..Len(lists) /\ u[k] = lists[b][i] /\ i \in Nat \ {0} /\ i <= Len(lists[b])
    <3>1. \A q \in 1..Len(v) : /\ block[q] \in 1..Len(lists) /\ place[q] \in Nat \ {0}
                               /\ place[q] <= Len(lists[block[q]]) /\ v[q] = lists[block[q]][place[q]]
      BY <1>6
    <3> QED BY <2>1, <3>1
  <2>2b. lists[b] \in Seq(S) /\ Len(lists[b]) \in Nat
    <3> HIDE DEF b
    <3>1. b \in 1..Len(lists)
      BY <2>2
    <3>2. lists[b] \in Seq(S)
      BY <3>1
    <3> QED BY <3>2
  <2>3. i \in 1..Len(lists[b])
    <3> HIDE DEF b, i
    <3> QED BY <2>2, <2>2b
  <2>4. ASSUME NEW j \in 1..(i - 1) PROVE \E l \in 1..(k - 1) : u[l] = lists[b][j]
    <3>1. j \in 1..Len(lists[b]) /\ j < i /\ j \in Nat
      <4> HIDE DEF b, i
      <4> QED BY <2>2, <2>2b
    <3>2. PICK m \in 1..Len(v) : block[m] = b /\ place[m] = j
      BY <1>6, <2>2, <3>1
    <3>3. m < n
      <4>1. m # n
        BY <2>2, <3>1, <3>2
      <4>2. ~(n < m)
        <5> SUFFICES ASSUME n < m PROVE FALSE
          OBVIOUS
        <5>1. \A x, y \in 1..Len(v) : x < y => block[x] < block[y] \/ (block[x] = block[y] /\ place[x] < place[y])
          BY <1>6
        <5>2. block[n] < block[m] \/ (block[n] = block[m] /\ place[n] < place[m])
          BY <2>1, <5>1
        <5>3. b < b \/ i < j
          BY <3>2, <5>2
        <5> HIDE DEF b, i
        <5> QED BY <1>4, <2>2, <3>1, <5>3
      <4> QED BY <1>4, <2>1, <4>1, <4>2
    <3>4. v[m] = lists[b][j]
      BY <1>6, <3>2
    <3>5. PICK l \in 1..Len(u) : u[l] = v[m] /\ from[l] <= m
      BY <1>5
    <3>6. l < k
      <4>1. from[l] \in Nat /\ from[k] \in Nat /\ m \in Nat /\ from[l] < from[k]
        BY <1>4, <1>5, <2>1, <3>3, <3>5 DEF n
      <4>2. ~(k < l) /\ k # l
        BY <1>5, <4>1
      <4> QED BY <1>4, <4>2
    <3>7. l \in 1..(k - 1)
      BY <1>4, <3>6
    <3> QED BY <3>4, <3>5, <3>7
  <2> QED BY <2>2, <2>3, <2>4
<1> QED BY <1>1, <1>7, <1>8, <1>9 DEF u, Kept

\* The privilege an operation may rely on, if the executors know all the words.
Serves(op, d, dep) ==
  dep.id = d /\ (AllUnderstood /\ op.privilege = "elevated" => dep.privilege = "elevated")

\* Operations with an id each, that depend on earlier ones, or on given ones.
Orderly(s, given) ==
  /\ \A i, j \in 1..Len(s) : s[i].id = s[j].id => i = j
  /\ \A i \in 1..Len(s) : \A d \in s[i].dependsOn :
       \/ \E j \in 1..(i - 1) : Serves(s[i], d, s[j])
       \/ \E g \in given : Serves(s[i], d, g)

LEMMA JoinMembers ==
  ASSUME NEW S, NEW s \in Seq(S), NEW t \in Seq(S), NEW u, u = s \o t
  PROVE  /\ u \in Seq(S) /\ Len(u) = Len(s) + Len(t)
         /\ \A x : x \in ToSet(u) <=> x \in ToSet(s) \/ x \in ToSet(t)
         /\ \A i \in 1..Len(s) : u[i] = s[i]
         /\ \A i \in 1..Len(t) : u[Len(s) + i] = t[i]
<1>2. /\ u \in Seq(S) /\ Len(u) = Len(s) + Len(t)
      /\ \A i \in 1..(Len(s) + Len(t)) : u[i] = IF i <= Len(s) THEN s[i] ELSE t[i - Len(s)]
  BY ConcatProperties
<1>3. Len(s) \in Nat /\ Len(t) \in Nat /\ DOMAIN s = 1..Len(s) /\ DOMAIN t = 1..Len(t)
  OBVIOUS
<1>4. \A i \in 1..Len(s) : i \in 1..Len(u) /\ u[i] = s[i]
  BY <1>2, <1>3
<1>5. ASSUME NEW i \in 1..Len(t) PROVE Len(s) + i \in 1..Len(u) /\ u[Len(s) + i] = t[i]
  <2>1. Len(s) + i \in 1..(Len(s) + Len(t)) /\ ~(Len(s) + i <= Len(s)) /\ Len(s) + i - Len(s) = i
    BY <1>3
  <2> QED BY <1>2, <2>1
<1>6. ASSUME NEW i \in 1..Len(u)
      PROVE  i \in 1..Len(s) \/ (i - Len(s) \in 1..Len(t) /\ Len(s) + (i - Len(s)) = i)
  BY <1>2, <1>3
<1>7. DOMAIN u = 1..Len(u)
  BY <1>2
<1>8. ToSet(u) \subseteq ToSet(s) \cup ToSet(t)
  <2> SUFFICES ASSUME NEW i \in 1..Len(u) PROVE u[i] \in ToSet(s) \cup ToSet(t)
    BY <1>7 DEF ToSet
  <2> QED BY <1>3, <1>4, <1>5, <1>6 DEF ToSet
<1>9. ToSet(s) \cup ToSet(t) \subseteq ToSet(u)
  <2>1. ToSet(s) \subseteq ToSet(u)
    BY <1>3, <1>4, <1>7 DEF ToSet
  <2>2. ToSet(t) \subseteq ToSet(u)
    BY <1>3, <1>5, <1>7 DEF ToSet
  <2> QED BY <2>1, <2>2
<1>10. ToSet(u) = ToSet(s) \cup ToSet(t)
  BY <1>8, <1>9
<1> QED BY <1>2, <1>4, <1>5, <1>10

\* Orderly sections make an orderly plan, when the ids of one are not the ids
\* of another.
LEMMA OrderlyJoin ==
  ASSUME NEW S, NEW s \in Seq(S), NEW t \in Seq(S), NEW given,
         Orderly(s, given), Orderly(t, given \cup ToSet(s)),
         \A a \in ToSet(s) : \A b \in ToSet(t) : a.id # b.id
  PROVE  Orderly(s \o t, given)
<1> DEFINE u == s \o t
           m == Len(s)
<1>1. /\ m \in Nat /\ Len(t) \in Nat /\ Len(u) = m + Len(t)
      /\ \A i \in 1..m : u[i] = s[i] /\ s[i] \in ToSet(s)
      /\ \A i \in 1..Len(t) : u[m + i] = t[i] /\ t[i] \in ToSet(t)
      /\ ToSet(s) = {s[i] : i \in 1..m}
  <2>1. /\ Len(u) = m + Len(t)
        /\ \A i \in 1..m : u[i] = s[i]
        /\ \A i \in 1..Len(t) : u[m + i] = t[i]
    BY JoinMembers
  <2>2. m \in Nat /\ Len(t) \in Nat /\ DOMAIN s = 1..m /\ DOMAIN t = 1..Len(t)
    OBVIOUS
  <2> HIDE DEF u, m
  <2> QED BY <2>1, <2>2 DEF ToSet
<1> HIDE DEF u, m
<1>2. ASSUME NEW i \in 1..Len(u) PROVE i \in 1..m \/ (i - m \in 1..Len(t) /\ u[i] = t[i - m])
  <2>1. i \in 1..m \/ (i - m \in 1..Len(t) /\ m + (i - m) = i)
    BY <1>1
  <2> QED BY <1>1, <2>1
<1>3. ASSUME NEW i \in 1..Len(u), NEW j \in 1..Len(u), u[i].id = u[j].id PROVE i = j
  <2>1. CASE i \in 1..m /\ j \in 1..m
    BY <1>1, <1>3, <2>1 DEF Orderly, m
  <2>2. CASE i \in 1..m /\ j \notin 1..m
    BY <1>1, <1>2, <1>3, <2>2
  <2>3. CASE i \notin 1..m /\ j \in 1..m
    BY <1>1, <1>2, <1>3, <2>3
  <2>4. CASE i \notin 1..m /\ j \notin 1..m
    <3>1. i - m \in 1..Len(t) /\ j - m \in 1..Len(t) /\ t[i - m].id = t[j - m].id
      BY <1>2, <1>3, <2>4
    <3>2. i - m = j - m
      BY <3>1 DEF Orderly
    <3> QED BY <1>1, <3>2
  <2> QED BY <2>1, <2>2, <2>3, <2>4
<1>4. ASSUME NEW i \in 1..Len(u), NEW d \in u[i].dependsOn
      PROVE  \/ \E j \in 1..(i - 1) : Serves(u[i], d, u[j])
             \/ \E g \in given : Serves(u[i], d, g)
  <2>1. CASE i \in 1..m
    <3>1. u[i] = s[i] /\ \A j \in 1..(i - 1) : u[j] = s[j]
      BY <1>1, <2>1
    <3>2. \/ \E j \in 1..(i - 1) : Serves(s[i], d, s[j])
          \/ \E g \in given : Serves(s[i], d, g)
      BY <1>4, <2>1, <3>1 DEF Orderly, m
    <3> QED BY <3>1, <3>2
  <2>2. CASE i \notin 1..m
    <3> DEFINE n == i - m
    <3>1. n \in 1..Len(t) /\ u[i] = t[n] /\ n \in Nat /\ i = m + n
      BY <1>1, <1>2, <2>2
    <3> HIDE DEF n
    <3>2. \/ \E j \in 1..(n - 1) : Serves(t[n], d, t[j])
          \/ \E g \in given \cup ToSet(s) : Serves(t[n], d, g)
      BY <1>4, <3>1 DEF Orderly
    <3>3. CASE \E j \in 1..(n - 1) : Serves(t[n], d, t[j])
      <4>1. PICK j \in 1..(n - 1) : Serves(t[n], d, t[j])
        BY <3>3
      <4>2. j \in 1..Len(t) /\ m + j \in 1..(i - 1)
        BY <1>1, <3>1
      <4>3. u[m + j] = t[j]
        BY <1>1, <4>2
      <4> QED BY <3>1, <4>1, <4>2, <4>3
    <3>4. CASE \E g \in ToSet(s) : Serves(t[n], d, g)
      <4>1. PICK j \in 1..m : Serves(t[n], d, s[j])
        BY <1>1, <3>4
      <4>2. j \in 1..(i - 1) /\ u[j] = s[j]
        BY <1>1, <3>1
      <4> QED BY <3>1, <4>1, <4>2
    <3> QED BY <3>1, <3>2, <3>3, <3>4
  <2> QED BY <2>1, <2>2
<1> QED BY <1>3, <1>4 DEF Orderly, u

IsSequence(s) == \E S : s \in Seq(S)

LEMMA SectionJoin ==
  ASSUME NEW s, IsSequence(s), NEW t, IsSequence(t), NEW u, u = s \o t,
         Orderly(s, {}), Orderly(t, ToSet(s)),
         \A a \in ToSet(s) : \A b \in ToSet(t) : a.id # b.id
  PROVE  IsSequence(u) /\ Orderly(u, {}) /\ ToSet(u) = ToSet(s) \cup ToSet(t)
<1>1. PICK S : s \in Seq(S)
  BY DEF IsSequence
<1>2. PICK T : t \in Seq(T)
  BY DEF IsSequence
<1> DEFINE V == S \cup T
<1>a. s \in Seq(V) /\ t \in Seq(V)
  <2>1. S \subseteq V /\ T \subseteq V
    OBVIOUS
  <2> HIDE DEF V
  <2> QED BY <1>1, <1>2, <2>1, SeqMonotonic
<1> HIDE DEF V
<1>3. u \in Seq(V) /\ ToSet(u) = ToSet(s) \cup ToSet(t)
  <2>1. u \in Seq(V) /\ \A x : x \in ToSet(u) <=> x \in ToSet(s) \/ x \in ToSet(t)
    BY <1>a, JoinMembers
  <2> QED BY <2>1
<1>4. {} \cup ToSet(s) = ToSet(s)
  OBVIOUS
<1>5. Orderly(s \o t, {})
  BY <1>a, <1>4, OrderlyJoin
<1> QED BY <1>3, <1>5 DEF IsSequence

\* What a plan is assembled from when Build succeeds.
Buildable ==
  /\ order \in Seq(Packages) /\ Ordered(catalog.dependencies, order)
  /\ catalog.dependencies \in [Packages -> Seq(Packages)]
  /\ \A p \in ToSet(order) : catalog.provider[p] \in Provider /\ catalog.intents[p] \in Seq(STRING)
  /\ \A p \in ToSet(order) : \A d \in ToSet(catalog.dependencies[p]) :
       ~(catalog.provider[p].privilege = "elevated" /\ catalog.provider[d].privilege = "user")

LEMMA OrderMembers ==
  ASSUME Buildable
  PROVE  /\ Len(order) \in Nat /\ DOMAIN order = 1..Len(order)
         /\ ToSet(order) = {order[k] : k \in 1..Len(order)} /\ ToSet(order) \subseteq Packages
         /\ \A k \in 1..Len(order) : order[k] \in ToSet(order)
BY DEF Buildable, ToSet

\* The operations that make a package manager usable, by their identities.
FromFlatpak == {p \in ToSet(order) : catalog.provider[p].manager = "flatpak"}
Remotes == {Remote(p) : p \in FromFlatpak}
Manners == {<<"manager", "snap">>, <<"manager", "flatpak">>} \cup Remotes
SnapManager == Operation(<<"manager", "snap">>, "elevated", {})
FlatpakManager == Operation(<<"manager", "flatpak">>, "elevated", {})
FlatpakRemote(remote) ==
  Operation(remote, RemotePrivilege(remote, order), {<<"manager", "flatpak">>})
Managing == {SnapManager, FlatpakManager} \cup {FlatpakRemote(r) : r \in Remotes}

\* The one with an identity.
ManagingFor(id) ==
  IF id[1] = "manager" THEN Operation(id, "elevated", {}) ELSE FlatpakRemote(id)

LEMMA ManagingForIs ==
  /\ ManagingFor(<<"manager", "snap">>) = SnapManager
  /\ ManagingFor(<<"manager", "flatpak">>) = FlatpakManager
  /\ \A r \in Remotes : ManagingFor(r) = FlatpakRemote(r)
  /\ \A id \in Manners : ManagingFor(id) \in Managing /\ ManagingFor(id).id = id
<1>1. /\ ManagingFor(<<"manager", "snap">>) = SnapManager
      /\ ManagingFor(<<"manager", "flatpak">>) = FlatpakManager
  BY DEF ManagingFor, SnapManager, FlatpakManager
<1>2. ASSUME NEW r \in Remotes PROVE ManagingFor(r) = FlatpakRemote(r)
  BY DEF ManagingFor, Remotes, Remote
<1>3. \A id : ManagingFor(id).id = id
  BY DEF ManagingFor, FlatpakRemote, Operation
<1>4. ASSUME NEW id \in Manners PROVE ManagingFor(id) \in Managing
  BY <1>1, <1>2 DEF Manners, Managing
<1> QED BY <1>1, <1>2, <1>3, <1>4

LEMMA ManagingIDs ==
  /\ \A a, b \in Managing : a.id = b.id => a = b
  /\ \A a \in Managing : a.id[1] \in {"manager", "remote"}
  /\ SnapManager.id = <<"manager", "snap">> /\ FlatpakManager.id = <<"manager", "flatpak">>
  /\ SnapManager.dependsOn = {} /\ FlatpakManager.dependsOn = {}
  /\ SnapManager.privilege = "elevated" /\ FlatpakManager.privilege = "elevated"
  /\ \A r : /\ FlatpakRemote(r).id = r /\ FlatpakRemote(r).dependsOn = {FlatpakManager.id}
            /\ FlatpakRemote(r).privilege = RemotePrivilege(r, order)
  /\ SnapManager \in Managing /\ FlatpakManager \in Managing
  /\ \A r \in Remotes : FlatpakRemote(r) \in Managing /\ r[1] = "remote"
<1>1. /\ SnapManager.id = <<"manager", "snap">> /\ FlatpakManager.id = <<"manager", "flatpak">>
      /\ SnapManager.dependsOn = {} /\ FlatpakManager.dependsOn = {}
      /\ SnapManager.privilege = "elevated" /\ FlatpakManager.privilege = "elevated"
  BY DEF SnapManager, FlatpakManager, Operation
<1>2. \A r : /\ FlatpakRemote(r).id = r /\ FlatpakRemote(r).dependsOn = {<<"manager", "flatpak">>}
             /\ FlatpakRemote(r).privilege = RemotePrivilege(r, order)
  BY DEF FlatpakRemote, Operation
<1>3. \A r \in Remotes : r[1] = "remote"
  BY DEF Remotes, Remote
<1>4. \A a \in Managing : \/ a = SnapManager
                          \/ a = FlatpakManager
                          \/ \E r \in Remotes : a = FlatpakRemote(r)
  BY DEF Managing
<1>5. SnapManager \in Managing /\ FlatpakManager \in Managing /\ \A r \in Remotes : FlatpakRemote(r) \in Managing
  BY DEF Managing
<1>6. SnapManager.id # FlatpakManager.id /\ SnapManager.id[1] = "manager" /\ FlatpakManager.id[1] = "manager"
  BY <1>1
<1>7. \A r \in Remotes : FlatpakRemote(r).id[1] = "remote"
  BY <1>2, <1>3, Zenon
<1>8. ASSUME NEW a \in Managing, NEW b \in Managing, a.id = b.id PROVE a = b
  <2>1. \A c \in Managing : \A r \in Remotes : c.id = r => c = FlatpakRemote(r)
    <3> SUFFICES ASSUME NEW c \in Managing, NEW r \in Remotes, c.id = r PROVE c = FlatpakRemote(r)
      OBVIOUS
    <3>1. c # SnapManager /\ c # FlatpakManager
      BY <1>3, <1>6
    <3>2. PICK q \in Remotes : c = FlatpakRemote(q)
      BY <1>4, <3>1
    <3>3. q = r
      BY <1>2, <3>2
    <3> QED BY <3>2, <3>3
  <2>2. CASE \E r \in Remotes : a = FlatpakRemote(r)
    <3>1. PICK r \in Remotes : a = FlatpakRemote(r)
      BY <2>2
    <3>2. a.id = r
      BY <1>2, <3>1
    <3> QED BY <1>8, <2>1, <3>1, <3>2
  <2>3. CASE \E r \in Remotes : b = FlatpakRemote(r)
    <3>1. PICK r \in Remotes : b = FlatpakRemote(r)
      BY <2>3
    <3>2. b.id = r
      BY <1>2, <3>1
    <3> QED BY <1>8, <2>1, <3>1, <3>2
  <2>4. CASE a \in {SnapManager, FlatpakManager} /\ b \in {SnapManager, FlatpakManager}
    BY <1>6, <1>8, <2>4
  <2> QED BY <1>4, <2>2, <2>3, <2>4
<1>9. \A a \in Managing : a.id[1] \in {"manager", "remote"}
  BY <1>4, <1>6, <1>7
<1> QED BY <1>1, <1>2, <1>3, <1>5, <1>8, <1>9

\* What a package needs for its manager.
LEMMA EnsuresManners ==
  ASSUME Buildable, NEW p \in ToSet(order)
  PROVE  /\ Ensures(p) \in Seq(Manners)
         /\ \A i \in 1..Len(Ensures(p)) :
              \/ Ensures(p)[i] = <<"manager", "snap">>
              \/ Ensures(p)[i] = <<"manager", "flatpak">>
              \/ /\ Ensures(p)[i] = Remote(p) /\ catalog.provider[p].manager = "flatpak"
                 /\ 1 \in 1..(i - 1) /\ Ensures(p)[1] = <<"manager", "flatpak">>
         /\ \A d \in ManagerID(p) : \E i \in 1..Len(Ensures(p)) : Ensures(p)[i] = d
         /\ catalog.provider[p].manager = "snap" => ManagerID(p) = {<<"manager", "snap">>}
         /\ catalog.provider[p].manager = "flatpak" => ManagerID(p) = {Remote(p)}
         /\ catalog.provider[p].manager \notin {"snap", "flatpak"} => ManagerID(p) = {}
         /\ catalog.provider[p].manager = "flatpak" => Remote(p) \in Remotes
<1>1. catalog.provider[p].manager = "flatpak" => Remote(p) \in Remotes
  BY DEF Remotes, FromFlatpak
<1>2. CASE catalog.provider[p].manager = "snap"
  <2>1. Ensures(p) = <<<<"manager", "snap">>>> /\ ManagerID(p) = {<<"manager", "snap">>}
    BY <1>2 DEF Ensures, ManagerID
  <2>2. <<"manager", "snap">> \in Manners
    BY DEF Manners
  <2> DEFINE id == <<"manager", "snap">>
  <2> HIDE DEF id
  <2>3. id \in Manners => <<id>> \in Seq(Manners) /\ Len(<<id>>) = 1 /\ <<id>>[1] = id
    OBVIOUS
  <2> QED BY <1>1, <1>2, <2>1, <2>2, <2>3 DEF id
<1>3. CASE catalog.provider[p].manager = "flatpak"
  <2> DEFINE id == <<"manager", "flatpak">>
             r == Remote(p)
  <2>1. Ensures(p) = <<id, r>> /\ ManagerID(p) = {r}
    BY <1>3 DEF Ensures, ManagerID
  <2>2. id \in Manners /\ r \in Manners
    BY <1>1, <1>3 DEF Manners
  <2> HIDE DEF id, r
  <2>4. Ensures(p) \in Seq(Manners) /\ Len(Ensures(p)) = 2 /\ Ensures(p)[1] = id /\ Ensures(p)[2] = r
    BY <2>1, <2>2, PairIsSeq
  <2> QED BY <1>1, <1>3, <2>1, <2>4 DEF id, r
<1>4. CASE catalog.provider[p].manager \notin {"snap", "flatpak"}
  <2>1. Ensures(p) = <<>> /\ ManagerID(p) = {}
    BY <1>4 DEF Ensures, ManagerID
  <2>2. <<>> \in Seq(Manners) /\ Len(<<>>) = 0
    BY EmptySeq
  <2> QED BY <1>1, <1>4, <2>1, <2>2
<1> QED BY <1>2, <1>3, <1>4

\* If the executors know all the words, all packages of a remote have its privilege.
LEMMA RemoteShared ==
  ASSUME Buildable, AllUnderstood, NEW p \in ToSet(order), catalog.provider[p].manager = "flatpak"
  PROVE  RemotePrivilege(Remote(p), order) = catalog.provider[p].privilege
<1> DEFINE owners == {k \in DOMAIN order : Contains(Ensures(order[k]), Remote(p))}
<1>1. /\ Len(order) \in Nat /\ DOMAIN order = 1..Len(order)
      /\ ToSet(order) = {order[k] : k \in 1..Len(order)}
      /\ \A k \in 1..Len(order) : order[k] \in ToSet(order)
  BY OrderMembers
<1>2. PICK k \in 1..Len(order) : order[k] = p
  BY <1>1
<1>3. k \in owners
  <2>1. PICK i \in 1..Len(Ensures(p)) : Ensures(p)[i] = Remote(p)
    BY EnsuresManners
  <2> QED BY <1>1, <1>2, <2>1 DEF Contains
<1>4. owners \in SUBSET (1..Len(order)) /\ owners # {}
  BY <1>1, <1>3
<1> HIDE DEF owners
<1>5. Min(owners) \in owners
  BY <1>1, <1>4, FirstPosition
<1> DEFINE first == Min(owners)
           q == order[first]
<1>6. RemotePrivilege(Remote(p), order) = catalog.provider[q].privilege
  BY DEF RemotePrivilege, owners
<1>7. first \in 1..Len(order) /\ Contains(Ensures(q), Remote(p))
  BY <1>1, <1>5 DEF owners
<1> HIDE DEF first
<1>8. q \in ToSet(order)
  BY <1>1, <1>7
<1> HIDE DEF q
<1>9. PICK i \in 1..Len(Ensures(q)) : Ensures(q)[i] = Remote(p)
  BY <1>7 DEF Contains
<1>10. Remote(p)[1] = "remote"
  BY DEF Remote
<1>11. Ensures(q)[i] = Remote(q) /\ catalog.provider[q].manager = "flatpak"
  BY <1>8, <1>9, <1>10, EnsuresManners
<1>12. catalog.provider[p].remote = catalog.provider[q].remote
  BY <1>9, <1>11 DEF Remote
<1>13. Understood(catalog.provider[p]) /\ Understood(catalog.provider[q])
  BY <1>8 DEF AllUnderstood
<1>14. catalog.provider[p].privilege = catalog.provider[q].privilege
  BY <1>11, <1>12, <1>13 DEF Understood
<1> QED BY <1>6, <1>14

\* The package managers come in order, each once.
LEMMA EnsureSection ==
  ASSUME Buildable
  PROVE  /\ EnsureOperations(order) \in Seq(Managing) /\ Orderly(EnsureOperations(order), {})
         /\ \A p \in ToSet(order) : \A d \in ManagerID(p) : \E g \in ToSet(EnsureOperations(order)) :
              /\ g.id = d
              /\ AllUnderstood /\ catalog.provider[p].privilege = "elevated" => g.privilege = "elevated"
<1> DEFINE lists == [k \in DOMAIN order |-> Ensures(order[k])]
           u == Unique(lists)
           s == EnsureOperations(order)
<1>1. /\ lists \in Seq(Seq(Manners)) /\ Len(lists) = Len(order)
      /\ \A k \in 1..Len(order) : lists[k] = Ensures(order[k]) /\ order[k] \in ToSet(order)
  <2>1. lists \in [1..Len(order) -> Seq(Manners)]
    BY OrderMembers, EnsuresManners
  <2>2. \A k \in 1..Len(order) : lists[k] = Ensures(order[k]) /\ order[k] \in ToSet(order)
    BY OrderMembers
  <2> HIDE DEF lists
  <2> QED BY <2>1, <2>2, OrderMembers, FunctionIsSeq
<1>2. s = [i \in DOMAIN u |-> ManagingFor(u[i])]
  BY DEF EnsureOperations, ManagingFor, FlatpakRemote
<1>2a. u = Unique(lists)
  OBVIOUS
<1> HIDE DEF lists, u, s
<1>3. /\ u \in Seq(Manners)
      /\ \A k, l \in 1..Len(u) : u[k] = u[l] => k = l
      /\ \A b \in 1..Len(lists) : \A i \in 1..Len(lists[b]) : \E k \in 1..Len(u) : u[k] = lists[b][i]
      /\ \A k \in 1..Len(u) : \E b \in 1..Len(lists) : \E i \in 1..Len(lists[b]) :
           /\ u[k] = lists[b][i]
           /\ \A j \in 1..(i - 1) : \E l \in 1..(k - 1) : u[l] = lists[b][j]
  <2>1. u \in Seq(Manners) /\ Kept(lists, u)
    BY <1>1, <1>2a, UniqueKeeps
  <2> QED BY <2>1 DEF Kept
<1>4. /\ Len(u) \in Nat /\ DOMAIN u = 1..Len(u) /\ \A k \in 1..Len(u) : u[k] \in Manners
  BY <1>3
<1>4a. s \in [1..Len(u) -> Managing] /\ \A k \in 1..Len(u) : s[k] = ManagingFor(u[k]) /\ s[k].id = u[k]
  BY <1>2, <1>4, ManagingForIs
<1>4b. s \in Seq(Managing) /\ Len(s) = Len(u)
  BY <1>4, <1>4a, FunctionIsSeq
<1>4c. \A k \in 1..Len(u) : s[k] \in ToSet(s)
  BY <1>4b, SeqMembers
<1>5. ASSUME NEW k \in 1..Len(s), NEW l \in 1..Len(s), s[k].id = s[l].id PROVE k = l
  <2>1. k \in 1..Len(u) /\ l \in 1..Len(u)
    BY <1>4b
  <2>2. u[k] = u[l]
    BY <1>4a, <1>5, <2>1
  <2> QED BY <1>3, <2>1, <2>2, Zenon
<1>6. ASSUME NEW k \in 1..Len(s), NEW d \in s[k].dependsOn
      PROVE  \E j \in 1..(k - 1) : Serves(s[k], d, s[j])
  <2>k. k \in 1..Len(u)
    BY <1>4b
  <2>0. PICK b \in 1..Len(lists) : \E i \in 1..Len(lists[b]) :
          /\ u[k] = lists[b][i]
          /\ \A j \in 1..(i - 1) : \E l \in 1..(k - 1) : u[l] = lists[b][j]
    BY <1>3, <2>k, Zenon
  <2>1. PICK i \in 1..Len(lists[b]) :
          /\ u[k] = lists[b][i]
          /\ \A j \in 1..(i - 1) : \E l \in 1..(k - 1) : u[l] = lists[b][j]
    BY <2>0
  <2>2. /\ lists[b] = Ensures(order[b]) /\ order[b] \in ToSet(order)
    BY <1>1
  <2>3. \/ u[k] = <<"manager", "snap">>
        \/ u[k] = <<"manager", "flatpak">>
        \/ /\ u[k] \in Remotes
           /\ 1 \in 1..(i - 1) /\ lists[b][1] = <<"manager", "flatpak">>
    BY <2>1, <2>2, EnsuresManners
  <2>4. s[k] = ManagingFor(u[k])
    BY <1>4a, <1>4b
  <2>5. u[k] # <<"manager", "snap">> /\ u[k] # <<"manager", "flatpak">>
    BY <1>6, <2>4, ManagingForIs, ManagingIDs, Zenon
  <2>6. u[k] \in Remotes /\ 1 \in 1..(i - 1) /\ lists[b][1] = <<"manager", "flatpak">>
    BY <2>3, <2>5
  <2>7. PICK l \in 1..(k - 1) : u[l] = <<"manager", "flatpak">>
    BY <2>1, <2>6
  <2>8. l \in 1..Len(u)
    BY <1>4, <1>4b
  <2>9. s[l] = FlatpakManager
    BY <1>4a, <2>7, <2>8, ManagingForIs
  <2>10. d = FlatpakManager.id
    BY <1>6, <2>4, <2>6, ManagingForIs, ManagingIDs
  <2> QED BY <2>9, <2>10, ManagingIDs DEF Serves
<1>7. Orderly(s, {})
  BY <1>5, <1>6 DEF Orderly
<1>8. ASSUME NEW p \in ToSet(order), NEW d \in ManagerID(p)
      PROVE  \E g \in ToSet(s) :
               /\ g.id = d
               /\ AllUnderstood /\ catalog.provider[p].privilege = "elevated" => g.privilege = "elevated"
  <2>1. PICK b \in 1..Len(order) : order[b] = p
    BY OrderMembers
  <2>2. PICK i \in 1..Len(Ensures(p)) : Ensures(p)[i] = d
    BY EnsuresManners
  <2>3. lists[b] = Ensures(p) /\ b \in 1..Len(lists)
    BY <1>1, <2>1
  <2>4. i \in 1..Len(lists[b]) /\ lists[b][i] = d
    BY <2>2, <2>3
  <2>5. \A m \in 1..Len(lists[b]) : \E k \in 1..Len(u) : u[k] = lists[b][m]
    BY <1>3, <2>3
  <2>6. PICK k \in 1..Len(u) : u[k] = d
    BY <2>4, <2>5
  <2>7. s[k] \in ToSet(s) /\ s[k] = ManagingFor(d) /\ s[k].id = d
    BY <1>4a, <1>4c, <2>6
  <2>8. CASE d = <<"manager", "snap">>
    BY <2>7, <2>8, ManagingForIs, ManagingIDs
  <2>9. CASE d = Remote(p) /\ catalog.provider[p].manager = "flatpak"
    <3>1. s[k] = FlatpakRemote(Remote(p))
      BY <2>7, <2>9, EnsuresManners, ManagingForIs
    <3>2. s[k].privilege = RemotePrivilege(Remote(p), order)
      BY <3>1, ManagingIDs
    <3>3. AllUnderstood => s[k].privilege = catalog.provider[p].privilege
      BY <2>9, <3>2, RemoteShared
    <3> QED BY <2>7, <3>3
  <2>10. d = <<"manager", "snap">> \/ (d = Remote(p) /\ catalog.provider[p].manager = "flatpak")
    BY <1>8, EnsuresManners
  <2> QED BY <2>8, <2>9, <2>10
<1> QED BY <1>4b, <1>7, <1>8 DEF s

-----------------------------------------------------------------------------
(* Repositories and refreshes.                                             *)

LEMMA OrderlyMore ==
  ASSUME NEW s, NEW given, NEW more, Orderly(s, given), given \subseteq more
  PROVE  Orderly(s, more)
BY DEF Orderly

LEMMA OrderlyNone ==
  ASSUME NEW given, NEW S
  PROVE  <<>> \in Seq(S) /\ ToSet(<<>>) = {} /\ Orderly(<<>>, given)
<1>1. <<>> \in Seq(S) /\ Len(<<>>) = 0 /\ DOMAIN <<>> = 1..0
  BY EmptySeq
<1>2. ToSet(<<>>) = {}
  BY <1>1 DEF ToSet
<1> QED BY <1>1, <1>2 DEF Orderly

LEMMA OrderlyOne ==
  ASSUME NEW given, NEW S, NEW op \in S,
         \A d \in op.dependsOn : \E g \in given : Serves(op, d, g)
  PROVE  <<op>> \in Seq(S) /\ ToSet(<<op>>) = {op} /\ Orderly(<<op>>, given)
<1>1. <<op>> \in Seq(S) /\ Len(<<op>>) = 1 /\ DOMAIN <<op>> = 1..1 /\ <<op>>[1] = op
  OBVIOUS
<1>2. \A i \in 1..1 : i = 1
  OBVIOUS
<1>3. ToSet(<<op>>) = {op}
  BY <1>1, <1>2 DEF ToSet
<1>4. Orderly(<<op>>, given)
  BY <1>1, <1>2 DEF Orderly
<1> QED BY <1>1, <1>3, <1>4

\* The operations of an APT repository.
KeyOf(r) == Operation(<<"key", r>>, "elevated", {})
SourceOf(r) == Operation(<<"repository", r>>, "elevated", {<<"key", r>>})

LEMMA SourceIDs ==
  ASSUME NEW r
  PROVE  /\ KeyOf(r).id = <<"key", r>> /\ KeyOf(r).privilege = "elevated" /\ KeyOf(r).dependsOn = {}
         /\ SourceOf(r).id = <<"repository", r>> /\ SourceOf(r).privilege = "elevated"
         /\ SourceOf(r).dependsOn = {<<"key", r>>}
BY DEF KeyOf, SourceOf, Operation

LEMMA RepositoriesKept ==
  ASSUME Buildable
  PROVE  /\ Repositories(order) \in Seq(STRING)
         /\ \A k, l \in 1..Len(Repositories(order)) : Repositories(order)[k] = Repositories(order)[l] => k = l
         /\ \A p \in ToSet(order) : ToSet(catalog.provider[p].prerequisites) \subseteq ToSet(Repositories(order))
         /\ \A r \in ToSet(Repositories(order)) :
              \E p \in ToSet(order) : r \in ToSet(catalog.provider[p].prerequisites)
<1> DEFINE lists == [k \in DOMAIN order |-> catalog.provider[order[k]].prerequisites]
           u == Repositories(order)
<1>1. \A p \in ToSet(order) : catalog.provider[p].prerequisites \in Seq(STRING)
  BY DEF Buildable, Provider
<1>2. /\ lists \in Seq(Seq(STRING)) /\ Len(lists) = Len(order)
      /\ \A k \in 1..Len(order) : lists[k] = catalog.provider[order[k]].prerequisites
  <2>1. lists \in [1..Len(order) -> Seq(STRING)]
    BY <1>1, OrderMembers
  <2>2. \A k \in 1..Len(order) : lists[k] = catalog.provider[order[k]].prerequisites
    BY OrderMembers
  <2> HIDE DEF lists
  <2> QED BY <2>1, <2>2, OrderMembers, FunctionIsSeq
<1>3. u = Unique(lists)
  BY DEF Repositories
<1> HIDE DEF lists, u
<1>4. u \in Seq(STRING) /\ Kept(lists, u)
  BY <1>2, <1>3, UniqueKeeps
<1>5. \A k, l \in 1..Len(u) : u[k] = u[l] => k = l
  BY <1>4 DEF Kept
<1>6. ASSUME NEW p \in ToSet(order), NEW r \in ToSet(catalog.provider[p].prerequisites)
      PROVE  r \in ToSet(u)
  <2>1. PICK b \in 1..Len(order) : order[b] = p
    BY OrderMembers
  <2>2. lists[b] = catalog.provider[p].prerequisites /\ b \in 1..Len(lists)
    BY <1>2, <2>1
  <2>3. PICK i \in 1..Len(lists[b]) : lists[b][i] = r
    BY <1>1, <1>6, <2>2, SeqMembers
  <2>4. PICK k \in 1..Len(u) : u[k] = lists[b][i]
    BY <1>4, <2>2 DEF Kept
  <2> QED BY <1>4, <2>3, <2>4, SeqMembers
<1>7. ASSUME NEW r \in ToSet(u)
      PROVE  \E p \in ToSet(order) : r \in ToSet(catalog.provider[p].prerequisites)
  <2>1. PICK k \in 1..Len(u) : u[k] = r
    BY <1>4, <1>7, SeqMembers
  <2>2. PICK b \in 1..Len(lists) : \E i \in 1..Len(lists[b]) : u[k] = lists[b][i]
    BY <1>4 DEF Kept
  <2>3. b \in 1..Len(order) /\ lists[b] = catalog.provider[order[b]].prerequisites /\ order[b] \in ToSet(order)
    BY <1>2, OrderMembers
  <2>4. r \in ToSet(lists[b])
    BY <1>1, <2>1, <2>2, <2>3, SeqMembers
  <2> QED BY <2>3, <2>4
<1> QED BY <1>4, <1>5, <1>6, <1>7 DEF u

\* Every repository has its key, and then its source.
LEMMA RepositorySection ==
  ASSUME Buildable
  PROVE  /\ \E S : RepositoryOperations(order) \in Seq(S)
         /\ Orderly(RepositoryOperations(order), {})
         /\ ToSet(RepositoryOperations(order)) =
              {KeyOf(r) : r \in ToSet(Repositories(order))} \cup {SourceOf(r) : r \in ToSet(Repositories(order))}
<1> DEFINE R == Repositories(order)
           n == Len(R)
           A == [k \in 1..n |-> KeyOf(R[k])]
           B == [k \in 1..n |-> SourceOf(R[k])]
           S == {KeyOf(r) : r \in STRING} \cup {SourceOf(r) : r \in STRING}
           lists == [k \in 1..n |-> <<A[k], B[k]>>]
           s == RepositoryOperations(order)
<1>1. /\ R \in Seq(STRING) /\ n \in Nat /\ DOMAIN R = 1..n /\ ToSet(R) = {R[k] : k \in 1..n}
      /\ \A k, l \in 1..n : R[k] = R[l] => k = l
  BY RepositoriesKept, SeqMembers
<1>2. s = FlattenSeq(lists)
  <2>1. RepositoryOperations(order) = FlattenSeq([k \in 1..n |-> <<KeyOf(R[k]), SourceOf(R[k])>>])
    BY <1>1 DEF RepositoryOperations, KeyOf, SourceOf
  <2>2. [k \in 1..n |-> <<KeyOf(R[k]), SourceOf(R[k])>>] = lists
    OBVIOUS
  <2> QED BY <2>1, <2>2
<1> HIDE DEF R, n, s
<1>3. A \in [1..n -> S] /\ B \in [1..n -> S]
  <2>1. \A k \in 1..n : R[k] \in STRING
    BY <1>1 DEF n
  <2> QED BY <2>1
<1>4. Distinct(n, A, B)
  <2>1. \A k \in 1..n : A[k].id = <<"key", R[k]>> /\ B[k].id = <<"repository", R[k]>>
    BY SourceIDs
  <2> HIDE DEF A, B
  <2> QED BY <1>1, <2>1 DEF Distinct
<1>5. lists = Twins(n, A, B)
  BY DEF Twins
<1>6. \A k \in 1..n : A[k] = KeyOf(R[k]) /\ B[k] = SourceOf(R[k])
  OBVIOUS
<1> HIDE DEF A, B, S, lists
<1>7. s \in Seq(S) /\ Paired(n, A, B, s)
  <2>1. n \in Nat
    BY <1>1
  <2>2. FlattenSeq(Twins(n, A, B)) \in Seq(S) /\ Paired(n, A, B, FlattenSeq(Twins(n, A, B)))
    BY <2>1, <1>3, <1>4, FlattenPairs
  <2> QED BY <1>2, <1>5, <2>2
<1>8. /\ ToSet(s) = {A[k] : k \in 1..n} \cup {B[k] : k \in 1..n}
      /\ \A i, j \in 1..Len(s) : s[i].id = s[j].id => i = j
      /\ \A i \in 1..Len(s) : \E k \in 1..n :
           s[i] = A[k] \/ (s[i] = B[k] /\ \E j \in 1..(i - 1) : s[j] = A[k])
  BY <1>7 DEF Paired
<1>9. ToSet(s) = {KeyOf(r) : r \in ToSet(R)} \cup {SourceOf(r) : r \in ToSet(R)}
  <2>1. {A[k] : k \in 1..n} = {KeyOf(r) : r \in ToSet(R)}
    BY <1>1, <1>6
  <2>2. {B[k] : k \in 1..n} = {SourceOf(r) : r \in ToSet(R)}
    BY <1>1, <1>6
  <2> QED BY <1>8, <2>1, <2>2
<1>10. ASSUME NEW i \in 1..Len(s), NEW d \in s[i].dependsOn
       PROVE  \E j \in 1..(i - 1) : Serves(s[i], d, s[j])
  <2>1. PICK k \in 1..n : s[i] = A[k] \/ (s[i] = B[k] /\ \E j \in 1..(i - 1) : s[j] = A[k])
    BY <1>8
  <2>2. s[i] # A[k]
    BY <1>6, <1>10, SourceIDs
  <2>3. PICK j \in 1..(i - 1) : s[j] = A[k]
    BY <2>1, <2>2
  <2>4. d = A[k].id /\ A[k].privilege = "elevated"
    BY <1>6, <1>10, <2>1, <2>2, SourceIDs
  <2> QED BY <2>3, <2>4 DEF Serves
<1>11. Orderly(s, {})
  BY <1>8, <1>10 DEF Orderly
<1> QED BY <1>7, <1>9, <1>11 DEF s, R

\* The refreshes of the package lists.
AptOperation == Operation(AptRefresh, "elevated", {<<"repository", r>> : r \in ToSet(Repositories(order))})
DnfOperation == Operation(DnfRefresh, "elevated", {})

LEMMA RefreshIDs ==
  /\ AptOperation.id = AptRefresh /\ DnfOperation.id = DnfRefresh /\ AptRefresh # DnfRefresh
  /\ AptRefresh[1] = "refresh" /\ DnfRefresh[1] = "refresh"
  /\ AptOperation.privilege = "elevated" /\ DnfOperation.privilege = "elevated"
  /\ AptOperation.dependsOn = {<<"repository", r>> : r \in ToSet(Repositories(order))}
  /\ DnfOperation.dependsOn = {}
BY DEF AptOperation, DnfOperation, AptRefresh, DnfRefresh, Operation

\* The refreshes come after the repositories, and are there if they are needed.
LEMMA RefreshSection ==
  ASSUME Buildable, NEW given, ToSet(RepositoryOperations(order)) \subseteq given
  PROVE  /\ RefreshOperations(order) \in Seq({AptOperation, DnfOperation})
         /\ Orderly(RefreshOperations(order), given)
         /\ \A p \in ToSet(order) : \A d \in Refreshes(p) : \E g \in ToSet(RefreshOperations(order)) :
              g.id = d /\ g.privilege = "elevated"
<1> DEFINE A == IF Repositories(order) = <<>> THEN <<>> ELSE <<AptOperation>>
           D == IF UsesDnf(order) THEN <<DnfOperation>> ELSE <<>>
           S == {AptOperation, DnfOperation}
<1>1. RefreshOperations(order) = A \o D
  BY DEF RefreshOperations, AptOperation, DnfOperation
<1>2. /\ A \in Seq(S) /\ Orderly(A, given) /\ ToSet(A) \subseteq {AptOperation}
      /\ Repositories(order) # <<>> => AptOperation \in ToSet(A)
  <2>1. CASE Repositories(order) = <<>>
    BY <2>1, OrderlyNone
  <2>2. CASE Repositories(order) # <<>>
    <3>1. ASSUME NEW d \in AptOperation.dependsOn PROVE \E g \in given : Serves(AptOperation, d, g)
      <4>1. PICK r \in ToSet(Repositories(order)) : d = <<"repository", r>>
        BY <3>1, RefreshIDs
      <4>2. SourceOf(r) \in given
        BY RepositorySection
      <4> QED BY <4>1, <4>2, SourceIDs DEF Serves
    <3>2. <<AptOperation>> \in Seq(S) /\ ToSet(<<AptOperation>>) = {AptOperation} /\ Orderly(<<AptOperation>>, given)
      BY <3>1, OrderlyOne
    <3> QED BY <2>2, <3>2
  <2> QED BY <2>1, <2>2
<1>3. /\ D \in Seq(S) /\ Orderly(D, given \cup ToSet(A)) /\ ToSet(D) \subseteq {DnfOperation}
      /\ UsesDnf(order) => DnfOperation \in ToSet(D)
  <2>1. CASE ~UsesDnf(order)
    BY <2>1, OrderlyNone
  <2>2. CASE UsesDnf(order)
    <3>1. <<DnfOperation>> \in Seq(S) /\ ToSet(<<DnfOperation>>) = {DnfOperation}
          /\ Orderly(<<DnfOperation>>, given \cup ToSet(A))
      BY RefreshIDs, OrderlyOne
    <3> QED BY <2>2, <3>1
  <2> QED BY <2>1, <2>2
<1> HIDE DEF A, D, S
<1>4. \A a \in ToSet(A) : \A b \in ToSet(D) : a.id # b.id
  BY <1>2, <1>3, RefreshIDs
<1>5. Orderly(A \o D, given)
  BY <1>2, <1>3, <1>4, OrderlyJoin
<1>6. A \o D \in Seq(S) /\ ToSet(A \o D) = ToSet(A) \cup ToSet(D)
  <2>1. A \o D \in Seq(S) /\ \A x : x \in ToSet(A \o D) <=> x \in ToSet(A) \/ x \in ToSet(D)
    BY <1>2, <1>3, JoinMembers
  <2> QED BY <2>1
<1>7. ASSUME NEW p \in ToSet(order), NEW d \in Refreshes(p)
      PROVE  \E g \in ToSet(RefreshOperations(order)) : g.id = d /\ g.privilege = "elevated"
  <2>1. CASE d = AptRefresh /\ catalog.provider[p].prerequisites # <<>>
    <3>1. catalog.provider[p].prerequisites \in Seq(STRING)
      BY DEF Buildable, Provider
    <3>2. catalog.provider[p].prerequisites[1] \in ToSet(catalog.provider[p].prerequisites)
      BY <2>1, <3>1 DEF ToSet
    <3>3. ToSet(Repositories(order)) # {}
      BY <3>2, RepositoriesKept
    <3>4. Repositories(order) # <<>>
      BY <3>3, OrderlyNone
    <3> QED BY <1>1, <1>2, <1>6, <2>1, <3>4, RefreshIDs
  <2>2. CASE d = DnfRefresh /\ FromDnf(p)
    <3>1. UsesDnf(order)
      BY <2>2 DEF UsesDnf
    <3> QED BY <1>1, <1>3, <1>6, <2>2, <3>1, RefreshIDs
  <2>3. \/ d = AptRefresh /\ catalog.provider[p].prerequisites # <<>>
        \/ d = DnfRefresh /\ FromDnf(p)
    BY <1>7 DEF Refreshes
  <2> QED BY <2>1, <2>2, <2>3
<1> QED BY <1>1, <1>5, <1>6, <1>7 DEF S

-----------------------------------------------------------------------------
(* Packages and configuration.                                             *)

\* The two operations of a package.
DetectOf(p) ==
  Operation(<<"detect", p>>, catalog.provider[p].privilege,
            Installs(ToSet(catalog.dependencies[p])) \cup ManagerID(p))
InstallOf(p) ==
  Operation(<<"install", p>>, catalog.provider[p].privilege,
            Installs(ToSet(catalog.dependencies[p])) \cup {<<"detect", p>>} \cup Refreshes(p))

LEMMA PackageIDs ==
  ASSUME NEW p
  PROVE  /\ DetectOf(p).id = <<"detect", p>> /\ InstallOf(p).id = <<"install", p>>
         /\ DetectOf(p).privilege = catalog.provider[p].privilege
         /\ InstallOf(p).privilege = catalog.provider[p].privilege
         /\ DetectOf(p).dependsOn = Installs(ToSet(catalog.dependencies[p])) \cup ManagerID(p)
         /\ InstallOf(p).dependsOn =
              Installs(ToSet(catalog.dependencies[p])) \cup {<<"detect", p>>} \cup Refreshes(p)
BY DEF DetectOf, InstallOf, Operation

\* What a package needs of the sections before: its manager and its refreshes.
Prepared(given) ==
  \A p \in ToSet(order) :
    /\ \A d \in ManagerID(p) : \E g \in given :
         /\ g.id = d
         /\ AllUnderstood /\ catalog.provider[p].privilege = "elevated" => g.privilege = "elevated"
    /\ \A d \in Refreshes(p) : \E g \in given : g.id = d /\ g.privilege = "elevated"

LEMMA PackageSection ==
  ASSUME Buildable, NEW given, Prepared(given)
  PROVE  /\ \E S : PackageOperations(order) \in Seq(S)
         /\ Orderly(PackageOperations(order), given)
         /\ ToSet(PackageOperations(order)) =
              {DetectOf(p) : p \in ToSet(order)} \cup {InstallOf(p) : p \in ToSet(order)}
<1> DEFINE n == Len(order)
           A == [k \in 1..n |-> DetectOf(order[k])]
           B == [k \in 1..n |-> InstallOf(order[k])]
           S == {DetectOf(p) : p \in Packages} \cup {InstallOf(p) : p \in Packages}
           s == PackageOperations(order)
<1>1. /\ n \in Nat /\ DOMAIN order = 1..n /\ ToSet(order) = {order[k] : k \in 1..n}
      /\ \A k \in 1..n : order[k] \in ToSet(order) /\ order[k] \in Packages
  BY OrderMembers
<1>2. s = FlattenSeq(Twins(n, A, B))
  <2>1. PackageOperations(order) = FlattenSeq([k \in 1..n |-> <<DetectOf(order[k]), InstallOf(order[k])>>])
    BY <1>1 DEF PackageOperations, DetectOf, InstallOf
  <2>2. [k \in 1..n |-> <<DetectOf(order[k]), InstallOf(order[k])>>] = Twins(n, A, B)
    BY DEF Twins
  <2> QED BY <2>1, <2>2
<1> HIDE DEF n, s
<1>3. A \in [1..n -> S] /\ B \in [1..n -> S]
  BY <1>1
<1>4. \A k \in 1..n : A[k] = DetectOf(order[k]) /\ B[k] = InstallOf(order[k])
  OBVIOUS
<1> HIDE DEF A, B, S
<1>5. \A k, l \in 1..n : order[k] = order[l] => k = l
  <2>1. \A k \in 1..n : \A j \in 1..(k - 1) : order[j] # order[k]
    BY DEF Buildable, Ordered, n
  <2> QED BY <1>1, <2>1
<1>6. Distinct(n, A, B)
  BY <1>4, <1>5, PackageIDs DEF Distinct
<1>7. s \in Seq(S) /\ Paired(n, A, B, s)
  BY <1>1, <1>2, <1>3, <1>6, FlattenPairs
<1>8. /\ ToSet(s) = {A[k] : k \in 1..n} \cup {B[k] : k \in 1..n}
      /\ \A i, j \in 1..Len(s) : s[i].id = s[j].id => i = j
      /\ \A i \in 1..Len(s) : \E k \in 1..n :
           /\ s[i] = A[k] \/ (s[i] = B[k] /\ \E j \in 1..(i - 1) : s[j] = A[k])
           /\ \A l \in 1..(k - 1) : \E j \in 1..(i - 1) : s[j] = B[l]
  BY <1>7 DEF Paired
<1>9. ToSet(s) = {DetectOf(p) : p \in ToSet(order)} \cup {InstallOf(p) : p \in ToSet(order)}
  <2>1. {A[k] : k \in 1..n} = {DetectOf(p) : p \in ToSet(order)}
    <3>1. ASSUME NEW k \in 1..n PROVE A[k] \in {DetectOf(p) : p \in ToSet(order)}
      BY <1>1, <1>4
    <3>2. ASSUME NEW p \in ToSet(order) PROVE DetectOf(p) \in {A[k] : k \in 1..n}
      <4>1. PICK k \in 1..n : order[k] = p
        BY <1>1
      <4>2. A[k] = DetectOf(p)
        BY <1>4, <4>1
      <4> QED BY <4>2
    <3> QED BY <3>1, <3>2
  <2>2. {B[k] : k \in 1..n} = {InstallOf(p) : p \in ToSet(order)}
    <3>1. ASSUME NEW k \in 1..n PROVE B[k] \in {InstallOf(p) : p \in ToSet(order)}
      BY <1>1, <1>4
    <3>2. ASSUME NEW p \in ToSet(order) PROVE InstallOf(p) \in {B[k] : k \in 1..n}
      <4>1. PICK k \in 1..n : order[k] = p
        BY <1>1
      <4>2. B[k] = InstallOf(p)
        BY <1>4, <4>1
      <4> QED BY <4>2
    <3> QED BY <3>1, <3>2
  <2> QED BY <1>8, <2>1, <2>2
<1>10. ASSUME NEW i \in 1..Len(s), NEW d \in s[i].dependsOn
       PROVE  \/ \E j \in 1..(i - 1) : Serves(s[i], d, s[j])
              \/ \E g \in given : Serves(s[i], d, g)
  <2>1. PICK k \in 1..n :
          /\ s[i] = A[k] \/ (s[i] = B[k] /\ \E j \in 1..(i - 1) : s[j] = A[k])
          /\ \A l \in 1..(k - 1) : \E j \in 1..(i - 1) : s[j] = B[l]
    BY <1>8
  <2> DEFINE p == order[k]
             x == catalog.provider[p].privilege
  <2>2. /\ p \in ToSet(order) /\ s[i].privilege = x
        /\ A[k] = DetectOf(p) /\ B[k] = InstallOf(p)
    <3>1. p \in ToSet(order) /\ A[k] = DetectOf(p) /\ B[k] = InstallOf(p)
      BY <1>1, <1>4
    <3>2. s[i] = DetectOf(p) \/ s[i] = InstallOf(p)
      BY <2>1, <3>1
    <3> QED BY <3>1, <3>2, PackageIDs
  <2> HIDE DEF p
  <2>3. CASE d \in Installs(ToSet(catalog.dependencies[p]))
    <3>1. PICK q \in ToSet(catalog.dependencies[p]) : d = <<"install", q>>
      BY <2>3 DEF Installs
    <3>2. PICK l \in 1..(k - 1) : order[l] = q
      <4>1. catalog.dependencies[p] \in Seq(Packages)
        BY <2>2, OrderMembers DEF Buildable
      <4>2. PICK m \in 1..Len(catalog.dependencies[p]) : catalog.dependencies[p][m] = q
        BY <4>1, SeqMembers
      <4>3. k \in 1..Len(order) /\ m \in 1..Len(catalog.dependencies[order[k]])
            /\ catalog.dependencies[order[k]][m] = q
        BY <4>2 DEF n, p
      <4>4. Ordered(catalog.dependencies, order)
        BY DEF Buildable
      <4>5. \E j \in 1..(k - 1) : order[j] = catalog.dependencies[order[k]][m]
        BY <4>3, <4>4 DEF Ordered
      <4> QED BY <4>3, <4>5
    <3>3. PICK j \in 1..(i - 1) : s[j] = B[l]
      BY <2>1
    <3>4. l \in 1..n /\ q \in ToSet(order)
      BY <1>1, <3>2
    <3>5. s[j].id = d /\ s[j].privilege = catalog.provider[q].privilege
      BY <1>4, <3>1, <3>2, <3>3, <3>4, PackageIDs
    <3>6. AllUnderstood /\ x = "elevated" => catalog.provider[q].privilege = "elevated"
      <4>1. AllUnderstood => catalog.provider[q].privilege \in {"elevated", "user"}
        BY <3>4 DEF AllUnderstood, Understood
      <4> QED BY <2>2, <3>1, <4>1 DEF Buildable
    <3> QED BY <2>2, <3>5, <3>6 DEF Serves
  <2>4. CASE s[i] = A[k] /\ d \in ManagerID(p)
    BY <2>2, <2>4 DEF Prepared, Serves
  <2>5. CASE s[i] = B[k] /\ d = <<"detect", p>>
    <3>1. PICK j \in 1..(i - 1) : s[j] = A[k]
      <4>1. A[k] # B[k]
        BY <2>2, PackageIDs
      <4> QED BY <2>1, <2>5, <4>1
    <3> QED BY <2>2, <2>5, <3>1, PackageIDs DEF Serves
  <2>6. CASE s[i] = B[k] /\ d \in Refreshes(p)
    BY <2>2, <2>6 DEF Prepared, Serves
  <2> QED BY <1>10, <2>1, <2>2, <2>3, <2>4, <2>5, <2>6, PackageIDs
<1>11. Orderly(s, given)
  BY <1>8, <1>10 DEF Orderly
<1> QED BY <1>7, <1>9, <1>11 DEF s

\* configureOperation: in the user's account, when everything is installed.
ConfigureOf(x) == Operation(<<"configure", x>>, "user", Installs(ToSet(order)))

LEMMA ConfigureSection ==
  ASSUME Buildable, NEW given, \A p \in ToSet(order) : InstallOf(p) \in given
  PROVE  /\ ConfigureOperations(order) \in Seq({ConfigureOf(x) : x \in STRING})
         /\ Orderly(ConfigureOperations(order), given)
<1> DEFINE lists == [k \in DOMAIN order |-> catalog.intents[order[k]]]
           u == Unique(lists)
           K == {ConfigureOf(x) : x \in STRING}
           s == ConfigureOperations(order)
<1>1. lists \in Seq(Seq(STRING))
  <2>1. \A p \in ToSet(order) : catalog.intents[p] \in Seq(STRING)
    BY DEF Buildable
  <2>2. lists \in [1..Len(order) -> Seq(STRING)]
    BY <2>1, OrderMembers
  <2> HIDE DEF lists
  <2> QED BY <2>2, OrderMembers, FunctionIsSeq
<1>2. s = [k \in DOMAIN u |-> ConfigureOf(u[k])]
  BY DEF ConfigureOperations, ConfigureOf
<1> HIDE DEF lists, s
<1>3. u \in Seq(STRING) /\ Kept(lists, u)
  BY <1>1, UniqueKeeps
<1> HIDE DEF u
<1>4. \A k, l \in 1..Len(u) : u[k] = u[l] => k = l
  BY <1>3 DEF Kept
<1>5. Len(u) \in Nat /\ DOMAIN u = 1..Len(u) /\ \A k \in 1..Len(u) : u[k] \in STRING
  BY <1>3
<1>6. s \in [1..Len(u) -> K] /\ \A k \in 1..Len(u) : s[k] = ConfigureOf(u[k])
  BY <1>2, <1>5
<1>7. s \in Seq(K) /\ Len(s) = Len(u)
  <2> HIDE DEF K
  <2> QED BY <1>5, <1>6, FunctionIsSeq
<1>8. \A x : /\ ConfigureOf(x).id = <<"configure", x>> /\ ConfigureOf(x).privilege = "user"
             /\ ConfigureOf(x).dependsOn = Installs(ToSet(order))
  BY DEF ConfigureOf, Operation
<1>9. ASSUME NEW i \in 1..Len(s), NEW d \in s[i].dependsOn PROVE \E g \in given : Serves(s[i], d, g)
  <2>1. s[i].dependsOn = Installs(ToSet(order)) /\ s[i].privilege = "user"
    BY <1>6, <1>7, <1>8
  <2>2. PICK p \in ToSet(order) : d = <<"install", p>>
    BY <1>9, <2>1 DEF Installs
  <2> QED BY <2>1, <2>2, PackageIDs DEF Serves
<1>10. \A i, j \in 1..Len(s) : s[i].id = s[j].id => i = j
  BY <1>4, <1>6, <1>7, <1>8
<1>11. Orderly(s, given)
  BY <1>9, <1>10 DEF Orderly
<1> QED BY <1>7, <1>11 DEF s, K

-----------------------------------------------------------------------------
(* The plan as a whole.                                                    *)

\* The operations a plan may hold.
Preparing == {KeyOf(r) : r \in ToSet(Repositories(order))} \cup {SourceOf(r) : r \in ToSet(Repositories(order))}
Refreshing == {AptOperation, DnfOperation}
Installing == {DetectOf(p) : p \in ToSet(order)} \cup {InstallOf(p) : p \in ToSet(order)}
Configuring == {ConfigureOf(x) : x \in STRING}

LEMMA KindsOfOperations ==
  /\ \A a \in Managing : a.id[1] \in {"manager", "remote"}
  /\ \A a \in Preparing : a.id[1] \in {"key", "repository"}
  /\ \A a \in Refreshing : a.id[1] = "refresh"
  /\ \A a \in Installing : a.id[1] \in {"detect", "install"}
  /\ \A a \in Configuring : a.id[1] = "configure"
<1>1. \A a \in Managing : a.id[1] \in {"manager", "remote"}
  BY ManagingIDs
<1>2. \A a \in Preparing : a.id[1] \in {"key", "repository"}
  BY SourceIDs DEF Preparing
<1>3. \A a \in Refreshing : a.id[1] = "refresh"
  BY RefreshIDs DEF Refreshing
<1>4. \A a \in Installing : a.id[1] \in {"detect", "install"}
  BY PackageIDs DEF Installing
<1>5. \A a \in Configuring : a.id[1] = "configure"
  BY DEF Configuring, ConfigureOf, Operation
<1> QED BY <1>1, <1>2, <1>3, <1>4, <1>5

\* The sections of a plan, one after the other.
LEMMA PlanSections ==
  ASSUME Buildable
  PROVE  /\ IsSequence(Operations(order))
         /\ Orderly(Operations(order), {})
         /\ ToSet(Operations(order)) \subseteq Managing \cup Preparing \cup Refreshing \cup Installing \cup Configuring
         /\ Installing \subseteq ToSet(Operations(order))
<1> DEFINE E == EnsureOperations(order)
           R == RepositoryOperations(order)
           F == RefreshOperations(order)
           P == PackageOperations(order)
           K == ConfigureOperations(order)
           ER == E \o R
           ERF == ER \o F
           ERFP == ERF \o P
<1>1. IsSequence(E) /\ Orderly(E, {}) /\ ToSet(E) \subseteq Managing
  BY EnsureSection, SeqMembers DEF IsSequence
<1>2. IsSequence(R) /\ Orderly(R, {}) /\ ToSet(R) = Preparing
  BY RepositorySection DEF IsSequence, Preparing
<1>3. ER = E \o R /\ ERF = ER \o F /\ ERFP = ERF \o P /\ Operations(order) = ERFP \o K
  BY DEF Operations
<1> HIDE DEF E, R, F, P, K, ER, ERF, ERFP
<1>4. IsSequence(ER) /\ Orderly(ER, {}) /\ ToSet(ER) = ToSet(E) \cup Preparing
  <2>1. Orderly(R, ToSet(E))
    BY <1>2, OrderlyMore
  <2>2. \A a \in ToSet(E) : \A b \in ToSet(R) : a.id # b.id
    BY <1>1, <1>2, KindsOfOperations
  <2> QED BY <1>1, <1>2, <1>3, <2>1, <2>2, SectionJoin
<1>5. /\ IsSequence(F) /\ ToSet(F) \subseteq Refreshing /\ Orderly(F, ToSet(ER))
      /\ \A p \in ToSet(order) : \A d \in Refreshes(p) : \E g \in ToSet(F) : g.id = d /\ g.privilege = "elevated"
  <2>1. ToSet(RepositoryOperations(order)) \subseteq ToSet(ER)
    BY <1>2, <1>4 DEF R
  <2>2. /\ F \in Seq(Refreshing)
        /\ Orderly(F, ToSet(ER))
        /\ \A p \in ToSet(order) : \A d \in Refreshes(p) : \E g \in ToSet(F) : g.id = d /\ g.privilege = "elevated"
    BY <2>1, RefreshSection DEF Refreshing, F
  <2>3. ToSet(F) \subseteq Refreshing
    BY <2>2, SeqMembers
  <2> QED BY <2>2, <2>3 DEF IsSequence
<1>6. IsSequence(ERF) /\ Orderly(ERF, {}) /\ ToSet(ERF) = ToSet(E) \cup Preparing \cup ToSet(F)
  <2>1. \A a \in ToSet(ER) : \A b \in ToSet(F) : a.id # b.id
    BY <1>1, <1>4, <1>5, KindsOfOperations
  <2>2. IsSequence(ERF) /\ Orderly(ERF, {}) /\ ToSet(ERF) = ToSet(ER) \cup ToSet(F)
    BY <1>3, <1>4, <1>5, <2>1, SectionJoin
  <2> QED BY <1>4, <2>2
<1>7. Prepared(ToSet(ERF))
  BY <1>5, <1>6, EnsureSection DEF Prepared, E
<1>8. IsSequence(P) /\ Orderly(P, ToSet(ERF)) /\ ToSet(P) = Installing
  BY <1>7, PackageSection DEF IsSequence, Installing, P
<1>9. /\ IsSequence(ERFP) /\ Orderly(ERFP, {})
      /\ ToSet(ERFP) = ToSet(E) \cup Preparing \cup ToSet(F) \cup Installing
  <2>1. \A a \in ToSet(ERF) : \A b \in ToSet(P) : a.id # b.id
    BY <1>1, <1>5, <1>6, <1>8, KindsOfOperations
  <2>2. IsSequence(ERFP) /\ Orderly(ERFP, {}) /\ ToSet(ERFP) = ToSet(ERF) \cup ToSet(P)
    BY <1>3, <1>6, <1>8, <2>1, SectionJoin
  <2> QED BY <1>6, <1>8, <2>2
<1>10. IsSequence(K) /\ Orderly(K, ToSet(ERFP)) /\ ToSet(K) \subseteq Configuring
  <2>1. \A p \in ToSet(order) : InstallOf(p) \in ToSet(ERFP)
    BY <1>9 DEF Installing
  <2>2. K \in Seq(Configuring) /\ Orderly(K, ToSet(ERFP))
    BY <2>1, ConfigureSection DEF Configuring, K
  <2> QED BY <2>2, SeqMembers DEF IsSequence
<1>11. /\ IsSequence(Operations(order)) /\ Orderly(Operations(order), {})
       /\ ToSet(Operations(order)) = ToSet(ERFP) \cup ToSet(K)
  <2>1. \A a \in ToSet(ERFP) : \A b \in ToSet(K) : a.id # b.id
    BY <1>1, <1>5, <1>9, <1>10, KindsOfOperations
  <2> QED BY <1>3, <1>9, <1>10, <2>1, SectionJoin, ZenonT(30)
<1> QED BY <1>1, <1>5, <1>9, <1>10, <1>11

LEMMA BuiltIsBuildable ==
  ASSUME PlanInv, Built
  PROVE  /\ Buildable /\ result.operations = Operations(order) /\ ToSet(order) = Needed
<1>1. /\ result = [error |-> "none", id |-> [input EXCEPT !.packs = packs],
                   profile |-> input.profile, packs |-> packs, operations |-> Operations(order)]
      /\ ToSet(order) = Needed
      /\ \A p \in Needed : catalog.provider[p] # NoProvider
      /\ \A p \in Needed : \A d \in ToSet(catalog.dependencies[p]) :
           ~(catalog.provider[p].privilege = "elevated" /\ catalog.provider[d].privilege = "user")
  BY PlanReturned DEF Built
<1>2. CatalogOK(catalog) /\ catalog.dependencies \in [Packages -> Seq(Packages)] /\ Needed \in SUBSET Packages
  BY NeededKnown
<1>3. order \in Seq(Packages) /\ Ordered(catalog.dependencies, order)
  BY DEF PlanInv, WalkInv
<1>4. \A p \in Packages : catalog.provider[p] \in Provider \cup {NoProvider} /\ catalog.intents[p] \in Seq(STRING)
  BY <1>2 DEF CatalogOK, Packages
<1> QED BY <1>1, <1>2, <1>3, <1>4 DEF Buildable

\* The sections of the operations in their order.
LEMMA ExecutableNow == PlanInv => PlanIsExecutable
<1> SUFFICES ASSUME PlanInv, Built
             PROVE  /\ {p \in Packages : <<"install", p>> \in IDs(result.operations)} = Needed
                    /\ \A i, j \in DOMAIN result.operations :
                         result.operations[i].id = result.operations[j].id => i = j
                    /\ \A i \in DOMAIN result.operations : \A d \in result.operations[i].dependsOn :
                         \E j \in 1..(i - 1) :
                           /\ result.operations[j].id = d
                           /\ AllUnderstood /\ result.operations[i].privilege = "elevated" =>
                                result.operations[j].privilege = "elevated"
  BY DEF PlanIsExecutable, Needed
<1> DEFINE s == result.operations
<1>1. Buildable /\ s = Operations(order) /\ ToSet(order) = Needed
  BY BuiltIsBuildable
<1> HIDE DEF s
<1>2. PICK S : s \in Seq(S)
  BY <1>1, PlanSections DEF IsSequence
<1>3. /\ Orderly(s, {}) /\ Installing \subseteq ToSet(s)
      /\ ToSet(s) \subseteq Managing \cup Preparing \cup Refreshing \cup Installing \cup Configuring
  BY <1>1, PlanSections
<1>4. Len(s) \in Nat /\ DOMAIN s = 1..Len(s) /\ ToSet(s) = {s[k] : k \in 1..Len(s)}
  BY <1>2, SeqMembers
<1>5. IDs(s) = {a.id : a \in ToSet(s)}
  BY <1>4 DEF IDs
<1>6. ASSUME NEW p \in Needed PROVE p \in Packages /\ <<"install", p>> \in IDs(s)
  <2>1. InstallOf(p) \in ToSet(s)
    BY <1>1, <1>3 DEF Installing
  <2> QED BY <1>5, <2>1, NeededKnown, PackageIDs
<1>7. ASSUME NEW p, <<"install", p>> \in IDs(s) PROVE p \in Needed
  <2>1. PICK a \in ToSet(s) : a.id = <<"install", p>>
    BY <1>5, <1>7
  <2>2. a.id[1] = "install" /\ a.id[2] = p
    BY <2>1
  <2>3. a \in Installing
    BY <1>3, <2>2, KindsOfOperations
  <2>4. PICK q \in ToSet(order) : a = DetectOf(q) \/ a = InstallOf(q)
    BY <2>3 DEF Installing
  <2>5. a.id[2] = q
    BY <2>4, PackageIDs
  <2> QED BY <1>1, <2>2, <2>4, <2>5
<1>8. {p \in Packages : <<"install", p>> \in IDs(s)} = Needed
  BY <1>6, <1>7
<1>9. \A i, j \in DOMAIN s : s[i].id = s[j].id => i = j
  BY <1>3, <1>4 DEF Orderly
<1>10. \A i \in DOMAIN s : \A d \in s[i].dependsOn : \E j \in 1..(i - 1) :
         s[j].id = d /\ (AllUnderstood /\ s[i].privilege = "elevated" => s[j].privilege = "elevated")
  BY <1>3, <1>4 DEF Orderly, Serves
<1> QED BY <1>8, <1>9, <1>10 DEF s

\* For every catalog that Load accepts and every request, a plan that Build
\* returns installs what the selection needs, in an order in which it can be
\* executed (planner.go:73-150, 233-320).
THEOREM BuiltPlansExecute == Spec => []PlanIsExecutable
BY ExecutableNow, PlanInvariant, PTL

-----------------------------------------------------------------------------
(* What an installation waits for.                                         *)

\* What the operations that s[i] depends on wait for.
Above(s, g, i) == UNION {g[j] : j \in {k \in 1..(i - 1) : s[k].id \in s[i].dependsOn}}

\* g is the recursive function of InstallsWaitForSources, up to m.
Waiting(s, m, g) == g = [i \in 1..m |-> s[i].dependsOn \cup Above(s, g, i)]

LEMMA WaitingExists ==
  ASSUME NEW s, NEW n \in Nat
  PROVE  \E g : Waiting(s, n, g)
<1> DEFINE Exists(m) == \E g : Waiting(s, m, g)
           bad == {m \in 1..n : ~Exists(m)}
<1>1. Exists(0)
  <2> DEFINE g == [i \in 1..0 |-> {}]
  <2>1. g = [i \in 1..0 |-> s[i].dependsOn \cup Above(s, g, i)]
    OBVIOUS
  <2> QED BY <2>1 DEF Waiting
<1>2. ASSUME NEW m \in Nat \ {0}, Exists(m - 1) PROVE Exists(m)
  <2>1. PICK h : Waiting(s, m - 1, h)
    BY <1>2
  <2> DEFINE g == [i \in 1..m |-> s[i].dependsOn \cup Above(s, h, i)]
  <2>2. ASSUME NEW i \in 1..(m - 1) PROVE g[i] = h[i]
    <3>1. h[i] = s[i].dependsOn \cup Above(s, h, i)
      BY <2>1 DEF Waiting
    <3>2. i \in 1..m
      OBVIOUS
    <3> QED BY <3>1, <3>2
  <2>3. ASSUME NEW i \in 1..m PROVE Above(s, g, i) = Above(s, h, i)
    <3> DEFINE before == {k \in 1..(i - 1) : s[k].id \in s[i].dependsOn}
    <3>1. \A j \in before : g[j] = h[j]
      <4> HIDE DEF g
      <4> QED BY <2>2
    <3> HIDE DEF g, before
    <3>2. UNION {g[j] : j \in before} = UNION {h[j] : j \in before}
      BY <3>1
    <3> QED BY <3>2 DEF Above, before
  <2>4. g = [i \in 1..m |-> s[i].dependsOn \cup Above(s, g, i)]
    <3> DEFINE k == [i \in 1..m |-> s[i].dependsOn \cup Above(s, g, i)]
    <3>1. \A i \in 1..m : g[i] = k[i]
      <4> SUFFICES ASSUME NEW i \in 1..m PROVE g[i] = k[i]
        OBVIOUS
      <4>1. g[i] = s[i].dependsOn \cup Above(s, h, i) /\ k[i] = s[i].dependsOn \cup Above(s, g, i)
        OBVIOUS
      <4> HIDE DEF g, k
      <4> QED BY <2>3, <4>1
    <3>2. g = [i \in 1..m |-> g[i]] /\ k = [i \in 1..m |-> k[i]]
      OBVIOUS
    <3> HIDE DEF g, k
    <3>3. g = k
      BY <3>1, <3>2
    <3> QED BY <3>3 DEF k
  <2> HIDE DEF g
  <2> QED BY <2>4 DEF Waiting
<1> HIDE DEF Exists
<1>3. bad = {}
  <2> SUFFICES ASSUME bad # {} PROVE FALSE
    OBVIOUS
  <2> DEFINE m == Min(bad)
  <2>1. m \in bad /\ \A j \in bad : m <= j
    <3>1. bad \in SUBSET (1..n)
      OBVIOUS
    <3> HIDE DEF bad
    <3> QED BY <3>1, FirstPosition
  <2>2. m \in 1..n /\ ~Exists(m)
    BY <2>1
  <2> HIDE DEF m
  <2>3. m \in Nat \ {0} /\ m - 1 \in Nat /\ (m - 1 = 0 \/ m - 1 \in 1..n) /\ m - 1 < m
    BY <2>2
  <2>4. m - 1 \notin bad
    <3> HIDE DEF bad
    <3> QED BY <2>1, <2>3
  <2>5. Exists(m - 1)
    BY <1>1, <2>3, <2>4
  <2> QED BY <1>2, <2>2, <2>3, <2>5
<1>4. n = 0 \/ n \in 1..n
  OBVIOUS
<1>5. Exists(n)
  BY <1>1, <1>3, <1>4
<1> QED BY <1>5 DEF Exists

\* An id of a plan names one operation.
LEMMA NamedOperations ==
  ASSUME Buildable, NEW a \in ToSet(Operations(order))
  PROVE  /\ \A p : a.id = <<"install", p>> => p \in ToSet(order) /\ a = InstallOf(p)
         /\ \A p : a.id = <<"detect", p>> => a = DetectOf(p)
         /\ a.id = AptRefresh => a = AptOperation
         /\ \A r : a.id = <<"repository", r>> => a = SourceOf(r)
<1>1. a \in Managing \cup Preparing \cup Refreshing \cup Installing \cup Configuring
  BY PlanSections
<1>2. ASSUME NEW p, a.id = <<"install", p>> PROVE p \in ToSet(order) /\ a = InstallOf(p)
  <2>1. a.id[1] = "install"
    BY <1>2
  <2>2. PICK q \in ToSet(order) : a = DetectOf(q) \/ a = InstallOf(q)
    BY <1>1, <2>1, KindsOfOperations DEF Installing
  <2> QED BY <1>2, <2>2, PackageIDs
<1>3. ASSUME NEW p, a.id = <<"detect", p>> PROVE a = DetectOf(p)
  <2>1. a.id[1] = "detect"
    BY <1>3
  <2>2. PICK q \in ToSet(order) : a = DetectOf(q) \/ a = InstallOf(q)
    BY <1>1, <2>1, KindsOfOperations DEF Installing
  <2> QED BY <1>3, <2>2, PackageIDs
<1>4. ASSUME a.id = AptRefresh PROVE a = AptOperation
  <2>1. a.id[1] = "refresh"
    BY <1>4, RefreshIDs
  <2>2. a \in Refreshing
    BY <1>1, <2>1, KindsOfOperations
  <2> QED BY <1>4, <2>2, RefreshIDs DEF Refreshing
<1>5. ASSUME NEW r, a.id = <<"repository", r>> PROVE a = SourceOf(r)
  <2>1. a.id[1] = "repository"
    BY <1>5
  <2>2. a \in Preparing
    BY <1>1, <2>1, KindsOfOperations
  <2>3. PICK q \in ToSet(Repositories(order)) : a = KeyOf(q) \/ a = SourceOf(q)
    BY <2>2 DEF Preparing
  <2> QED BY <1>5, <2>3, SourceIDs
<1> QED BY <1>2, <1>3, <1>4, <1>5

\* From refresh to source, from source to key.
LEMMA WaitingNow == PlanInv => InstallsWaitForSources
<1> SUFFICES ASSUME PlanInv, Built PROVE InstallsWaitForSources
  BY DEF InstallsWaitForSources
<1> DEFINE s == result.operations
           n == Len(s)
           waits == CHOOSE g : Waiting(s, n, g)
<1>1. Buildable /\ s = Operations(order)
  BY BuiltIsBuildable
<1> HIDE DEF s
<1>2. PICK S : s \in Seq(S)
  BY <1>1, PlanSections DEF IsSequence
<1>3. n \in Nat /\ DOMAIN s = 1..n /\ \A i \in 1..n : s[i] \in ToSet(Operations(order))
  BY <1>1, <1>2, SeqMembers
<1>4. Waiting(s, n, waits)
  BY <1>3, WaitingExists
<1>5. waits = CHOOSE g : g = [i \in DOMAIN s |->
                s[i].dependsOn \cup UNION {g[j] : j \in {k \in 1..(i - 1) : s[k].id \in s[i].dependsOn}}]
  BY <1>3 DEF Waiting, Above
<1> HIDE DEF waits, n
<1>6. \A i \in 1..n : waits[i] = s[i].dependsOn \cup Above(s, waits, i)
  BY <1>4 DEF Waiting
\* What is waited for, directly or through another operation.
<1>7. ASSUME NEW i \in 1..n, NEW d \in s[i].dependsOn
      PROVE  d \in waits[i] /\ \E j \in 1..(i - 1) : j \in 1..n /\ s[j].id = d /\ waits[j] \subseteq waits[i]
  <2>1. PICK j \in 1..(i - 1) : s[j].id = d
    <3>1. Orderly(s, {})
      BY <1>1, PlanSections
    <3> QED BY <1>7, <3>1 DEF Orderly, Serves, n
  <2>2. waits[j] \subseteq Above(s, waits, i)
    BY <1>7, <2>1 DEF Above
  <2>3. j \in 1..n
    BY <1>3
  <2> QED BY <1>6, <2>1, <2>2, <2>3
<1>8. ASSUME NEW i \in 1..n, NEW p, s[i].id = <<"install", p>>
      PROVE  /\ ManagerID(p) \subseteq waits[i]
             /\ \A r \in ToSet(catalog.provider[p].prerequisites) :
                  {<<"key", r>>, <<"repository", r>>} \subseteq waits[i]
  <2>1. p \in ToSet(order) /\ s[i] = InstallOf(p)
    BY <1>1, <1>3, <1>8, NamedOperations
  <2>2. ManagerID(p) \subseteq waits[i]
    <3>1. <<"detect", p>> \in s[i].dependsOn
      BY <2>1, PackageIDs
    <3>2. PICK j \in 1..n : s[j].id = <<"detect", p>> /\ waits[j] \subseteq waits[i]
      BY <1>7, <3>1
    <3>3. s[j] = DetectOf(p)
      BY <1>1, <1>3, <3>2, NamedOperations
    <3>4. ManagerID(p) \subseteq s[j].dependsOn
      BY <3>3, PackageIDs
    <3> QED BY <1>6, <3>2, <3>4
  <2>3. ASSUME NEW r \in ToSet(catalog.provider[p].prerequisites)
        PROVE  <<"key", r>> \in waits[i] /\ <<"repository", r>> \in waits[i]
    <3>1. AptRefresh \in s[i].dependsOn
      <4>1. catalog.provider[p].prerequisites # <<>>
        BY <2>3, OrderlyNone
      <4>2. AptRefresh \in Refreshes(p)
        BY <4>1 DEF Refreshes
      <4> QED BY <2>1, <4>2, PackageIDs
    <3>2. PICK j \in 1..n : s[j].id = AptRefresh /\ waits[j] \subseteq waits[i]
      BY <1>7, <3>1
    <3>3. s[j] = AptOperation
      BY <1>1, <1>3, <3>2, NamedOperations
    <3>4. <<"repository", r>> \in s[j].dependsOn
      BY <1>1, <2>1, <2>3, <3>3, RepositoriesKept, RefreshIDs
    <3>5. PICK l \in 1..n : s[l].id = <<"repository", r>> /\ waits[l] \subseteq waits[j]
      BY <1>7, <3>4
    <3>6. s[l] = SourceOf(r)
      BY <1>1, <1>3, <3>5, NamedOperations
    <3>7. <<"key", r>> \in s[l].dependsOn
      BY <3>6, SourceIDs
    <3> QED BY <1>7, <3>2, <3>4, <3>5, <3>7
  <2> QED BY <2>2, <2>3
<1> QED BY <1>3, <1>5, <1>8 DEF InstallsWaitForSources, s

\* For every catalog that Load accepts and every request, an installation waits
\* for its package manager and for the key and the source of its repositories
\* (planner.go:88-137, docs/architecture.md:49).
THEOREM SourcesComeFirst == Spec => []InstallsWaitForSources
BY WaitingNow, PlanInvariant, PTL

-----------------------------------------------------------------------------
(* Plans as the executors read them.                                       *)

\* Operations each of which depends on earlier ones that it can rely on.
Follows(s, n) ==
  /\ n \in Nat /\ DOMAIN s = 1..n
  /\ \A i, j \in 1..n : s[i].id = s[j].id => i = j
  /\ \A i \in 1..n : \A d \in s[i].dependsOn : \E j \in 1..n :
       j < i /\ s[j].id = d /\ (AllUnderstood /\ s[i].privilege = "elevated" => s[j].privilege = "elevated")

\* The operations an executor loops over.
LEMMA OperationsFollow ==
  ASSUME Buildable
  PROVE  LET s == Operations(order)
         IN  /\ Follows(s, Len(s))
             /\ \A i \in 1..Len(s) : s[i] \in ToSet(s) /\
                  s[i] \in Managing \cup Preparing \cup Refreshing \cup Installing \cup Configuring
<1> DEFINE s == Operations(order)
           n == Len(s)
<1>1. /\ Orderly(s, {})
      /\ ToSet(s) \subseteq Managing \cup Preparing \cup Refreshing \cup Installing \cup Configuring
  BY PlanSections
<1>2. PICK S : s \in Seq(S)
  BY PlanSections DEF IsSequence
<1> HIDE DEF s
<1>3. n \in Nat /\ DOMAIN s = 1..n /\ \A i \in 1..n : s[i] \in ToSet(s)
  BY <1>2, SeqMembers
<1>4. ASSUME NEW i \in 1..n, NEW d \in s[i].dependsOn
      PROVE  \E j \in 1..n : /\ j < i /\ s[j].id = d
                             /\ AllUnderstood /\ s[i].privilege = "elevated" => s[j].privilege = "elevated"
  <2>1. PICK j \in 1..(i - 1) : Serves(s[i], d, s[j])
    BY <1>1, <1>4 DEF Orderly
  <2>2. j \in 1..n /\ j < i
    BY <1>3
  <2> QED BY <2>1, <2>2 DEF Serves
<1> QED BY <1>1, <1>3, <1>4 DEF s, Follows, Orderly

\* What an operation of the plan is, by the first part of its id.
LEMMA OperationKinds ==
  ASSUME Buildable,
         NEW a \in Managing \cup Preparing \cup Refreshing \cup Installing \cup Configuring
  PROVE  /\ AllUnderstood => a.privilege \in {"elevated", "user"}
         /\ \A d \in a.dependsOn : d[1] # "configure"
         /\ \/ a \in {SnapManager, FlatpakManager}
            \/ \E p \in FromFlatpak : a = FlatpakRemote(Remote(p))
            \/ \E r \in ToSet(Repositories(order)) : a = KeyOf(r) \/ a = SourceOf(r)
            \/ a \in {AptOperation, DnfOperation}
            \/ \E p \in ToSet(order) : a = DetectOf(p) \/ a = InstallOf(p)
            \/ \E x \in STRING : a = ConfigureOf(x)
<1>1. CASE a \in Managing
  <2>1. CASE a \in {SnapManager, FlatpakManager}
    BY <2>1, ManagingIDs
  <2>2. CASE \E p \in FromFlatpak : a = FlatpakRemote(Remote(p))
    <3>1. PICK p \in FromFlatpak : a = FlatpakRemote(Remote(p))
      BY <2>2
    <3>2. p \in ToSet(order) /\ catalog.provider[p].manager = "flatpak"
      BY DEF FromFlatpak
    <3>3. AllUnderstood => a.privilege = catalog.provider[p].privilege /\ Understood(catalog.provider[p])
      BY <3>1, <3>2, ManagingIDs, RemoteShared DEF AllUnderstood
    <3>4. AllUnderstood => a.privilege \in {"elevated", "user"}
      BY <3>3 DEF Understood
    <3>5. a.dependsOn = {FlatpakManager.id} /\ FlatpakManager.id[1] = "manager"
      BY <3>1, ManagingIDs
    <3> QED BY <3>1, <3>4, <3>5
  <2> QED BY <1>1, <2>1, <2>2 DEF Managing, Remotes
<1>2. CASE a \in Preparing
  BY <1>2, SourceIDs DEF Preparing
<1>3. CASE a \in Refreshing
  BY <1>3, RefreshIDs DEF Refreshing
<1>4. CASE a \in Installing
  <2>1. PICK p \in ToSet(order) : a = DetectOf(p) \/ a = InstallOf(p)
    BY <1>4 DEF Installing
  <2>2. AllUnderstood => catalog.provider[p].privilege \in {"elevated", "user"}
    BY DEF AllUnderstood, Understood
  <2>3. \A d \in Installs(ToSet(catalog.dependencies[p])) : d[1] = "install"
    BY DEF Installs
  <2>4. \A d \in ManagerID(p) : d[1] \in {"manager", "remote"}
    BY DEF ManagerID, Remote
  <2>5. \A d \in Refreshes(p) : d[1] = "refresh"
    BY RefreshIDs DEF Refreshes
  <2>6. \A d \in a.dependsOn : d[1] # "configure"
    BY <2>1, <2>3, <2>4, <2>5, PackageIDs
  <2> QED BY <2>1, <2>2, <2>6, PackageIDs
<1>5. CASE a \in Configuring
  <2>1. PICK x \in STRING : a = ConfigureOf(x)
    BY <1>5 DEF Configuring
  <2>2. a.privilege = "user" /\ \A d \in a.dependsOn : d[1] = "install"
    BY <2>1 DEF ConfigureOf, Operation, Installs
  <2> QED BY <2>1, <2>2
<1> QED BY <1>1, <1>2, <1>3, <1>4, <1>5

\* executeLinux and executeWindows can rely on the order of a plan alone.
LEMMA ExecutorsSuited ==
  ASSUME Buildable, AllUnderstood
  PROVE  LinuxPlan(ExecutorView(Operations(order))) /\ WindowsPlan(ExecutorView(Operations(order)))
<1> DEFINE s == Operations(order)
           n == Len(s)
           v == ExecutorView(s)
           T == [kind: {"prerequisite", "detect", "install", "configure"}, privilege: Privilege,
                 target: {v[i].target : i \in DOMAIN v}, dependsOn: SUBSET Nat]
<1>1. /\ Follows(s, n)
      /\ \A i \in 1..n : s[i] \in Managing \cup Preparing \cup Refreshing \cup Installing \cup Configuring
  BY OperationsFollow
<1> HIDE DEF s
<1>2. n \in Nat /\ DOMAIN s = 1..n
  BY <1>1 DEF Follows
<1> HIDE DEF n
<1>3. /\ DOMAIN v = 1..n
      /\ \A i \in 1..n :
           v[i] = [kind |-> IF s[i].id[1] \in {"detect", "install", "configure"} THEN s[i].id[1]
                            ELSE "prerequisite",
                   privilege |-> s[i].privilege,
                   target |-> IF s[i].id[1] \in {"detect", "install"} THEN <<"package", s[i].id[2]>>
                              ELSE s[i].id,
                   dependsOn |-> {j \in 1..n : s[j].id \in s[i].dependsOn}]
  BY <1>2 DEF ExecutorView
<1> HIDE DEF v
<1>4. \A i \in 1..n :
        /\ v[i].kind = IF s[i].id[1] \in {"detect", "install", "configure"} THEN s[i].id[1]
                       ELSE "prerequisite"
        /\ v[i].privilege = s[i].privilege
        /\ v[i].target = IF s[i].id[1] \in {"detect", "install"} THEN <<"package", s[i].id[2]>>
                         ELSE s[i].id
        /\ v[i].dependsOn = {j \in 1..n : s[j].id \in s[i].dependsOn}
  BY <1>3
<1>5. IsPlan(v)
  <2>1. ASSUME NEW i \in 1..n PROVE v[i] \in T
    <3>1. s[i].privilege \in Privilege
      BY <1>1, OperationKinds DEF Privilege
    <3>2. v[i].target \in {v[j].target : j \in DOMAIN v}
      BY <1>3
    <3>3. /\ v[i].kind \in {"prerequisite", "detect", "install", "configure"}
          /\ v[i].privilege \in Privilege /\ v[i].dependsOn \in SUBSET Nat
      <4>1. v[i].dependsOn = {j \in 1..n : s[j].id \in s[i].dependsOn}
        BY <1>4
      <4>2. v[i].dependsOn \in SUBSET Nat
        BY <1>2, <4>1
      <4>3. v[i].kind \in {"prerequisite", "detect", "install", "configure"}
        BY <1>4, Zenon
      <4>4. v[i].privilege = s[i].privilege
        BY <1>4
      <4> QED BY <3>1, <4>2, <4>3, <4>4
    <3> DEFINE targets == {v[j].target : j \in DOMAIN v}
    <3>4. v[i] = [kind |-> v[i].kind, privilege |-> v[i].privilege, target |-> v[i].target,
                  dependsOn |-> v[i].dependsOn]
      BY <1>3
    <3> HIDE DEF targets
    <3>5. v[i].target \in targets
      BY <3>2 DEF targets
    <3>6. [kind |-> v[i].kind, privilege |-> v[i].privilege, target |-> v[i].target,
           dependsOn |-> v[i].dependsOn]
          \in [kind: {"prerequisite", "detect", "install", "configure"}, privilege: Privilege,
               target: targets, dependsOn: SUBSET Nat]
      BY <3>3, <3>5
    <3> QED BY <3>4, <3>6 DEF targets
  <2> HIDE DEF T
  <2>2. v \in [1..n -> T]
    BY <1>3, <2>1 DEF ExecutorView, v
  <2>3. v \in Seq(T)
    BY <1>2, <2>2, FunctionIsSeq
  <2> QED BY <2>3 DEF IsPlan, T
<1>6. ASSUME NEW i \in 1..n, NEW d \in v[i].dependsOn
      PROVE  /\ d \in 1..(i - 1) /\ v[d].kind # "configure"
             /\ v[i].privilege = "elevated" => v[d].privilege = "elevated"
  <2>1. d \in 1..n /\ s[d].id \in s[i].dependsOn
    BY <1>4, <1>6
  <2>2. PICK j \in 1..n : /\ j < i /\ s[j].id = s[d].id
                          /\ s[i].privilege = "elevated" => s[j].privilege = "elevated"
    BY <1>1, <2>1 DEF Follows
  <2>3. j = d
    BY <1>1, <2>1, <2>2 DEF Follows
  <2>4. s[d].id[1] # "configure"
    BY <1>1, <2>1, OperationKinds
  <2>5. v[d].kind # "configure"
    BY <1>4, <2>1, <2>4, Zenon
  <2>6. v[i].privilege = s[i].privilege /\ v[d].privilege = s[d].privilege
    BY <1>4, <2>1
  <2>7. d \in 1..(i - 1)
    BY <1>2, <2>1, <2>2, <2>3
  <2> QED BY <2>2, <2>3, <2>5, <2>6, <2>7
<1>7. ASSUME NEW i \in 1..n, HandledOnWindows(v[i]), v[i].kind = "install"
      PROVE  \E d \in 1..(i - 1) : /\ HandledOnWindows(v[d]) /\ v[d].kind = "detect"
                                   /\ v[d].target = v[i].target
  <2>1. s[i].id[1] = "install" /\ s[i].privilege = "elevated"
    BY <1>4, <1>7 DEF HandledOnWindows
  <2>2. PICK p : s[i] = DetectOf(p) \/ s[i] = InstallOf(p)
    BY <1>1, <2>1, KindsOfOperations DEF Installing
  <2>3. s[i] = InstallOf(p) /\ s[i].id = <<"install", p>> /\ <<"detect", p>> \in s[i].dependsOn
    BY <2>1, <2>2, PackageIDs
  <2>4. PICK j \in 1..n : j < i /\ s[j].id = <<"detect", p>> /\ s[j].privilege = "elevated"
    BY <1>1, <2>1, <2>3 DEF Follows
  <2>5. /\ v[j].kind = "detect" /\ v[j].privilege = "elevated" /\ v[j].target = <<"package", p>>
        /\ v[i].target = <<"package", p>>
    <3>1. s[j].id[1] = "detect" /\ s[j].id[2] = p /\ s[i].id[1] = "install" /\ s[i].id[2] = p
      BY <2>3, <2>4
    <3> QED BY <1>4, <2>4, <3>1, ZenonT(30)
  <2>6. j \in 1..(i - 1)
    BY <1>2, <2>4
  <2> QED BY <2>5, <2>6 DEF HandledOnWindows
<1> QED BY <1>3, <1>5, <1>6, <1>7 DEF LinuxPlan, WindowsPlan, v, s

\* The adapter's reading of an operation of the plan.
Read(a) == AdapterOperation(a, catalog.provider)
Reads(a, kind, about, manager) ==
  Read(a) = [kind |-> kind, subject |-> about, manager |-> manager, privilege |-> a.privilege]

LEMMA OperationsRead ==
  /\ Reads(SnapManager, "ensure-manager", "none", "snap")
  /\ Reads(FlatpakManager, "ensure-manager", "none", "flatpak")
  /\ \A r \in Remotes : Reads(FlatpakRemote(r), "ensure-flatpak-remote", "none", "flatpak")
  /\ \A r : Reads(KeyOf(r), "ensure-repository-key", r, "none")
  /\ \A r : Reads(SourceOf(r), "ensure-apt-repository", r, "none")
  /\ Reads(AptOperation, "refresh-package-index", "none", "apt-get")
  /\ Reads(DnfOperation, "refresh-package-index", "none", "dnf")
  /\ \A p : Reads(DetectOf(p), "detect", p, catalog.provider[p].manager)
  /\ \A p : Reads(InstallOf(p), "install", p, catalog.provider[p].manager)
  /\ \A x : Reads(ConfigureOf(x), "configure", x, "none")
<1> USE DEF Reads, Read, AdapterOperation, Operation
<1>1. /\ Reads(SnapManager, "ensure-manager", "none", "snap")
      /\ Reads(FlatpakManager, "ensure-manager", "none", "flatpak")
      /\ \A r \in Remotes : Reads(FlatpakRemote(r), "ensure-flatpak-remote", "none", "flatpak")
  <2>1. \A r \in Remotes : r[1] = "remote"
    BY DEF Remotes, Remote
  <2> QED BY <2>1 DEF SnapManager, FlatpakManager, FlatpakRemote
<1>2. /\ \A r : Reads(KeyOf(r), "ensure-repository-key", r, "none")
      /\ \A r : Reads(SourceOf(r), "ensure-apt-repository", r, "none")
  BY DEF KeyOf, SourceOf
<1>3. /\ Reads(AptOperation, "refresh-package-index", "none", "apt-get")
      /\ Reads(DnfOperation, "refresh-package-index", "none", "dnf")
  BY DEF AptOperation, DnfOperation, AptRefresh, DnfRefresh
<1>4. /\ \A p : Reads(DetectOf(p), "detect", p, catalog.provider[p].manager)
      /\ \A p : Reads(InstallOf(p), "install", p, catalog.provider[p].manager)
  BY DEF DetectOf, InstallOf
<1>5. \A x : Reads(ConfigureOf(x), "configure", x, "none")
  BY DEF ConfigureOf
<1> QED BY <1>1, <1>2, <1>3, <1>4, <1>5

\* What of the adapter's kind and manager an operation of the plan can be.
LEMMA AdapterReadings ==
  ASSUME Buildable, AllUnderstood,
         NEW a \in Managing \cup Preparing \cup Refreshing \cup Installing \cup Configuring
  PROVE  /\ Read(a).kind \in PrerequisiteKinds \cup {"detect", "install", "configure"}
         /\ Read(a).privilege = a.privilege /\ a.privilege \in Privilege
         /\ Read(a) = [kind |-> Read(a).kind, subject |-> Read(a).subject,
                       manager |-> Read(a).manager, privilege |-> a.privilege]
         /\ Read(a).kind = "ensure-flatpak-remote" =>
              Read(a).manager = "flatpak" /\ \E p \in FromFlatpak : a = FlatpakRemote(Remote(p))
         /\ Read(a).kind \in {"ensure-repository-key", "ensure-apt-repository"} =>
              \E r \in ToSet(Repositories(order)) :
                /\ Read(a).subject = r
                /\ a = IF Read(a).kind = "ensure-repository-key" THEN KeyOf(r) ELSE SourceOf(r)
         /\ Read(a).kind = "refresh-package-index" /\ Read(a).manager = "apt-get" => a = AptOperation
         /\ Read(a).kind = "detect" =>
              \E p \in ToSet(order) : /\ a = DetectOf(p) /\ Read(a).subject = p
                                      /\ Read(a).manager = catalog.provider[p].manager
         /\ Read(a).kind = "install" =>
              \E p \in ToSet(order) : /\ a = InstallOf(p) /\ Read(a).subject = p
                                      /\ Read(a).manager = catalog.provider[p].manager
<1> USE DEF PrerequisiteKinds
<1>1. a.privilege \in Privilege
  BY OperationKinds DEF Privilege
<1>2. ASSUME NEW kind, NEW subj, NEW manager, Reads(a, kind, subj, manager)
      PROVE  /\ Read(a).kind = kind /\ Read(a).subject = subj /\ Read(a).manager = manager
             /\ Read(a).privilege = a.privilege
             /\ Read(a) = [kind |-> Read(a).kind, subject |-> Read(a).subject,
                           manager |-> Read(a).manager, privilege |-> a.privilege]
  BY <1>2 DEF Reads
<1>3. CASE a \in {SnapManager, FlatpakManager}
  <2>1. PICK manager \in {"snap", "flatpak"} : Reads(a, "ensure-manager", "none", manager)
    BY <1>3, OperationsRead
  <2> QED BY <1>1, <1>2, <2>1
<1>4. ASSUME NEW r \in Remotes, a = FlatpakRemote(r) PROVE Reads(a, "ensure-flatpak-remote", "none", "flatpak")
  BY <1>4, OperationsRead
<1>5. ASSUME NEW r \in ToSet(Repositories(order)), a = KeyOf(r)
      PROVE  Reads(a, "ensure-repository-key", r, "none")
  BY <1>5, OperationsRead
<1>6. ASSUME NEW r \in ToSet(Repositories(order)), a = SourceOf(r)
      PROVE  Reads(a, "ensure-apt-repository", r, "none")
  BY <1>6, OperationsRead
<1>7. CASE a = AptOperation
  <2>1. Reads(a, "refresh-package-index", "none", "apt-get")
    BY <1>7, OperationsRead
  <2> QED BY <1>1, <1>2, <1>7, <2>1
<1>8. CASE a = DnfOperation
  <2>1. Reads(a, "refresh-package-index", "none", "dnf")
    BY <1>8, OperationsRead
  <2> QED BY <1>1, <1>2, <2>1
<1>9. ASSUME NEW p \in ToSet(order), a = DetectOf(p) \/ a = InstallOf(p)
      PROVE  Reads(a, IF a = DetectOf(p) THEN "detect" ELSE "install", p, catalog.provider[p].manager)
  BY <1>9, OperationsRead
<1>10. ASSUME NEW x \in STRING, a = ConfigureOf(x) PROVE Reads(a, "configure", x, "none")
  BY <1>10, OperationsRead
<1>11. CASE \E p \in FromFlatpak : a = FlatpakRemote(Remote(p))
  <2>1. Reads(a, "ensure-flatpak-remote", "none", "flatpak")
    BY <1>4, <1>11 DEF Remotes
  <2> QED BY <1>1, <1>2, <1>11, <2>1
<1>12. ASSUME NEW r \in ToSet(Repositories(order)), a = KeyOf(r) \/ a = SourceOf(r)
       PROVE  /\ Read(a).manager = "none" /\ Read(a).subject = r /\ Read(a).privilege = a.privilege
              /\ \/ Read(a).kind = "ensure-repository-key" /\ a = KeyOf(r)
                 \/ Read(a).kind = "ensure-apt-repository" /\ a = SourceOf(r)
              /\ Read(a) = [kind |-> Read(a).kind, subject |-> Read(a).subject,
                            manager |-> Read(a).manager, privilege |-> a.privilege]
  <2>1. CASE a = KeyOf(r)
    BY <1>2, <1>5, <2>1
  <2>2. CASE a = SourceOf(r)
    BY <1>2, <1>6, <2>2
  <2> QED BY <1>12, <2>1, <2>2
<1>13. CASE \E r \in ToSet(Repositories(order)) : a = KeyOf(r) \/ a = SourceOf(r)
  <2>1. PICK r \in ToSet(Repositories(order)) : a = KeyOf(r) \/ a = SourceOf(r)
    BY <1>13
  <2> QED BY <1>1, <1>12, <2>1
<1>14. CASE \E p \in ToSet(order) : a = DetectOf(p) \/ a = InstallOf(p)
  <2>1. PICK p \in ToSet(order) : a = DetectOf(p) \/ a = InstallOf(p)
    BY <1>14
  <2>3. CASE a = DetectOf(p)
    <3>1. Reads(a, "detect", p, catalog.provider[p].manager)
      BY <2>3, OperationsRead
    <3> QED BY <1>1, <1>2, <2>3, <3>1
  <2>4. CASE a = InstallOf(p)
    <3>1. Reads(a, "install", p, catalog.provider[p].manager)
      BY <2>4, OperationsRead
    <3> QED BY <1>1, <1>2, <2>4, <3>1
  <2> QED BY <2>1, <2>3, <2>4
<1>15. CASE \E x \in STRING : a = ConfigureOf(x)
  <2>1. PICK x \in STRING : Reads(a, "configure", x, "none")
    BY <1>10, <1>15
  <2> QED BY <1>1, <1>2, <2>1
<1> QED BY <1>3, <1>7, <1>8, <1>11, <1>13, <1>14, <1>15, OperationKinds

\* More operations are told apart by their IDs.
LEMMA NamedSources ==
  ASSUME Buildable, NEW a \in ToSet(Operations(order))
  PROVE  /\ a.id = <<"manager", "snap">> => a = SnapManager
         /\ a.id = <<"manager", "flatpak">> => a = FlatpakManager
         /\ \A r \in Remotes : a.id = r => a = FlatpakRemote(r)
         /\ \A r : a.id = <<"key", r>> => a = KeyOf(r)
<1>1. a \in Managing \cup Preparing \cup Refreshing \cup Installing \cup Configuring
  BY PlanSections
<1>2. ASSUME NEW g \in Managing, a.id = g.id PROVE a = g
  <2>1. a.id[1] \in {"manager", "remote"}
    BY <1>2, ManagingIDs
  <2>2. a \in Managing
    BY <1>1, <2>1, KindsOfOperations
  <2> QED BY <1>2, <2>2, ManagingIDs
<1>3. /\ SnapManager \in Managing /\ FlatpakManager \in Managing
      /\ \A r \in Remotes : FlatpakRemote(r) \in Managing
  BY ManagingIDs
<1>4. /\ SnapManager.id = <<"manager", "snap">> /\ FlatpakManager.id = <<"manager", "flatpak">>
      /\ \A r \in Remotes : FlatpakRemote(r).id = r
  BY ManagingIDs
<1>5. ASSUME NEW r, a.id = <<"key", r>> PROVE a = KeyOf(r)
  <2>1. a.id[1] = "key"
    BY <1>5
  <2>2. a \in Preparing
    BY <1>1, <2>1, KindsOfOperations
  <2>3. PICK q \in ToSet(Repositories(order)) : a = KeyOf(q) \/ a = SourceOf(q)
    BY <2>2 DEF Preparing
  <2> QED BY <1>5, <2>3, SourceIDs
<1> QED BY <1>2, <1>3, <1>4, <1>5

\* An operation that comes earlier, and is done before.
Ahead(s, i, j) == j \in 1..(i - 1) /\ s[j].privilege \in {"elevated", s[i].privilege}

LEMMA AheadOfThat ==
  ASSUME NEW s, NEW n \in Nat, NEW i \in 1..n, NEW j \in 1..n, NEW k \in 1..n,
         Ahead(s, i, j), Ahead(s, j, k)
  PROVE  Ahead(s, i, k)
BY DEF Ahead

LEMMA DependenciesAhead ==
  ASSUME Buildable, AllUnderstood
  PROVE  LET s == Operations(order)
         IN  \A i \in 1..Len(s) : \A d \in s[i].dependsOn : \E j \in 1..Len(s) :
               /\ Ahead(s, i, j)
               /\ s[j] \in ToSet(s) /\ s[j].id = d
<1> DEFINE s == Operations(order)
           n == Len(s)
<1> SUFFICES ASSUME NEW i \in 1..n, NEW d \in s[i].dependsOn
             PROVE  \E j \in 1..n : Ahead(s, i, j) /\ s[j] \in ToSet(s) /\ s[j].id = d
  OBVIOUS
<1>1. /\ Follows(s, n)
      /\ \A j \in 1..n : s[j] \in ToSet(s) /\
           s[j] \in Managing \cup Preparing \cup Refreshing \cup Installing \cup Configuring
  BY OperationsFollow
<1> HIDE DEF s, n
<1>2. PICK j \in 1..n : j < i /\ s[j].id = d /\ (s[i].privilege = "elevated" => s[j].privilege = "elevated")
  BY <1>1 DEF Follows
<1>3. n \in Nat /\ j \in 1..(i - 1)
  BY <1>1, <1>2 DEF Follows
<1>4. s[i].privilege \in {"elevated", "user"} /\ s[j].privilege \in {"elevated", "user"}
  BY <1>1, OperationKinds
<1>5. Ahead(s, i, j)
  BY <1>2, <1>3, <1>4 DEF Ahead
<1> QED BY <1>1, <1>2, <1>5

\* The manager is ahead of the remote, both are ahead of a detection that needs them.
LEMMA ManagersAhead ==
  ASSUME Buildable, AllUnderstood, NEW i \in 1..Len(Operations(order))
  PROVE  LET s == Operations(order)
             n == Len(s)
         IN  /\ \A r \in Remotes : s[i] = FlatpakRemote(r) =>
                  \E j \in 1..n : Ahead(s, i, j) /\ s[j] = FlatpakManager
             /\ \A p \in ToSet(order) : s[i] = DetectOf(p) =>
                  /\ catalog.provider[p].manager = "snap" =>
                       \E j \in 1..n : Ahead(s, i, j) /\ s[j] = SnapManager
                  /\ catalog.provider[p].manager = "flatpak" =>
                       /\ \E j \in 1..n : Ahead(s, i, j) /\ s[j] = FlatpakRemote(Remote(p))
                       /\ \E j \in 1..n : Ahead(s, i, j) /\ s[j] = FlatpakManager
<1> DEFINE s == Operations(order)
           n == Len(s)
<1>1. \A k \in 1..n : \A d \in s[k].dependsOn : \E j \in 1..n :
        Ahead(s, k, j) /\ s[j] \in ToSet(s) /\ s[j].id = d
  BY DependenciesAhead
<1>2. n \in Nat
  BY OperationsFollow DEF Follows
<1>3. \A a \in ToSet(s) :
        /\ a.id = <<"manager", "snap">> => a = SnapManager
        /\ a.id = <<"manager", "flatpak">> => a = FlatpakManager
        /\ \A r \in Remotes : a.id = r => a = FlatpakRemote(r)
  BY NamedSources
<1>4. i \in 1..n
  OBVIOUS
<1> HIDE DEF s, n
<1>5. ASSUME NEW r \in Remotes, NEW k \in 1..n, s[k] = FlatpakRemote(r)
      PROVE  \E j \in 1..n : Ahead(s, k, j) /\ s[j] = FlatpakManager
  <2>1. <<"manager", "flatpak">> \in s[k].dependsOn
    BY <1>5, ManagingIDs
  <2> QED BY <1>1, <1>3, <2>1
<1>6. ASSUME NEW p \in ToSet(order), s[i] = DetectOf(p)
      PROVE  /\ catalog.provider[p].manager = "snap" =>
                  \E j \in 1..n : Ahead(s, i, j) /\ s[j] = SnapManager
             /\ catalog.provider[p].manager = "flatpak" =>
                  /\ \E j \in 1..n : Ahead(s, i, j) /\ s[j] = FlatpakRemote(Remote(p))
                  /\ \E j \in 1..n : Ahead(s, i, j) /\ s[j] = FlatpakManager
  <2>1. ManagerID(p) \subseteq s[i].dependsOn
    BY <1>6, PackageIDs
  <2>2. ASSUME catalog.provider[p].manager = "snap"
        PROVE  \E j \in 1..n : Ahead(s, i, j) /\ s[j] = SnapManager
    <3>1. <<"manager", "snap">> \in s[i].dependsOn
      BY <2>1, <2>2 DEF ManagerID
    <3> QED BY <1>1, <1>3, <1>4, <3>1
  <2>3. ASSUME catalog.provider[p].manager = "flatpak"
        PROVE  /\ \E j \in 1..n : Ahead(s, i, j) /\ s[j] = FlatpakRemote(Remote(p))
               /\ \E j \in 1..n : Ahead(s, i, j) /\ s[j] = FlatpakManager
    <3>1. Remote(p) \in s[i].dependsOn
      BY <2>1, <2>3 DEF ManagerID
    <3>2. Remote(p) \in Remotes
      BY <2>3 DEF Remotes, FromFlatpak
    <3>3. PICK j \in 1..n : Ahead(s, i, j) /\ s[j] = FlatpakRemote(Remote(p))
      BY <1>1, <1>3, <1>4, <3>1, <3>2
    <3>4. PICK k \in 1..n : Ahead(s, j, k) /\ s[k] = FlatpakManager
      BY <1>5, <3>2, <3>3
    <3>5. Ahead(s, i, k)
      BY <1>2, <1>4, <3>3, <3>4, AheadOfThat
    <3> QED BY <3>3, <3>4, <3>5
  <2> QED BY <2>2, <2>3
<1> QED BY <1>4, <1>5, <1>6 DEF s, n

\* Keys and sources are ahead of the APT refresh; detection, and the refresh where
\* the package has sources, of an installation.
LEMMA SourcesAhead ==
  ASSUME Buildable, AllUnderstood, NEW i \in 1..Len(Operations(order))
  PROVE  LET s == Operations(order)
             n == Len(s)
         IN  /\ s[i] = AptOperation => \A r \in ToSet(Repositories(order)) :
                  /\ \E j \in 1..n : Ahead(s, i, j) /\ s[j] = SourceOf(r)
                  /\ \E j \in 1..n : Ahead(s, i, j) /\ s[j] = KeyOf(r)
             /\ \A p \in ToSet(order) : s[i] = InstallOf(p) =>
                  /\ \E j \in 1..n : Ahead(s, i, j) /\ s[j] = DetectOf(p)
                  /\ catalog.provider[p].prerequisites # <<>> =>
                       \E j \in 1..n : Ahead(s, i, j) /\ s[j] = AptOperation
<1> DEFINE s == Operations(order)
           n == Len(s)
<1>1. \A k \in 1..n : \A d \in s[k].dependsOn : \E j \in 1..n :
        Ahead(s, k, j) /\ s[j] \in ToSet(s) /\ s[j].id = d
  BY DependenciesAhead
<1>2. n \in Nat
  BY OperationsFollow DEF Follows
<1>3. \A a \in ToSet(s) :
        /\ \A r : a.id = <<"key", r>> => a = KeyOf(r)
        /\ \A r : a.id = <<"repository", r>> => a = SourceOf(r)
        /\ \A p : a.id = <<"detect", p>> => a = DetectOf(p)
        /\ a.id = AptRefresh => a = AptOperation
  BY NamedSources, NamedOperations
<1>4. i \in 1..n
  OBVIOUS
<1> HIDE DEF s, n
<1>5. ASSUME s[i] = AptOperation, NEW r \in ToSet(Repositories(order))
      PROVE  /\ \E j \in 1..n : Ahead(s, i, j) /\ s[j] = SourceOf(r)
             /\ \E j \in 1..n : Ahead(s, i, j) /\ s[j] = KeyOf(r)
  <2>1. <<"repository", r>> \in s[i].dependsOn
    BY <1>5, RefreshIDs
  <2>2. PICK j \in 1..n : Ahead(s, i, j) /\ s[j] = SourceOf(r)
    BY <1>1, <1>3, <1>4, <2>1
  <2>3. <<"key", r>> \in s[j].dependsOn
    BY <2>2, SourceIDs
  <2>4. PICK k \in 1..n : Ahead(s, j, k) /\ s[k] = KeyOf(r)
    BY <1>1, <1>3, <2>3
  <2>5. Ahead(s, i, k)
    BY <1>2, <1>4, <2>2, <2>4, AheadOfThat
  <2> QED BY <2>2, <2>4, <2>5
<1>6. ASSUME NEW p \in ToSet(order), s[i] = InstallOf(p)
      PROVE  /\ \E j \in 1..n : Ahead(s, i, j) /\ s[j] = DetectOf(p)
             /\ catalog.provider[p].prerequisites # <<>> =>
                  \E j \in 1..n : Ahead(s, i, j) /\ s[j] = AptOperation
  <2>1. <<"detect", p>> \in s[i].dependsOn /\ Refreshes(p) \subseteq s[i].dependsOn
    BY <1>6, PackageIDs
  <2>2. \E j \in 1..n : Ahead(s, i, j) /\ s[j] = DetectOf(p)
    BY <1>1, <1>3, <1>4, <2>1
  <2>3. ASSUME catalog.provider[p].prerequisites # <<>>
        PROVE  \E j \in 1..n : Ahead(s, i, j) /\ s[j] = AptOperation
    <3>1. AptRefresh \in s[i].dependsOn
      BY <2>1, <2>3 DEF Refreshes
    <3> QED BY <1>1, <1>3, <1>4, <3>1
  <2> QED BY <2>2, <2>3
<1> QED BY <1>4, <1>5, <1>6 DEF s, n

\* The adapter finds before an operation what the operation depends on.
LEMMA AdapterSuited ==
  ASSUME Buildable, AllUnderstood
  PROVE  AdapterPlan(AdapterView(Operations(order), catalog.provider),
                     [p \in ToSet(order) |-> ToSet(catalog.provider[p].prerequisites)])
<1> DEFINE s == Operations(order)
           n == Len(s)
           w == AdapterView(s, catalog.provider)
           sources == [p \in ToSet(order) |-> ToSet(catalog.provider[p].prerequisites)]
           repositories == UNION {sources[p] : p \in DOMAIN sources}
           Kinds == PrerequisiteKinds \cup {"detect", "install", "configure"}
           managers == {w[i].manager : i \in DOMAIN w}
           subjects == {w[i].subject : i \in DOMAIN w}
<1>1. /\ Follows(s, n)
      /\ \A i \in 1..n : s[i] \in Managing \cup Preparing \cup Refreshing \cup Installing \cup Configuring
  BY OperationsFollow
<1>2. \A i \in 1..n :
        /\ \A r \in Remotes : s[i] = FlatpakRemote(r) =>
             \E j \in 1..n : Ahead(s, i, j) /\ s[j] = FlatpakManager
        /\ \A p \in ToSet(order) : s[i] = DetectOf(p) =>
             /\ catalog.provider[p].manager = "snap" =>
                  \E j \in 1..n : Ahead(s, i, j) /\ s[j] = SnapManager
             /\ catalog.provider[p].manager = "flatpak" =>
                  /\ \E j \in 1..n : Ahead(s, i, j) /\ s[j] = FlatpakRemote(Remote(p))
                  /\ \E j \in 1..n : Ahead(s, i, j) /\ s[j] = FlatpakManager
  BY ManagersAhead
<1>3. \A i \in 1..n :
        /\ s[i] = AptOperation => \A r \in ToSet(Repositories(order)) :
             /\ \E j \in 1..n : Ahead(s, i, j) /\ s[j] = SourceOf(r)
             /\ \E j \in 1..n : Ahead(s, i, j) /\ s[j] = KeyOf(r)
        /\ \A p \in ToSet(order) : s[i] = InstallOf(p) =>
             /\ \E j \in 1..n : Ahead(s, i, j) /\ s[j] = DetectOf(p)
             /\ catalog.provider[p].prerequisites # <<>> =>
                  \E j \in 1..n : Ahead(s, i, j) /\ s[j] = AptOperation
  BY SourcesAhead
<1> HIDE DEF s
<1>4. n \in Nat /\ DOMAIN s = 1..n
  BY <1>1 DEF Follows
<1> HIDE DEF n
<1>5. w = [i \in 1..n |-> Read(s[i])]
  BY <1>4 DEF AdapterView, Read
<1> HIDE DEF w
<1>6. DOMAIN w = 1..n /\ \A i \in 1..n : w[i] = Read(s[i])
  BY <1>5
<1>7. w \in Seq([kind: Kinds, subject: subjects, manager: managers, privilege: Privilege])
  <2>1. ASSUME NEW i \in 1..n
        PROVE  w[i] \in [kind: Kinds, subject: subjects, manager: managers, privilege: Privilege]
    <3>1. w[i].subject \in subjects /\ w[i].manager \in managers
      BY <1>6
    <3>2. /\ w[i].kind \in Kinds /\ s[i].privilege \in Privilege
          /\ w[i] = [kind |-> w[i].kind, subject |-> w[i].subject, manager |-> w[i].manager,
                     privilege |-> s[i].privilege]
      BY <1>1, <1>6, AdapterReadings
    <3> HIDE DEF subjects, Kinds, managers
    <3> QED BY <3>1, <3>2
  <2> DEFINE T == [kind: Kinds, subject: subjects, manager: managers, privilege: Privilege]
  <2> HIDE DEF T
  <2>2. w \in [1..n -> T]
    BY <1>5, <1>6, <2>1 DEF T
  <2>3. w \in Seq(T)
    BY <1>4, <2>2, FunctionIsSeq
  <2> QED BY <2>3 DEF T
<1>8. DOMAIN sources = ToSet(order)
      /\ \A p \in ToSet(order) : sources[p] = ToSet(catalog.provider[p].prerequisites)
  OBVIOUS
<1>9. repositories = ToSet(Repositories(order))
  <2>1. \A p \in ToSet(order) : sources[p] \subseteq ToSet(Repositories(order))
    BY <1>8, RepositoriesKept
  <2>2. \A r \in ToSet(Repositories(order)) : \E p \in ToSet(order) : r \in sources[p]
    BY <1>8, RepositoriesKept
  <2> HIDE DEF sources
  <2> QED BY <1>8, <2>1, <2>2
<1> HIDE DEF sources, repositories
\* What is ahead of an operation is before it in the adapter's reading.
<1>10. ASSUME NEW i \in 1..n, NEW j \in 1..n, Ahead(s, i, j)
       PROVE  /\ j \in Before(w, i, Read(s[j]).kind)
              /\ w[j] = Read(s[j])
  <2>1. w[j].privilege = s[j].privilege /\ w[i].privilege = s[i].privilege
    BY <1>1, <1>6, AdapterReadings
  <2> QED BY <1>6, <1>10, <2>1 DEF Ahead, Before
<1>11. /\ Read(SnapManager).kind = "ensure-manager" /\ Read(SnapManager).manager = "snap"
       /\ Read(FlatpakManager).kind = "ensure-manager" /\ Read(FlatpakManager).manager = "flatpak"
       /\ \A p \in FromFlatpak :
            /\ Read(FlatpakRemote(Remote(p))).kind = "ensure-flatpak-remote"
            /\ Read(FlatpakRemote(Remote(p))).privilege = catalog.provider[p].privilege
       /\ \A r : Read(KeyOf(r)).kind = "ensure-repository-key" /\ Read(KeyOf(r)).subject = r
       /\ \A r : Read(SourceOf(r)).kind = "ensure-apt-repository" /\ Read(SourceOf(r)).subject = r
       /\ Read(AptOperation).kind = "refresh-package-index" /\ Read(AptOperation).manager = "apt-get"
  <2>1. ASSUME NEW p \in FromFlatpak
        PROVE  /\ Read(FlatpakRemote(Remote(p))).kind = "ensure-flatpak-remote"
               /\ Read(FlatpakRemote(Remote(p))).privilege = catalog.provider[p].privilege
    <3>1. p \in ToSet(order) /\ catalog.provider[p].manager = "flatpak" /\ Remote(p) \in Remotes
      BY DEF FromFlatpak, Remotes
    <3>2. FlatpakRemote(Remote(p)).privilege = catalog.provider[p].privilege
      BY <3>1, ManagingIDs, RemoteShared
    <3>3. Reads(FlatpakRemote(Remote(p)), "ensure-flatpak-remote", "none", "flatpak")
      BY <3>1, OperationsRead
    <3> QED BY <3>2, <3>3 DEF Reads
  <2> QED BY <2>1, OperationsRead DEF Reads
<1>12. ASSUME NEW i \in 1..n, NEW p \in ToSet(order), s[i] = DetectOf(p),
              catalog.provider[p].manager \in {"snap", "flatpak"}
       PROVE  \E j \in 1..n : /\ Ahead(s, i, j) /\ Read(s[j]).kind = "ensure-manager"
                              /\ Read(s[j]).manager = catalog.provider[p].manager
  BY <1>2, <1>11, <1>12
<1>13. ASSUME NEW i \in 1..n, w[i].kind \in {"detect", "install", "ensure-flatpak-remote"},
              w[i].manager \in {"snap", "flatpak"}
       PROVE  \E j \in Before(w, i, "ensure-manager") : w[j].manager = w[i].manager
  <2>1. SUFFICES \E j \in 1..n : /\ Ahead(s, i, j) /\ Read(s[j]).kind = "ensure-manager"
                                 /\ Read(s[j]).manager = w[i].manager
    BY <1>10, <2>1
  <2>2. CASE w[i].kind = "ensure-flatpak-remote"
    <3>1. w[i].manager = "flatpak" /\ \E r \in Remotes : s[i] = FlatpakRemote(r)
      BY <1>1, <1>6, <2>2, AdapterReadings DEF Remotes
    <3> QED BY <1>2, <1>11, <3>1
  <2>3. CASE w[i].kind = "detect"
    <3>1. PICK p \in ToSet(order) : s[i] = DetectOf(p) /\ w[i].manager = catalog.provider[p].manager
      BY <1>1, <1>6, <2>3, AdapterReadings
    <3> QED BY <1>12, <1>13, <3>1
  <2>4. CASE w[i].kind = "install"
    <3>1. PICK p \in ToSet(order) : s[i] = InstallOf(p) /\ w[i].manager = catalog.provider[p].manager
      BY <1>1, <1>6, <2>4, AdapterReadings
    <3>2. PICK j \in 1..n : Ahead(s, i, j) /\ s[j] = DetectOf(p)
      BY <1>3, <3>1
    <3>3. PICK k \in 1..n : /\ Ahead(s, j, k) /\ Read(s[k]).kind = "ensure-manager"
                            /\ Read(s[k]).manager = catalog.provider[p].manager
      BY <1>12, <1>13, <3>1, <3>2
    <3>4. Ahead(s, i, k)
      BY <1>4, <3>2, <3>3, AheadOfThat
    <3> QED BY <3>1, <3>3, <3>4
  <2> QED BY <1>13, <2>2, <2>3, <2>4
<1>14. ASSUME NEW i \in 1..n, w[i].kind \in {"detect", "install"}
       PROVE  w[i].subject \in DOMAIN sources
  <2>1. \E p \in ToSet(order) : w[i].subject = p
    BY <1>1, <1>6, <1>14, AdapterReadings
  <2> QED BY <1>8, <2>1
<1>15. ASSUME NEW i \in 1..n, w[i].kind = "install"
       PROVE  /\ w[i].manager = "flatpak" => \E j \in Before(w, i, "ensure-flatpak-remote") :
                   w[j].privilege = w[i].privilege
              /\ w[i].manager = "apt-get" /\ sources[w[i].subject] # {} =>
                   \E j \in Before(w, i, "refresh-package-index") : w[j].manager = "apt-get"
  <2>1. PICK p \in ToSet(order) : /\ s[i] = InstallOf(p) /\ w[i].subject = p
                                  /\ w[i].manager = catalog.provider[p].manager
                                  /\ w[i].privilege = s[i].privilege
    BY <1>1, <1>6, <1>15, AdapterReadings
  <2>2. ASSUME w[i].manager = "flatpak"
        PROVE  \E j \in Before(w, i, "ensure-flatpak-remote") : w[j].privilege = w[i].privilege
    <3>1. PICK j \in 1..n : Ahead(s, i, j) /\ s[j] = DetectOf(p)
      BY <1>3, <2>1
    <3>2. PICK k \in 1..n : Ahead(s, j, k) /\ s[k] = FlatpakRemote(Remote(p))
      BY <1>2, <2>1, <2>2, <3>1
    <3>3. Ahead(s, i, k)
      BY <1>4, <3>1, <3>2, AheadOfThat
    <3>4. s[i].privilege = catalog.provider[p].privilege /\ p \in FromFlatpak
      BY <2>1, <2>2, PackageIDs DEF FromFlatpak
    <3>5. Read(s[k]).kind = "ensure-flatpak-remote" /\ Read(s[k]).privilege = w[i].privilege
      BY <1>11, <2>1, <3>2, <3>4
    <3> QED BY <1>10, <3>3, <3>5
  <2>3. ASSUME sources[w[i].subject] # {}
        PROVE  \E j \in Before(w, i, "refresh-package-index") : w[j].manager = "apt-get"
    <3>1. ToSet(catalog.provider[p].prerequisites) # {}
      BY <1>8, <2>1, <2>3
    <3>2. catalog.provider[p].prerequisites # <<>>
      BY <3>1 DEF ToSet
    <3>3. PICK j \in 1..n : Ahead(s, i, j) /\ s[j] = AptOperation
      BY <1>3, <2>1, <3>2
    <3> QED BY <1>10, <1>11, <3>3
  <2> QED BY <2>2, <2>3
<1>16. ASSUME NEW i \in 1..n, w[i].kind = "refresh-package-index", w[i].manager = "apt-get",
              NEW r \in repositories
       PROVE  /\ \E j \in Before(w, i, "ensure-repository-key") : w[j].subject = r
              /\ \E j \in Before(w, i, "ensure-apt-repository") : w[j].subject = r
  <2>1. s[i] = AptOperation
    BY <1>1, <1>6, <1>16, AdapterReadings
  <2>2. PICK j \in 1..n : Ahead(s, i, j) /\ s[j] = SourceOf(r)
    BY <1>3, <1>9, <2>1
  <2>3. PICK k \in 1..n : Ahead(s, i, k) /\ s[k] = KeyOf(r)
    BY <1>3, <1>9, <2>1
  <2> QED BY <1>10, <1>11, <2>2, <2>3
<1>17. ASSUME NEW i \in 1..n, w[i].kind \in {"ensure-repository-key", "ensure-apt-repository"}
       PROVE  /\ w[i].subject \in repositories
              /\ \A j \in DOMAIN w : w[j].kind = w[i].kind /\ w[j].subject = w[i].subject => j = i
  <2>1. ASSUME NEW m \in 1..n, w[m].kind \in {"ensure-repository-key", "ensure-apt-repository"}
        PROVE  \E r \in ToSet(Repositories(order)) :
                 /\ w[m].subject = r
                 /\ s[m] = IF w[m].kind = "ensure-repository-key" THEN KeyOf(r) ELSE SourceOf(r)
    <3>1. w[m] = Read(s[m])
      BY <1>6
    <3>2. Read(s[m]).kind \in {"ensure-repository-key", "ensure-apt-repository"}
      BY <2>1, <3>1
    <3>3. \E r \in ToSet(Repositories(order)) :
            /\ Read(s[m]).subject = r
            /\ s[m] = IF Read(s[m]).kind = "ensure-repository-key" THEN KeyOf(r) ELSE SourceOf(r)
      BY <1>1, <3>2, AdapterReadings
    <3> QED BY <3>1, <3>3, Zenon
  <2>2. PICK r \in ToSet(Repositories(order)) :
          /\ w[i].subject = r
          /\ s[i] = IF w[i].kind = "ensure-repository-key" THEN KeyOf(r) ELSE SourceOf(r)
    BY <1>17, <2>1
  <2>3. ASSUME NEW j \in 1..n, w[j].kind = w[i].kind, w[j].subject = w[i].subject
        PROVE  j = i
    <3>1. PICK q \in ToSet(Repositories(order)) :
            /\ w[j].subject = q
            /\ s[j] = IF w[j].kind = "ensure-repository-key" THEN KeyOf(q) ELSE SourceOf(q)
      BY <1>17, <2>1, <2>3
    <3>2. s[j] = s[i]
      BY <2>2, <2>3, <3>1
    <3> QED BY <1>1, <3>2 DEF Follows
  <2> QED BY <1>6, <1>9, <2>2, <2>3
<1> QED BY <1>6, <1>7, <1>13, <1>14, <1>15, <1>16, <1>17 DEF AdapterPlan, w, s, sources, repositories

-----------------------------------------------------------------------------
(* Selecting again.                                                        *)

LEMMA FlattenPair ==
  ASSUME NEW S, NEW a \in Seq(S), NEW b \in Seq(S)
  PROVE  <<a, b>> \in Seq(Seq(S)) /\ FlattenSeq(<<a, b>>) = a \o b
<1> DEFINE seqs == <<a, b>>
<1>1. seqs \in Seq(Seq(S)) /\ Len(seqs) = 2 /\ seqs[1] = a /\ seqs[2] = b
  BY PairIsSeq
<1>2. seqs # <<>>
  OBVIOUS
<1> HIDE DEF seqs
<1>3. PICK g : Flattening(seqs, g, Len(seqs)) /\ FlattenSeq(seqs) = g[Len(seqs)]
  BY <1>1, <1>2, FlattenRecursion
<1>4. g = [i \in 1..2 |-> IF i = 1 THEN seqs[i] ELSE g[i - 1] \o seqs[i]] /\ FlattenSeq(seqs) = g[2]
  BY <1>1, <1>3 DEF Flattening
<1>5. 1 \in 1..2 /\ 2 \in 1..2 /\ 2 # 1 /\ 2 - 1 = 1
  OBVIOUS
<1>6. g[1] = seqs[1] /\ g[2] = g[1] \o seqs[2]
  BY <1>4, <1>5
<1> QED BY <1>1, <1>4, <1>6 DEF seqs

\* Both list the same values, each once, in the same order.
SameListing(u, w) ==
  /\ \A k, l \in 1..Len(u) : u[k] = u[l] => k = l
  /\ \A k, l \in 1..Len(w) : w[k] = w[l] => k = l
  /\ \A k \in 1..Len(u) : \E i \in 1..Len(w) : w[i] = u[k]
  /\ \A i \in 1..Len(w) : \E k \in 1..Len(u) : u[k] = w[i]
  /\ \A k, l \in 1..Len(u) : \A i, j \in 1..Len(w) :
       k < l /\ u[k] = w[i] /\ u[l] = w[j] => i < j

LEMMA EqualListings ==
  ASSUME NEW S, NEW u \in Seq(S), NEW w \in Seq(S), SameListing(u, w)
  PROVE  u = w
<1> USE DEF SameListing
<1>1. /\ Len(u) \in Nat /\ Len(w) \in Nat
  OBVIOUS
<1> DEFINE bad == {k \in 1..Len(u) : ~(k \in 1..Len(w) /\ u[k] = w[k])}
<1>2. bad = {}
  <2> SUFFICES ASSUME bad # {} PROVE FALSE
    OBVIOUS
  <2> DEFINE m == Min(bad)
  <2>1. m \in bad /\ \A j \in bad : m <= j
    <3>1. bad \in SUBSET (1..Len(u))
      OBVIOUS
    <3> HIDE DEF bad
    <3> QED BY <1>1, <3>1, FirstPosition
  <2>2. m \in 1..Len(u) /\ ~(m \in 1..Len(w) /\ u[m] = w[m])
    BY <2>1
  <2>3. \A k \in 1..Len(u) : k < m => k \in 1..Len(w) /\ u[k] = w[k]
    <3> SUFFICES ASSUME NEW k \in 1..Len(u), k < m PROVE k \notin bad
      OBVIOUS
    <3> HIDE DEF bad
    <3> QED BY <1>1, <2>1, <2>2
  <2> HIDE DEF m, bad
  <2>4. PICK i \in 1..Len(w) : w[i] = u[m]
    BY <2>2
  <2>5. i > m
    <3>1. i # m
      BY <2>2, <2>4
    <3>2. ASSUME i < m PROVE FALSE
      <4>1. i \in 1..Len(u) /\ u[i] = w[i]
        BY <1>1, <2>2, <2>3, <3>2
      <4> QED BY <2>2, <2>4, <3>2, <4>1
    <3> QED BY <1>1, <2>2, <3>1, <3>2
  <2>6. m \in 1..Len(w)
    BY <1>1, <2>2, <2>5
  <2>7. PICK l \in 1..Len(u) : u[l] = w[m]
    BY <2>6
  <2>8. l > m
    <3>1. l # m
      BY <2>2, <2>6, <2>7
    <3>2. ASSUME l < m PROVE FALSE
      <4>1. l \in 1..Len(w) /\ u[l] = w[l]
        BY <2>3, <3>2
      <4>2. w[l] = w[m]
        BY <2>7, <4>1
      <4>3. l = m
        BY <2>6, <4>1, <4>2
      <4> QED BY <1>1, <2>2, <3>2, <4>3
    <3> QED BY <1>1, <2>2, <3>1, <3>2
  <2>9. i < m
    BY <2>2, <2>4, <2>6, <2>7, <2>8
  <2> QED BY <1>1, <2>2, <2>5, <2>9
<1>3. \A k \in 1..Len(u) : k \in 1..Len(w) /\ u[k] = w[k]
  BY <1>2
<1> HIDE DEF bad
<1>4. Len(u) <= Len(w)
  BY <1>1, <1>3
<1>5. Len(w) <= Len(u)
  <2> SUFFICES ASSUME Len(u) < Len(w) PROVE FALSE
    BY <1>1
  <2> DEFINE n == Len(w)
  <2>1. n \in 1..Len(w)
    BY <1>1
  <2>2. PICK k \in 1..Len(u) : u[k] = w[n]
    BY <2>1
  <2>3. k \in 1..Len(w) /\ w[k] = w[n]
    BY <1>3, <2>2
  <2>4. k = n
    BY <2>1, <2>3
  <2> QED BY <1>1, <2>4
<1>6. Len(u) = Len(w)
  BY <1>1, <1>4, <1>5
<1> QED BY <1>3, <1>6, SeqEqual

\* appendUnique adds nothing to what it has made with the same first list.
LEMMA UniqueAgain ==
  ASSUME NEW S, NEW a \in Seq(S), NEW b \in Seq(S)
  PROVE  Unique(<<a, Unique(<<a, b>>)>>) = Unique(<<a, b>>)
<1> DEFINE v == a \o b
           u == Unique(<<a, b>>)
           x == a \o u
           w == Unique(<<a, u>>)
<1>1. v \in Seq(S) /\ u \in Seq(S) /\ \E f : Firsts(v, u, f)
  <2>1. <<a, b>> \in Seq(Seq(S)) /\ FlattenSeq(<<a, b>>) = v
    BY FlattenPair
  <2> QED BY <2>1, UniqueValues
<1> HIDE DEF u
<1>2. x \in Seq(S) /\ w \in Seq(S) /\ \E f : Firsts(x, w, f)
  <2>1. <<a, u>> \in Seq(Seq(S)) /\ FlattenSeq(<<a, u>>) = x
    BY <1>1, FlattenPair
  <2> QED BY <2>1, UniqueValues
<1> HIDE DEF w
<1>3. PICK f : Firsts(v, u, f)
  BY <1>1
<1>4. PICK h : Firsts(x, w, h)
  BY <1>2
<1> DEFINE L == Len(a)
<1>5. /\ L \in Nat /\ Len(b) \in Nat /\ Len(u) \in Nat /\ Len(w) \in Nat
      /\ Len(v) = L + Len(b) /\ Len(x) = L + Len(u)
      /\ \A i \in 1..L : v[i] = a[i] /\ x[i] = a[i]
      /\ \A k \in 1..Len(u) : x[L + k] = u[k]
  <2>1. /\ L \in Nat /\ Len(b) \in Nat /\ Len(u) \in Nat /\ Len(w) \in Nat
    BY <1>1, <1>2
  <2>2. Len(v) = L + Len(b) /\ \A i \in 1..L : v[i] = a[i]
    BY JoinMembers
  <2>3. Len(x) = L + Len(u) /\ (\A i \in 1..L : x[i] = a[i]) /\ \A k \in 1..Len(u) : x[L + k] = u[k]
    BY <1>1, JoinMembers
  <2> QED BY <2>1, <2>2, <2>3
<1> HIDE DEF L, v, x
<1>6. /\ \A k \in 1..Len(u) : f[k] \in 1..Len(v) /\ u[k] = v[f[k]]
      /\ \A k, l \in 1..Len(u) : k < l => f[k] < f[l] /\ u[k] # u[l]
      /\ \A i \in 1..Len(v) : \E k \in 1..Len(u) : u[k] = v[i] /\ f[k] <= i
  BY <1>3 DEF Firsts
<1>7. /\ \A k \in 1..Len(w) : h[k] \in 1..Len(x) /\ w[k] = x[h[k]]
      /\ \A k, l \in 1..Len(w) : k < l => h[k] < h[l] /\ w[k] # w[l]
      /\ \A i \in 1..Len(x) : \E k \in 1..Len(w) : w[k] = x[i] /\ h[k] <= i
  BY <1>4 DEF Firsts
<1>8. /\ \A k, l \in 1..Len(u) : u[k] = u[l] => k = l
      /\ \A k, l \in 1..Len(w) : w[k] = w[l] => k = l
  BY <1>5, <1>6, <1>7
\* A value stands in u, and in w, for its first occurrence.
<1>9. /\ \A k \in 1..Len(u) : \A i \in 1..Len(v) : v[i] = u[k] => f[k] <= i
      /\ \A k \in 1..Len(w) : \A i \in 1..Len(x) : x[i] = w[k] => h[k] <= i
  BY <1>6, <1>7, <1>8, SMTT(20)
<1>10. ASSUME NEW k \in 1..Len(u) PROVE \E i \in 1..Len(w) : w[i] = u[k]
  <2>1. L + k \in 1..Len(x) /\ x[L + k] = u[k]
    BY <1>5
  <2>2. PICK i \in 1..Len(w) : w[i] = x[L + k]
    BY <1>7, <2>1
  <2> QED BY <2>1, <2>2
<1>11. ASSUME NEW i \in 1..Len(w) PROVE \E k \in 1..Len(u) : u[k] = w[i]
  <2>1. h[i] \in 1..Len(x) /\ w[i] = x[h[i]]
    BY <1>7
  <2>2. CASE h[i] <= L
    <3>1. h[i] \in 1..L /\ h[i] \in 1..Len(v)
      BY <1>5, <2>1, <2>2
    <3>2. w[i] = v[h[i]]
      BY <1>5, <2>1, <3>1
    <3> QED BY <1>6, <3>1, <3>2
  <2>3. CASE ~(h[i] <= L)
    <3>1. h[i] - L \in 1..Len(u) /\ L + (h[i] - L) = h[i]
      BY <1>5, <2>1, <2>3
    <3>2. x[L + (h[i] - L)] = u[h[i] - L]
      BY <1>5, <3>1
    <3> QED BY <2>1, <3>1, <3>2
  <2> QED BY <2>2, <2>3
<1>12. ASSUME NEW k \in 1..Len(u), NEW l \in 1..Len(u), NEW i \in 1..Len(w), NEW j \in 1..Len(w),
              k < l, u[k] = w[i], u[l] = w[j]
       PROVE  i < j
  <2> SUFFICES ASSUME ~(i < j) PROVE FALSE
    OBVIOUS
  <2>1. /\ f[k] \in 1..Len(v) /\ u[k] = v[f[k]] /\ f[l] \in 1..Len(v) /\ u[l] = v[f[l]] /\ f[k] < f[l]
        /\ u[k] # u[l]
    BY <1>6, <1>12
  <2>2. /\ h[i] \in 1..Len(x) /\ w[i] = x[h[i]] /\ h[j] \in 1..Len(x) /\ w[j] = x[h[j]]
    BY <1>7
  <2>3. h[j] < h[i]
    <3>1. i # j
      BY <1>12, <2>1
    <3>2. j < i
      BY <1>5, <3>1
    <3> QED BY <1>7, <3>2
  <2>4. CASE h[j] <= L
    <3>1. h[j] \in 1..L /\ h[j] \in 1..Len(v)
      BY <1>5, <2>2, <2>4
    <3>2. v[h[j]] = u[l]
      BY <1>5, <1>12, <2>2, <3>1
    <3>3. f[l] <= h[j]
      BY <1>9, <3>1, <3>2
    <3>4. f[k] \in 1..L /\ f[k] \in 1..Len(x) /\ f[k] < h[j]
      <4> DEFINE fk == f[k]
                 fl == f[l]
                 hj == h[j]
      <4>1. fk \in 1..Len(v) /\ fl \in 1..Len(v) /\ fk < fl /\ fl <= hj /\ hj \in 1..L
        BY <2>1, <3>1, <3>3
      <4> HIDE DEF fk, fl, hj
      <4>2. fk \in 1..L /\ fk \in 1..Len(x) /\ fk < hj
        BY <1>5, <4>1
      <4> QED BY <4>2 DEF fk, hj
    <3>5. x[f[k]] = w[i]
      BY <1>5, <1>12, <2>1, <3>4
    <3>6. h[i] <= f[k]
      BY <1>9, <3>4, <3>5
    <3> QED BY <2>2, <2>3, <3>4, <3>6
  <2>5. CASE ~(h[j] <= L)
    <3>1. h[j] - L \in 1..Len(u) /\ L + (h[j] - L) = h[j]
      <4> DEFINE hj == h[j]
      <4>1. hj \in 1..Len(x) /\ ~(hj <= L)
        BY <2>2, <2>5
      <4> HIDE DEF hj
      <4>2. hj - L \in 1..Len(u) /\ L + (hj - L) = hj
        BY <1>5, <4>1
      <4> QED BY <4>2 DEF hj
    <3>2. u[h[j] - L] = u[l]
      BY <1>5, <1>12, <2>2, <3>1
    <3>3. h[j] = L + l
      BY <1>5, <1>8, <3>1, <3>2
    <3>4. L + k \in 1..Len(x) /\ x[L + k] = w[i]
      BY <1>5, <1>12
    <3>5. h[i] <= L + k
      BY <1>9, <3>4
    <3> QED BY <1>5, <1>12, <2>2, <2>3, <3>3, <3>5, SMTT(20)
  <2> QED BY <2>4, <2>5
<1>13. u = w
  <2>1. \A k, l \in 1..Len(u) : \A i, j \in 1..Len(w) :
          k < l /\ u[k] = w[i] /\ u[l] = w[j] => i < j
    BY <1>12
  <2>2. SameListing(u, w)
    BY <1>8, <1>10, <1>11, <2>1 DEF SameListing
  <2> QED BY <1>1, <1>2, <2>2, EqualListings
<1> QED BY <1>13 DEF u, w

-----------------------------------------------------------------------------
(* The walk is determined.                                                 *)

\* The walk is determined: where it stands, [roots, stack, order], says how it goes on.
Through(c) == c[1] = <<>> /\ c[2] = <<>>

Step(deps, c) ==
  LET st == c[2]
      top == st[Len(st)]
  IN  IF st = <<>>
      THEN <<Tail(c[1]), Append(<<>>, [package |-> Head(c[1]), next |-> 1]), c[3]>>
      ELSE IF top.next <= Len(deps[top.package])
      THEN <<c[1],
             Append([st EXCEPT ![Len(st)].next = @ + 1],
                    [package |-> deps[top.package][top.next], next |-> 1]),
             c[3]>>
      ELSE <<c[1], Front(st),
             IF Contains(c[3], top.package) THEN c[3] ELSE Append(c[3], top.package)>>

\* g is the walk from start, up to its n-th step.
Run(deps, start, n, g) ==
  /\ g[0] = start
  /\ \A i \in 0..(n - 1) : ~Through(g[i]) /\ g[i + 1] = Step(deps, g[i])

Leads(deps, start, c) == \E n \in Nat : \E g : Run(deps, start, n, g) /\ g[n] = c

LEMMA LeadsToItself ==
  ASSUME NEW deps, NEW c
  PROVE  Leads(deps, c, c)
<1> DEFINE g == [i \in 0..0 |-> c]
<1>1. Run(deps, c, 0, g) /\ g[0] = c
  BY DEF Run
<1> QED BY <1>1 DEF Leads

LEMMA LeadsOn ==
  ASSUME NEW deps, NEW start, NEW c, Leads(deps, start, c), ~Through(c)
  PROVE  Leads(deps, start, Step(deps, c))
<1>1. PICK n \in Nat : \E g : Run(deps, start, n, g) /\ g[n] = c
  BY DEF Leads
<1>2. PICK g : Run(deps, start, n, g) /\ g[n] = c
  BY <1>1
<1> DEFINE d == Step(deps, c)
           h == [i \in 0..(n + 1) |-> IF i = n + 1 THEN d ELSE g[i]]
<1> HIDE DEF d
<1>3. \A i \in 0..n : h[i] = g[i]
  OBVIOUS
<1>4. h[n + 1] = d
  OBVIOUS
<1> HIDE DEF h
<1>5. \A i \in 0..(n - 1) : ~Through(g[i]) /\ g[i + 1] = Step(deps, g[i])
  BY <1>2 DEF Run
<1>6. h[0] = start
  BY <1>2, <1>3 DEF Run
<1>7. ASSUME NEW i \in 0..(n + 1 - 1) PROVE ~Through(h[i]) /\ h[i + 1] = Step(deps, h[i])
  <2>1. CASE i = n
    <3>1. h[i] = c
      BY <1>2, <1>3, <2>1
    <3> QED BY <1>4, <2>1, <3>1 DEF d
  <2>2. CASE i # n
    <3>1. i \in 0..(n - 1) /\ i \in 0..n /\ i + 1 \in 0..n
      BY <2>2
    <3> QED BY <1>3, <1>5, <3>1
  <2> QED BY <2>1, <2>2
<1>8. Run(deps, start, n + 1, h)
  BY <1>6, <1>7 DEF Run
<1> QED BY <1>4, <1>8 DEF Leads, d

\* Two walks from one start agree as far as both go.
LEMMA RunsAgree ==
  ASSUME NEW deps, NEW start, NEW n \in Nat, NEW m \in Nat, n <= m,
         NEW g, Run(deps, start, n, g), NEW h, Run(deps, start, m, h)
  PROVE  g[n] = h[n]
<1> DEFINE bad == {i \in 1..n : g[i] # h[i]}
<1>1. g[0] = h[0]
  BY DEF Run
<1>2. bad = {}
  <2> SUFFICES ASSUME bad # {} PROVE FALSE
    OBVIOUS
  <2> DEFINE k == Min(bad)
  <2>1. k \in bad /\ \A j \in bad : k <= j
    <3>1. bad \in SUBSET (1..n)
      OBVIOUS
    <3> HIDE DEF bad
    <3> QED BY <3>1, FirstPosition
  <2>2. k \in 1..n /\ g[k] # h[k]
    BY <2>1
  <2> HIDE DEF k
  <2>3. k - 1 \in 0..(n - 1) /\ k - 1 \in 0..(m - 1) /\ k - 1 + 1 = k /\ k - 1 < k
        /\ (k - 1 = 0 \/ k - 1 \in 1..n)
    BY <2>2
  <2>4. k - 1 \notin bad
    <3> HIDE DEF bad
    <3> QED BY <2>1, <2>3
  <2>5. g[k - 1] = h[k - 1]
    BY <1>1, <2>3, <2>4
  <2>6. g[k - 1 + 1] = Step(deps, g[k - 1]) /\ h[k - 1 + 1] = Step(deps, h[k - 1])
    BY <2>3 DEF Run
  <2> QED BY <2>2, <2>3, <2>5, <2>6
<1>3. n = 0 \/ n \in 1..n
  OBVIOUS
<1> QED BY <1>1, <1>2, <1>3

LEMMA OneOutcome ==
  ASSUME NEW deps, NEW start, NEW c, NEW d,
         Leads(deps, start, c), Leads(deps, start, d), Through(c), Through(d)
  PROVE  c = d
<1>1. PICK n \in Nat : \E g : Run(deps, start, n, g) /\ g[n] = c
  BY DEF Leads
<1>2. PICK g : Run(deps, start, n, g) /\ g[n] = c
  BY <1>1
<1>3. PICK m \in Nat : \E h : Run(deps, start, m, h) /\ h[m] = d
  BY DEF Leads
<1>4. PICK h : Run(deps, start, m, h) /\ h[m] = d
  BY <1>3
<1>5. CASE n <= m
  <2>1. h[n] = c
    BY <1>2, <1>4, <1>5, RunsAgree
  <2>2. n \in 0..(m - 1) => ~Through(h[n])
    BY <1>4 DEF Run
  <2>3. n = m
    BY <1>5, <2>1, <2>2
  <2> QED BY <1>4, <2>1, <2>3
<1>6. CASE m <= n
  <2>1. g[m] = d
    BY <1>2, <1>4, <1>6, RunsAgree
  <2>2. m \in 0..(n - 1) => ~Through(g[m])
    BY <1>2 DEF Run
  <2>3. n = m
    BY <1>6, <2>1, <2>2
  <2> QED BY <1>2, <2>1, <2>3
<1> QED BY <1>5, <1>6

-----------------------------------------------------------------------------
Beginning(in) == <<Roots(in.profile, SelectedPacks(in)), <<>>, <<>>>>

\* The walk for a request has led to c.
Walked(in, c) == Leads(catalog.dependencies, Beginning(in), c)

\* The plan that Build makes of an order.
PlanOf(in, ids) ==
  [error |-> "none", id |-> in, profile |-> in.profile, packs |-> in.packs, operations |-> Operations(ids)]

\* The request for the packs that were selected.
Resolved(in) == [in EXCEPT !.packs = SelectedPacks(in)]

\* s is the plan of a request for its own packs, which selects them again.
PlanFromFile(s) ==
  /\ s.id \in Request /\ SelectedPacks(s.id) = s.id.packs /\ Expected(s.id) = "none"
  /\ \E ids : Walked(s.id, <<<<>>, <<>>, ids>>) /\ s = PlanOf(s.id, ids)

\* Where the walk stands, or has ended.
Walking ==
  /\ phase = "walk" => Walked(input, <<roots, stack, order>>)
  /\ phase = "built" /\ result.error = "none" => Walked(input, <<<<>>, <<>>, order>>)

\* A plan under validation is built again, for its own packs.
Validating ==
  subject # NoPlan =>
    /\ PlanFromFile(subject)
    /\ phase = "done" => verdict = "accepted"
    /\ phase # "done" =>
         input = [subject.id EXCEPT !.essentials = FALSE] \/ input = subject.id

LEMMA SameBeginning ==
  ASSUME UNCHANGED <<catalog, input>>
  PROVE  Beginning(input)' = Beginning(input)
<1>1. SelectedPacks(input)' = SelectedPacks(input)
  BY SameSelection
<1>2. Roots(input.profile, SelectedPacks(input))' = Roots(input.profile, SelectedPacks(input))
  <2>1. Inherited(input.profile, "packages")' = Inherited(input.profile, "packages")
    BY SameCatalog DEF Inherited
  <2>2. (input.profile)' = input.profile
    OBVIOUS
  <2> DEFINE s == SelectedPacks(input)
  <2>3. s' = s
    BY <1>1
  <2> HIDE DEF s
  <2>4. Roots(input.profile, s)' = Roots(input.profile, s)
    BY <2>1, <2>2, <2>3 DEF Roots
  <2> QED BY <2>4 DEF s
<1> QED BY <1>1, <1>2 DEF Beginning

LEMMA SameRequest ==
  ASSUME catalog' = catalog, NEW CONSTANT in, NEW CONSTANT c, NEW CONSTANT ids
  PROVE  /\ SelectedPacks(in)' = SelectedPacks(in)
         /\ (Walked(in, c)' <=> Walked(in, c)) /\ Expected(in)' = Expected(in)
         /\ PlanOf(in, ids)' = PlanOf(in, ids)
<1>1. /\ Packages' = Packages /\ \A S : Closure(S)' = Closure(S)
  BY SameCatalog
<1>2. SelectedPacks(in)' = SelectedPacks(in)
  BY SameCatalog DEF SelectedPacks, Inherited
<1>3. Roots(in.profile, SelectedPacks(in))' = Roots(in.profile, SelectedPacks(in))
  <2> DEFINE s == SelectedPacks(in)
  <2>1. Inherited(in.profile, "packages")' = Inherited(in.profile, "packages")
    BY SameCatalog DEF Inherited
  <2>2. s' = s
    BY <1>2
  <2> HIDE DEF s
  <2>3. Roots(in.profile, s)' = Roots(in.profile, s)
    BY <2>1, <2>2 DEF Roots
  <2> QED BY <2>3 DEF s
<1>4. Walked(in, c)' <=> Walked(in, c)
  BY <1>2, <1>3 DEF Walked, Beginning
<1>5. Expected(in)' = Expected(in)
  <2>1. Selection(in)' = Selection(in)
    BY <1>3 DEF Selection
  <2>2. Closure(Selection(in))' = Closure(Selection(in))
    BY <1>1, <2>1 DEF Closure
  <2> DEFINE needed == Closure(Selection(in))
             profile == in.profile \in DOMAIN catalog.profiles
             known == ToSet(in.packs) \subseteq DOMAIN catalog.packs
             cycle == \E p \in needed : p \in Closure(ToSet(catalog.dependencies[p]))
             conflict == \E p, q \in needed : q \in catalog.conflicts[p]
             unsupported == \E p \in needed : catalog.provider[p] = NoProvider
             topology == \E p \in needed : \E d \in ToSet(catalog.dependencies[p]) :
                catalog.provider[p].privilege = "elevated" /\ catalog.provider[d].privilege = "user"
  <2>3. needed' = needed
    BY <2>2
  <2>4. cycle' <=> cycle
    <3> HIDE DEF needed
    <3>1. \A p : Closure(ToSet(catalog.dependencies[p]))' = Closure(ToSet(catalog.dependencies[p]))
      BY <1>1 DEF Closure
    <3> QED BY <2>3, <3>1
  <2>5. topology' <=> topology
    <3> HIDE DEF needed
    <3> QED BY <2>3
  <2>6. (conflict' <=> conflict) /\ (unsupported' <=> unsupported) /\ (known' <=> known) /\ (profile' <=> profile)
    <3> HIDE DEF needed
    <3> QED BY <2>3
  <2>7. Expected(in) = IF ~profile THEN "unknown-profile" ELSE IF ~known THEN "unknown-pack" ELSE IF cycle THEN "cycle"
           ELSE IF conflict THEN "conflict" ELSE IF unsupported THEN "unsupported"
           ELSE IF topology THEN "topology" ELSE "none"
    BY DEF Expected
  <2>8. Expected(in)' = (IF ~profile THEN "unknown-profile" ELSE IF ~known THEN "unknown-pack" ELSE IF cycle THEN "cycle"
           ELSE IF conflict THEN "conflict" ELSE IF unsupported THEN "unsupported"
           ELSE IF topology THEN "topology" ELSE "none")'
    BY DEF Expected
  <2> HIDE DEF profile, known, cycle, conflict, unsupported, topology
  <2> QED BY <2>4, <2>5, <2>6, <2>7, <2>8
<1>6. PlanOf(in, ids)' = PlanOf(in, ids)
  BY DEF PlanOf, Operations, EnsureOperations, Ensures, Remote, RemotePrivilege,
         RepositoryOperations, Repositories, RefreshOperations, UsesDnf, FromDnf, PackageOperations, ManagerID, Refreshes, ConfigureOperations
<1> QED BY <1>1, <1>2, <1>4, <1>5, <1>6

LEMMA SamePlanFromFile ==
  ASSUME catalog' = catalog, NEW CONSTANT s
  PROVE  PlanFromFile(s)' <=> PlanFromFile(s)
<1>1. /\ SelectedPacks(s.id)' = SelectedPacks(s.id)
      /\ Expected(s.id)' = Expected(s.id)
  BY SameRequest
<1>2. ASSUME NEW CONSTANT ids
      PROVE  /\ Walked(s.id, <<<<>>, <<>>, ids>>)' <=> Walked(s.id, <<<<>>, <<>>, ids>>)
             /\ PlanOf(s.id, ids)' = PlanOf(s.id, ids)
  <2> DEFINE c == <<<<>>, <<>>, ids>>
  <2>1. Walked(s.id, c)' <=> Walked(s.id, c)
    BY SameRequest
  <2> QED BY <2>1, SameRequest
<1> QED BY <1>1, <1>2 DEF PlanFromFile

LEMMA StillValidating ==
  ASSUME Validating, phase # "done", phase' # "done", UNCHANGED <<catalog, input, subject, verdict>>
  PROVE  Validating'
<1> SUFFICES ASSUME subject # NoPlan PROVE Validating'
  BY DEF Validating
<1>1. PICK s : s = subject
  OBVIOUS
<1>2. PlanFromFile(s)' <=> PlanFromFile(s)
  BY SamePlanFromFile
<1>3. PlanFromFile(subject)'
  BY <1>1, <1>2 DEF Validating
<1> QED BY <1>3 DEF Validating

LEMMA SelectWalks == PlanInv /\ Walking /\ Validating /\ Select => Walking' /\ Validating'
<1> SUFFICES ASSUME PlanInv, Validating, Select PROVE Walking' /\ Validating'
  OBVIOUS
<1>1. phase = "select" /\ stack = <<>> /\ order' = <<>> /\ UNCHANGED <<catalog, input, stack, subject, verdict>>
  BY DEF PlanInv, WalkInv, Select
<1>2. CASE ~Known(input)
  <2>1. phase' = "built" /\ (result' = Failed("unknown-profile") \/ result' = Failed("unknown-pack"))
    BY <1>2 DEF Select, Known
  <2>2. result'.error # "none"
    BY <2>1 DEF Failed
  <2> QED BY <1>1, <2>1, <2>2, StillValidating DEF Walking
<1>3. CASE Known(input)
  <2>1. phase' = "walk" /\ packs' = SelectedPacks(input) /\ roots' = Roots(input.profile, packs')
    BY <1>3 DEF Select, Known
  <2>2. <<roots', stack', order'>> = Beginning(input)
    BY <1>1, <2>1 DEF Beginning
  <2>3. Leads(catalog.dependencies', Beginning(input)', <<roots', stack', order'>>)
    BY <1>1, <2>2, SameBeginning, LeadsToItself
  <2> QED BY <1>1, <2>1, <2>3, StillValidating DEF Walking, Walked
<1> QED BY <1>2, <1>3

\* A step of the walk is the step it has to take.
LEMMA WalkedOn ==
  ASSUME Walking, Validating, phase = "walk", phase' = "walk",
         UNCHANGED <<catalog, input, subject, verdict>>,
         ~Through(<<roots, stack, order>>),
         <<roots', stack', order'>> = Step(catalog.dependencies, <<roots, stack, order>>)
  PROVE  Walking' /\ Validating'
<1>1. Leads(catalog.dependencies, Beginning(input), <<roots, stack, order>>)
  BY DEF Walking, Walked
<1>2. Leads(catalog.dependencies, Beginning(input), <<roots', stack', order'>>)
  BY <1>1, LeadsOn
<1>3. Leads(catalog.dependencies', Beginning(input)', <<roots', stack', order'>>)
  BY <1>2, SameBeginning
<1> QED BY <1>3, StillValidating DEF Walking, Walked

LEMMA VisitWalks == PlanInv /\ Walking /\ Validating /\ Visit => Walking' /\ Validating'
<1> SUFFICES ASSUME PlanInv, Walking, Validating, Visit PROVE Walking' /\ Validating'
  OBVIOUS
<1>1. /\ phase = "walk" /\ stack = <<>> /\ roots # <<>> /\ roots \in Seq(Packages)
      /\ UNCHANGED <<catalog, input, order, subject, verdict>> /\ roots' = Tail(roots)
  BY DEF PlanInv, Typed, Visit
<1>2. Head(roots) \in Packages
  BY <1>1
<1>3. stack' = Append(<<>>, [package |-> Head(roots), next |-> 1]) /\ phase' = phase
  BY <1>2 DEF Visit, Enter
<1>4. <<roots', stack', order'>> = Step(catalog.dependencies, <<roots, stack, order>>)
  BY <1>1, <1>3 DEF Step
<1> QED BY <1>1, <1>3, <1>4, WalkedOn DEF Through

LEMMA DescendWalks == PlanInv /\ Walking /\ Validating /\ Descend => Walking' /\ Validating'
<1> SUFFICES ASSUME PlanInv, Walking, Validating, Descend PROVE Walking' /\ Validating'
  OBVIOUS
<1> DEFINE callers == [stack EXCEPT ![Len(stack)].next = @ + 1]
           p == catalog.dependencies[Top.package][Top.next]
<1>1. /\ phase = "walk" /\ stack # <<>> /\ Pending /\ Enter(p, callers)
      /\ UNCHANGED <<catalog, input, roots, order, subject, verdict>>
  BY DEF Descend
<1>2. CASE phase' = "built"
  <2>1. result' = Failed("cycle") \/ result' = Failed("unknown-package")
    BY <1>1, <1>2 DEF Enter
  <2>2. result'.error # "none"
    BY <2>1 DEF Failed
  <2> QED BY <1>1, <1>2, <2>2, StillValidating DEF Walking
<1>3. CASE phase' # "built"
  <2>1. stack' = Append(callers, [package |-> p, next |-> 1]) /\ phase' = phase
    BY <1>1, <1>3 DEF Enter
  <2>2. <<roots', stack', order'>> = Step(catalog.dependencies, <<roots, stack, order>>)
    BY <1>1, <2>1 DEF Step, Top, Pending
  <2> QED BY <1>1, <2>1, <2>2, WalkedOn DEF Through
<1> QED BY <1>2, <1>3

LEMMA ReturnWalks == PlanInv /\ Walking /\ Validating /\ Return => Walking' /\ Validating'
<1> SUFFICES ASSUME PlanInv, Walking, Validating, Return PROVE Walking' /\ Validating'
  OBVIOUS
<1>1. /\ phase = "walk" /\ phase' = phase /\ stack # <<>> /\ ~Pending
      /\ UNCHANGED <<catalog, input, roots, subject, verdict>> /\ stack' = Front(stack)
      /\ order' = IF Contains(order, Top.package) THEN order ELSE Append(order, Top.package)
  BY DEF Return
<1>2. <<roots', stack', order'>> = Step(catalog.dependencies, <<roots, stack, order>>)
  BY <1>1 DEF Step, Top, Pending
<1> QED BY <1>1, <1>2, WalkedOn DEF Through

LEMMA AssembleWalks == PlanInv /\ Walking /\ Validating /\ Assemble => Walking' /\ Validating'
<1> SUFFICES ASSUME PlanInv, Walking, Validating, Assemble PROVE Walking' /\ Validating'
  OBVIOUS
<1>1. /\ phase = "walk" /\ phase' = "built" /\ stack = <<>> /\ roots = <<>>
      /\ UNCHANGED <<catalog, input, order, subject, verdict>>
  BY DEF Assemble
<1>2. Leads(catalog.dependencies, Beginning(input), <<<<>>, <<>>, order>>)
  BY <1>1 DEF Walking, Walked
<1>3. Leads(catalog.dependencies', Beginning(input)', <<<<>>, <<>>, order'>>)
  BY <1>1, <1>2, SameBeginning
<1> QED BY <1>1, <1>3, StillValidating DEF Walking, Walked

\* Selected packs select themselves again: recommended ones come first, the
\* explicit ones stay where they are.
LEMMA SelectedAgain ==
  ASSUME CatalogOK(catalog), NEW in \in Request, Known(in)
  PROVE  SelectedPacks(Resolved(in)) = SelectedPacks(in) /\ Resolved(in) \in Request
         /\ Resolved(in).packs = SelectedPacks(in)
<1> DEFINE P == DOMAIN catalog.packs
           recommended == IF in.essentials THEN <<>> ELSE Inherited(in.profile, "recommended")
           selected == SelectedPacks(in)
<1>1. in.profile \in DOMAIN catalog.profiles /\ in.packs \in Seq(P)
  BY DEF Request, ToSet, Known
<1>2. recommended \in Seq(P)
  <2>1. <<>> \in Seq(P)
    BY EmptySeq
  <2> QED BY <1>1, <2>1, InheritedValues
<1>3. selected = Unique(<<recommended, in.packs>>)
  BY DEF SelectedPacks
<1>4. selected \in Seq(P)
  BY SelectionTyped DEF Known
<1>5. selected \in Seq(STRING)
  BY <1>4, SeqMonotonic DEF CatalogOK
<1>6. /\ Resolved(in).packs = selected /\ Resolved(in).profile = in.profile
      /\ Resolved(in).essentials = in.essentials /\ Resolved(in) \in Request
  BY <1>1, <1>5 DEF Resolved, Request
<1> HIDE DEF selected
<1>7. SelectedPacks(Resolved(in)) = Unique(<<recommended, selected>>)
  BY <1>6 DEF SelectedPacks
<1> HIDE DEF recommended, P
<1>8. Unique(<<recommended, selected>>) = selected
  BY <1>1, <1>2, <1>3, UniqueAgain
<1> QED BY <1>6, <1>7, <1>8 DEF selected

\* What is expected of a request is expected of the request for its selection.
LEMMA ExpectedAgain ==
  ASSUME CatalogOK(catalog), NEW in \in Request, Known(in)
  PROVE  /\ Expected(Resolved(in)) = Expected(in)
         /\ Beginning(Resolved(in)) = Beginning(in)
<1> DEFINE again == Resolved(in)
<1>1. SelectedPacks(again) = SelectedPacks(in) /\ again.packs = SelectedPacks(in)
  BY SelectedAgain
<1>2. again.profile = in.profile
  BY DEF Resolved, Request
<1>3. ToSet(again.packs) \subseteq DOMAIN catalog.packs
  <2>1. SelectedPacks(in) \in Seq(DOMAIN catalog.packs)
    BY SelectionTyped DEF Known
  <2> QED BY <1>1, <2>1 DEF ToSet
<1> HIDE DEF again
<1>4. Selection(again) = Selection(in)
  BY <1>1, <1>2 DEF Selection
<1>5. Expected(again) = Expected(in)
  BY <1>2, <1>3, <1>4 DEF Expected, Known
<1>6. Beginning(again) = Beginning(in)
  BY <1>1, <1>2 DEF Beginning
<1> QED BY <1>5, <1>6 DEF again

\* A request in the other planner mode, or in the same.
LEMMA InMode ==
  ASSUME NEW P, NEW Q, NEW q \in [profile: P, packs: Q, essentials: BOOLEAN], NEW e \in BOOLEAN
  PROVE  [q EXCEPT !.essentials = e] = [profile |-> q.profile, packs |-> q.packs, essentials |-> e]
OBVIOUS

LEMMA ValidateStarts == PlanInv /\ Walking /\ Validating /\ Validate => Walking' /\ Validating'
<1> SUFFICES ASSUME PlanInv, Walking, Validating, Validate PROVE Walking' /\ Validating'
  OBVIOUS
<1>1. phase = "built" /\ subject = NoPlan /\ UNCHANGED <<catalog, roots, stack, order, result, verdict>>
      /\ phase' \in {"select", "done"}
  BY DEF Validate
<1>2. CASE result.error # "none"
  BY <1>1, <1>2 DEF Validate, Walking, Validating
<1>3. CASE result.error = "none"
  <2> DEFINE in == input
  <2>1. /\ subject' = result /\ phase' = "select"
        /\ input' = [profile |-> result.profile, packs |-> result.packs, essentials |-> FALSE]
    BY <1>3 DEF Validate
  <2>2. /\ result = [error |-> "none", id |-> [input EXCEPT !.packs = packs],
                     profile |-> input.profile, packs |-> packs, operations |-> Operations(order)]
        /\ Known(input) /\ packs = SelectedPacks(input)
    BY <1>1, <1>3, PlanReturned
  <2>3. result.id = Resolved(input) /\ result.profile = Resolved(input).profile
        /\ result.packs = Resolved(input).packs /\ input \in Request /\ CatalogOK(catalog)
    BY <2>2, NeededKnown DEF Resolved, PlanInv, Typed, Request
  <2>4. input' = [result.id EXCEPT !.essentials = FALSE]
    <3> DEFINE q == Resolved(input)
    <3>1. q \in Request
      BY <2>3, <2>2, SelectedAgain
    <3>2. input' = [profile |-> q.profile, packs |-> q.packs, essentials |-> FALSE] /\ result.id = q
      BY <2>1, <2>3
    <3> HIDE DEF q
    <3> QED BY <3>1, <3>2, InMode DEF Request
  <2>5. result = PlanOf(result.id, order)
    BY <2>2, <2>3 DEF PlanOf
  <2>6. /\ SelectedPacks(result.id) = result.id.packs /\ result.id \in Request
        /\ Expected(result.id) = Expected(input) /\ Beginning(result.id) = Beginning(input)
    BY <2>2, <2>3, SelectedAgain, ExpectedAgain
  <2>7. Expected(input) = "none"
    BY <1>1, <1>3, JustNow DEF BuildIsJust
  <2>8. Walked(result.id, <<<<>>, <<>>, order>>)
    BY <1>1, <1>3, <2>6 DEF Walking, Walked
  <2>9. PlanFromFile(result)
    BY <2>5, <2>6, <2>7, <2>8 DEF PlanFromFile
  <2>10. PICK s : s = result
    OBVIOUS
  <2>11. PlanFromFile(s)' <=> PlanFromFile(s)
    BY <1>1, SamePlanFromFile
  <2>12. PlanFromFile(subject)'
    BY <2>1, <2>9, <2>10, <2>11
  <2> QED BY <2>1, <2>4, <2>12 DEF Walking, Validating
<1> QED BY <1>2, <1>3

\* The request of a plan makes the plan again.
LEMMA PlanAgain ==
  ASSUME PlanInv, Walking, Validating, phase = "built", subject # NoPlan, input = subject.id
  PROVE  result = subject
<1>1. /\ SelectedPacks(input) = input.packs /\ Expected(input) = "none"
      /\ \E ids : Walked(input, <<<<>>, <<>>, ids>>) /\ subject = PlanOf(input, ids)
  BY DEF Validating, PlanFromFile
<1>2. PICK ids : Walked(input, <<<<>>, <<>>, ids>>) /\ subject = PlanOf(input, ids)
  BY <1>1
<1>3. result.error = "none"
  BY <1>1, JustNow DEF BuildIsJust
<1>4. /\ result = [error |-> "none", id |-> [input EXCEPT !.packs = packs],
                   profile |-> input.profile, packs |-> packs, operations |-> Operations(order)]
      /\ packs = SelectedPacks(input)
  BY <1>3, PlanReturned
<1>5. <<<<>>, <<>>, ids>> = <<<<>>, <<>>, order>>
  <2>1. Leads(catalog.dependencies, Beginning(input), <<<<>>, <<>>, order>>)
    BY <1>3 DEF Walking, Walked
  <2>2. Leads(catalog.dependencies, Beginning(input), <<<<>>, <<>>, ids>>)
    BY <1>2 DEF Walked
  <2>3. Through(<<<<>>, <<>>, ids>>) /\ Through(<<<<>>, <<>>, order>>)
    BY DEF Through
  <2> QED BY <2>1, <2>2, <2>3, OneOutcome
<1>6. ids = order
  BY <1>5
<1>7. [input EXCEPT !.packs = packs] = input
  <2>1. input \in Request
    BY DEF PlanInv, Typed
  <2> QED BY <1>1, <1>4, <2>1 DEF Request
<1> QED BY <1>1, <1>2, <1>4, <1>6, <1>7 DEF PlanOf

LEMMA CompareAccepts == PlanInv /\ Walking /\ Validating /\ Compare => Walking' /\ Validating'
<1> SUFFICES ASSUME PlanInv, Walking, Validating, Compare PROVE Walking' /\ Validating'
  OBVIOUS
<1>1. /\ phase = "built" /\ subject # NoPlan /\ phase' \in {"select", "done"}
      /\ UNCHANGED <<catalog, packs, roots, stack, order, result, subject>>
  BY DEF Compare
<1>2. PlanFromFile(subject)'
  <2>1. PICK s : s = subject
    OBVIOUS
  <2>2. PlanFromFile(s)' <=> PlanFromFile(s)
    BY <1>1, SamePlanFromFile
  <2> QED BY <1>1, <2>1, <2>2 DEF Validating
<1>3. subject.id \in Request /\ (input = [subject.id EXCEPT !.essentials = FALSE] \/ input = subject.id)
  BY <1>1 DEF Validating, PlanFromFile
<1>4. input = subject.id => result = subject
  BY <1>1, PlanAgain
<1>5. CASE result # subject /\ ~input.essentials
  <2>1. subject.id.essentials = TRUE
    BY <1>3, <1>4, <1>5 DEF Request
  <2>2. phase' = "select" /\ input' = [input EXCEPT !.essentials = TRUE]
    BY <1>5 DEF Compare
  <2>3. input' = subject.id
    BY <1>3, <2>1, <2>2 DEF Request
  <2> QED BY <1>1, <1>2, <2>2, <2>3 DEF Walking, Validating
<1>6. CASE ~(result # subject /\ ~input.essentials)
  <2>1. result = subject
    BY <1>3, <1>4, <1>6 DEF Request
  <2>2. phase' = "done" /\ verdict' = "accepted"
    BY <1>6, <2>1 DEF Compare
  <2> QED BY <1>1, <1>2, <2>2 DEF Walking, Validating
<1> QED BY <1>5, <1>6

LEMMA NothingWalks == Walking /\ Validating /\ UNCHANGED vars => Walking' /\ Validating'
<1> SUFFICES ASSUME Walking, Validating, UNCHANGED vars PROVE Walking' /\ Validating'
  OBVIOUS
<1>1. UNCHANGED <<catalog, input, phase, packs, roots, stack, order, result, subject, verdict>>
  BY DEF vars
<1>2. Walking'
  BY <1>1, SameBeginning DEF Walking, Walked
<1>3. PlanFromFile(subject)' <=> PlanFromFile(subject)
  <2>1. PICK s : s = subject
    OBVIOUS
  <2>2. PlanFromFile(s)' <=> PlanFromFile(s)
    BY <1>1, SamePlanFromFile
  <2> QED BY <1>1, <2>1, <2>2
<1> QED BY <1>1, <1>2, <1>3 DEF Validating

LEMMA WalkingStep ==
  PlanInv /\ Walking /\ Validating /\ [Next]_vars => Walking' /\ Validating'
BY SelectWalks, VisitWalks, DescendWalks, ReturnWalks, AssembleWalks, ValidateStarts, CompareAccepts,
   NothingWalks DEF Next

LEMMA CanonicalNow == Validating => BuiltIsCanonical
BY DEF Validating, BuiltIsCanonical

\* For every catalog that Load accepts and every request, a plan that Build
\* returned is accepted when it is validated, in either planner mode
\* (planner.go:35-71): the walk is determined by the selection, and selecting
\* what was selected selects nothing new.
THEOREM CanonicalPlans == Spec => []BuiltIsCanonical
<1>1. Init => Walking /\ Validating
  BY DEF Init, Walking, Validating
<1> QED BY <1>1, WalkingStep, CanonicalNow, PlanInvariant, PTL DEF Spec

-----------------------------------------------------------------------------
(* Planning.tla: what catalog.Load gives to Build.                         *)

\* What a list of records has under an id.
LEMMA Listed ==
  ASSUME NEW S, NEW list \in Seq(S), NEW id \in C!Ids(list)
  PROVE  \E i \in 1..Len(list) : C!ById(list)[id] = list[i] /\ list[i].id = id
<1>1. \E i \in DOMAIN list : list[i].id = id
  BY DEF C!Ids
<1> DEFINE k == CHOOSE i \in DOMAIN list : list[i].id = id
<1>2. C!ById(list)[id] = list[k]
  BY DEF C!ById
<1>3. k \in DOMAIN list /\ list[k].id = id
  BY <1>1
<1>4. DOMAIN list = 1..Len(list)
  OBVIOUS
<1> HIDE DEF k
<1> QED BY <1>2, <1>3, <1>4

LEMMA IdsTyped ==
  ASSUME NEW S, NEW T, NEW list \in Seq(S), \A e \in S : e.id \in T
  PROVE  C!Ids(list) \subseteq T
BY DEF C!Ids

-----------------------------------------------------------------------------
(* Inheritance: no path upwards meets itself, or the inheritance is acyclic. *)

\* What a profile inherits from; one that does not exist, from nothing.
Parents(doc, id) ==
  IF id \in C!Ids(doc.profiles) THEN C!ById(doc.profiles)[id].extends ELSE <<>>

\* f says of each path whether validateProfileGraph returns no error from there.
Climbing(doc, f) ==
  f = [path \in Seq(STRING) |->
         \A parent \in ToSet(Parents(doc, Last(path))) :
           ~Contains(path, parent) /\ f[Append(path, parent)]]

\* A way up from a path that comes back to itself.
Ring(doc, path, q) ==
  /\ q \in Seq(STRING) /\ Len(path) < Len(q)
  /\ \A i \in 1..Len(path) : q[i] = path[i]
  /\ q[Len(path) + 1] \in ToSet(Parents(doc, Last(path)))
  /\ \A k \in (Len(path) + 1)..(Len(q) - 1) : q[k + 1] \in ToSet(Parents(doc, q[k]))
  /\ \E j \in 1..(Len(q) - 1) : q[j] = q[Len(q)]

LEMMA ParentsTyped ==
  ASSUME NEW doc, C!IsDocument(doc), NEW id
  PROVE  Parents(doc, id) \in Seq(STRING)
<1>1. CASE id \in C!Ids(doc.profiles)
  <2>1. doc.profiles \in Seq(C!Profile)
    BY DEF C!IsDocument
  <2>2. \E i \in 1..Len(doc.profiles) : C!ById(doc.profiles)[id] = doc.profiles[i]
    BY <1>1, <2>1, Listed
  <2>3. C!ById(doc.profiles)[id] \in C!Profile
    BY <2>1, <2>2
  <2> QED BY <1>1, <2>3 DEF Parents, C!Profile
<1>2. CASE id \notin C!Ids(doc.profiles)
  BY <1>2, EmptySeq DEF Parents
<1> QED BY <1>1, <1>2

\* The recursion of ascends has a solution, whatever inherits from what.
LEMMA ClimbingExists ==
  ASSUME NEW doc, C!IsDocument(doc)
  PROVE  \E f : Climbing(doc, f)
<1> DEFINE f == [path \in Seq(STRING) |-> ~\E q : Ring(doc, path, q)]
           up(path) == ToSet(Parents(doc, Last(path)))
<1>1. ASSUME NEW path \in Seq(STRING)
      PROVE  f[path] <=> \A parent \in up(path) : ~Contains(path, parent) /\ f[Append(path, parent)]
  <2> DEFINE L == Len(path)
  <2>1. L \in Nat /\ \A i \in 1..L : path[i] \in STRING
    OBVIOUS
  <2>2. ASSUME NEW parent \in up(path)
        PROVE  /\ parent \in STRING
               /\ Append(path, parent) \in Seq(STRING) /\ Len(Append(path, parent)) = L + 1
               /\ Append(path, parent)[L + 1] = parent /\ Last(Append(path, parent)) = parent
               /\ \A i \in 1..L : Append(path, parent)[i] = path[i]
    <3>1. parent \in STRING
      BY ParentsTyped DEF ToSet
    <3>2. /\ Append(path, parent) \in Seq(STRING) /\ Len(Append(path, parent)) = Len(path) + 1
          /\ Append(path, parent)[Len(path) + 1] = parent
          /\ \A i \in 1..Len(path) : Append(path, parent)[i] = path[i]
      <4> DEFINE S == STRING
      <4>1. path \in Seq(S) /\ parent \in S
        BY <3>1
      <4> HIDE DEF S
      <4>2. /\ Append(path, parent) \in Seq(S) /\ Len(Append(path, parent)) = Len(path) + 1
            /\ Append(path, parent)[Len(path) + 1] = parent
            /\ \A i \in 1..Len(path) : Append(path, parent)[i] = path[i]
        BY <4>1, Appended
      <4> QED BY <4>2 DEF S
    <3> QED BY <3>1, <3>2 DEF Last
  <2> HIDE DEF L
  <2>3. ASSUME NEW parent \in up(path), Contains(path, parent)
        PROVE  \E q : Ring(doc, path, q)
    <3> DEFINE q == Append(path, parent)
    <3>1. q \in Seq(STRING) /\ Len(q) = L + 1 /\ q[L + 1] = parent /\ \A i \in 1..L : q[i] = path[i]
      BY <2>2
    <3> HIDE DEF q
    <3>2. PICK j \in 1..L : path[j] = parent
      BY <2>3 DEF Contains, L
    <3>3. j \in 1..(Len(q) - 1) /\ q[j] = q[Len(q)]
      BY <2>1, <3>1, <3>2
    <3>4. Ring(doc, path, q)
      BY <2>1, <3>1, <3>3 DEF Ring, L
    <3> QED BY <3>4
  <2>4. ASSUME NEW parent \in up(path), NEW q, Ring(doc, Append(path, parent), q)
        PROVE  Ring(doc, path, q)
    <3> DEFINE longer == Append(path, parent)
    <3>1. /\ Len(longer) = L + 1 /\ longer[L + 1] = parent /\ Last(longer) = parent
          /\ \A i \in 1..L : longer[i] = path[i]
      BY <2>2
    <3> HIDE DEF longer
    <3>2. Ring(doc, longer, q)
      BY <2>4 DEF longer
    <3>3. /\ q \in Seq(STRING) /\ L + 1 < Len(q) /\ q[L + 1] = parent
          /\ \A i \in 1..L : q[i] = path[i]
          /\ q[L + 1 + 1] \in ToSet(Parents(doc, parent))
          /\ \A k \in (L + 1 + 1)..(Len(q) - 1) : q[k + 1] \in ToSet(Parents(doc, q[k]))
          /\ \E j \in 1..(Len(q) - 1) : q[j] = q[Len(q)]
      BY <2>1, <3>1, <3>2 DEF Ring
    <3>4. ASSUME NEW k \in (L + 1)..(Len(q) - 1) PROVE q[k + 1] \in ToSet(Parents(doc, q[k]))
      <4>1. CASE k = L + 1
        BY <3>3, <4>1
      <4>2. CASE k # L + 1
        <5>1. k \in (L + 1 + 1)..(Len(q) - 1)
          BY <2>1, <3>3, <4>2
        <5> QED BY <3>3, <5>1
      <4> QED BY <4>1, <4>2
    <3> QED BY <2>1, <3>3, <3>4 DEF Ring, L
  <2>5. ASSUME NEW q, Ring(doc, path, q)
        PROVE  \E parent \in up(path) : Contains(path, parent) \/ Ring(doc, Append(path, parent), q)
    <3> DEFINE parent == q[L + 1]
               longer == Append(path, parent)
    <3>1. /\ q \in Seq(STRING) /\ L < Len(q) /\ parent \in up(path)
          /\ \A i \in 1..L : q[i] = path[i]
          /\ \A k \in (L + 1)..(Len(q) - 1) : q[k + 1] \in ToSet(Parents(doc, q[k]))
      BY <2>5 DEF Ring, L
    <3>2. PICK j \in 1..(Len(q) - 1) : q[j] = q[Len(q)]
      BY <2>5 DEF Ring
    <3>3. Len(q) \in Nat
      BY <3>1
    <3>4. CASE Len(q) = L + 1
      <4>1. j \in 1..L /\ path[j] = parent
        BY <2>1, <3>1, <3>2, <3>4
      <4>2. Contains(path, parent)
        BY <4>1 DEF Contains, L
      <4> HIDE DEF parent
      <4> QED BY <3>1, <4>2
    <3>5. CASE Len(q) # L + 1
      <4>1. /\ Len(longer) = L + 1 /\ longer[L + 1] = parent /\ Last(longer) = parent
            /\ \A i \in 1..L : longer[i] = path[i]
        BY <2>2, <3>1
      <4> HIDE DEF longer
      <4>2. L + 1 < Len(q) /\ L + 1 \in (L + 1)..(Len(q) - 1)
        BY <2>1, <3>1, <3>3, <3>5
      <4>3. \A i \in 1..(L + 1) : q[i] = longer[i]
        <5> TAKE i \in 1..(L + 1)
        <5>1. i \in 1..L \/ i = L + 1
          BY <2>1
        <5> QED BY <3>1, <4>1, <5>1
      <4>4. q[L + 1 + 1] \in ToSet(Parents(doc, parent))
        BY <3>1, <4>2
      <4>5. \A k \in (L + 1 + 1)..(Len(q) - 1) : q[k + 1] \in ToSet(Parents(doc, q[k]))
        <5> TAKE k \in (L + 1 + 1)..(Len(q) - 1)
        <5>1. k \in (L + 1)..(Len(q) - 1)
          BY <2>1, <3>3
        <5> QED BY <3>1, <5>1
      <4> HIDE DEF parent
      <4>6. Ring(doc, longer, q)
        BY <3>1, <3>2, <4>1, <4>2, <4>3, <4>4, <4>5 DEF Ring
      <4> QED BY <3>1, <4>6 DEF longer
    <3> QED BY <3>4, <3>5
  <2>6. f[path] <=> ~\E q : Ring(doc, path, q)
    OBVIOUS
  <2>7. \A parent \in up(path) : f[Append(path, parent)] <=> ~\E q : Ring(doc, Append(path, parent), q)
    BY <2>2
  <2> HIDE DEF f, up
  <2> QED BY <2>3, <2>4, <2>5, <2>6, <2>7
<1>2. \A path \in Seq(STRING) :
        f[path] = \A parent \in up(path) : ~Contains(path, parent) /\ f[Append(path, parent)]
  <2>1. \A path \in Seq(STRING) : f[path] \in BOOLEAN
    OBVIOUS
  <2> HIDE DEF f, up
  <2> QED BY <1>1, <2>1
<1>3. f = [path \in Seq(STRING) |-> f[path]]
  OBVIOUS
<1> HIDE DEF f
<1>4. Climbing(doc, f)
  BY <1>2, <1>3 DEF Climbing
<1> QED BY <1>4

LEMMA AcceptedInheritance ==
  ASSUME NEW doc, C!IsDocument(doc)
  PROVE  \E f : /\ Climbing(doc, f)
                /\ C!InheritanceAccepted(doc) <=> \A id \in C!Ids(doc.profiles) : f[<<id>>]
<1> DEFINE chosen == CHOOSE f : Climbing(doc, f)
<1>1. Climbing(doc, chosen)
  BY ClimbingExists
<1>2. chosen = CHOOSE f : f = [path \in Seq(STRING) |->
                        \A parent \in ToSet(Parents(doc, Last(path))) :
                          ~Contains(path, parent) /\ f[Append(path, parent)]]
  BY DEF Climbing
<1>3. C!InheritanceAccepted(doc) <=> \A id \in C!Ids(doc.profiles) : chosen[<<id>>]
  BY <1>2 DEF C!InheritanceAccepted, Parents, C!ToSet, ToSet, C!Last, Last, C!Contains, Contains
<1> QED BY <1>1, <1>3

\* There are at most n values in P.
Bounded(P, n) ==
  \A q : (\A k \in 1..(n + 1) : q[k] \in P) => \E i, j \in 1..(n + 1) : i < j /\ q[i] = q[j]

LEMMA IdsBounded ==
  ASSUME NEW S, NEW list \in Seq(S)
  PROVE  Bounded(C!Ids(list), Len(list))
<1> DEFINE n == Len(list)
<1>1. n \in Nat /\ DOMAIN list = 1..n
  OBVIOUS
<1> SUFFICES ASSUME NEW q, \A k \in 1..(n + 1) : q[k] \in C!Ids(list)
             PROVE  \E i, j \in 1..(n + 1) : i < j /\ q[i] = q[j]
  BY DEF Bounded
<1> HIDE DEF n
<1>2. \A k \in 1..(n + 1) : \E m \in 1..n : list[m].id = q[k]
  BY <1>1 DEF C!Ids
<1> DEFINE h == [k \in 1..(n + 1) |-> CHOOSE m \in 1..n : list[m].id = q[k]]
<1>3. \A k \in 1..(n + 1) : h[k] \in 1..n /\ list[h[k]].id = q[k]
  BY <1>2
<1>4. h \in [1..(n + 1) -> 1..n]
  <2>1. h = [k \in 1..(n + 1) |-> h[k]]
    OBVIOUS
  <2> HIDE DEF h
  <2> QED BY <1>3, <2>1
<1> HIDE DEF h
<1>5. /\ IsFiniteSet(1..(n + 1)) /\ IsFiniteSet(1..n)
      /\ Cardinality(1..n) < Cardinality(1..(n + 1))
  <2> DEFINE b == n + 1
  <2>1. b \in Nat /\ n < b
    BY <1>1
  <2> HIDE DEF b
  <2>2. IsFiniteSet(1..b) /\ IsFiniteSet(1..n) /\ Cardinality(1..n) = n /\ Cardinality(1..b) = b
    BY <1>1, <2>1, Counted
  <2>3. IsFiniteSet(1..b) /\ IsFiniteSet(1..n) /\ Cardinality(1..n) < Cardinality(1..b)
    BY <2>1, <2>2
  <2> QED BY <2>3 DEF b
<1>6. PICK x \in 1..(n + 1), y \in 1..(n + 1) : x # y /\ h[x] = h[y]
  BY <1>4, <1>5, FS_PigeonHole
<1>7. q[x] = q[y]
  BY <1>3, <1>6
<1>8. x < y \/ y < x
  BY <1>1, <1>6
<1> QED BY <1>7, <1>8

\* In an acyclic inheritance no way up comes back.
LEMMA NoWayBack ==
  ASSUME NEW ext, NEW P, Acyclic(ext, P), NEW q, NEW i \in Nat, NEW j \in Nat, i <= j,
         \A k \in i..j : q[k] \in P,
         \A k \in i..(j - 1) : q[k + 1] \in ToSet(ext[q[k]]),
         q[i] \in ToSet(ext[q[j]])
  PROVE  FALSE
<1> DEFINE some == {q[k] : k \in i..j}
<1>1. some \in SUBSET P /\ some # {}
  OBVIOUS
<1>2. ASSUME NEW p \in some PROVE ToSet(ext[p]) \cap some # {}
  <2>1. PICK k \in i..j : p = q[k]
    OBVIOUS
  <2>2. CASE k = j
    <3>1. q[i] \in some
      OBVIOUS
    <3> HIDE DEF some
    <3> QED BY <2>1, <2>2, <3>1
  <2>3. CASE k # j
    <3>1. k \in i..(j - 1) /\ k + 1 \in i..j
      BY <2>3
    <3>2. q[k + 1] \in some
      BY <3>1
    <3> HIDE DEF some
    <3> QED BY <2>1, <3>1, <3>2
  <2> QED BY <2>2, <2>3
<1> HIDE DEF some
<1> QED BY <1>1, <1>2 DEF Acyclic

\* What the recursion of validateProfileGraph says of f, for paths that are not empty.
Climbs(S, ext, f) ==
  \A path \in Seq(S) : path # <<>> =>
    (f[path] <=> \A parent \in ToSet(ext[Last(path)]) :
                   ~Contains(path, parent) /\ f[Append(path, parent)])

LEMMA ClimbsNoCycle ==
  ASSUME NEW S, NEW ext \in [S -> Seq(S)], NEW f, Climbs(S, ext, f),
         NEW P \in SUBSET S, NEW n \in Nat, Bounded(P, n), \A p \in P : f[<<p>>]
  PROVE  Acyclic(ext, P)
<1> SUFFICES ASSUME NEW some \in SUBSET P, some # {}, \A p \in some : ToSet(ext[p]) \cap some # {}
             PROVE  FALSE
  BY DEF Acyclic
\* A path of different profiles that inherit from each other, as long as one likes.
<1> DEFINE Long(q, k) ==
             /\ q \in Seq(S) /\ Len(q) = k /\ f[q]
             /\ \A i \in 1..k : q[i] \in some
             /\ \A i, j \in 1..k : q[i] = q[j] => i = j
           good == {k \in 1..(n + 1) : \E q : Long(q, k)}
<1>1. 1 \in good
  <2>1. PICK p \in some : TRUE
    OBVIOUS
  <2> DEFINE q == <<p>>
  <2>2. p \in P /\ p \in S
    OBVIOUS
  <2>3. q \in Seq(S) /\ Len(q) = 1 /\ f[q] /\ q[1] = p
    BY <2>2
  <2> HIDE DEF q
  <2>4. Long(q, 1)
    BY <2>3
  <2>5. 1 \in 1..(n + 1)
    OBVIOUS
  <2> HIDE DEF Long
  <2> QED BY <2>4, <2>5
<1>2. ASSUME NEW k \in 1..(n + 1 - 1), k \in good PROVE k + 1 \in good
  <2>1. PICK q : Long(q, k)
    BY <1>2
  <2>2. k \in Nat /\ k # 0 /\ k + 1 \in 1..(n + 1) /\ q # <<>> /\ Last(q) = q[k]
    BY <2>1 DEF Last
  <2>3. PICK parent : parent \in ToSet(ext[q[k]]) /\ parent \in some
    <3>1. k \in 1..k
      BY <2>2
    <3>2. q[k] \in some
      BY <2>1, <3>1
    <3> QED BY <3>2
  <2>4. ~Contains(q, parent) /\ f[Append(q, parent)]
    BY <2>1, <2>2, <2>3 DEF Climbs
  <2> DEFINE r == Append(q, parent)
  <2>5. /\ r \in Seq(S) /\ Len(r) = k + 1 /\ r[k + 1] = parent /\ \A i \in 1..k : r[i] = q[i]
    <3>1. parent \in S
      <4> HIDE DEF good, Long
      <4> QED BY <2>3
    <3> QED BY <2>1, <3>1, Appended
  <2>6. \A i \in 1..k : q[i] # parent
    BY <2>1, <2>4 DEF Contains
  <2> HIDE DEF r
  <2>7. \A i \in 1..(k + 1) : i \in 1..k \/ i = k + 1
    BY <2>2
  <2>8. \A i \in 1..(k + 1) : r[i] \in some
    BY <2>1, <2>3, <2>5, <2>7
  <2>9. ASSUME NEW i \in 1..(k + 1), NEW j \in 1..(k + 1), r[i] = r[j] PROVE i = j
    <3>1. CASE i = k + 1 /\ j = k + 1
      BY <3>1
    <3>2. CASE i = k + 1 /\ j \in 1..k
      BY <2>5, <2>6, <2>9, <3>2
    <3>3. CASE i \in 1..k /\ j = k + 1
      BY <2>5, <2>6, <2>9, <3>3
    <3>4. CASE i \in 1..k /\ j \in 1..k
      <4>1. q[i] = q[j]
        BY <2>5, <2>9, <3>4
      <4> QED BY <2>1, <3>4, <4>1
    <3> QED BY <2>7, <3>1, <3>2, <3>3, <3>4
  <2>10. Long(r, k + 1)
    BY <2>4, <2>5, <2>8, <2>9 DEF r
  <2> QED BY <2>2, <2>10
<1>3. n + 1 \in good
  <2> DEFINE m == n + 1
  <2>1. m \in Nat \ {0} /\ \A k \in 1..(m - 1) : k \in good => k + 1 \in good
    BY <1>2
  <2> HIDE DEF m, good
  <2>2. m \in good
    BY <1>1, <2>1, CountUp
  <2> QED BY <2>2 DEF m
<1>4. PICK q : Long(q, n + 1)
  BY <1>3
<1>5. \A k \in 1..(n + 1) : q[k] \in P
  BY <1>4
<1>6. PICK i \in 1..(n + 1), j \in 1..(n + 1) : i < j /\ q[i] = q[j]
  BY <1>5 DEF Bounded
<1> QED BY <1>4, <1>6

LEMMA NoCycleClimbs ==
  ASSUME NEW S, NEW ext \in [S -> Seq(S)], NEW f, Climbs(S, ext, f),
         NEW P \in SUBSET S, NEW n \in Nat, Bounded(P, n),
         Acyclic(ext, P), \A p \in P : ToSet(ext[p]) \subseteq P, NEW p \in P
  PROVE  f[<<p>>]
<1> SUFFICES ASSUME ~f[<<p>>] PROVE FALSE
  OBVIOUS
\* A way up on which f is false, as long as one likes.
<1> DEFINE Long(q, k) ==
             /\ q \in Seq(S) /\ Len(q) = k /\ ~f[q]
             /\ \A i \in 1..k : q[i] \in P
             /\ \A i \in 1..(k - 1) : q[i + 1] \in ToSet(ext[q[i]])
           good == {k \in 1..(n + 1) : \E q : Long(q, k)}
<1>1. 1 \in good
  <2> DEFINE q == <<p>>
  <2>1. q \in Seq(S) /\ Len(q) = 1 /\ ~f[q] /\ q[1] = p
    OBVIOUS
  <2> HIDE DEF q
  <2>2. Long(q, 1)
    BY <2>1
  <2> QED BY <2>2
<1>2. ASSUME NEW k \in 1..(n + 1 - 1), k \in good PROVE k + 1 \in good
  <2>1. PICK q : Long(q, k)
    BY <1>2
  <2>2. k \in Nat /\ k # 0 /\ k + 1 \in 1..(n + 1) /\ q # <<>> /\ Last(q) = q[k] /\ q[k] \in P
    BY <2>1 DEF Last
  <2>3. PICK parent : parent \in ToSet(ext[q[k]]) /\ (Contains(q, parent) \/ ~f[Append(q, parent)])
    BY <2>1, <2>2 DEF Climbs
  <2>4. parent \in P /\ parent \in S
    BY <2>2, <2>3
  <2>5. ~Contains(q, parent)
    <3> SUFFICES ASSUME Contains(q, parent) PROVE FALSE
      OBVIOUS
    <3>1. PICK i \in 1..k : q[i] = parent
      BY <2>1 DEF Contains
    <3>2. /\ i \in Nat /\ i <= k
          /\ \A m \in i..k : m \in 1..k
          /\ \A m \in i..(k - 1) : m \in 1..(k - 1)
      BY <2>2, <3>1
    <3>3. /\ \A m \in i..k : q[m] \in P
          /\ \A m \in i..(k - 1) : q[m + 1] \in ToSet(ext[q[m]])
          /\ q[i] \in ToSet(ext[q[k]])
      BY <2>1, <2>3, <3>1, <3>2
    <3> QED BY <2>2, <3>2, <3>3, NoWayBack
  <2> DEFINE r == Append(q, parent)
  <2>6. /\ r \in Seq(S) /\ Len(r) = k + 1 /\ r[k + 1] = parent /\ \A i \in 1..k : r[i] = q[i]
    BY <2>1, <2>4, Appended
  <2>7. ~f[r]
    BY <2>3, <2>5
  <2> HIDE DEF r
  <2>8. \A i \in 1..(k + 1) : i \in 1..k \/ i = k + 1
    BY <2>2
  <2>9. \A i \in 1..(k + 1) : r[i] \in P
    BY <2>1, <2>4, <2>6, <2>8
  <2>10. ASSUME NEW i \in 1..(k + 1 - 1) PROVE r[i + 1] \in ToSet(ext[r[i]])
    <3>1. i \in 1..k
      BY <2>2
    <3>2. CASE i = k
      BY <2>3, <2>6, <3>1, <3>2
    <3>3. CASE i # k
      <4>1. i \in 1..(k - 1) /\ i + 1 \in 1..k
        BY <3>1, <3>3
      <4> QED BY <2>1, <2>6, <3>1, <4>1
    <3> QED BY <3>2, <3>3
  <2>11. Long(r, k + 1)
    BY <2>6, <2>7, <2>9, <2>10
  <2> QED BY <2>2, <2>11
<1>3. n + 1 \in good
  <2> DEFINE m == n + 1
  <2>1. m \in Nat \ {0} /\ \A k \in 1..(m - 1) : k \in good => k + 1 \in good
    BY <1>2
  <2> HIDE DEF m, good
  <2>2. m \in good
    BY <1>1, <2>1, CountUp
  <2> QED BY <2>2 DEF m
<1>4. PICK q : Long(q, n + 1)
  BY <1>3
<1>5. \A k \in 1..(n + 1) : q[k] \in P
  BY <1>4
<1>6. PICK i \in 1..(n + 1), j \in 1..(n + 1) : i < j /\ q[i] = q[j]
  BY <1>5 DEF Bounded
<1> DEFINE l == j - 1
<1>7. /\ i \in Nat /\ l \in Nat /\ i <= l /\ l + 1 = j /\ l \in 1..(n + 1 - 1)
      /\ \A m \in i..l : m \in 1..(n + 1)
      /\ \A m \in i..(l - 1) : m \in 1..(n + 1 - 1)
  BY <1>6
<1> HIDE DEF l
<1>8. /\ \A m \in i..l : q[m] \in P
      /\ \A m \in i..(l - 1) : q[m + 1] \in ToSet(ext[q[m]])
      /\ q[i] \in ToSet(ext[q[l]])
  <2>1. (\A m \in 1..(n + 1) : q[m] \in P) /\ \A m \in 1..(n + 1 - 1) : q[m + 1] \in ToSet(ext[q[m]])
    BY <1>4
  <2> HIDE DEF Long, good
  <2>2. \A m \in i..l : q[m] \in P
    BY <1>7, <2>1
  <2>3. \A m \in i..(l - 1) : q[m + 1] \in ToSet(ext[q[m]])
    BY <1>7, <2>1
  <2>4. q[j] \in ToSet(ext[q[l]])
    BY <1>7, <2>1
  <2> QED BY <1>6, <2>2, <2>3, <2>4
<1> QED BY <1>7, <1>8, NoWayBack

Inheriting(doc) == [id \in STRING |-> Parents(doc, id)]

LEMMA ClimbingClimbs ==
  ASSUME NEW doc, C!IsDocument(doc), NEW f, Climbing(doc, f)
  PROVE  Inheriting(doc) \in [STRING -> Seq(STRING)] /\ Climbs(STRING, Inheriting(doc), f)
<1> DEFINE S == STRING
           ext == [id \in S |-> Parents(doc, id)]
<1>1. \A id \in S : Parents(doc, id) \in Seq(S)
  BY ParentsTyped
<1>2. \A path \in Seq(S) : f[path] = \A parent \in ToSet(Parents(doc, Last(path))) :
                                       ~Contains(path, parent) /\ f[Append(path, parent)]
  BY DEF Climbing
<1> HIDE DEF S
<1>3. ext \in [S -> Seq(S)]
  BY <1>1
<1>4. \A path \in Seq(S) : path # <<>> => ext[Last(path)] = Parents(doc, Last(path))
  <2> SUFFICES ASSUME NEW path \in Seq(S), path # <<>> PROVE Last(path) \in S
    OBVIOUS
  <2> QED BY FrontProperties
<1>5. Climbs(S, ext, f)
  <2> HIDE DEF ext
  <2> QED BY <1>2, <1>4 DEF Climbs
<1> QED BY <1>3, <1>5 DEF S, Inheriting

\* Load accepts an inheritance exactly when it has no cycle.
LEMMA InheritanceIsAcyclic ==
  ASSUME NEW doc, C!IsDocument(doc)
  PROVE  /\ C!InheritanceAccepted(doc) => Acyclic(Inheriting(doc), C!Ids(doc.profiles))
         /\ /\ Acyclic(Inheriting(doc), C!Ids(doc.profiles))
            /\ \A id \in C!Ids(doc.profiles) : ToSet(Inheriting(doc)[id]) \subseteq C!Ids(doc.profiles)
            => C!InheritanceAccepted(doc)
<1> DEFINE P == C!Ids(doc.profiles)
           S == STRING
           ext == Inheriting(doc)
<1>1. doc.profiles \in Seq(C!Profile)
  BY DEF C!IsDocument
<1>2. Len(doc.profiles) \in Nat /\ Bounded(P, Len(doc.profiles))
  BY <1>1, IdsBounded
<1>3. P \subseteq S
  <2>1. \A e \in C!Profile : e.id \in STRING
    BY DEF C!Profile
  <2> QED BY <1>1, <2>1, IdsTyped
<1>4. PICK f : Climbing(doc, f) /\ (C!InheritanceAccepted(doc) <=> \A id \in P : f[<<id>>])
  BY AcceptedInheritance
<1>5. ext \in [S -> Seq(S)] /\ Climbs(S, ext, f)
  BY <1>4, ClimbingClimbs
<1> HIDE DEF P, S, ext
<1>6. (\A id \in P : f[<<id>>]) => Acyclic(ext, P)
  BY <1>2, <1>3, <1>5, ClimbsNoCycle
<1>7. Acyclic(ext, P) /\ (\A p \in P : ToSet(ext[p]) \subseteq P) => \A id \in P : f[<<id>>]
  BY <1>2, <1>3, <1>5, NoCycleClimbs
<1> QED BY <1>4, <1>6, <1>7 DEF P, ext

-----------------------------------------------------------------------------
(* What Load accepts, Build can work with.                                 *)

LEMMA SameSets ==
  ASSUME NEW s
  PROVE  C!ToSet(s) = ToSet(s)
BY DEF C!ToSet, ToSet

LEMMA PackageOf ==
  ASSUME NEW doc, C!IsDocument(doc), NEW p \in C!Ids(doc.packages)
  PROVE  /\ \E i \in 1..Len(doc.packages) :
              C!ById(doc.packages)[p] = doc.packages[i] /\ doc.packages[i].id = p
         /\ C!IsPackage(C!ById(doc.packages)[p])
         /\ C!ById(doc.packages)[p].id = p
<1> DEFINE T == C!ToSet(doc.packages)
<1>1. doc.packages \in Seq(T) /\ \A pkg \in T : C!IsPackage(pkg)
  BY DEF C!IsDocument
<1> HIDE DEF T
<1>2. PICK i \in 1..Len(doc.packages) :
        C!ById(doc.packages)[p] = doc.packages[i] /\ doc.packages[i].id = p
  BY <1>1, Listed
<1>3. doc.packages[i] \in T
  BY <1>1
<1> QED BY <1>1, <1>2, <1>3

LEMMA PackageFields ==
  ASSUME NEW pkg, C!IsPackage(pkg)
  PROVE  /\ pkg.dependencies \in Seq(STRING) /\ pkg.conflicts \in Seq(STRING)
         /\ pkg.intents \in Seq(STRING) /\ pkg.id \in STRING
         /\ pkg.providers \in [DOMAIN pkg.providers -> Seq(C!Provision)]
BY DEF C!IsPackage

LEMMA ReferencesKnown ==
  ASSUME NEW doc, C!IsDocument(doc), C!ReferencesAccepted(doc), NEW p \in C!Ids(doc.packages)
  PROVE  LET pkg == C!ById(doc.packages)
         IN  /\ pkg[p].dependencies \in Seq(C!Ids(doc.packages))
             /\ ToSet(pkg[p].conflicts) \subseteq C!Ids(doc.packages)
             /\ \A q \in ToSet(pkg[p].conflicts) : p \in ToSet(pkg[q].conflicts)
<1> DEFINE known == C!Ids(doc.packages)
           pkg == C!ById(doc.packages)[p]
<1>1. PICK i \in 1..Len(doc.packages) : pkg = doc.packages[i] /\ doc.packages[i].id = p
  BY PackageOf
<1>2. i \in DOMAIN doc.packages
  <2>1. doc.packages \in Seq(C!ToSet(doc.packages))
    BY DEF C!IsDocument
  <2> QED BY <2>1
<1>3. /\ ToSet(pkg.dependencies \o pkg.conflicts) \subseteq known
      /\ \A c \in ToSet(pkg.conflicts) : C!Contains(C!ById(doc.packages)[c].conflicts, p)
  BY <1>1, <1>2 DEF C!ReferencesAccepted, C!ToSet, ToSet
<1>4. pkg.dependencies \in Seq(STRING) /\ pkg.conflicts \in Seq(STRING)
  BY PackageOf, PackageFields
<1> HIDE DEF known, pkg
<1>5. ToSet(pkg.dependencies) \subseteq known /\ ToSet(pkg.conflicts) \subseteq known
  <2> DEFINE S == STRING
             s == pkg.dependencies
             c == pkg.conflicts
             both == s \o c
  <2>1. s \in Seq(S) /\ c \in Seq(S) /\ both = s \o c /\ ToSet(both) \subseteq known
    BY <1>3, <1>4
  <2> HIDE DEF S, s, c, both
  <2>2. ToSet(s) \subseteq known /\ ToSet(c) \subseteq known
    BY <2>1, ConcatWithin
  <2> QED BY <2>2 DEF s, c
<1>6. pkg.dependencies \in Seq(known)
  BY <1>4, <1>5, Within
<1>7. ASSUME NEW q \in ToSet(pkg.conflicts) PROVE p \in ToSet(C!ById(doc.packages)[q].conflicts)
  <2> DEFINE c == C!ById(doc.packages)[q].conflicts
  <2>1. c \in Seq(STRING)
    BY <1>5, PackageOf, PackageFields DEF known
  <2>2. C!Contains(c, p)
    BY <1>3
  <2> HIDE DEF c
  <2>3. \E m \in 1..Len(c) : c[m] = p
    BY <2>2 DEF C!Contains
  <2>4. p \in ToSet(c)
    BY <2>1, <2>3, SeqMembers
  <2> QED BY <2>4 DEF c
<1> QED BY <1>5, <1>6, <1>7 DEF pkg, known

\* What SelectProvider returns.
LEMMA ProviderSelected ==
  ASSUME NEW pkg, C!IsPackage(pkg), NEW t,
         C!SelectProvider(pkg, t) # NoProvider
  PROVE  /\ t.platform \in DOMAIN pkg.providers
         /\ \E k \in 1..Len(pkg.providers[t.platform]) :
              /\ C!SelectProvider(pkg, t) = pkg.providers[t.platform][k]
              /\ pkg.providers[t.platform][k] \in C!Provision
              /\ \/ pkg.providers[t.platform][k].architectures = {}
                 \/ t.architecture \in pkg.providers[t.platform][k].architectures
<1>1. t.platform \in DOMAIN pkg.providers
  BY DEF C!SelectProvider
<1> DEFINE providers == pkg.providers[t.platform]
           fitting == {k \in DOMAIN providers :
                         \/ providers[k].architectures = {}
                         \/ t.architecture \in providers[k].architectures}
<1>2. fitting # {} /\ C!SelectProvider(pkg, t) = providers[C!Min(fitting)]
  BY <1>1 DEF C!SelectProvider
<1>3. C!Min(fitting) = Min(fitting)
  BY DEF C!Min, Min
<1>4. providers \in Seq(C!Provision)
  BY <1>1, PackageFields
<1>5. Len(providers) \in Nat /\ fitting \in SUBSET (1..Len(providers))
  <2> HIDE DEF providers
  <2> QED BY <1>4
<1>6. Min(fitting) \in fitting
  <2> HIDE DEF fitting, providers
  <2> QED BY <1>2, <1>5, FirstPosition
<1> DEFINE k == Min(fitting)
<1>7. /\ k \in 1..Len(providers)
      /\ providers[k].architectures = {} \/ t.architecture \in providers[k].architectures
  BY <1>5, <1>6
<1>8. C!SelectProvider(pkg, t) = providers[k]
  BY <1>2, <1>3
<1> HIDE DEF k, fitting, providers
<1>9. providers[k] \in C!Provision
  BY <1>4, <1>7
<1> QED BY <1>1, <1>7, <1>8, <1>9 DEF providers

LEMMA PackOf ==
  ASSUME NEW doc, C!IsDocument(doc), NEW id \in C!Ids(doc.packs)
  PROVE  /\ \E i \in 1..Len(doc.packs) : C!ById(doc.packs)[id] = doc.packs[i] /\ i \in DOMAIN doc.packs
         /\ C!ById(doc.packs)[id].packages \in Seq(STRING)
         /\ id \in STRING
<1>1. doc.packs \in Seq(C!Pack)
  BY DEF C!IsDocument
<1>2. PICK i \in 1..Len(doc.packs) : C!ById(doc.packs)[id] = doc.packs[i] /\ doc.packs[i].id = id
  BY <1>1, Listed
<1>3. doc.packs[i] \in C!Pack /\ i \in DOMAIN doc.packs
  BY <1>1
<1>4. doc.packs[i].packages \in Seq(STRING) /\ doc.packs[i].id \in STRING
  BY <1>3 DEF C!Pack
<1> QED BY <1>2, <1>3, <1>4

LEMMA ProfileOf ==
  ASSUME NEW doc, C!IsDocument(doc), NEW id \in C!Ids(doc.profiles)
  PROVE  /\ \E i \in 1..Len(doc.profiles) :
              C!ById(doc.profiles)[id] = doc.profiles[i] /\ i \in DOMAIN doc.profiles
         /\ C!ById(doc.profiles)[id] \in C!Profile
         /\ id \in STRING
<1>1. doc.profiles \in Seq(C!Profile)
  BY DEF C!IsDocument
<1>2. PICK i \in 1..Len(doc.profiles) :
        C!ById(doc.profiles)[id] = doc.profiles[i] /\ doc.profiles[i].id = id
  BY <1>1, Listed
<1>3. doc.profiles[i] \in C!Profile /\ i \in DOMAIN doc.profiles
  BY <1>1
<1>4. doc.profiles[i].id \in STRING
  BY <1>3 DEF C!Profile
<1> QED BY <1>2, <1>3, <1>4

\* The fields of what planner.Build sees.
LEMMA PackagesFor ==
  ASSUME NEW doc, NEW t
  PROVE  /\ C!CatalogsFor(doc, t).dependencies =
              [p \in C!Ids(doc.packages) |-> C!ById(doc.packages)[p].dependencies]
         /\ C!CatalogsFor(doc, t).conflicts =
              [p \in C!Ids(doc.packages) |-> ToSet(C!ById(doc.packages)[p].conflicts)]
         /\ C!CatalogsFor(doc, t).intents =
              [p \in C!Ids(doc.packages) |-> C!ById(doc.packages)[p].intents]
         /\ C!CatalogsFor(doc, t).core = doc.core /\ C!CatalogsFor(doc, t).platform = t.platform
         /\ C!CatalogsFor(doc, t).packs =
              [id \in C!Ids(doc.packs) |-> C!ById(doc.packs)[id].packages]
<1>1. DOMAIN C!ById(doc.packages) = C!Ids(doc.packages)
  BY DEF C!ById
<1>2. \A s : C!ToSet(s) = ToSet(s)
  BY SameSets
<1> QED BY <1>1, <1>2 DEF C!CatalogsFor

\* What Build sees of the provider selected for a package.
Offered(chosen) ==
  IF chosen = NoProvider THEN NoProvider
  ELSE [manager |-> chosen.manager, privilege |-> chosen.privilege, remote |-> chosen.remote,
        prerequisites |-> chosen.prerequisites]

LEMMA ProvidersFor ==
  ASSUME NEW doc, NEW t
  PROVE  C!CatalogsFor(doc, t).provider =
           [p \in C!Ids(doc.packages) |-> Offered(C!SelectProvider(C!ById(doc.packages)[p], t))]
<1>1. DOMAIN C!ById(doc.packages) = C!Ids(doc.packages)
  BY DEF C!ById
<1> QED BY <1>1 DEF C!CatalogsFor, Offered

LEMMA ProfilesFor ==
  ASSUME NEW doc, NEW t
  PROVE  C!CatalogsFor(doc, t).profiles =
           [id \in C!Ids(doc.profiles) |->
              [extends |-> C!ById(doc.profiles)[id].extends,
               packages |-> C!ById(doc.profiles)[id].packages,
               recommended |-> C!ById(doc.profiles)[id].recommended]]
BY DEF C!CatalogsFor

LEMMA ProfileAcceptedFields ==
  ASSUME NEW doc, C!IsDocument(doc), NEW id \in C!Ids(doc.profiles),
         C!ProfileAccepted(doc, C!ById(doc.profiles)[id])
  PROVE  LET profile == C!ById(doc.profiles)[id]
         IN  /\ profile.extends \in Seq(C!Ids(doc.profiles))
             /\ profile.packages \in Seq(C!Ids(doc.packages))
             /\ profile.recommended \in Seq(C!Ids(doc.packs))
             /\ ToSet(profile.optional) \subseteq C!Ids(doc.packs)
<1> DEFINE profile == C!ById(doc.profiles)[id]
           S == STRING
           e == profile.extends
           k == profile.packages
           r == profile.recommended
           o == profile.optional
           both == r \o o
<1>1. profile \in C!Profile
  BY ProfileOf
<1>2. e \in Seq(S) /\ k \in Seq(S) /\ r \in Seq(S) /\ o \in Seq(S)
  BY <1>1 DEF C!Profile
<1>3. /\ ToSet(k) \subseteq C!Ids(doc.packages) /\ ToSet(e) \subseteq C!Ids(doc.profiles)
      /\ ToSet(both) \subseteq C!Ids(doc.packs) /\ both = r \o o
  BY DEF C!ProfileAccepted, C!ToSet, ToSet
<1> HIDE DEF S, e, k, r, o, both
<1>4. ToSet(r) \subseteq C!Ids(doc.packs) /\ ToSet(o) \subseteq C!Ids(doc.packs)
  BY <1>2, <1>3, ConcatWithin
<1>5. /\ e \in Seq(C!Ids(doc.profiles)) /\ k \in Seq(C!Ids(doc.packages))
      /\ r \in Seq(C!Ids(doc.packs))
  BY <1>2, <1>3, <1>4, Within
<1> QED BY <1>4, <1>5 DEF e, k, r, o

\* Accepted files make catalogs that Build can work with, whatever the target.
LEMMA AcceptedIsOK ==
  ASSUME NEW doc, C!IsDocument(doc), C!Accepted(doc), NEW t, t.platform \in STRING
  PROVE  CatalogOK(C!CatalogsFor(doc, t))
<1> DEFINE c == C!CatalogsFor(doc, t)
           known == C!Ids(doc.packages)
           pkg == C!ById(doc.packages)
           bundles == C!Ids(doc.packs)
           people == C!Ids(doc.profiles)
           profile == C!ById(doc.profiles)
<1>1. /\ C!ReferencesAccepted(doc) /\ C!InheritanceAccepted(doc)
      /\ ToSet(doc.core) \subseteq known
      /\ \A i \in DOMAIN doc.packs : ToSet(doc.packs[i].packages) \subseteq known
      /\ \A i \in DOMAIN doc.profiles : C!ProfileAccepted(doc, doc.profiles[i])
      /\ "" \notin known \cup bundles \cup people
  BY DEF C!Accepted, C!RecordsAccepted, C!Named, C!ToSet, ToSet
<1>2. /\ c.dependencies = [p \in known |-> pkg[p].dependencies]
      /\ c.conflicts = [p \in known |-> ToSet(pkg[p].conflicts)]
      /\ c.intents = [p \in known |-> pkg[p].intents]
      /\ c.core = doc.core /\ c.platform = t.platform
      /\ c.packs = [id \in bundles |-> C!ById(doc.packs)[id].packages]
  BY PackagesFor
<1>3. c.provider = [p \in known |-> Offered(C!SelectProvider(pkg[p], t))]
  BY ProvidersFor
<1>4. c.profiles = [id \in people |->
                     [extends |-> profile[id].extends, packages |-> profile[id].packages,
                      recommended |-> profile[id].recommended]]
  BY ProfilesFor
<1>5. \A p \in known : /\ pkg[p].dependencies \in Seq(known)
                        /\ ToSet(pkg[p].conflicts) \subseteq known
                        /\ \A q \in ToSet(pkg[p].conflicts) : p \in ToSet(pkg[q].conflicts)
  BY <1>1, ReferencesKnown
<1>6. \A p \in known : C!IsPackage(pkg[p]) /\ pkg[p].intents \in Seq(STRING)
  BY PackageOf, PackageFields
<1>7. doc.core \in Seq(known)
  <2>1. doc.core \in Seq(STRING)
    BY DEF C!IsDocument
  <2> QED BY <1>1, <2>1, Within
<1>8. \A id \in bundles : C!ById(doc.packs)[id].packages \in Seq(known) /\ id \in STRING
  <2> SUFFICES ASSUME NEW id \in bundles
               PROVE  C!ById(doc.packs)[id].packages \in Seq(known) /\ id \in STRING
    OBVIOUS
  <2> DEFINE of == C!ById(doc.packs)[id].packages
  <2>1. of \in Seq(STRING) /\ id \in STRING
    BY PackOf
  <2>2. ToSet(of) \subseteq known
    <3>1. PICK i \in DOMAIN doc.packs : C!ById(doc.packs)[id] = doc.packs[i]
      BY PackOf
    <3>2. ToSet(doc.packs[i].packages) \subseteq known
      BY <1>1
    <3> QED BY <3>1, <3>2
  <2> HIDE DEF of
  <2> QED BY <2>1, <2>2, Within DEF of
<1>9. \A id \in people : /\ profile[id].extends \in Seq(people)
                          /\ profile[id].packages \in Seq(known)
                          /\ profile[id].recommended \in Seq(bundles)
  <2> SUFFICES ASSUME NEW id \in people
               PROVE  /\ profile[id].extends \in Seq(people)
                      /\ profile[id].packages \in Seq(known)
                      /\ profile[id].recommended \in Seq(bundles)
    OBVIOUS
  <2>1. C!ProfileAccepted(doc, profile[id])
    BY <1>1, ProfileOf
  <2> QED BY <2>1, ProfileAcceptedFields
<1>10. ASSUME NEW p \in known, C!SelectProvider(pkg[p], t) # NoProvider
       PROVE  C!SelectProvider(pkg[p], t) \in C!Provision
  BY <1>6, <1>10, ProviderSelected
<1>11. \A id \in people : Inheriting(doc)[id] = profile[id].extends /\ id \in STRING
  BY ProfileOf DEF Inheriting, Parents
<1>12. Acyclic(Inheriting(doc), people)
  BY <1>1, InheritanceIsAcyclic
<1> HIDE DEF c, known, pkg, bundles, people, profile
<1>13. DOMAIN c.dependencies = known /\ DOMAIN c.packs = bundles /\ DOMAIN c.profiles = people
  BY <1>2, <1>4
<1>14. /\ c.dependencies \in [known -> Seq(known)]
       /\ c.intents \in [known -> Seq(STRING)]
       /\ c.packs \in [bundles -> Seq(known)] /\ bundles \subseteq STRING
  BY <1>2, <1>5, <1>6, <1>8
<1>15. /\ c.conflicts \in [known -> SUBSET known]
       /\ \A p, q \in known : q \in c.conflicts[p] => p \in c.conflicts[q]
  BY <1>2, <1>5
<1>16. c.provider \in [known -> Provider \cup {NoProvider}]
  <2>1. ASSUME NEW p \in known PROVE c.provider[p] \in Provider \cup {NoProvider}
    <3>1. CASE C!SelectProvider(pkg[p], t) = NoProvider
      BY <1>3, <3>1 DEF Offered
    <3>2. CASE C!SelectProvider(pkg[p], t) # NoProvider
      <4> DEFINE chosen == C!SelectProvider(pkg[p], t)
      <4>1. chosen \in C!Provision
        BY <1>10, <3>2
      <4>2. c.provider[p] = [manager |-> chosen.manager, privilege |-> chosen.privilege,
                             remote |-> chosen.remote, prerequisites |-> chosen.prerequisites]
        BY <1>3, <3>2 DEF Offered
      <4> HIDE DEF chosen
      <4> QED BY <4>1, <4>2 DEF C!Provision, Provider
    <3> QED BY <3>1, <3>2
  <2>2. DOMAIN c.provider = known /\ c.provider = [p \in known |-> c.provider[p]]
    BY <1>3
  <2> QED BY <2>1, <2>2
<1>17. c.core \in Seq(known)
  BY <1>2, <1>7
<1>18. \A id \in people : c.profiles[id] \in [extends: Seq(people), packages: Seq(known),
                                             recommended: Seq(bundles)]
  BY <1>4, <1>9
<1>19. \A some \in SUBSET people :
         some # {} => \E id \in some : ToSet(c.profiles[id].extends) \cap some = {}
  <2> SUFFICES ASSUME NEW some \in SUBSET people, some # {}
               PROVE  \E id \in some : ToSet(c.profiles[id].extends) \cap some = {}
    OBVIOUS
  <2>1. PICK id \in some : ToSet(Inheriting(doc)[id]) \cap some = {}
    BY <1>12 DEF Acyclic
  <2>2. c.profiles[id].extends = Inheriting(doc)[id]
    BY <1>4, <1>11
  <2> QED BY <2>1, <2>2
<1>20. CatalogOK(c)
  BY <1>1, <1>2, <1>13, <1>14, <1>15, <1>16, <1>17, <1>18, <1>19 DEF CatalogOK
<1> QED BY <1>20 DEF c

-----------------------------------------------------------------------------
(* Load and Build together.                                                *)

\* Records that are accepted one by one are refused together for a cycle.
LEMMA RefusedForACycle ==
  ASSUME NEW doc, C!IsDocument(doc), C!RecordsAccepted(doc), ~C!Accepted(doc)
  PROVE  \E some \in (SUBSET C!Ids(doc.profiles)) \ {{}} : \A profile \in some :
           ToSet(C!ById(doc.profiles)[profile].extends) \cap some # {}
<1> DEFINE people == C!Ids(doc.profiles)
<1>1. ASSUME NEW id \in people
      PROVE  /\ Inheriting(doc)[id] = C!ById(doc.profiles)[id].extends
             /\ ToSet(Inheriting(doc)[id]) \subseteq people
  <2>1. Inheriting(doc)[id] = C!ById(doc.profiles)[id].extends
    BY ProfileOf DEF Inheriting, Parents
  <2>2. C!ProfileAccepted(doc, C!ById(doc.profiles)[id])
    BY ProfileOf DEF C!RecordsAccepted
  <2>3. C!ById(doc.profiles)[id].extends \in Seq(people)
    BY <2>2, ProfileAcceptedFields
  <2> HIDE DEF people
  <2>4. ToSet(C!ById(doc.profiles)[id].extends) \subseteq people
    BY <2>3, SeqMembers
  <2> QED BY <2>1, <2>4
<1>2. ~C!InheritanceAccepted(doc)
  BY DEF C!Accepted
<1>3. ~Acyclic(Inheriting(doc), people)
  BY <1>1, <1>2, InheritanceIsAcyclic
<1> HIDE DEF people
<1>4. PICK some \in SUBSET people : some # {} /\ ~\E p \in some : ToSet(Inheriting(doc)[p]) \cap some = {}
  BY <1>3 DEF Acyclic
<1>5. \A p \in some : ToSet(C!ById(doc.profiles)[p].extends) \cap some # {}
  BY <1>1, <1>4
<1> QED BY <1>4, <1>5 DEF people

\* Before the plan: nothing is built.  After Load: a catalog Build can work with.
Loading ==
  /\ document \in Documents /\ target \in Targets /\ input \in Request
  /\ loaded \in {"no", "accepted", "rejected"}
  /\ loaded # "no" => (loaded = "accepted" <=> C!Accepted(document))
  /\ loaded # "accepted" =>
       /\ phase \in {"load", "done"} /\ order = <<>> /\ subject = NoPlan
       /\ packs = <<>> /\ roots = <<>> /\ stack = <<>> /\ result = NoPlan /\ verdict = "none"
  /\ loaded = "accepted" =>
       catalog = C!CatalogsFor(document, target) /\ PlanInv /\ Walking /\ Validating

\* Where Build begins.
Begun ==
  /\ CatalogOK(catalog) /\ input \in Request /\ phase = "select"
  /\ packs = <<>> /\ roots = <<>> /\ stack = <<>> /\ order = <<>>
  /\ subject = NoPlan /\ verdict = "none"

LEMMA BegunPlans == Begun => PlanInv /\ Walking /\ Validating
<1> SUFFICES ASSUME Begun PROVE PlanInv /\ Walking /\ Validating
  OBVIOUS
<1>1. catalog.dependencies \in [Packages -> Seq(Packages)]
  BY DEF Begun, CatalogOK, Packages
<1>2. <<>> \in Seq(DOMAIN catalog.packs) /\ <<>> \in Seq(Packages) /\ <<>> \in Seq(Frame(Packages))
  BY EmptySeq
<1>3. WalkInv
  BY <1>1, <1>2 DEF Begun, WalkInv, Stacked, Ordered
<1> QED BY <1>2, <1>3 DEF Begun, PlanInv, Typed, Walking, Validating

LEMMA LoadingStep == Loading /\ [PlanningNext]_<<vars, files>> => Loading'
<1> SUFFICES ASSUME Loading, [PlanningNext]_<<vars, files>> PROVE Loading'
  OBVIOUS
<1>1. CASE Load /\ C!Accepted(document)
  <2>1. /\ loaded = "no" /\ loaded' = "accepted" /\ phase' = "select"
        /\ catalog' = C!CatalogsFor(document, target)
        /\ UNCHANGED <<document, target, input, packs, roots, stack, order, result, subject, verdict>>
    BY <1>1 DEF Load
  <2>2. /\ packs = <<>> /\ roots = <<>> /\ stack = <<>> /\ order = <<>>
        /\ subject = NoPlan /\ verdict = "none" /\ input \in Request
    BY <2>1 DEF Loading
  <2>3. CatalogOK(catalog')
    BY <1>1, <2>1, DocumentsAssumption, TargetsAssumption, AcceptedIsOK DEF Loading
  <2>4. Begun'
    BY <2>1, <2>2, <2>3 DEF Begun
  <2>5. PlanInv' /\ Walking' /\ Validating'
    BY <2>4, BegunPlans, PTL
  <2> QED BY <1>1, <2>1, <2>2, <2>5 DEF Loading
<1>2. CASE Load /\ ~C!Accepted(document)
  BY <1>2 DEF Load, Loading
<1>3. CASE Plan
  <2>1. /\ loaded = "accepted" /\ Next /\ UNCHANGED <<document, target, loaded>>
        /\ PlanInv /\ Walking /\ Validating
    BY <1>3 DEF Plan, files, Loading
  <2>2. PlanInv' /\ Walking' /\ Validating'
    BY <2>1, PlanStep, WalkingStep
  <2>3. catalog' = catalog
    BY <2>1 DEF Next, Select, Visit, Descend, Return, Assemble, Validate, Compare
  <2>4. input' \in Request
    BY <2>2 DEF PlanInv, Typed
  <2> QED BY <2>1, <2>2, <2>3, <2>4 DEF Loading
<1>4. CASE UNCHANGED <<vars, files>>
  <2>1. UNCHANGED vars /\ UNCHANGED <<document, target, loaded>>
    BY <1>4 DEF files
  <2>2. UNCHANGED <<catalog, input, phase, packs, roots, stack, order, result, subject, verdict>>
    BY <2>1 DEF vars
  <2>3. loaded = "accepted" => PlanInv' /\ Walking' /\ Validating'
    BY <2>1, PlanStep, WalkingStep DEF Loading
  <2> QED BY <2>1, <2>2, <2>3 DEF Loading
<1> QED BY <1>1, <1>2, <1>3, <1>4 DEF PlanningNext

LEMMA LoadingInvariant == PlanningSpec => []Loading
<1>1. LoadInit => Loading
  BY CatalogsAssumption DEF LoadInit, Loading
<1> QED BY <1>1, LoadingStep, PTL DEF PlanningSpec

\* For all pairs of decoded files, whatever their words and with ids missing or
\* repeated: what Load accepts Build can work with, for every target, and files
\* that have no other defect are turned away for a cycle of profiles only
\* (load.go:71-184, 276-287).
THEOREM LoadsJustly == PlanningSpec => []LoadIsJust
<1>1. Loading => LoadIsJust
  <2> SUFFICES ASSUME Loading PROVE LoadIsJust
    OBVIOUS
  <2>1. C!IsDocument(document)
    BY DocumentsAssumption DEF Loading
  <2>2. loaded = "accepted" => \A t \in Targets : CatalogOK(C!CatalogsFor(document, t))
    BY <2>1, TargetsAssumption, AcceptedIsOK DEF Loading
  <2>3. loaded = "rejected" /\ C!RecordsAccepted(document) =>
          \E some \in (SUBSET C!Ids(document.profiles)) \ {{}} : \A profile \in some :
            ToSet(C!ById(document.profiles)[profile].extends) \cap some # {}
    BY <2>1, RefusedForACycle DEF Loading
  <2> QED BY <2>2, <2>3 DEF LoadIsJust
<1> QED BY <1>1, LoadingInvariant, PTL

\* For all files that Load accepts, whatever words they hold (the one assumption is
\* that they decode to records of strings and lists, DocumentsAssumption), Build's
\* order respects the dependencies, it fails justly, and its plans are executable,
\* prepared and canonical (application.Load, cmd/cowebs-setup/main.go:78-85); of
\* privileges all the way down a plan this says nothing where a word is not known
\* to the executors.
THEOREM LoadedPlansHold ==
  PlanningSpec => [](/\ OrderRespectsDependencies /\ BuildIsJust /\ PlanIsExecutable
                     /\ InstallsWaitForSources /\ BuiltIsCanonical)
<1> DEFINE Holds == /\ OrderRespectsDependencies /\ BuildIsJust /\ PlanIsExecutable
                    /\ InstallsWaitForSources /\ BuiltIsCanonical
<1>1. Loading => Holds
  <2>1. CASE Loading /\ loaded = "accepted"
    <3>1. PlanInv /\ WalkInv /\ Validating
      BY <2>1 DEF Loading, PlanInv
    <3> QED BY <3>1, OrderedNow, JustNow, ExecutableNow, WaitingNow, CanonicalNow
  <2>2. CASE Loading /\ loaded # "accepted"
    BY <2>2 DEF Loading, OrderRespectsDependencies, BuildIsJust, Built, PlanIsExecutable,
         InstallsWaitForSources, BuiltIsCanonical
  <2> QED BY <2>1, <2>2
<1> QED BY <1>1, LoadingInvariant, PTL

\* A repository serves the architecture of each provider that names it.
LEMMA RepositoryServes ==
  ASSUME C!IsDocument(document), C!Accepted(document), catalog = C!CatalogsFor(document, target),
         NEW p \in Packages, catalog.provider[p] # NoProvider,
         NEW r \in ToSet(catalog.provider[p].prerequisites)
  PROVE  LET providers == C!ById(document.packages)[p].providers[target.platform]
         IN  \/ target.architecture \in C!ById(document.prerequisites)[r].architectures
             \/ \E k \in DOMAIN providers :
                  providers[k].architectures = {} /\ r \in ToSet(providers[k].prerequisites)
<1> DEFINE pkg == C!ById(document.packages)[p]
           chosen == C!SelectProvider(pkg, target)
           providers == pkg.providers[target.platform]
<1>1. p \in C!Ids(document.packages) /\ catalog.provider[p] = Offered(chosen)
  <2> DEFINE ids == C!Ids(document.packages)
             offers == [q \in ids |-> Offered(C!SelectProvider(C!ById(document.packages)[q], target))]
  <2>1. catalog.dependencies = [q \in ids |-> C!ById(document.packages)[q].dependencies]
    <3>1. C!CatalogsFor(document, target).dependencies =
            [q \in ids |-> C!ById(document.packages)[q].dependencies]
      <4> HIDE DEF offers, pkg, chosen, providers
      <4> QED BY PackagesFor, ZenonT(30)
    <3> QED BY <3>1
  <2>2. catalog.provider = offers
    BY ProvidersFor
  <2>3. p \in ids
    <3> HIDE DEF ids, offers
    <3> QED BY <2>1 DEF Packages
  <2>4. offers[p] = Offered(chosen)
    BY <2>3
  <2> HIDE DEF offers, chosen
  <2> QED BY <2>2, <2>3, <2>4
<1>2. /\ C!IsPackage(pkg)
      /\ \E i \in 1..Len(document.packages) : pkg = document.packages[i]
  BY <1>1, PackageOf
<1>3. chosen # NoProvider /\ catalog.provider[p].prerequisites = chosen.prerequisites
  <2> HIDE DEF chosen
  <2> QED BY <1>1 DEF Offered
<1>4. PICK k \in 1..Len(providers) :
        /\ target.platform \in DOMAIN pkg.providers /\ chosen = providers[k]
        /\ providers[k].architectures = {} \/ target.architecture \in providers[k].architectures
  BY <1>2, <1>3, ProviderSelected
<1>5. providers \in Seq(C!Provision) /\ DOMAIN providers = 1..Len(providers)
  <2>1. providers \in Seq(C!Provision)
    BY <1>2, <1>4, PackageFields
  <2> HIDE DEF providers
  <2> QED BY <2>1
<1>6. C!PackageAccepted(document, pkg)
  <2>1. document.packages \in Seq(C!ToSet(document.packages))
    BY DEF C!IsDocument
  <2>2. \A i \in DOMAIN document.packages : C!PackageAccepted(document, document.packages[i])
    BY DEF C!Accepted, C!RecordsAccepted
  <2> QED BY <1>2, <2>1, <2>2
<1>7. C!ProviderAccepted(document, target.platform, providers[k])
  BY <1>4, <1>5, <1>6 DEF C!PackageAccepted, C!ToSet
<1>8. r \in C!ToSet(providers[k].prerequisites) /\ r \in ToSet(providers[k].prerequisites)
  <2> HIDE DEF chosen, providers
  <2> QED BY <1>3, <1>4, SameSets
<1>9. providers[k].architectures \subseteq C!ById(document.prerequisites)[r].architectures
  <2> HIDE DEF providers
  <2> QED BY <1>7, <1>8 DEF C!ProviderAccepted
<1> HIDE DEF providers, chosen
<1> QED BY <1>4, <1>5, <1>8, <1>9 DEF providers

\* For all files and targets, a repository that a plan adds serves the
\* architecture planned for, unless a provider lists none (load.go:109-132).
THEOREM PlansServeTarget == PlanningSpec => []RepositoriesServeTarget
<1>1. Loading => RepositoriesServeTarget
  <2> SUFFICES ASSUME Loading, Built, NEW p \in ToSet(order),
                      NEW r \in ToSet(catalog.provider[p].prerequisites)
               PROVE  LET providers == C!ById(document.packages)[p].providers[target.platform]
                      IN  \/ target.architecture \in C!ById(document.prerequisites)[r].architectures
                          \/ \E k \in DOMAIN providers :
                               providers[k].architectures = {} /\ r \in ToSet(providers[k].prerequisites)
    BY DEF RepositoriesServeTarget
  <2>1. loaded = "accepted" /\ PlanInv /\ catalog = C!CatalogsFor(document, target)
    BY DEF Loading, Built
  <2>2. Buildable /\ ToSet(order) = Needed
    BY <2>1, BuiltIsBuildable
  <2>3. p \in Packages /\ catalog.provider[p] # NoProvider
    BY <2>1, <2>2, PlanReturned, NeededKnown DEF Built
  <2>4. C!IsDocument(document) /\ C!Accepted(document)
    BY <2>1, DocumentsAssumption DEF Loading
  <2> QED BY <2>1, <2>3, <2>4, RepositoryServes
<1> QED BY <1>1, LoadingInvariant, PTL

\* For all files that Load accepts and every request, a plan in which the executors
\* know all the words is one each of them can follow in its order without looking at
\* a dependency: no machine operation waits for the user's, packages are detected
\* first, and the adapter finds managers, remotes, keys, sources and the index where
\* it needs them (broker.go:104-125, 250; planner.go:233-343).  Session,
\* WindowsSession and LinuxAdapter assume of a plan that its words are known, and
\* no more.
THEOREM PlansSuitTheirExecutors == PlanningSpec => []PlansSuitExecutors
<1>1. Loading => PlansSuitExecutors
  <2> SUFFICES ASSUME Loading, Built, AllUnderstood PROVE PlansSuitExecutors
    BY DEF PlansSuitExecutors
  <2>1. loaded = "accepted" /\ PlanInv
    BY DEF Loading, Built
  <2>2. Buildable /\ result.operations = Operations(order)
    BY <2>1, BuiltIsBuildable
  <2> QED BY <2>2, ExecutorsSuited, AdapterSuited DEF PlansSuitExecutors
<1> QED BY <1>1, LoadingInvariant, PTL

-----------------------------------------------------------------------------
(* Add-Package of the PowerShell engine: its recursion ends, because the   *)
(* packages are finitely many and a call is refused to its own callers.    *)

\* The calls for packages P, and whether one has nothing to do.
Outcomes(P) == [cycle: BOOLEAN, resolved: Seq(P)]
Calls(P) == [keys: Seq(P), callers: SUBSET P, before: Outcomes(P)]
Ended(c) == c.keys = <<>> \/ c.before.cycle

\* The call c makes for what its first key requires, what that key comes to, when
\* g has the outcome of calls, and what is then left to do.
Nested(deps, c) == Call(deps[Head(c.keys)], c.callers \cup {Head(c.keys)}, c.before)
Adding(deps, g, c) ==
  IF Head(c.keys) \in c.callers THEN Thrown ELSE AddOnce(Head(c.keys), g[Nested(deps, c)])
Onward(deps, g, c) == Call(Tail(c.keys), c.callers, Adding(deps, g, c))

\* g has the outcome of the calls in E and of those they lead to.
Solves(P, deps, E, g) ==
  /\ E \subseteq Calls(P)
  /\ \A c \in E :
       IF Ended(c) THEN g[c] = c.before
       ELSE /\ Head(c.keys) \notin c.callers => Nested(deps, c) \in E
            /\ Onward(deps, g, c) \in Calls(P) => Onward(deps, g, c) \in E
            /\ g[c] = g[Onward(deps, g, c)]
Proper(P, E, g) == \A c \in E : g[c] \in Outcomes(P)

LEMMA CallParts ==
  ASSUME NEW P, NEW keys \in Seq(P), NEW callers \in SUBSET P, NEW before \in Outcomes(P)
  PROVE  /\ Call(keys, callers, before) \in Calls(P)
         /\ Call(keys, callers, before).keys = keys /\ Call(keys, callers, before).callers = callers
         /\ Call(keys, callers, before).before = before
BY DEF Call, Calls

LEMMA PartsOfCall ==
  ASSUME NEW P, NEW c \in Calls(P)
  PROVE  /\ c.keys \in Seq(P) /\ c.callers \in SUBSET P /\ c.before \in Outcomes(P)
         /\ c = Call(c.keys, c.callers, c.before)
         /\ ~Ended(c) => /\ Head(c.keys) \in P /\ Tail(c.keys) \in Seq(P)
                         /\ Len(Tail(c.keys)) < Len(c.keys)
<1>1. c.keys \in Seq(P) /\ c.callers \in SUBSET P /\ c.before \in Outcomes(P) /\ c = Call(c.keys, c.callers, c.before)
  BY DEF Calls, Call
<1>2. ASSUME ~Ended(c) PROVE Head(c.keys) \in P /\ Tail(c.keys) \in Seq(P) /\ Len(Tail(c.keys)) < Len(c.keys)
  BY <1>1, <1>2 DEF Ended
<1> QED BY <1>1, <1>2

LEMMA OutcomeAdded ==
  ASSUME NEW P, NEW key \in P, NEW outcome \in Outcomes(P)
  PROVE  /\ Thrown \in Outcomes(P) /\ Thrown.cycle /\ AddOnce(key, outcome) \in Outcomes(P)
         /\ AddOnce(key, outcome).cycle = outcome.cycle
<1>1. Thrown \in Outcomes(P) /\ Thrown.cycle
  BY DEF Thrown, Outcomes
<1>2. Append(outcome.resolved, key) \in Seq(P)
  BY DEF Outcomes
<1>3. AddOnce(key, outcome) \in Outcomes(P) /\ AddOnce(key, outcome).cycle = outcome.cycle
  BY <1>2 DEF AddOnce, Outcomes
<1> QED BY <1>1, <1>3

\* What is left to do is less to do.
Smaller(P, d, c) ==
  \/ Cardinality(P \ d.callers) < Cardinality(P \ c.callers)
  \/ Cardinality(P \ d.callers) = Cardinality(P \ c.callers) /\ Len(d.keys) < Len(c.keys)

LEMMA NestedCall ==
  ASSUME NEW P, IsFiniteSet(P), NEW deps \in [P -> Seq(P)], NEW c \in Calls(P), ~Ended(c),
         Head(c.keys) \notin c.callers
  PROVE  Nested(deps, c) \in Calls(P) /\ Smaller(P, Nested(deps, c), c)
<1> DEFINE key == Head(c.keys)
           A == P \ c.callers
           B == P \ (c.callers \cup {key})
<1>1. key \in P /\ c.callers \in SUBSET P /\ c.before \in Outcomes(P) /\ deps[key] \in Seq(P)
  BY PartsOfCall
<1>2. /\ Nested(deps, c) \in Calls(P)
      /\ Nested(deps, c).callers = c.callers \cup {key}
  BY <1>1, CallParts DEF Nested
<1>3. IsFiniteSet(A) /\ key \in A /\ B = A \ {key}
  BY <1>1, FS_Subset
<1>4. IsFiniteSet(B) /\ Cardinality(B) = Cardinality(A) - 1
  <2> HIDE DEF A, B
  <2> QED BY <1>3, FS_RemoveElement
<1>5. Cardinality(A) \in Nat /\ Cardinality(B) \in Nat
  BY <1>3, <1>4, FS_CardinalityType
<1> QED BY <1>2, <1>4, <1>5 DEF Smaller

LEMMA OnwardCall ==
  ASSUME NEW P, NEW deps, NEW g, NEW c \in Calls(P), ~Ended(c),
         Head(c.keys) \notin c.callers => g[Nested(deps, c)] \in Outcomes(P)
  PROVE  /\ Adding(deps, g, c) \in Outcomes(P) /\ Onward(deps, g, c) \in Calls(P)
         /\ Smaller(P, Onward(deps, g, c), c)
<1>1. Head(c.keys) \in P /\ Tail(c.keys) \in Seq(P) /\ Len(Tail(c.keys)) < Len(c.keys) /\ c.callers \in SUBSET P
  BY PartsOfCall
<1>2. Adding(deps, g, c) \in Outcomes(P)
  <2>1. CASE Head(c.keys) \in c.callers
    BY <2>1, OutcomeAdded DEF Adding, Thrown, Outcomes
  <2>2. CASE Head(c.keys) \notin c.callers
    BY <1>1, <2>2, OutcomeAdded DEF Adding
  <2> QED BY <2>1, <2>2
<1>3. /\ Onward(deps, g, c) \in Calls(P) /\ Onward(deps, g, c).keys = Tail(c.keys)
      /\ Onward(deps, g, c).callers = c.callers
  <2> DEFINE keys == Tail(c.keys)
             added == Adding(deps, g, c)
  <2>1. keys \in Seq(P) /\ added \in Outcomes(P)
    BY <1>1, <1>2
  <2> HIDE DEF keys, added
  <2>2. /\ Call(keys, c.callers, added) \in Calls(P) /\ Call(keys, c.callers, added).keys = keys
        /\ Call(keys, c.callers, added).callers = c.callers
    BY <1>1, <2>1, CallParts
  <2> QED BY <2>2 DEF Onward, keys, added
<1> QED BY <1>1, <1>2, <1>3 DEF Smaller

LEMMA LeastOf ==
  ASSUME NEW S \in SUBSET Nat, S # {}
  PROVE  \E n \in S : \A m \in S : n <= m
<1>1. PICK t \in S : TRUE
  OBVIOUS
<1> DEFINE todo == {i \in 1..(t + 1) : i - 1 \in S}
           i == Min(todo)
<1>2. t \in Nat /\ t + 1 \in Nat /\ t + 1 \in todo
  OBVIOUS
<1>3. i \in todo /\ \A j \in todo : i <= j
  <2>1. todo \in SUBSET (1..(t + 1)) /\ todo # {}
    BY <1>2
  <2> HIDE DEF todo
  <2> QED BY <1>2, <2>1, FirstPosition
<1> HIDE DEF i
<1>4. ASSUME NEW m \in S PROVE i - 1 <= m
  <2>1. CASE m <= t
    <3>1. m + 1 \in todo
      BY <2>1
    <3> QED BY <1>3, <3>1
  <2>2. CASE m > t
    BY <1>3, <2>2
  <2> QED BY <1>2, <2>1, <2>2
<1> QED BY <1>3, <1>4

\* Among some calls one leads to none of the others.
LEMMA LeastCall ==
  ASSUME NEW P, IsFiniteSet(P), NEW T \in SUBSET Calls(P), T # {}
  PROVE  \E c \in T : \A d \in T : ~Smaller(P, d, c)
<1> DEFINE open(c) == Cardinality(P \ c.callers)
           opens == {open(c) : c \in T}
<1>1. \A c \in T : open(c) \in Nat
  BY FS_Difference, FS_CardinalityType
<1>2. PICK n \in opens : \A m \in opens : n <= m
  <2>1. opens \in SUBSET Nat /\ opens # {}
    BY <1>1
  <2> HIDE DEF opens
  <2> QED BY <2>1, LeastOf
<1> HIDE DEF open
<1> DEFINE lengths == {Len(c.keys) : c \in {d \in T : open(d) = n}}
<1>3. \A c \in T : Len(c.keys) \in Nat
  BY PartsOfCall
<1>4. PICK k \in lengths : \A l \in lengths : k <= l
  <2>1. lengths \in SUBSET Nat /\ lengths # {}
    BY <1>2, <1>3
  <2> HIDE DEF lengths
  <2> QED BY <2>1, LeastOf
<1>5. PICK c \in T : open(c) = n /\ Len(c.keys) = k
  BY <1>4
<1>6. ASSUME NEW d \in T PROVE ~Smaller(P, d, c)
  <2>1. open(d) \in Nat /\ open(c) \in Nat /\ open(c) <= open(d)
    BY <1>1, <1>2, <1>5
  <2>2. open(d) = open(c) => Len(c.keys) <= Len(d.keys)
    BY <1>4, <1>5
  <2>3. Len(c.keys) \in Nat /\ Len(d.keys) \in Nat
    BY <1>3
  <2>4. Smaller(P, d, c) <=> \/ open(d) < open(c)
                             \/ open(d) = open(c) /\ Len(d.keys) < Len(c.keys)
    BY DEF Smaller, open
  <2> QED BY <2>1, <2>2, <2>3, <2>4
<1> QED BY <1>6

\* Two solutions agree on the calls that both have.
LEMMA SolutionsAgree ==
  ASSUME NEW P, IsFiniteSet(P), NEW deps \in [P -> Seq(P)],
         NEW E, NEW g, Solves(P, deps, E, g), Proper(P, E, g),
         NEW F, NEW h, Solves(P, deps, F, h)
  PROVE  \A c \in E \cap F : g[c] = h[c]
<1> DEFINE bad == {c \in E \cap F : g[c] # h[c]}
<1> SUFFICES ASSUME bad # {} PROVE FALSE
  OBVIOUS
<1>1. PICK c \in bad : \A d \in bad : ~Smaller(P, d, c)
  <2>1. bad \in SUBSET Calls(P)
    BY DEF Solves
  <2> HIDE DEF bad
  <2> QED BY <2>1, LeastCall
<1>2. c \in E /\ c \in F /\ c \in Calls(P) /\ g[c] # h[c]
  BY DEF Solves
<1>3. ~Ended(c)
  BY <1>2 DEF Solves
<1>4. \A d \in E \cap F : Smaller(P, d, c) => g[d] = h[d]
  BY <1>1
<1> HIDE DEF bad
<1>5. ASSUME Head(c.keys) \notin c.callers
      PROVE  g[Nested(deps, c)] = h[Nested(deps, c)] /\ g[Nested(deps, c)] \in Outcomes(P)
  <2>1. Nested(deps, c) \in E /\ Nested(deps, c) \in F
    BY <1>2, <1>3, <1>5 DEF Solves
  <2>2. Smaller(P, Nested(deps, c), c)
    BY <1>2, <1>3, <1>5, NestedCall
  <2> QED BY <1>4, <2>1, <2>2 DEF Proper
<1>6. Adding(deps, g, c) = Adding(deps, h, c)
  BY <1>5 DEF Adding
<1>7. Onward(deps, g, c) = Onward(deps, h, c)
  BY <1>6 DEF Onward
<1>8. Onward(deps, g, c) \in Calls(P) /\ Smaller(P, Onward(deps, g, c), c)
  BY <1>2, <1>3, <1>5, OnwardCall
<1>9. /\ Onward(deps, g, c) \in E /\ g[c] = g[Onward(deps, g, c)]
      /\ Onward(deps, g, c) \in F /\ h[c] = h[Onward(deps, g, c)]
  BY <1>2, <1>3, <1>7, <1>8 DEF Solves
<1> QED BY <1>2, <1>4, <1>8, <1>9

LEMMA SameOnward ==
  ASSUME NEW deps, NEW c, NEW g, NEW h,
         Head(c.keys) \notin c.callers => g[Nested(deps, c)] = h[Nested(deps, c)]
  PROVE  Onward(deps, g, c) = Onward(deps, h, c)
BY DEF Onward, Adding

\* One more call is solved, when those it leads to are.
LEMMA SolveOneMore ==
  ASSUME NEW P, NEW deps, NEW E, NEW k, Solves(P, deps, E, k), Proper(P, E, k),
         NEW c \in Calls(P), c \notin E,
         ~Ended(c) => /\ Head(c.keys) \notin c.callers => Nested(deps, c) \in E
                      /\ Onward(deps, k, c) \in E
  PROVE  \E g : Solves(P, deps, E \cup {c}, g) /\ Proper(P, E \cup {c}, g)
<1> DEFINE v == IF Ended(c) THEN c.before ELSE k[Onward(deps, k, c)]
           g == [x \in E \cup {c} |-> IF x = c THEN v ELSE k[x]]
<1>1. v \in Outcomes(P)
  BY PartsOfCall DEF Proper
<1> HIDE DEF v
<1>2. g[c] = v /\ \A x \in E : g[x] = k[x]
  OBVIOUS
<1> HIDE DEF g
<1>3. ASSUME NEW x \in E, ~Ended(x)
      PROVE  /\ Head(x.keys) \notin x.callers => Nested(deps, x) \in E
             /\ Onward(deps, g, x) \in Calls(P) => Onward(deps, g, x) \in E
             /\ g[x] = g[Onward(deps, g, x)]
  <2>1. Head(x.keys) \notin x.callers => Nested(deps, x) \in E
    BY <1>3 DEF Solves
  <2>2. Onward(deps, g, x) = Onward(deps, k, x)
    BY <1>2, <2>1, SameOnward
  <2>3. Onward(deps, k, x) \in Calls(P)
    <3>1. x \in Calls(P)
      BY DEF Solves
    <3>2. Head(x.keys) \notin x.callers => k[Nested(deps, x)] \in Outcomes(P)
      BY <2>1 DEF Proper
    <3> QED BY <1>3, <3>1, <3>2, OnwardCall
  <2>4. Onward(deps, k, x) \in E /\ k[x] = k[Onward(deps, k, x)]
    BY <1>3, <2>3 DEF Solves
  <2> QED BY <1>2, <2>1, <2>2, <2>4
<1>4. ASSUME ~Ended(c)
      PROVE  Onward(deps, g, c) \in E /\ g[c] = g[Onward(deps, g, c)]
  <2>1. Onward(deps, g, c) = Onward(deps, k, c)
    BY <1>2, <1>4, SameOnward
  <2> QED BY <1>2, <1>4, <2>1 DEF v
<1>5. Solves(P, deps, E \cup {c}, g)
  <2>1. E \cup {c} \subseteq Calls(P)
    BY DEF Solves
  <2>2. ASSUME NEW x \in E \cup {c}, Ended(x) PROVE g[x] = x.before
    <3>1. CASE x = c
      BY <1>2, <2>2, <3>1 DEF v
    <3>2. CASE x \in E
      BY <1>2, <2>2, <3>2 DEF Solves
    <3> QED BY <3>1, <3>2
  <2>3. ASSUME NEW x \in E \cup {c}, ~Ended(x)
        PROVE  /\ Head(x.keys) \notin x.callers => Nested(deps, x) \in E \cup {c}
               /\ Onward(deps, g, x) \in Calls(P) => Onward(deps, g, x) \in E \cup {c}
               /\ g[x] = g[Onward(deps, g, x)]
    <3>1. CASE x = c
      BY <1>4, <2>3, <3>1
    <3>2. CASE x \in E
      BY <1>3, <2>3, <3>2
    <3> QED BY <3>1, <3>2
  <2> QED BY <2>1, <2>2, <2>3 DEF Solves
<1>6. Proper(P, E \cup {c}, g)
  BY <1>1, <1>2 DEF Proper
<1> QED BY <1>5, <1>6

\* Every call has an outcome.
LEMMA SolutionExists ==
  ASSUME NEW P, IsFiniteSet(P), NEW deps \in [P -> Seq(P)]
  PROVE  \E k : /\ k = [c \in Calls(P) |-> k[c]]
                /\ Solves(P, deps, Calls(P), k) /\ Proper(P, Calls(P), k)
<1> DEFINE Solution(E, g) == Solves(P, deps, E, g) /\ Proper(P, E, g)
           Has(c, v) == \E E, g : Solution(E, g) /\ c \in E /\ g[c] = v
           all == {c \in Calls(P) : \E v : Has(c, v)}
           k == [c \in Calls(P) |-> CHOOSE v : Has(c, v)]
<1>1. ASSUME NEW E, NEW g, Solution(E, g), NEW c \in E PROVE c \in all /\ k[c] = g[c]
  <2>1. c \in Calls(P) /\ Has(c, g[c])
    BY <1>1 DEF Solves
  <2>2. Has(c, k[c])
    <3>1. Has(c, CHOOSE v : Has(c, v))
      <4> HIDE DEF Has
      <4> QED BY <2>1
    <3> HIDE DEF Has
    <3> QED BY <2>1, <3>1
  <2>3. PICK F, h : Solution(F, h) /\ c \in F /\ h[c] = k[c]
    BY <2>2
  <2>4. g[c] = h[c]
    BY <1>1, <2>3, SolutionsAgree
  <2> HIDE DEF k, Has
  <2> QED BY <2>1, <2>3, <2>4
<1>2. ASSUME NEW c \in all PROVE \E E, g : Solution(E, g) /\ c \in E
  OBVIOUS
<1>3. all \subseteq Calls(P)
  OBVIOUS
<1>4. k = [c \in Calls(P) |-> k[c]]
  OBVIOUS
<1> HIDE DEF all, k, Has
<1>5. Solution(all, k)
  <2>1. ASSUME NEW c \in all
        PROVE  /\ k[c] \in Outcomes(P)
               /\ IF Ended(c) THEN k[c] = c.before
                  ELSE /\ Head(c.keys) \notin c.callers => Nested(deps, c) \in all
                       /\ Onward(deps, k, c) \in Calls(P) => Onward(deps, k, c) \in all
                       /\ k[c] = k[Onward(deps, k, c)]
    <3>1. PICK E, g : Solution(E, g) /\ c \in E
      BY <1>2
    <3>2. /\ k[c] \in Outcomes(P) /\ c \in Calls(P) /\ k[c] = g[c]
          /\ Ended(c) => k[c] = c.before
      <4>1. k[c] = g[c]
        BY <1>1, <3>1
      <4> QED BY <3>1, <4>1 DEF Solves, Proper
    <3>3. CASE ~Ended(c)
      <4>1. Head(c.keys) \notin c.callers =>
              Nested(deps, c) \in E /\ Nested(deps, c) \in all /\ k[Nested(deps, c)] = g[Nested(deps, c)]
        BY <1>1, <3>1, <3>3 DEF Solves
      <4>2. Onward(deps, k, c) = Onward(deps, g, c)
        BY <4>1, SameOnward
      <4>3. Onward(deps, g, c) \in Calls(P)
        <5>1. Head(c.keys) \notin c.callers => g[Nested(deps, c)] \in Outcomes(P)
          BY <3>1, <4>1 DEF Proper
        <5> QED BY <3>2, <3>3, <5>1, OnwardCall
      <4>4. Onward(deps, g, c) \in E /\ g[c] = g[Onward(deps, g, c)]
        BY <3>1, <3>3, <4>3 DEF Solves
      <4>5. Onward(deps, g, c) \in all /\ k[Onward(deps, g, c)] = g[Onward(deps, g, c)]
        BY <1>1, <3>1, <4>4
      <4> QED BY <3>2, <3>3, <4>1, <4>2, <4>4, <4>5
    <3> QED BY <3>2, <3>3
  <2> QED BY <1>3, <2>1 DEF Solves, Proper
<1>6. all = Calls(P)
  <2> SUFFICES ASSUME Calls(P) \ all # {} PROVE FALSE
    BY <1>3
  <2>1. PICK c \in Calls(P) \ all : \A d \in Calls(P) \ all : ~Smaller(P, d, c)
    BY LeastCall
  <2>2. ASSUME ~Ended(c), Head(c.keys) \notin c.callers PROVE Nested(deps, c) \in all
    BY <2>1, <2>2, NestedCall
  <2>3. ASSUME ~Ended(c) PROVE Onward(deps, k, c) \in all
    <3>1. Head(c.keys) \notin c.callers => k[Nested(deps, c)] \in Outcomes(P)
      BY <1>5, <2>2, <2>3 DEF Proper
    <3> QED BY <2>1, <2>3, <3>1, OnwardCall
  <2>4. PICK g : Solution(all \cup {c}, g)
    BY <1>5, <2>1, <2>2, <2>3, SolveOneMore
  <2>5. c \in all
    BY <1>1, <2>4
  <2> QED BY <2>1, <2>5
<1> QED BY <1>4, <1>5, <1>6

\* What AddPackages is defined to be, for packages P and what they require.
Resolver(P, deps) ==
  CHOOSE f : f = [c \in Calls(P) |-> IF Ended(c) THEN c.before ELSE f[Onward(deps, f, c)]]

LEMMA ResolverSolves ==
  ASSUME NEW P, IsFiniteSet(P), NEW deps \in [P -> Seq(P)]
  PROVE  Solves(P, deps, Calls(P), Resolver(P, deps)) /\ Proper(P, Calls(P), Resolver(P, deps))
<1> DEFINE Right(f) == f = [c \in Calls(P) |-> IF Ended(c) THEN c.before ELSE f[Onward(deps, f, c)]]
           f == Resolver(P, deps)
<1>1. PICK k : /\ k = [c \in Calls(P) |-> k[c]]
               /\ Solves(P, deps, Calls(P), k) /\ Proper(P, Calls(P), k)
  BY SolutionExists
<1>2. Right(k)
  <2>1. \A c \in Calls(P) : k[c] = IF Ended(c) THEN c.before ELSE k[Onward(deps, k, c)]
    BY <1>1 DEF Solves
  <2> DEFINE h == [c \in Calls(P) |-> IF Ended(c) THEN c.before ELSE k[Onward(deps, k, c)]]
  <2>2. h = [c \in Calls(P) |-> h[c]] /\ \A c \in Calls(P) : k[c] = h[c]
    BY <2>1
  <2> HIDE DEF h
  <2>3. [c \in Calls(P) |-> k[c]] = [c \in Calls(P) |-> h[c]]
    BY <2>2
  <2>4. k = h
    BY <1>1, <2>2, <2>3, Zenon
  <2> QED BY <2>4 DEF h
<1>3. Right(f)
  <2>1. f = CHOOSE g : Right(g)
    BY DEF Resolver
  <2> HIDE DEF Right, f
  <2> QED BY <1>2, <2>1, Zenon
<1>4. \A c \in Calls(P) : f[c] = IF Ended(c) THEN c.before ELSE f[Onward(deps, f, c)]
  <2> DEFINE h == [c \in Calls(P) |-> IF Ended(c) THEN c.before ELSE f[Onward(deps, f, c)]]
  <2>1. f = h
    BY <1>3
  <2>2. \A c \in Calls(P) : h[c] = IF Ended(c) THEN c.before ELSE f[Onward(deps, f, c)]
    BY Zenon
  <2> HIDE DEF h, f
  <2> QED BY <2>1, <2>2, Zenon
<1> HIDE DEF f
<1>5. \A c \in Calls(P) : ~Ended(c) /\ Head(c.keys) \notin c.callers => Nested(deps, c) \in Calls(P)
  BY NestedCall
<1>6. Solves(P, deps, Calls(P), f)
  BY <1>4, <1>5 DEF Solves
<1>7. \A c \in Calls(P) : k[c] = f[c]
  BY <1>1, <1>6, SolutionsAgree
<1>8. Proper(P, Calls(P), f)
  BY <1>1, <1>7 DEF Proper
<1> QED BY <1>6, <1>8 DEF f

LEMMA AddsPackages == AddPackages = Resolver(Packages, catalog.dependencies)
BY DEF AddPackages, PackageCall, Resolver, Calls, Outcomes, Outcome, Ended, Onward, Adding, Nested, Call

\* R has the outcome of each call.
Resolves(P, deps, R) ==
  /\ IsFiniteSet(P) /\ deps \in [P -> Seq(P)]
  /\ R = Resolver(P, deps)

\* How the calls of Add-Package go on.
LEMMA ResolverAt ==
  ASSUME NEW P, NEW deps, NEW R, Resolves(P, deps, R), NEW c \in Calls(P)
  PROVE  /\ R[c] \in Outcomes(P)
         /\ Ended(c) => R[c] = c.before
         /\ ~Ended(c) => Adding(deps, R, c) \in Outcomes(P) /\ R[c] = R[Onward(deps, R, c)]
<1> USE DEF Resolves
<1>1. Solves(P, deps, Calls(P), R) /\ Proper(P, Calls(P), R)
  BY ResolverSolves
<1>2. R[c] \in Outcomes(P) /\ (Ended(c) => R[c] = c.before)
  BY <1>1 DEF Solves, Proper
<1>3. ASSUME ~Ended(c) PROVE Adding(deps, R, c) \in Outcomes(P) /\ R[c] = R[Onward(deps, R, c)]
  <2>1. Head(c.keys) \notin c.callers => R[Nested(deps, c)] \in Outcomes(P)
    BY <1>1, <1>3, NestedCall DEF Proper
  <2> QED BY <1>1, <1>3, <2>1, OnwardCall DEF Solves
<1> QED BY <1>2, <1>3

LEMMA ResolverDone ==
  ASSUME NEW P, NEW deps, NEW R, Resolves(P, deps, R),
         NEW callers \in SUBSET P, NEW before \in Outcomes(P)
  PROVE  R[Call(<<>>, callers, before)] = before
<1> DEFINE c == Call(<<>>, callers, before)
<1>1. <<>> \in Seq(P)
  OBVIOUS
<1>2. c \in Calls(P) /\ c.keys = <<>> /\ c.before = before
  <2> DEFINE keys == <<>>
  <2>1. keys \in Seq(P)
    BY <1>1
  <2> HIDE DEF keys
  <2>2. Call(keys, callers, before) \in Calls(P) /\ Call(keys, callers, before).keys = keys
        /\ Call(keys, callers, before).before = before
    BY <2>1, CallParts
  <2> QED BY <2>2 DEF keys
<1> HIDE DEF c
<1>3. R[c] = before
  BY <1>2, ResolverAt DEF Ended
<1> QED BY <1>3 DEF c

LEMMA ResolverPasses ==
  ASSUME NEW P, NEW deps, NEW R, Resolves(P, deps, R),
         NEW keys \in Seq(P), NEW callers \in SUBSET P
  PROVE  R[Call(keys, callers, Thrown)] = Thrown
<1> DEFINE c == Call(keys, callers, Thrown)
<1>1. Thrown \in Outcomes(P) /\ Thrown.cycle
  BY DEF Thrown, Outcomes
<1>2. c \in Calls(P) /\ c.before = Thrown
  BY <1>1, CallParts
<1> HIDE DEF c
<1>3. R[c] = Thrown
  BY <1>1, <1>2, ResolverAt DEF Ended
<1> QED BY <1>3 DEF c

LEMMA ResolverThrows ==
  ASSUME NEW P, NEW deps, NEW R, Resolves(P, deps, R),
         NEW keys \in Seq(P), NEW callers \in SUBSET P,
         NEW before \in Outcomes(P), keys # <<>>, ~before.cycle, Head(keys) \in callers
  PROVE  R[Call(keys, callers, before)] = Thrown
<1> DEFINE c == Call(keys, callers, before)
<1>1. c \in Calls(P) /\ c.keys = keys /\ c.callers = callers /\ c.before = before
  BY CallParts
<1> HIDE DEF c
<1>2. ~Ended(c) /\ Adding(deps, R, c) = Thrown
  BY <1>1 DEF Ended, Adding
<1>3. R[c] = R[Onward(deps, R, c)]
  BY <1>1, <1>2, ResolverAt
<1> DEFINE rest == Tail(keys)
<1>4. Onward(deps, R, c) = Call(rest, callers, Thrown) /\ rest \in Seq(P)
  BY <1>1, <1>2 DEF Onward
<1> HIDE DEF rest
<1>5. R[Call(rest, callers, Thrown)] = Thrown
  BY <1>4, ResolverPasses
<1> QED BY <1>3, <1>4, <1>5 DEF c

\* The first of some keys is added, and the rest is left.
AddsFirst(P, deps, R, keys, callers, before, rest, added) ==
  /\ keys \in Seq(P) /\ callers \in SUBSET P /\ before \in Outcomes(P)
  /\ keys # <<>> /\ ~before.cycle /\ Head(keys) \notin callers /\ rest = Tail(keys)
  /\ added = AddOnce(Head(keys), R[Call(deps[Head(keys)], callers \cup {Head(keys)}, before)])

LEMMA ResolverAdds ==
  ASSUME NEW P, NEW deps, NEW R, Resolves(P, deps, R), NEW keys, NEW callers, NEW before,
         NEW rest, NEW added, AddsFirst(P, deps, R, keys, callers, before, rest, added)
  PROVE  added \in Outcomes(P) /\ R[Call(keys, callers, before)] = R[Call(rest, callers, added)]
<1> DEFINE c == Call(keys, callers, before)
<1>0. /\ keys \in Seq(P) /\ callers \in SUBSET P /\ before \in Outcomes(P)
      /\ keys # <<>> /\ ~before.cycle /\ Head(keys) \notin callers /\ rest = Tail(keys)
      /\ added = AddOnce(Head(keys), R[Call(deps[Head(keys)], callers \cup {Head(keys)}, before)])
  BY DEF AddsFirst
<1>1. c \in Calls(P) /\ c.keys = keys /\ c.callers = callers /\ c.before = before
  BY <1>0, CallParts
<1> HIDE DEF c
<1>2. ~Ended(c)
  BY <1>0, <1>1 DEF Ended
<1>3. Adding(deps, R, c) = added /\ Onward(deps, R, c) = Call(rest, callers, added)
  BY <1>0, <1>1 DEF Adding, Onward, Nested
<1>4. R[c] = R[Onward(deps, R, c)] /\ Adding(deps, R, c) \in Outcomes(P)
  BY <1>1, <1>2, ResolverAt
<1> QED BY <1>3, <1>4 DEF c

-----------------------------------------------------------------------------
(* The walk with a stack comes to what the calls come to.                  *)

Given(ord) == [cycle |-> FALSE, resolved |-> ord]
Left(deps, frame) == SubSeq(deps[frame.package], frame.next, Len(deps[frame.package]))
CallersTo(st, k) == {st[j].package : j \in 1..k}

\* v[k] is what the k-th call in progress will have left when it returns.
Unwinding(P, deps, R, st, ord, v) ==
  /\ \A k \in 1..(Len(st) + 1) : v[k] \in Outcomes(P)
  /\ v[Len(st) + 1] = Given(ord)
  /\ \A k \in 1..Len(st) :
       v[k] = AddOnce(st[k].package,
                      R[Call(Left(deps, st[k]), CallersTo(st, k), v[k + 1])])

\* From where the walk stands, the calls come to the goal.
ComesTo(P, deps, R, ahead, st, ord, goal) ==
  \E v : /\ Unwinding(P, deps, R, st, ord, v)
         /\ R[Call(ahead, {}, v[1])] = goal

LEMMA GivenOutcome ==
  ASSUME NEW P, NEW ord \in Seq(P)
  PROVE  Given(ord) \in Outcomes(P) /\ ~Given(ord).cycle /\ Given(ord).resolved = ord
BY DEF Given, Outcomes

LEMMA WalkBegins ==
  ASSUME NEW P, NEW deps, NEW R, NEW ahead
  PROVE  ComesTo(P, deps, R, ahead, <<>>, <<>>, R[Call(ahead, {}, Given(<<>>))])
<1> DEFINE v == [k \in 1..1 |-> Given(<<>>)]
<1>1. v[1] = Given(<<>>) /\ Len(<<>>) = 0 /\ <<>> \in Seq(P)
  OBVIOUS
<1> HIDE DEF v
<1>2. Given(<<>>) \in Outcomes(P)
  BY <1>1, GivenOutcome
<1>3. Unwinding(P, deps, R, <<>>, <<>>, v)
  BY <1>1, <1>2 DEF Unwinding
<1> QED BY <1>1, <1>3 DEF ComesTo

LEMMA WalkEnds ==
  ASSUME NEW P, NEW deps, NEW R, Resolves(P, deps, R), NEW ord \in Seq(P), NEW goal,
         ComesTo(P, deps, R, <<>>, <<>>, ord, goal)
  PROVE  goal = Given(ord)
<1>1. PICK v : /\ Unwinding(P, deps, R, <<>>, ord, v)
               /\ R[Call(<<>>, {}, v[1])] = goal
  BY DEF ComesTo
<1>2. Len(<<>>) = 0 /\ <<>> \in Seq(P) /\ {} \in SUBSET P
  OBVIOUS
<1>3. v[1] = Given(ord)
  BY <1>1, <1>2 DEF Unwinding
<1>4. Given(ord) \in Outcomes(P)
  BY GivenOutcome
<1>5. R[Call(<<>>, {}, Given(ord))] = Given(ord)
  BY <1>2, <1>4, ResolverDone
<1> QED BY <1>1, <1>3, <1>5

LEMMA RestOf ==
  ASSUME NEW S, NEW s \in Seq(S), NEW i \in Nat \ {0}
  PROVE  /\ SubSeq(s, i, Len(s)) \in Seq(S) /\ SubSeq(s, 1, Len(s)) = s
         /\ i > Len(s) => SubSeq(s, i, Len(s)) = <<>>
         /\ i <= Len(s) => /\ SubSeq(s, i, Len(s)) # <<>> /\ Head(SubSeq(s, i, Len(s))) = s[i]
                           /\ Tail(SubSeq(s, i, Len(s))) = SubSeq(s, i + 1, Len(s))
<1> DEFINE n == Len(s)
           t == SubSeq(s, i, n)
           u == SubSeq(s, i + 1, n)
<1>1. n \in Nat
  OBVIOUS
<1>2. SubSeq(s, 1, n) = s
  OBVIOUS
<1>3. i > n => t = <<>>
  OBVIOUS
<1>4. ASSUME i <= n
      PROVE  /\ t \in Seq(S) /\ Len(t) = n - i + 1 /\ \A k \in 1..(n - i + 1) : t[k] = s[i + k - 1]
             /\ u \in Seq(S) /\ Len(u) = n - i /\ \A k \in 1..(n - i) : u[k] = s[i + k]
  BY <1>4
<1>5. <<>> \in Seq(S)
  OBVIOUS
<1>6. ASSUME i <= n PROVE t # <<>> /\ Head(t) = s[i] /\ Tail(t) = u
  <2> DEFINE m == n - i
  <2>1. /\ m \in Nat /\ t \in Seq(S) /\ Len(t) = m + 1 /\ \A k \in 1..(m + 1) : t[k] = s[i + k - 1]
        /\ u \in Seq(S) /\ Len(u) = m /\ \A k \in 1..m : u[k] = s[i + k]
    BY <1>1, <1>4, <1>6
  <2> HIDE DEF t, u, m
  <2>2. t # <<>> /\ Head(t) = t[1] /\ t[1] = s[i]
    BY <2>1
  <2>3. Tail(t) \in Seq(S) /\ Len(Tail(t)) = m /\ \A k \in 1..m : Tail(t)[k] = t[k + 1]
    BY <2>1, <2>2
  <2>4. ASSUME NEW k \in 1..m PROVE Tail(t)[k] = u[k]
    <3>1. k + 1 \in 1..(m + 1) /\ i + (k + 1) - 1 = i + k
      BY <2>1
    <3> QED BY <2>1, <2>3, <3>1
  <2>5. Tail(t) = u
    BY <2>1, <2>3, <2>4
  <2> QED BY <2>2, <2>5
<1>7. t \in Seq(S)
  <2>1. CASE i <= n
    BY <2>1, <1>4
  <2>2. CASE i > n
    <3>1. t = <<>>
      BY <2>2, <1>3
    <3> HIDE DEF t
    <3> QED BY <3>1, <1>5
  <2> QED BY <1>1, <2>1, <2>2
<1> HIDE DEF t, u
<1> QED BY <1>1, <1>2, <1>3, <1>6, <1>7 DEF t, u

\* A call for the next selected package.
LEMMA WalkVisits ==
  ASSUME NEW P, NEW deps, NEW R, Resolves(P, deps, R), NEW ord \in Seq(P), NEW goal,
         NEW ahead \in Seq(P), ahead # <<>>, ComesTo(P, deps, R, ahead, <<>>, ord, goal)
  PROVE  ComesTo(P, deps, R, Tail(ahead), Append(<<>>, [package |-> Head(ahead), next |-> 1]), ord, goal)
<1> DEFINE p == Head(ahead)
           st == Append(<<>>, [package |-> p, next |-> 1])
           added == AddOnce(p, R[Call(deps[p], {} \cup {p}, Given(ord))])
           v == [k \in 1..2 |-> IF k = 1 THEN added ELSE Given(ord)]
<1>1. PICK w : Unwinding(P, deps, R, <<>>, ord, w) /\ R[Call(ahead, {}, w[1])] = goal
  BY DEF ComesTo
<1>2. w[1] = Given(ord)
  <2>1. Len(<<>>) + 1 = 1
    OBVIOUS
  <2> QED BY <1>1, <2>1 DEF Unwinding
<1>3. Given(ord) \in Outcomes(P) /\ ~Given(ord).cycle
  BY GivenOutcome
<1>4. added \in Outcomes(P) /\ R[Call(ahead, {}, Given(ord))] = R[Call(Tail(ahead), {}, added)]
  <2> DEFINE none == {}
             before == Given(ord)
             rest == Tail(ahead)
  <2>1. none \in SUBSET P /\ p \notin none /\ before \in Outcomes(P) /\ ~before.cycle
    BY <1>3
  <2>2. AddsFirst(P, deps, R, ahead, none, before, rest, added)
    BY <2>1 DEF AddsFirst
  <2> HIDE DEF none, before, rest, added, p
  <2>3. added \in Outcomes(P) /\ R[Call(ahead, none, before)] = R[Call(rest, none, added)]
    BY <2>2, ResolverAdds
  <2> QED BY <2>3 DEF none, before, rest
<1>5. p \in P /\ deps[p] \in Seq(P)
  BY DEF Resolves
<1>6. Len(st) = 1 /\ st[1].package = p /\ st[1].next = 1
  OBVIOUS
<1>7. Left(deps, st[1]) = deps[p]
  BY <1>5, <1>6, RestOf DEF Left
<1>8. CallersTo(st, 1) = {} \cup {p}
  BY <1>6 DEF CallersTo
<1> HIDE DEF added, st
<1>9. v[1] = added /\ v[2] = Given(ord)
  OBVIOUS
<1> HIDE DEF v
<1>10. v[1] = AddOnce(p, R[Call(Left(deps, st[1]), CallersTo(st, 1), v[2])])
  BY <1>7, <1>8, <1>9 DEF added
<1>11. Unwinding(P, deps, R, st, ord, v)
  BY <1>3, <1>4, <1>6, <1>9, <1>10 DEF Unwinding
<1> QED BY <1>1, <1>2, <1>4, <1>9, <1>11 DEF ComesTo, st

\* A call comes to an end.
LEMMA WalkReturns ==
  ASSUME NEW P, NEW deps, NEW R, Resolves(P, deps, R), NEW ord \in Seq(P), NEW goal,
         NEW ahead \in Seq(P), NEW st \in Seq(Frame(P)), st # <<>>,
         st[Len(st)].next > Len(deps[st[Len(st)].package]),
         ComesTo(P, deps, R, ahead, st, ord, goal)
  PROVE  ComesTo(P, deps, R, ahead, Front(st),
                 IF Contains(ord, st[Len(st)].package) THEN ord ELSE Append(ord, st[Len(st)].package),
                 goal)
<1> DEFINE m == Len(st)
           p == st[m].package
           longer == IF Contains(ord, p) THEN ord ELSE Append(ord, p)
<1>1. PICK v : Unwinding(P, deps, R, st, ord, v) /\ R[Call(ahead, {}, v[1])] = goal
  BY DEF ComesTo
<1>2. /\ m \in Nat \ {0} /\ Len(Front(st)) = m - 1 /\ \A i \in 1..(m - 1) : Front(st)[i] = st[i]
      /\ \A i \in 1..m : st[i].package \in P /\ st[i].next \in Nat \ {0}
  <2>1. \A i \in 1..m : st[i] \in Frame(P)
    OBVIOUS
  <2> QED BY <2>1, FrontProperties DEF Frame
<1>3. p \in P /\ deps[p] \in Seq(P) /\ st[m].next \in Nat \ {0} /\ m \in 1..m
  BY <1>2 DEF Resolves
<1>4. Left(deps, st[m]) = <<>>
  BY <1>3, RestOf DEF Left
<1>5. CallersTo(st, m) \in SUBSET P
  BY <1>2 DEF CallersTo
<1>6. v[m + 1] = Given(ord) /\ Given(ord) \in Outcomes(P)
  BY <1>1, GivenOutcome DEF Unwinding
<1>7. R[Call(<<>>, CallersTo(st, m), Given(ord))] = Given(ord)
  <2>1. <<>> \in Seq(P)
    OBVIOUS
  <2> QED BY <1>5, <1>6, ResolverDone
<1>8. v[m] = AddOnce(p, R[Call(Left(deps, st[m]), CallersTo(st, m), v[m + 1])])
  BY <1>1, <1>3 DEF Unwinding
<1>9. v[m] = AddOnce(p, Given(ord))
  BY <1>4, <1>6, <1>7, <1>8
<1>10. v[m] = Given(longer)
  BY <1>9 DEF AddOnce, Given
<1> HIDE DEF longer, p
<1>11. ASSUME NEW k \in 1..(m - 1)
       PROVE  v[k] = AddOnce(Front(st)[k].package,
                             R[Call(Left(deps, Front(st)[k]), CallersTo(Front(st), k), v[k + 1])])
  <2>1. Front(st)[k] = st[k] /\ k \in 1..m /\ \A j \in 1..k : Front(st)[j] = st[j]
    BY <1>2
  <2>2. CallersTo(Front(st), k) = CallersTo(st, k)
    BY <2>1 DEF CallersTo
  <2> QED BY <1>1, <2>1, <2>2 DEF Unwinding
<1>12. Unwinding(P, deps, R, Front(st), longer, v)
  <2>1. Len(Front(st)) + 1 = m /\ \A k \in 1..m : k \in 1..(m + 1)
    BY <1>2
  <2>2. \A k \in 1..m : v[k] \in Outcomes(P)
    BY <1>1, <2>1 DEF Unwinding
  <2> QED BY <1>2, <1>10, <1>11, <2>1, <2>2 DEF Unwinding
<1> QED BY <1>1, <1>12 DEF ComesTo, longer, p

\* An exception reaches the end through all the calls in progress.
LEMMA ThrownThrough ==
  ASSUME NEW P, NEW deps, NEW R, Resolves(P, deps, R), NEW ord \in Seq(P),
         NEW st \in Seq(Frame(P)), NEW v, Unwinding(P, deps, R, st, ord, v), NEW m \in 1..Len(st), v[m] = Thrown
  PROVE  v[1] = Thrown
<1> DEFINE good == {k \in 1..m : v[m + 1 - k] = Thrown}
<1>1. 1 \in good
  OBVIOUS
<1>2. Thrown.cycle /\ Thrown \in [cycle: BOOLEAN, resolved: Seq(P)]
  BY DEF Thrown
<1>3. ASSUME NEW k \in 1..(m - 1), k \in good PROVE k + 1 \in good
  <2> DEFINE i == m + 1 - (k + 1)
  <2>1. i \in 1..Len(st) /\ i + 1 = m + 1 - k /\ v[i + 1] = Thrown
    BY <1>3
  <2> HIDE DEF i
  <2>2. /\ v[i] = AddOnce(st[i].package, R[Call(Left(deps, st[i]), CallersTo(st, i), v[i + 1])])
        /\ st[i] \in Frame(P)
    BY <2>1 DEF Unwinding
  <2>3. Left(deps, st[i]) \in Seq(P) /\ CallersTo(st, i) \in SUBSET P
    <3>1. deps[st[i].package] \in Seq(P) /\ st[i].next \in Nat \ {0}
      BY <2>2 DEF Frame, Resolves
    <3>2. \A j \in 1..i : st[j] \in Frame(P)
      BY <2>1
    <3>3. Left(deps, st[i]) \in Seq(P)
      BY <3>1, RestOf DEF Left
    <3> QED BY <3>2, <3>3 DEF CallersTo, Frame
  <2>4. R[Call(Left(deps, st[i]), CallersTo(st, i), Thrown)] = Thrown
    BY <2>3, ResolverPasses
  <2>5. v[i] = Thrown
    BY <1>2, <2>1, <2>2, <2>4 DEF AddOnce
  <2> QED BY <1>3, <2>5 DEF i
<1> HIDE DEF good
<1>4. m \in good
  BY <1>1, <1>3, CountUp
<1> QED BY <1>4 DEF good

\* A call in progress makes another, or finds its package among its callers.
LEMMA WalkDescends ==
  ASSUME NEW P, NEW deps, NEW R, Resolves(P, deps, R), NEW ord \in Seq(P), NEW goal,
         NEW ahead \in Seq(P), NEW st \in Seq(Frame(P)), st # <<>>,
         st[Len(st)].next <= Len(deps[st[Len(st)].package]),
         ComesTo(P, deps, R, ahead, st, ord, goal)
  PROVE  LET p == deps[st[Len(st)].package][st[Len(st)].next]
         IN  /\ p \in P
             /\ p \in CallersTo(st, Len(st)) => goal = Thrown
             /\ p \notin CallersTo(st, Len(st)) =>
                  ComesTo(P, deps, R, ahead,
                          Append([st EXCEPT ![Len(st)].next = @ + 1], [package |-> p, next |-> 1]),
                          ord, goal)
<1> DEFINE m == Len(st)
           q == st[m].package
           n == st[m].next
           p == deps[q][n]
           callers == CallersTo(st, m)
           turned == [st EXCEPT ![m].next = @ + 1]
           longer == Append(turned, [package |-> p, next |-> 1])
           added == AddOnce(p, R[Call(deps[p], callers \cup {p}, Given(ord))])
<1>1. PICK v : Unwinding(P, deps, R, st, ord, v) /\ R[Call(ahead, {}, v[1])] = goal
  BY DEF ComesTo
<1>2. /\ m \in Nat \ {0} /\ m \in 1..m
      /\ \A i \in 1..m : st[i] \in Frame(P) /\ st[i].package \in P /\ st[i].next \in Nat \ {0}
  <2>1. \A i \in 1..m : st[i] \in Frame(P)
    OBVIOUS
  <2> QED BY <2>1 DEF Frame
<1>3. q \in P /\ deps[q] \in Seq(P) /\ n \in 1..Len(deps[q]) /\ p \in P /\ deps[p] \in Seq(P)
  <2>1. q \in P /\ deps[q] \in Seq(P) /\ n \in Nat \ {0}
    BY <1>2 DEF Resolves
  <2>2. n \in 1..Len(deps[q]) /\ p \in P
    BY <2>1
  <2> QED BY <2>1, <2>2 DEF Resolves
<1>4. callers \in SUBSET P
  BY <1>2 DEF CallersTo
<1>5. v[m + 1] = Given(ord) /\ Given(ord) \in Outcomes(P) /\ ~Given(ord).cycle
  BY <1>1, GivenOutcome DEF Unwinding
<1>6. v[m] = AddOnce(q, R[Call(Left(deps, st[m]), callers, Given(ord))])
  BY <1>1, <1>2, <1>5 DEF Unwinding
<1>7. /\ Left(deps, st[m]) \in Seq(P) /\ Left(deps, st[m]) # <<>> /\ Head(Left(deps, st[m])) = p
      /\ Tail(Left(deps, st[m])) = SubSeq(deps[q], n + 1, Len(deps[q]))
  BY <1>2, <1>3, RestOf DEF Left
<1>8. ASSUME p \in callers PROVE goal = Thrown
  <2>1. R[Call(Left(deps, st[m]), callers, Given(ord))] = Thrown
    BY <1>4, <1>5, <1>7, <1>8, ResolverThrows
  <2>2. v[m] = Thrown
    BY <1>6, <2>1 DEF AddOnce, Thrown
  <2>3. v[1] = Thrown
    BY <1>1, <1>2, <2>2, ThrownThrough
  <2>4. Thrown.cycle /\ Thrown \in Outcomes(P) /\ {} \in SUBSET P
    BY DEF Thrown, Outcomes
  <2>5. R[Call(ahead, {}, Thrown)] = Thrown
    BY <2>4, ResolverPasses
  <2> QED BY <1>1, <2>3, <2>5
<1>9. ASSUME p \notin callers PROVE ComesTo(P, deps, R, ahead, longer, ord, goal)
  <2> DEFINE w == [k \in 1..(m + 2) |-> IF k <= m THEN v[k] ELSE IF k = m + 1 THEN added ELSE Given(ord)]
  <2>1. /\ added \in Outcomes(P)
        /\ R[Call(Left(deps, st[m]), callers, Given(ord))]
             = R[Call(SubSeq(deps[q], n + 1, Len(deps[q])), callers, added)]
    <3> DEFINE before == Given(ord)
               keys == Left(deps, st[m])
               rest == SubSeq(deps[q], n + 1, Len(deps[q]))
    <3>1. /\ keys \in Seq(P) /\ keys # <<>> /\ p = Head(keys) /\ rest = Tail(keys) /\ p \notin callers
          /\ callers \in SUBSET P /\ before \in Outcomes(P) /\ ~before.cycle
      BY <1>4, <1>5, <1>7, <1>9
    <3>2. AddsFirst(P, deps, R, keys, callers, before, rest, added)
      <4>1. added = AddOnce(p, R[Call(deps[p], callers \cup {p}, before)])
        OBVIOUS
      <4> HIDE DEF before, keys, rest, added, p, callers
      <4> QED BY <3>1, <4>1 DEF AddsFirst
    <3> HIDE DEF before, keys, rest, added, p, callers
    <3>3. added \in Outcomes(P) /\ R[Call(keys, callers, before)] = R[Call(rest, callers, added)]
      BY <3>2, ResolverAdds
    <3> QED BY <3>3 DEF before, keys, rest
  <2>2. /\ Len(longer) = m + 1 /\ longer[m + 1].package = p /\ longer[m + 1].next = 1
        /\ longer[m].package = q /\ longer[m].next = n + 1
        /\ \A i \in 1..(m - 1) : longer[i] = st[i]
        /\ \A i \in 1..m : longer[i].package = st[i].package
    <3>1. /\ Len(turned) = m /\ turned[m].package = q /\ turned[m].next = n + 1
          /\ \A i \in 1..(m - 1) : turned[i] = st[i]
          /\ turned \in Seq(Frame(P))
      <4>1. st[m] \in Frame(P) /\ m \in 1..m
        BY <1>2
      <4>2. [st[m] EXCEPT !.next = @ + 1] \in Frame(P)
        BY <4>1 DEF Frame
      <4> QED BY <1>2, <4>1, <4>2 DEF Frame
    <3> HIDE DEF turned
    <3>2. /\ Len(longer) = m + 1 /\ longer[m + 1] = [package |-> p, next |-> 1]
          /\ \A i \in 1..m : longer[i] = turned[i]
      BY <1>2, <3>1
    <3> HIDE DEF longer
    <3>3. \A i \in 1..m : i = m \/ i \in 1..(m - 1)
      BY <1>2
    <3> QED BY <1>2, <3>1, <3>2, <3>3
  <2> HIDE DEF longer, added, p, q, n, callers
  <2>3. /\ \A k \in 1..m : w[k] = v[k]
        /\ w[m + 1] = added /\ w[m + 2] = Given(ord)
    BY <1>2
  <2> HIDE DEF w
  <2>4. ASSUME NEW k \in 1..m PROVE CallersTo(longer, k) = CallersTo(st, k)
    <3>1. \A j \in 1..k : longer[j].package = st[j].package
      BY <1>2, <2>2
    <3> QED BY <3>1 DEF CallersTo
  <2>5. CallersTo(longer, m + 1) = callers \cup {p}
    <3>1. 1..(m + 1) = (1..m) \cup {m + 1}
      BY <1>2
    <3>2. CallersTo(longer, m + 1) = CallersTo(longer, m) \cup {longer[m + 1].package}
      BY <3>1 DEF CallersTo
    <3>3. CallersTo(longer, m) = callers
      BY <1>2, <2>4 DEF callers
    <3> QED BY <2>2, <3>2, <3>3
  <2>6. /\ Left(deps, longer[m + 1]) = deps[p]
        /\ Left(deps, longer[m]) = SubSeq(deps[q], n + 1, Len(deps[q]))
    BY <1>3, <2>2, RestOf DEF Left
  <2>7. ASSUME NEW k \in 1..(m + 1)
        PROVE  w[k] = AddOnce(longer[k].package,
                              R[Call(Left(deps, longer[k]), CallersTo(longer, k), w[k + 1])])
    <3>1. CASE k \in 1..(m - 1)
      <4>1. k \in 1..m /\ k + 1 \in 1..m
        BY <1>2, <3>1
      <4>2. v[k] = AddOnce(st[k].package, R[Call(Left(deps, st[k]), CallersTo(st, k), v[k + 1])])
        BY <1>1, <4>1 DEF Unwinding
      <4>3. longer[k] = st[k] /\ CallersTo(longer, k) = CallersTo(st, k) /\ w[k] = v[k] /\ w[k + 1] = v[k + 1]
        BY <2>2, <2>3, <2>4, <3>1, <4>1
      <4> QED BY <4>2, <4>3
    <3>2. CASE k = m
      <4>1. CallersTo(longer, m) = callers
        BY <1>2, <2>4 DEF callers
      <4> QED BY <1>2, <1>6, <2>1, <2>2, <2>3, <2>6, <3>2, <4>1
    <3>3. CASE k = m + 1
      <4>1. added = AddOnce(p, R[Call(deps[p], callers \cup {p}, Given(ord))])
        BY DEF added
      <4>2. k + 1 = m + 2
        BY <1>2, <3>3
      <4> QED BY <2>2, <2>3, <2>5, <2>6, <3>3, <4>1, <4>2
    <3> QED BY <1>2, <3>1, <3>2, <3>3
  <2>8. ASSUME NEW k \in 1..(m + 2) PROVE w[k] \in Outcomes(P)
    <3>1. CASE k \in 1..m
      <4>1. k \in 1..(m + 1)
        BY <1>2, <3>1
      <4> QED BY <1>1, <2>3, <3>1, <4>1 DEF Unwinding
    <3>2. CASE k \notin 1..m
      <4>0. m \in Nat /\ k \in Nat /\ 1 <= k /\ k <= m + 2 /\ ~(k <= m)
        BY <1>2, <3>2
      <4>1. k = m + 1 \/ k = m + 2
        BY <4>0
      <4> QED BY <1>5, <2>1, <2>3, <4>1
    <3> QED BY <3>1, <3>2
  <2>9. Unwinding(P, deps, R, longer, ord, w)
    <3>1. Len(longer) + 1 = m + 2
      BY <1>2, <2>2
    <3> QED BY <2>2, <2>3, <2>7, <2>8, <3>1 DEF Unwinding
  <2>10. w[1] = v[1]
    BY <1>2, <2>3
  <2> QED BY <1>1, <2>9, <2>10 DEF ComesTo
<1> QED BY <1>3, <1>8, <1>9

-----------------------------------------------------------------------------
\* What the calls of the PowerShell engine come to, for the packages selected.
Calling == Resolver(Packages, catalog.dependencies)
Goal == Calling[Call(Roots(input.profile, SelectedPacks(input)), {}, Given(<<>>))]

Conflicting == \E p, q \in ToSet(order) : q \in catalog.conflicts[p]

\* From every state of Build's walk those calls come to the same, and so at its end.
Resolving ==
  /\ phase = "walk" => ComesTo(Packages, catalog.dependencies, Calling, roots, stack, order, Goal)
  /\ phase = "built" =>
       \/ result.error \in {"unknown-profile", "unknown-pack"}
       \/ result.error = "cycle" /\ Goal = Thrown
       \/ /\ result.error \notin {"unknown-profile", "unknown-pack", "cycle"}
          /\ Goal = Given(order) /\ (result.error = "conflict" <=> Conflicting)

LEMMA SameGoal ==
  ASSUME UNCHANGED <<catalog, input>>
  PROVE  Packages' = Packages /\ Calling' = Calling /\ Goal' = Goal
<1>1. Packages' = Packages
  BY SameCatalog
<1>2. Calling' = Calling
  BY <1>1 DEF Calling
<1>3. Roots(input.profile, SelectedPacks(input))' = Roots(input.profile, SelectedPacks(input))
  BY SameBeginning DEF Beginning
<1> QED BY <1>1, <1>2, <1>3 DEF Goal

LEMMA CallingResolves ==
  ASSUME CatalogOK(catalog), IsFiniteSet(Packages)
  PROVE  Resolves(Packages, catalog.dependencies, Calling)
BY DEF Resolves, Calling, CatalogOK, Packages

LEMMA SelectResolves == PlanInv /\ IsFiniteSet(Packages) /\ Resolving /\ Select => Resolving'
<1> SUFFICES ASSUME PlanInv, Select PROVE Resolving'
  OBVIOUS
<1>1. stack = <<>> /\ order' = <<>> /\ stack' = <<>> /\ UNCHANGED catalog /\ phase = "select"
  BY DEF PlanInv, WalkInv, Select
<1>2. CASE phase' = "built"
  <2>1. result' = Failed("unknown-profile") \/ result' = Failed("unknown-pack")
    BY <1>1, <1>2 DEF Select
  <2> QED BY <1>2, <2>1 DEF Failed, Resolving
<1>3. CASE phase' # "built"
  <2>1. /\ phase' = "walk" /\ UNCHANGED input
        /\ packs' = SelectedPacks(input) /\ roots' = Roots(input.profile, packs')
    BY <1>1, <1>3 DEF Select
  <2>2. roots' = Roots(input.profile, SelectedPacks(input))'
    <3>1. roots' = Roots(input.profile, SelectedPacks(input))
      BY <2>1 DEF Roots
    <3> QED BY <1>1, <2>1, <3>1, SameBeginning DEF Beginning
  <2>3. Goal' = Calling'[Call(roots', {}, Given(<<>>))]
    BY <2>2 DEF Goal
  <2> DEFINE R == Calling'
             P == Packages'
             deps == catalog'.dependencies
             ahead == roots'
  <2>4. ComesTo(P, deps, R, ahead, <<>>, <<>>, R[Call(ahead, {}, Given(<<>>))])
    <3> HIDE DEF R, P, deps, ahead
    <3> QED BY WalkBegins
  <2>5. ComesTo(Packages', catalog'.dependencies, Calling', roots', stack', order', Goal')
    BY <1>1, <2>3, <2>4
  <2> QED BY <2>1, <2>5 DEF Resolving
<1> QED BY <1>2, <1>3

LEMMA VisitResolves == PlanInv /\ IsFiniteSet(Packages) /\ Resolving /\ Visit => Resolving'
<1> SUFFICES ASSUME PlanInv, IsFiniteSet(Packages), Resolving, Visit PROVE Resolving'
  OBVIOUS
<1>1. /\ phase = "walk" /\ stack = <<>> /\ roots # <<>> /\ roots \in Seq(Packages) /\ order \in Seq(Packages)
      /\ UNCHANGED <<catalog, input, packs, order>> /\ roots' = Tail(roots)
  BY DEF PlanInv, WalkInv, Typed, Visit
<1>2. Head(roots) \in Packages
  BY <1>1
<1>3. stack' = Append(<<>>, [package |-> Head(roots), next |-> 1]) /\ phase' = "walk"
  BY <1>1, <1>2 DEF Visit, Enter
<1>4. Resolves(Packages, catalog.dependencies, Calling)
  BY CallingResolves DEF PlanInv, Typed
<1>5. ComesTo(Packages, catalog.dependencies, Calling, roots, <<>>, order, Goal)
  BY <1>1 DEF Resolving
<1> DEFINE P == Packages
           deps == catalog.dependencies
           R == Calling
           ahead == roots
           ord == order
           goal == Goal
<1>6. ComesTo(P, deps, R, Tail(ahead), Append(<<>>, [package |-> Head(ahead), next |-> 1]), ord, goal)
  <2>1. /\ Resolves(P, deps, R) /\ ord \in Seq(P) /\ ahead \in Seq(P) /\ ahead # <<>>
        /\ ComesTo(P, deps, R, ahead, <<>>, ord, goal)
    BY <1>1, <1>4, <1>5
  <2> HIDE DEF P, deps, R, ahead, ord, goal
  <2> QED BY <2>1, WalkVisits
<1>7. ComesTo(Packages', catalog'.dependencies, Calling', roots', stack', order', Goal')
  BY <1>1, <1>3, <1>6, SameGoal
<1> QED BY <1>3, <1>7 DEF Resolving

LEMMA ReturnResolves == PlanInv /\ IsFiniteSet(Packages) /\ Resolving /\ Return => Resolving'
<1> SUFFICES ASSUME PlanInv, IsFiniteSet(Packages), Resolving, Return PROVE Resolving'
  OBVIOUS
<1>1. /\ phase = "walk" /\ phase' = "walk" /\ stack # <<>> /\ ~Pending
      /\ stack \in Seq(Frame(Packages)) /\ roots \in Seq(Packages) /\ order \in Seq(Packages)
      /\ UNCHANGED <<catalog, input, packs, roots>> /\ stack' = Front(stack)
      /\ order' = IF Contains(order, Top.package) THEN order ELSE Append(order, Top.package)
  BY DEF PlanInv, WalkInv, Typed, Return
<1>2. Resolves(Packages, catalog.dependencies, Calling)
  BY CallingResolves DEF PlanInv, Typed
<1>3. ComesTo(Packages, catalog.dependencies, Calling, roots, stack, order, Goal)
  BY <1>1 DEF Resolving
<1>4. stack[Len(stack)].next > Len(catalog.dependencies[stack[Len(stack)].package])
  <2>1. /\ stack[Len(stack)] \in Frame(Packages)
        /\ catalog.dependencies \in [Packages -> Seq(Packages)]
    BY <1>1 DEF PlanInv, WalkInv
  <2>2. stack[Len(stack)].next \in Nat /\ Len(catalog.dependencies[stack[Len(stack)].package]) \in Nat
    BY <2>1 DEF Frame
  <2> QED BY <1>1, <2>2 DEF Pending, Top
<1> DEFINE P == Packages
           deps == catalog.dependencies
           R == Calling
           ahead == roots
           ord == order
           st == stack
           goal == Goal
<1>5. ComesTo(P, deps, R, ahead, Front(st),
              IF Contains(ord, st[Len(st)].package) THEN ord ELSE Append(ord, st[Len(st)].package), goal)
  <2>1. /\ Resolves(P, deps, R) /\ ord \in Seq(P) /\ ahead \in Seq(P) /\ st \in Seq(Frame(P)) /\ st # <<>>
        /\ st[Len(st)].next > Len(deps[st[Len(st)].package])
        /\ ComesTo(P, deps, R, ahead, st, ord, goal)
    BY <1>1, <1>2, <1>3, <1>4
  <2> HIDE DEF P, deps, R, ahead, ord, st, goal
  <2> QED BY <2>1, WalkReturns
<1>6. ComesTo(Packages', catalog'.dependencies, Calling', roots', stack', order', Goal')
  BY <1>1, <1>5, SameGoal DEF Top
<1> QED BY <1>1, <1>6 DEF Resolving

LEMMA DescendResolves == PlanInv /\ IsFiniteSet(Packages) /\ Resolving /\ Descend => Resolving'
<1> SUFFICES ASSUME PlanInv, IsFiniteSet(Packages), Resolving, Descend PROVE Resolving'
  OBVIOUS
<1> DEFINE callers == [stack EXCEPT ![Len(stack)].next = @ + 1]
           p == catalog.dependencies[stack[Len(stack)].package][stack[Len(stack)].next]
<1>1. /\ phase = "walk" /\ stack # <<>> /\ Pending /\ Enter(p, callers)
      /\ stack \in Seq(Frame(Packages)) /\ roots \in Seq(Packages) /\ order \in Seq(Packages)
      /\ UNCHANGED <<catalog, input, packs, roots, order>>
  BY DEF PlanInv, WalkInv, Typed, Descend, Top
<1>2. Resolves(Packages, catalog.dependencies, Calling)
  BY CallingResolves DEF PlanInv, Typed
<1>3. ComesTo(Packages, catalog.dependencies, Calling, roots, stack, order, Goal)
  BY <1>1 DEF Resolving
<1>4. stack[Len(stack)].next <= Len(catalog.dependencies[stack[Len(stack)].package])
  BY <1>1 DEF Pending, Top
<1>5. /\ p \in Packages
      /\ p \in CallersTo(stack, Len(stack)) => Goal = Thrown
      /\ p \notin CallersTo(stack, Len(stack)) =>
           ComesTo(Packages, catalog.dependencies, Calling, roots,
                   Append(callers, [package |-> p, next |-> 1]), order, Goal)
  <2> DEFINE P == Packages
             deps == catalog.dependencies
             R == Calling
             ahead == roots
             ord == order
             st == stack
             goal == Goal
  <2>1. /\ Resolves(P, deps, R) /\ ord \in Seq(P) /\ ahead \in Seq(P) /\ st \in Seq(Frame(P)) /\ st # <<>>
        /\ st[Len(st)].next <= Len(deps[st[Len(st)].package])
        /\ ComesTo(P, deps, R, ahead, st, ord, goal)
    BY <1>1, <1>2, <1>3, <1>4
  <2>2. LET x == deps[st[Len(st)].package][st[Len(st)].next]
        IN  /\ x \in P
            /\ x \in CallersTo(st, Len(st)) => goal = Thrown
            /\ x \notin CallersTo(st, Len(st)) =>
                 ComesTo(P, deps, R, ahead,
                         Append([st EXCEPT ![Len(st)].next = @ + 1], [package |-> x, next |-> 1]),
                         ord, goal)
    <3> HIDE DEF P, deps, R, ahead, ord, st, goal, callers, p
    <3> QED BY <2>1, WalkDescends
  <2> QED BY <2>2
<1>6. (\E k \in DOMAIN callers : callers[k].package = p) <=> p \in CallersTo(stack, Len(stack))
  <2>1. Len(stack) \in 1..Len(stack) /\ stack[Len(stack)] \in Frame(Packages)
    BY <1>1
  <2>2. DOMAIN callers = 1..Len(stack) /\ \A k \in 1..Len(stack) : callers[k].package = stack[k].package
    BY <1>1, <2>1 DEF Frame
  <2> HIDE DEF callers, p
  <2> QED BY <2>2 DEF CallersTo
<1> HIDE DEF p, callers
<1>7. CASE p \in CallersTo(stack, Len(stack))
  <2>1. phase' = "built" /\ result' = Failed("cycle")
    BY <1>1, <1>6, <1>7 DEF Enter
  <2>2. Goal' = Thrown
    BY <1>1, <1>5, <1>7, SameGoal
  <2> QED BY <2>1, <2>2 DEF Failed, Resolving
<1>8. CASE p \notin CallersTo(stack, Len(stack))
  <2>1. stack' = Append(callers, [package |-> p, next |-> 1]) /\ phase' = "walk"
    BY <1>1, <1>5, <1>6, <1>8 DEF Enter
  <2>2. ComesTo(Packages', catalog'.dependencies, Calling', roots', stack', order', Goal')
    BY <1>1, <1>5, <1>8, <2>1, SameGoal
  <2> QED BY <2>1, <2>2 DEF Resolving
<1> QED BY <1>7, <1>8

LEMMA AssembleResolves == PlanInv /\ IsFiniteSet(Packages) /\ Resolving /\ Assemble => Resolving'
<1> SUFFICES ASSUME PlanInv, IsFiniteSet(Packages), Resolving, Assemble PROVE Resolving'
  OBVIOUS
<1>1. /\ phase = "walk" /\ phase' = "built" /\ stack = <<>> /\ roots = <<>> /\ result' = Assembled
      /\ order \in Seq(Packages) /\ UNCHANGED <<catalog, input, packs, order>>
  BY DEF PlanInv, WalkInv, Typed, Assemble
<1>2. Resolves(Packages, catalog.dependencies, Calling)
  BY CallingResolves DEF PlanInv, Typed
<1>3. ComesTo(Packages, catalog.dependencies, Calling, <<>>, <<>>, order, Goal)
  BY <1>1 DEF Resolving
<1>4. Goal = Given(order)
  <2> DEFINE P == Packages
             deps == catalog.dependencies
             R == Calling
             ord == order
             goal == Goal
  <2>1. Resolves(P, deps, R) /\ ord \in Seq(P) /\ ComesTo(P, deps, R, <<>>, <<>>, ord, goal)
    BY <1>1, <1>2, <1>3
  <2> HIDE DEF P, deps, R, ord, goal
  <2>2. goal = Given(ord)
    BY <2>1, WalkEnds
  <2> QED BY <2>2 DEF goal, ord
<1>5. /\ Assembled.error \in {"conflict", "unsupported", "topology", "none"}
      /\ Assembled.error = "conflict" <=> Conflicting
  <2>1. CASE Conflicting
    BY <2>1 DEF Assembled, Failed, Conflicting
  <2>2. CASE ~Conflicting
    <3>1. Assembled.error \in {"unsupported", "topology", "none"}
      BY <2>2, ZenonT(30) DEF Assembled, Failed, Conflicting
    <3> QED BY <2>2, <3>1
  <2> QED BY <2>1, <2>2
<1>6. Goal' = Given(order') /\ (Conflicting' <=> Conflicting)
  BY <1>1, <1>4, SameGoal DEF Conflicting
<1>7. result'.error \notin {"unknown-profile", "unknown-pack", "cycle"} /\ (result'.error = "conflict" <=> Conflicting')
  BY <1>1, <1>5, <1>6
<1> QED BY <1>1, <1>6, <1>7 DEF Resolving

LEMMA ResolvingStep == PlanInv /\ IsFiniteSet(Packages) /\ Resolving /\ [Next]_vars => Resolving'
<1> SUFFICES ASSUME PlanInv, IsFiniteSet(Packages), Resolving, [Next]_vars PROVE Resolving'
  OBVIOUS
<1>1. CASE Select \/ Visit \/ Descend \/ Return \/ Assemble
  BY <1>1, SelectResolves, VisitResolves, DescendResolves, ReturnResolves, AssembleResolves
<1>2. CASE Validate \/ Compare
  BY <1>2 DEF Validate, Compare, Resolving
<1>3. CASE UNCHANGED vars
  <2>1. UNCHANGED <<catalog, input, phase, packs, roots, stack, order, result>>
    BY <1>3 DEF vars
  <2>2. Packages' = Packages /\ Calling' = Calling /\ Goal' = Goal /\ (Conflicting' <=> Conflicting)
    BY <2>1, SameGoal DEF Conflicting
  <2> QED BY <2>1, <2>2 DEF Resolving
<1> QED BY <1>1, <1>2, <1>3 DEF Next

\* What the two engines come to is the same.
LEMMA AgreeingNow ==
  ASSUME PlanInv, Resolving PROVE EnginesAgree
<1> SUFFICES ASSUME phase = "built", result.error \notin {"unknown-profile", "unknown-pack"}
             PROVE  IF result.error \in {"cycle", "conflict"} THEN ResolveSetupPlan.error = result.error
                    ELSE ResolveSetupPlan.error = "none" /\ ResolveSetupPlan.packages = order
  BY DEF EnginesAgree
<1>1. AddPackages[Call(Roots(input.profile, SelectedPacks(input)), {}, [cycle |-> FALSE, resolved |-> <<>>])] = Goal
  BY AddsPackages DEF Goal, Calling, Given
<1>2. /\ ResolveSetupPlan.error = IF Goal.cycle THEN "cycle"
                                  ELSE IF \E p, q \in ToSet(Goal.resolved) : q \in catalog.conflicts[p]
                                  THEN "conflict" ELSE "none"
      /\ ResolveSetupPlan.packages = Goal.resolved
  BY <1>1 DEF ResolveSetupPlan
<1>3. CASE result.error = "cycle"
  <2>1. Goal = Thrown
    BY <1>3 DEF Resolving
  <2>2. Goal.cycle
    BY <2>1 DEF Thrown
  <2> QED BY <1>2, <1>3, <2>2
<1>4. CASE result.error # "cycle"
  <2>1. Goal = Given(order) /\ (result.error = "conflict" <=> Conflicting)
    BY <1>4 DEF Resolving
  <2>2. ~Goal.cycle /\ Goal.resolved = order
    BY <2>1 DEF Given
  <2>3. ResolveSetupPlan.error = (IF Conflicting THEN "conflict" ELSE "none") /\ ResolveSetupPlan.packages = order
    BY <1>2, <2>2 DEF Conflicting
  <2> QED BY <1>2, <1>4, <2>1, <2>3
<1> QED BY <1>3, <1>4

\* The packages are those of the file, finitely many.
LEMMA PackagesFinite ==
  ASSUME C!IsDocument(document), catalog = C!CatalogsFor(document, target)
  PROVE  IsFiniteSet(Packages)
<1> DEFINE ids == C!Ids(document.packages)
           list == document.packages
           s == DOMAIN list
<1>1. Packages = ids
  <2>1. C!CatalogsFor(document, target).dependencies =
          [q \in ids |-> C!ById(document.packages)[q].dependencies]
    <3> HIDE DEF ids
    <3> QED BY PackagesFor, ZenonT(30) DEF ids
  <2> HIDE DEF ids
  <2> QED BY <2>1 DEF Packages
<1>2. list \in Seq(C!ToSet(list))
  BY DEF C!IsDocument
<1>3. Len(list) \in Nat /\ s = 1..Len(list)
  BY <1>2
<1>4. IsFiniteSet(s)
  BY <1>3, FS_Interval
<1>5. ids = {list[i].id : i \in s}
  BY DEF C!Ids
<1> HIDE DEF list, s, ids
<1> DEFINE naming == [i \in s |-> list[i].id]
<1>6. naming \in Surjection(s, ids)
  BY <1>5 DEF Surjection
<1> HIDE DEF naming
<1>7. IsFiniteSet(ids)
  BY <1>4, <1>6, FS_Surjection
<1> QED BY <1>1, <1>7

\* The invariant, once files are loaded.
ResolvingLoaded == loaded = "accepted" => Resolving

LEMMA ResolvingLoadedStep ==
  Loading /\ Loading' /\ ResolvingLoaded /\ [PlanningNext]_<<vars, files>> => ResolvingLoaded'
<1> SUFFICES ASSUME Loading, ResolvingLoaded, [PlanningNext]_<<vars, files>> PROVE ResolvingLoaded'
  OBVIOUS
<1>1. CASE Load
  <2>1. loaded' # "accepted" \/ phase' = "select"
    BY <1>1 DEF Load
  <2> QED BY <2>1 DEF ResolvingLoaded, Resolving
<1>2. CASE Plan
  <2>1. loaded = "accepted" /\ Next /\ PlanInv /\ Resolving
    BY <1>2 DEF Plan, Loading, ResolvingLoaded
  <2>2. IsFiniteSet(Packages)
    BY <2>1, DocumentsAssumption, PackagesFinite DEF Loading
  <2>3. Resolving'
    BY <2>1, <2>2, ResolvingStep
  <2> QED BY <2>3 DEF ResolvingLoaded
<1>3. CASE UNCHANGED <<vars, files>>
  <2>1. UNCHANGED vars /\ UNCHANGED <<document, target, loaded>>
    BY <1>3 DEF files
  <2>2. CASE loaded = "accepted"
    <3>1. PlanInv /\ Resolving
      BY <2>2 DEF Loading, ResolvingLoaded
    <3>2. IsFiniteSet(Packages)
      BY <2>2, DocumentsAssumption, PackagesFinite DEF Loading
    <3> QED BY <2>1, <3>1, <3>2, ResolvingStep DEF ResolvingLoaded
  <2>3. CASE loaded # "accepted"
    BY <2>1, <2>3 DEF ResolvingLoaded
  <2> QED BY <2>2, <2>3
<1> QED BY <1>1, <1>2, <1>3 DEF PlanningNext

\* For all files that Load accepts and every request, Add-Package, which calls
\* itself, and addPackage, modelled as a walk with a stack, resolve from one
\* selection the same packages in the same order and stop at the same cycles and
\* conflicts (setup.ps1:247-272, planner.go:152-231; docs/Testing.md:17).
THEOREM EnginesResolveAlike == PlanningSpec => []EnginesAgree
<1>1. LoadInit => ResolvingLoaded
  BY DEF LoadInit, ResolvingLoaded
<1>2. PlanningSpec => []ResolvingLoaded
  BY <1>1, LoadingInvariant, ResolvingLoadedStep, PTL DEF PlanningSpec
<1>3. Loading /\ ResolvingLoaded => EnginesAgree
  <2>1. CASE loaded = "accepted"
    BY <2>1, AgreeingNow DEF ResolvingLoaded, Loading
  <2>2. CASE loaded # "accepted"
    BY <2>2 DEF Loading, EnginesAgree
  <2> QED BY <2>1, <2>2
<1> QED BY <1>2, <1>3, LoadingInvariant, PTL
=============================================================================
