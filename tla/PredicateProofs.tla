-------------------------- MODULE PredicateProofs ---------------------------
(***************************************************************************)
(* Theorems about Predicates, for any expressions of any height, any       *)
(* nesting cap and any values: what is compiled is what was written, and   *)
(* what compiles is what nests no deeper than the cap; a plain expression  *)
(* that passes without a field passes whatever the field turns out to be.  *)
(***************************************************************************)
EXTENDS Predicates, WellFoundedInduction, TLAPS

\* A set of naturals that is not empty has a least element.
LEMMA LeastOf ==
  ASSUME NEW S, S \subseteq Nat, S # {}
  PROVE  \E m \in S : \A n \in S : m <= n
<1>1. IsWellFoundedOn(OpToRel(<, Nat), Nat)
  BY NatLessThanWellFounded
<1>2. PICK m \in S : \A n \in S : <<n, m>> \notin OpToRel(<, Nat)
  <2>1. \A T \in SUBSET Nat : T # {} => \E x \in T : \A y \in T : ~(<<y, x>> \in OpToRel(<, Nat))
    BY <1>1, WFMin, Zenon
  <2> QED
    BY <2>1
<1>3. ASSUME NEW n \in S PROVE m <= n
  <2>1. m \in Nat /\ n \in Nat
    OBVIOUS
  <2>2. n < m => <<n, m>> \in OpToRel(<, Nat)
    BY <2>1 DEF OpToRel
  <2>3. ~(n < m)
    BY <1>2, <2>2
  <2> QED
    BY <2>1, <2>3
<1> QED
  BY <1>3

\* Induction over the naturals, for a set of them.
LEMMA NaturalsIn ==
  ASSUME NEW H, 0 \in H, \A n \in Nat : n \in H => n + 1 \in H
  PROVE  Nat \subseteq H
<1> SUFFICES ASSUME Nat \ H # {} PROVE FALSE
  OBVIOUS
<1>1. PICK m \in Nat \ H : \A n \in Nat \ H : m <= n
  BY LeastOf
<1>2. m - 1 \in Nat /\ m - 1 \notin Nat \ H
  BY <1>1
<1> QED
  BY <1>1, <1>2

-----------------------------------------------------------------------------
(***************************************************************************)
(* Trees: induction over them, and functions defined on them               *)
(***************************************************************************)
\* The trees of each height.
Grown(S) == Atoms \cup OperatorsOn(S)

\* There are trees of every height.
LEMMA GrownExists ==
  \A n \in Nat : \E f : f = [m \in 0..n |-> IF m = 0 THEN Atoms ELSE Grown(f[m - 1])]
<1> DEFINE Solves(f, n) == f = [m \in 0..n |-> IF m = 0 THEN Atoms ELSE Grown(f[m - 1])]
           H == {n \in Nat : \E f : Solves(f, n)}
<1>1. 0 \in H
  <2> DEFINE f == [m \in 0..0 |-> Atoms]
  <2>1. Solves(f, 0)
    OBVIOUS
  <2> QED
    BY <2>1
<1>2. ASSUME NEW n \in Nat, n \in H PROVE n + 1 \in H
  <2>1. PICK f : Solves(f, n)
    BY <1>2
  <2> DEFINE g == [m \in 0..(n + 1) |-> IF m = n + 1 THEN Grown(f[n]) ELSE f[m]]
  <2>2. ASSUME NEW m \in 0..(n + 1) PROVE g[m] = IF m = 0 THEN Atoms ELSE Grown(g[m - 1])
    <3>1. CASE m = n + 1
      <4>1. g[m] = Grown(f[n]) /\ m # 0 /\ m - 1 = n /\ n \in 0..(n + 1) /\ n # n + 1
        BY <3>1
      <4>2. g[n] = f[n]
        BY <4>1
      <4> QED
        BY <4>1, <4>2
    <3>2. CASE m # n + 1
      <4>1. m \in 0..n /\ g[m] = f[m]
        BY <3>2
      <4>2. f[m] = IF m = 0 THEN Atoms ELSE Grown(f[m - 1])
        BY <2>1, <4>1
      <4>3. m # 0 => m - 1 \in 0..(n + 1) /\ m - 1 # n + 1
        BY <4>1
      <4>4. m # 0 => g[m - 1] = f[m - 1]
        BY <4>3
      <4> QED
        BY <4>1, <4>2, <4>4
    <3> QED
      BY <3>1, <3>2
  <2>3. Solves(g, n + 1)
    <3>1. g = [m \in 0..(n + 1) |-> g[m]]
      OBVIOUS
    <3> HIDE DEF g
    <3> QED
      BY <3>1, <2>2
  <2> HIDE DEF Solves
  <2> QED
    BY <2>3
<1> HIDE DEF H
<1>3. Nat \subseteq H
  BY <1>1, <1>2, NaturalsIn
<1> QED
  BY <1>3 DEF H

\* The trees of a height are operators on those of the height below.
LEMMA TreesGrow ==
  /\ TreesUpTo[0] = Atoms
  /\ \A h \in 0..MaxHeight : h # 0 => TreesUpTo[h] = Grown(TreesUpTo[h - 1])
<1> DEFINE Solves(f) == f = [h \in 0..MaxHeight |-> IF h = 0 THEN Atoms ELSE Grown(f[h - 1])]
<1>1. \E f : Solves(f)
  BY HeightAssumption, GrownExists
<1>2. TreesUpTo = CHOOSE f : Solves(f)
  BY DEF TreesUpTo, Grown
<1>3. Solves(TreesUpTo)
  <2> HIDE DEF Solves
  <2> QED
    BY <1>1, <1>2
<1> QED
  BY <1>3, HeightAssumption

\* The operands of an operator; Second is First where there is one only.
First(e) == IF e[1] = "compare" THEN e[3] ELSE e[2]
Second(e) == IF e[1] = "compare" THEN e[4] ELSE IF e[1] = "not" THEN e[2] ELSE e[3]

\* An operator is put together again from its operands.
Composed(e) ==
    \/ e[1] = "compare" /\ e[2] \in Comparisons /\ e = <<"compare", e[2], e[3], e[4]>>
    \/ e[1] = "not" /\ e = <<"not", e[2]>>
    \/ e[1] \in Connectives /\ e = <<e[1], e[2], e[3]>>

\* What atoms and operators look like.
LEMMA Shapes ==
  ASSUME NEW S
  PROVE  /\ \A e \in Atoms : e[1] \in {"lit", "path"}
         /\ \A e \in OperatorsOn(S) : Composed(e) /\ First(e) \in S /\ Second(e) \in S
<1>1. \A e \in Atoms : e[1] \in {"lit", "path"}
  BY DEF Atoms
<1>2. ASSUME NEW e \in OperatorsOn(S) PROVE Composed(e) /\ First(e) \in S /\ Second(e) \in S
  <2>1. CASE e \in {"compare"} \X Comparisons \X S \X S
    BY <2>1 DEF Composed, First, Second
  <2>2. CASE e \in {"not"} \X S
    BY <2>2 DEF Composed, First, Second
  <2>3. CASE e \in Connectives \X S \X S
    BY <2>3 DEF Composed, First, Second, Connectives
  <2> QED
    BY <2>1, <2>2, <2>3 DEF OperatorsOn
<1> QED
  BY <1>1, <1>2

\* More operands make more trees.
LEMMA MoreGrown ==
  ASSUME NEW S, NEW T, S \subseteq T
  PROVE  Grown(S) \subseteq Grown(T)
BY DEF Grown, OperatorsOn

\* A tree of one height is one of the next.
LEMMA HeightsNest ==
  \A h \in Nat : h + 1 <= MaxHeight => TreesUpTo[h] \subseteq TreesUpTo[h + 1]
<1> DEFINE H == {h \in Nat : h + 1 <= MaxHeight => TreesUpTo[h] \subseteq TreesUpTo[h + 1]}
<1>1. 0 \in H
  <2>1. 1 <= MaxHeight => TreesUpTo[1] = Grown(TreesUpTo[0])
    BY TreesGrow, HeightAssumption
  <2> QED
    BY <2>1, TreesGrow DEF Grown
<1>2. ASSUME NEW h \in Nat, h \in H PROVE h + 1 \in H
  <2> SUFFICES ASSUME h + 2 <= MaxHeight PROVE TreesUpTo[h + 1] \subseteq TreesUpTo[h + 2]
    BY HeightAssumption
  <2>1. /\ h + 1 \in 0..MaxHeight /\ h + 1 # 0 /\ (h + 1) - 1 = h
        /\ h + 2 \in 0..MaxHeight /\ h + 2 # 0 /\ (h + 2) - 1 = h + 1
    BY HeightAssumption
  <2>2. TreesUpTo[h + 1] = Grown(TreesUpTo[h]) /\ TreesUpTo[h + 2] = Grown(TreesUpTo[h + 1])
    BY <2>1, TreesGrow
  <2>3. TreesUpTo[h] \subseteq TreesUpTo[h + 1]
    BY <1>2, <2>1
  <2> QED
    BY <2>2, <2>3, MoreGrown
<1> HIDE DEF H
<1>3. Nat \subseteq H
  BY <1>1, <1>2, NaturalsIn
<1> QED
  BY <1>3 DEF H

\* A tree of some height is an atom, or an operator on trees of less height.
LEMMA Lower ==
  ASSUME NEW h \in 0..MaxHeight, NEW e \in TreesUpTo[h]
  PROVE  \/ e \in Atoms
         \/ /\ h # 0 /\ e \notin Atoms /\ h - 1 \in 0..MaxHeight /\ Composed(e)
            /\ First(e) \in TreesUpTo[h - 1] /\ Second(e) \in TreesUpTo[h - 1]
            /\ TreesUpTo[h - 1] \subseteq TreesUpTo[h]
<1> SUFFICES ASSUME e \notin Atoms
             PROVE /\ h # 0 /\ h - 1 \in 0..MaxHeight /\ Composed(e)
                   /\ First(e) \in TreesUpTo[h - 1] /\ Second(e) \in TreesUpTo[h - 1]
                   /\ TreesUpTo[h - 1] \subseteq TreesUpTo[h]
  OBVIOUS
<1>1. h # 0
  BY TreesGrow
<1>2. h - 1 \in Nat /\ h - 1 \in 0..MaxHeight /\ (h - 1) + 1 = h /\ h <= MaxHeight
  BY <1>1, HeightAssumption
<1>3. e \in OperatorsOn(TreesUpTo[h - 1])
  BY <1>1, TreesGrow DEF Grown
<1>4. TreesUpTo[h - 1] \subseteq TreesUpTo[h]
  BY <1>2, HeightsNest
<1> QED
  BY <1>1, <1>2, <1>3, <1>4, Shapes

\* A tree of some height is a tree, and every tree is of the greatest.
LEMMA AllHeights ==
  \A h \in 0..MaxHeight : TreesUpTo[h] \subseteq Trees /\ Atoms \subseteq TreesUpTo[h]
<1> DEFINE H == {k \in Nat : k <= MaxHeight => TreesUpTo[MaxHeight - k] \subseteq Trees}
<1>1. 0 \in H
  BY HeightAssumption DEF Trees
<1>2. ASSUME NEW k \in Nat, k \in H PROVE k + 1 \in H
  <2> SUFFICES ASSUME k + 1 <= MaxHeight PROVE TreesUpTo[MaxHeight - (k + 1)] \subseteq Trees
    OBVIOUS
  <2>1. /\ MaxHeight - (k + 1) \in Nat /\ (MaxHeight - (k + 1)) + 1 = MaxHeight - k
        /\ MaxHeight - k <= MaxHeight /\ k <= MaxHeight
    BY HeightAssumption
  <2> QED
    BY <1>2, <2>1, HeightsNest
<1> HIDE DEF H
<1>3. Nat \subseteq H
  BY <1>1, <1>2, NaturalsIn
<1>4. ASSUME NEW h \in 0..MaxHeight PROVE TreesUpTo[h] \subseteq Trees
  <2>1. MaxHeight - h \in Nat /\ MaxHeight - (MaxHeight - h) = h /\ MaxHeight - h <= MaxHeight
    BY HeightAssumption
  <2> QED
    BY <1>3, <2>1 DEF H
<1> QED
  BY <1>4, TreesGrow DEF Grown

\* The operands of a tree are trees.
LEMMA Below ==
  ASSUME NEW e \in Trees, e \notin Atoms
  PROVE  Composed(e) /\ First(e) \in Trees /\ Second(e) \in Trees
<1>1. MaxHeight \in 0..MaxHeight
  BY HeightAssumption
<1> QED
  BY <1>1, Lower, AllHeights DEF Trees

\* Induction over trees, for a set of them.
LEMMA TreesIn ==
  ASSUME NEW P, Atoms \subseteq P,
         \A e \in Trees : e \notin Atoms /\ First(e) \in P /\ Second(e) \in P => e \in P
  PROVE  Trees \subseteq P
<1> DEFINE H == {h \in Nat : h <= MaxHeight => TreesUpTo[h] \subseteq P}
<1>1. 0 \in H
  BY TreesGrow
<1>2. ASSUME NEW h \in Nat, h \in H PROVE h + 1 \in H
  <2> SUFFICES ASSUME h + 1 <= MaxHeight, NEW e \in TreesUpTo[h + 1] PROVE e \in P
    OBVIOUS
  <2>1. h + 1 \in 0..MaxHeight /\ (h + 1) - 1 = h /\ h <= MaxHeight
    BY HeightAssumption
  <2>2. e \in Trees
    BY <2>1, AllHeights
  <2>3. CASE e \notin Atoms
    <3>1. First(e) \in TreesUpTo[h] /\ Second(e) \in TreesUpTo[h]
      BY <2>1, <2>3, Lower
    <3> QED
      BY <1>2, <2>1, <2>2, <2>3, <3>1
  <2> QED
    BY <2>3
<1> HIDE DEF H
<1>3. Nat \subseteq H
  BY <1>1, <1>2, NaturalsIn
<1>4. MaxHeight \in H
  BY <1>3, HeightAssumption
<1> QED
  BY <1>4 DEF H, Trees

\* Recursion over trees: there is a function with given values of atoms, whose
\* value of an operator is made of those of its operands.
Combines(V, leaf, node) ==
    /\ \A x \in Atoms : leaf[x] \in V
    /\ \A x \in Trees, a \in V, b \in V : node[<<x, a, b>>] \in V
FoldsTrees(f, V, leaf, node) ==
    /\ f \in [Trees -> V]
    /\ \A x \in Trees :
         f[x] = IF x \in Atoms THEN leaf[x] ELSE node[<<x, f[First(x)], f[Second(x)]>>]

\* A function defined on trees by its values on their operands exists.
LEMMA TreeRecursion ==
  ASSUME NEW V, NEW leaf, NEW node, Combines(V, leaf, node)
  PROVE  \E f : FoldsTrees(f, V, leaf, node)
<1> USE DEF Combines
<1> DEFINE Made(f, x) == IF x \in Atoms THEN leaf[x] ELSE node[<<x, f[First(x)], f[Second(x)]>>]
           Solves(f, h) == f \in [TreesUpTo[h] -> V] /\ \A x \in TreesUpTo[h] : f[x] = Made(f, x)
           H == {h \in Nat : h <= MaxHeight => \E f : Solves(f, h)}
<1>1. 0 \in H
  <2> DEFINE f == [x \in TreesUpTo[0] |-> leaf[x]]
  <2>1. Solves(f, 0)
    BY TreesGrow
  <2> HIDE DEF Solves
  <2> QED
    BY <2>1
<1>2. ASSUME NEW h \in Nat, h \in H PROVE h + 1 \in H
  <2> SUFFICES ASSUME h + 1 <= MaxHeight PROVE \E g : Solves(g, h + 1)
    OBVIOUS
  <2>1. /\ h \in 0..MaxHeight /\ h + 1 \in 0..MaxHeight /\ h + 1 # 0 /\ (h + 1) - 1 = h
        /\ h <= MaxHeight
    BY HeightAssumption
  <2>2. PICK f : Solves(f, h)
    BY <1>2, <2>1
  <2> DEFINE g == [x \in TreesUpTo[h + 1] |-> Made(f, x)]
  <2>3. TreesUpTo[h] \subseteq TreesUpTo[h + 1] /\ TreesUpTo[h + 1] \subseteq Trees
    BY <2>1, HeightsNest, AllHeights
  <2>4. ASSUME NEW x \in TreesUpTo[h + 1], x \notin Atoms
        PROVE First(x) \in TreesUpTo[h] /\ Second(x) \in TreesUpTo[h]
    BY <2>1, <2>4, Lower
  <2>5. ASSUME NEW x \in TreesUpTo[h + 1] PROVE Made(f, x) \in V
    <3>1. CASE x \notin Atoms
      <4>1. f[First(x)] \in V /\ f[Second(x)] \in V /\ x \in Trees
        BY <2>2, <2>3, <2>4, <3>1
      <4> QED
        BY <3>1, <4>1
    <3> QED
      BY <3>1
  <2>6. g \in [TreesUpTo[h + 1] -> V]
    BY <2>5
  <2>7. ASSUME NEW x \in TreesUpTo[h] PROVE g[x] = f[x]
    BY <2>2, <2>3
  <2>8. ASSUME NEW x \in TreesUpTo[h + 1] PROVE g[x] = Made(g, x)
    <3>1. g[x] = Made(f, x)
      OBVIOUS
    <3>2. CASE x \notin Atoms
      <4>1. g[First(x)] = f[First(x)] /\ g[Second(x)] = f[Second(x)]
        BY <2>4, <2>7, <3>2
      <4> HIDE DEF g
      <4> QED
        BY <3>1, <3>2, <4>1
    <3> HIDE DEF g
    <3> QED
      BY <3>1, <3>2
  <2>9. Solves(g, h + 1)
    <3> HIDE DEF g, Made
    <3> QED
      BY <2>6, <2>8
  <2> HIDE DEF Solves
  <2> QED
    BY <2>9
<1> HIDE DEF H
<1>3. Nat \subseteq H
  BY <1>1, <1>2, NaturalsIn
<1>4. \E f : Solves(f, MaxHeight)
  <2> HIDE DEF Solves
  <2> QED
    BY <1>3, HeightAssumption DEF H
<1> QED
  BY <1>4 DEF Trees, FoldsTrees

-----------------------------------------------------------------------------
(***************************************************************************)
(* What expressions come to                                                *)
(***************************************************************************)
\* What an expression may come to.
Outcomes == PredicateValues \cup {Missing, Unknown}
Answers3 == {Yes, No, Unknown}

\* The connectives have three answers.
LEMMA ThreeValued ==
  /\ Yes \in PredicateValues /\ No \in PredicateValues /\ Answers3 \subseteq Outcomes
  /\ \A op, a, b : Compared(op, a, b) \in Answers3 /\ CondCompared(op, a, b) \in Answers3
  /\ \A a, b : And3(a, b) \in Answers3 /\ Or3(a, b) \in Answers3 /\ Not3(a) \in Answers3
  /\ \A a, b : CondAnd(a, b) \in Answers3 /\ CondOr(a, b) \in Answers3 /\ CondNot(a) \in Answers3
<1>1. Yes \in PredicateValues /\ No \in PredicateValues
  BY DEF Yes, No, Of, PredicateValues, Types
<1>2. \A b : Truth(b) \in Answers3
  BY DEF Truth, Answers3
<1>3. \A op, a, b : Compared(op, a, b) \in Answers3
  <2>1. \A op, a, b : MissingCompared(op, a, b) \in Answers3
    BY DEF MissingCompared, Answers3
  <2>2. Unknown \in Answers3
    BY DEF Answers3
  <2> QED
    BY <1>2, <2>1, <2>2 DEF Compared
<1>4. \A op, a, b : CondCompared(op, a, b) \in Answers3
  BY <1>3 DEF CondCompared, Answers3
<1>5. \A a : Not3(a) \in Answers3 /\ CondNot(a) \in Answers3
  BY <1>2 DEF Not3, CondNot, Answers3
<1>6. \A a, b : /\ And3(a, b) \in Answers3 /\ Or3(a, b) \in Answers3
                /\ CondAnd(a, b) \in Answers3 /\ CondOr(a, b) \in Answers3
  BY DEF And3, Or3, CondAnd, CondOr, Answers3
<1> QED
  BY <1>1, <1>3, <1>4, <1>5, <1>6 DEF Outcomes, Answers3

\* The value of a tree, from the values of its operands.
LEMMA ValueIs ==
  ASSUME NEW on, \A p \in DOMAIN on : on[p] \in Outcomes, NEW e \in Trees
  PROVE  /\ ValueOf(e, on) \in Outcomes
         /\ e[1] = "lit" => ValueOf(e, on) = e[2]
         /\ e[1] = "path" => ValueOf(e, on) = IF e[2] \in DOMAIN on THEN on[e[2]] ELSE Missing
         /\ e[1] = "compare" => ValueOf(e, on) = Compared(e[2], ValueOf(e[3], on), ValueOf(e[4], on))
         /\ e[1] = "and" => ValueOf(e, on) = And3(ValueOf(e[2], on), ValueOf(e[3], on))
         /\ e[1] = "or" => ValueOf(e, on) = Or3(ValueOf(e[2], on), ValueOf(e[3], on))
         /\ e[1] = "not" => ValueOf(e, on) = Not3(ValueOf(e[2], on))
<1> DEFINE Body(x, f) ==
             CASE x[1] = "lit" -> x[2]
               [] x[1] = "path" -> IF x[2] \in DOMAIN on THEN on[x[2]] ELSE Missing
               [] x[1] = "compare" -> Compared(x[2], f[x[3]], f[x[4]])
               [] x[1] = "and" -> And3(f[x[2]], f[x[3]])
               [] x[1] = "or" -> Or3(f[x[2]], f[x[3]])
               [] OTHER -> Not3(f[x[2]])
           Solves(f) == f = [x \in Trees |-> Body(x, f)]
           value == CHOOSE f : Solves(f)
           leaf == [x \in Atoms |-> IF x[1] = "lit" THEN x[2]
                                    ELSE IF x[2] \in DOMAIN on THEN on[x[2]] ELSE Missing]
           node == [c \in Trees \X Outcomes \X Outcomes |->
                      IF c[1][1] = "compare" THEN Compared(c[1][2], c[2], c[3])
                      ELSE IF c[1][1] = "and" THEN And3(c[2], c[3])
                      ELSE IF c[1][1] = "or" THEN Or3(c[2], c[3]) ELSE Not3(c[2])]
<1>1. \A x \in Atoms : leaf[x] \in Outcomes
  BY DEF Atoms, Outcomes
<1>2. \A x \in Trees, a \in Outcomes, b \in Outcomes : node[<<x, a, b>>] \in Outcomes
  BY ThreeValued
<1>a. PICK f : FoldsTrees(f, Outcomes, leaf, node)
  <2>1. Combines(Outcomes, leaf, node)
    BY <1>1, <1>2 DEF Combines
  <2> HIDE DEF leaf, node
  <2> QED
    BY <2>1, TreeRecursion
<1>3. /\ f \in [Trees -> Outcomes]
      /\ \A x \in Trees :
           f[x] = IF x \in Atoms THEN leaf[x] ELSE node[<<x, f[First(x)], f[Second(x)]>>]
  BY <1>a DEF FoldsTrees
<1>4. ASSUME NEW x \in Trees PROVE f[x] = Body(x, f)
  <2>1. CASE x \in Atoms
    <3>1. x[1] \in {"lit", "path"}
      BY <2>1, Shapes
    <3>2. f[x] = leaf[x]
      BY <1>3, <2>1
    <3> QED
      BY <2>1, <3>1, <3>2
  <2>2. CASE x \notin Atoms
    <3>1. Composed(x) /\ First(x) \in Trees /\ Second(x) \in Trees
      BY <2>2, Below
    <3>2. f[First(x)] \in Outcomes /\ f[Second(x)] \in Outcomes
      BY <1>3, <3>1
    <3>3. <<x, f[First(x)], f[Second(x)]>> \in Trees \X Outcomes \X Outcomes
      BY <3>2
    <3>4. f[x] = node[<<x, f[First(x)], f[Second(x)]>>]
      BY <1>3, <2>2
    <3>5. f[x] = IF x[1] = "compare" THEN Compared(x[2], f[First(x)], f[Second(x)])
                 ELSE IF x[1] = "and" THEN And3(f[First(x)], f[Second(x)])
                 ELSE IF x[1] = "or" THEN Or3(f[First(x)], f[Second(x)]) ELSE Not3(f[First(x)])
      BY <3>3, <3>4
    <3> QED
      BY <3>1, <3>5 DEF Composed, First, Second, Connectives
  <2> QED
    BY <2>1, <2>2
<1>5. Solves(f)
  <2>1. f = [x \in Trees |-> f[x]]
    BY <1>3
  <2> HIDE DEF Body
  <2> QED
    BY <1>4, <2>1
<1>6. Solves(value)
  <2> HIDE DEF Solves
  <2> QED
    BY <1>5
<1>7. \A x : ValueOf(x, on) = value[x]
  BY DEF ValueOf
<1> HIDE DEF value
<1>8. \A x \in Trees : value[x] = Body(x, value)
  BY <1>6
<1>9. e[1] \in {"lit", "path", "compare", "not", "and", "or"}
  BY Shapes, Below DEF Composed, Connectives
<1>10. value[e] \in Outcomes
  <2>1. CASE e \in Atoms
    <3>1. e[1] = "lit" => e[2] \in PredicateValues
      BY <2>1 DEF Atoms
    <3> QED
      BY <1>8, <2>1, <3>1, Shapes DEF Outcomes
  <2>2. CASE e \notin Atoms
    <3>1. e[1] \in {"compare", "not", "and", "or"}
      BY <2>2, Below DEF Composed, Connectives
    <3> QED
      BY <1>8, <3>1, ThreeValued
  <2> QED
    BY <2>1, <2>2
<1> QED
  BY <1>7, <1>8, <1>9, <1>10

\* The same for conditions.
LEMMA CondValueIs ==
  ASSUME NEW raw, raw \in Outcomes, NEW e \in Trees
  PROVE  /\ CondValueOf(e, raw) \in Outcomes
         /\ e[1] = "lit" => CondValueOf(e, raw) = e[2]
         /\ e[1] = "path" => CondValueOf(e, raw) = raw
         /\ e[1] = "compare" => CondValueOf(e, raw) = CondCompared(e[2], CondValueOf(e[3], raw), CondValueOf(e[4], raw))
         /\ e[1] = "and" => CondValueOf(e, raw) = CondAnd(CondValueOf(e[2], raw), CondValueOf(e[3], raw))
         /\ e[1] = "or" => CondValueOf(e, raw) = CondOr(CondValueOf(e[2], raw), CondValueOf(e[3], raw))
         /\ e[1] = "not" => CondValueOf(e, raw) = CondNot(CondValueOf(e[2], raw))
<1> DEFINE Body(x, f) ==
             CASE x[1] = "lit" -> x[2]
               [] x[1] = "path" -> raw
               [] x[1] = "compare" -> CondCompared(x[2], f[x[3]], f[x[4]])
               [] x[1] = "and" -> CondAnd(f[x[2]], f[x[3]])
               [] x[1] = "or" -> CondOr(f[x[2]], f[x[3]])
               [] OTHER -> CondNot(f[x[2]])
           Solves(f) == f = [x \in Trees |-> Body(x, f)]
           value == CHOOSE f : Solves(f)
           leaf == [x \in Atoms |-> IF x[1] = "lit" THEN x[2] ELSE raw]
           node == [c \in Trees \X Outcomes \X Outcomes |->
                      IF c[1][1] = "compare" THEN CondCompared(c[1][2], c[2], c[3])
                      ELSE IF c[1][1] = "and" THEN CondAnd(c[2], c[3])
                      ELSE IF c[1][1] = "or" THEN CondOr(c[2], c[3]) ELSE CondNot(c[2])]
<1>1. \A x \in Atoms : leaf[x] \in Outcomes
  BY DEF Atoms, Outcomes
<1>2. \A x \in Trees, a \in Outcomes, b \in Outcomes : node[<<x, a, b>>] \in Outcomes
  BY ThreeValued
<1>a. PICK f : FoldsTrees(f, Outcomes, leaf, node)
  <2>1. Combines(Outcomes, leaf, node)
    BY <1>1, <1>2 DEF Combines
  <2> HIDE DEF leaf, node
  <2> QED
    BY <2>1, TreeRecursion
<1>3. /\ f \in [Trees -> Outcomes]
      /\ \A x \in Trees :
           f[x] = IF x \in Atoms THEN leaf[x] ELSE node[<<x, f[First(x)], f[Second(x)]>>]
  BY <1>a DEF FoldsTrees
<1>4. ASSUME NEW x \in Trees PROVE f[x] = Body(x, f)
  <2>1. CASE x \in Atoms
    <3>1. x[1] \in {"lit", "path"}
      BY <2>1, Shapes
    <3>2. f[x] = leaf[x]
      BY <1>3, <2>1
    <3> QED
      BY <2>1, <3>1, <3>2
  <2>2. CASE x \notin Atoms
    <3>1. Composed(x) /\ First(x) \in Trees /\ Second(x) \in Trees
      BY <2>2, Below
    <3>2. f[First(x)] \in Outcomes /\ f[Second(x)] \in Outcomes
      BY <1>3, <3>1
    <3>3. <<x, f[First(x)], f[Second(x)]>> \in Trees \X Outcomes \X Outcomes
      BY <3>2
    <3>4. f[x] = node[<<x, f[First(x)], f[Second(x)]>>]
      BY <1>3, <2>2
    <3>5. f[x] = IF x[1] = "compare" THEN CondCompared(x[2], f[First(x)], f[Second(x)])
                 ELSE IF x[1] = "and" THEN CondAnd(f[First(x)], f[Second(x)])
                 ELSE IF x[1] = "or" THEN CondOr(f[First(x)], f[Second(x)]) ELSE CondNot(f[First(x)])
      BY <3>3, <3>4
    <3> QED
      BY <3>1, <3>5 DEF Composed, First, Second, Connectives
  <2> QED
    BY <2>1, <2>2
<1>5. Solves(f)
  <2>1. f = [x \in Trees |-> f[x]]
    BY <1>3
  <2> HIDE DEF Body
  <2> QED
    BY <1>4, <2>1
<1>6. Solves(value)
  <2> HIDE DEF Solves
  <2> QED
    BY <1>5
<1>7. \A x : CondValueOf(x, raw) = value[x]
  BY DEF CondValueOf
<1> HIDE DEF value
<1>8. \A x \in Trees : value[x] = Body(x, value)
  BY <1>6
<1>9. e[1] \in {"lit", "path", "compare", "not", "and", "or"}
  BY Shapes, Below DEF Composed, Connectives
<1>10. value[e] \in Outcomes
  <2>1. CASE e \in Atoms
    <3>1. e[1] = "lit" => e[2] \in PredicateValues
      BY <2>1 DEF Atoms
    <3> QED
      BY <1>8, <2>1, <3>1, Shapes DEF Outcomes
  <2>2. CASE e \notin Atoms
    <3>1. e[1] \in {"compare", "not", "and", "or"}
      BY <2>2, Below DEF Composed, Connectives
    <3> QED
      BY <1>8, <3>1, ThreeValued
  <2> QED
    BY <2>1, <2>2
<1> QED
  BY <1>7, <1>8, <1>9, <1>10

\* The parts of a tree: itself and those of its operands.
LEMMA PartsAre ==
  ASSUME NEW e \in Trees
  PROVE  /\ PartsOf(e) \subseteq Trees
         /\ e \in Atoms => PartsOf(e) = {e}
         /\ e \notin Atoms => PartsOf(e) = {e} \cup PartsOf(First(e)) \cup PartsOf(Second(e))
<1> DEFINE Values == SUBSET Trees
           Body(x, f) == {x} \cup UNION {f[y] : y \in Operands(x)}
           Solves(f) == f = [x \in Trees |-> Body(x, f)]
           parts == CHOOSE f : Solves(f)
           leaf == [x \in Atoms |-> {x}]
           node == [c \in Trees \X Values \X Values |-> {c[1]} \cup c[2] \cup c[3]]
<1>1. \A x \in Atoms : leaf[x] \in Values
  <2>1. Atoms \subseteq Trees
    BY AllHeights, HeightAssumption DEF Trees
  <2> QED
    BY <2>1
<1>2. \A x \in Trees, a \in Values, b \in Values : node[<<x, a, b>>] \in Values
  OBVIOUS
<1>a. PICK f : FoldsTrees(f, Values, leaf, node)
  <2>1. Combines(Values, leaf, node)
    BY <1>1, <1>2 DEF Combines
  <2> HIDE DEF leaf, node
  <2> QED
    BY <2>1, TreeRecursion
<1>3. /\ f \in [Trees -> Values]
      /\ \A x \in Trees :
           f[x] = IF x \in Atoms THEN leaf[x] ELSE node[<<x, f[First(x)], f[Second(x)]>>]
  BY <1>a DEF FoldsTrees
<1>4. ASSUME NEW x \in Trees
      PROVE  Operands(x) = IF x \in Atoms THEN {} ELSE {First(x), Second(x)}
  <2>1. x \in Atoms => x[1] \in {"lit", "path"}
    BY Shapes
  <2>2. x \notin Atoms => Composed(x)
    BY Below
  <2> QED
    BY <2>1, <2>2 DEF Operands, Composed, First, Second, Connectives
<1>5. ASSUME NEW x \in Trees PROVE f[x] = Body(x, f)
  <2>1. CASE x \in Atoms
    BY <1>3, <1>4, <2>1
  <2>2. CASE x \notin Atoms
    <3>1. First(x) \in Trees /\ Second(x) \in Trees
      BY <2>2, Below
    <3>2. f[x] = {x} \cup f[First(x)] \cup f[Second(x)]
      BY <1>3, <2>2, <3>1
    <3> QED
      BY <1>4, <2>2, <3>2
  <2> QED
    BY <2>1, <2>2
<1>6. Solves(f)
  <2>1. f = [x \in Trees |-> f[x]]
    BY <1>3
  <2> HIDE DEF Body
  <2> QED
    BY <1>5, <2>1
<1>7. Solves(parts)
  <2> HIDE DEF Solves
  <2> QED
    BY <1>6
<1>8. \A x : PartsOf(x) = parts[x]
  BY DEF PartsOf
<1> HIDE DEF parts
<1>9. \A x \in Trees : parts[x] = Body(x, parts)
  BY <1>7
<1>10. \A x \in Trees : parts[x] \subseteq Trees
  <2> DEFINE P == {x \in Trees : parts[x] \subseteq Trees}
  <2>1. Atoms \subseteq P
    <3>1. Atoms \subseteq Trees
      BY AllHeights, HeightAssumption DEF Trees
    <3> QED
      BY <1>4, <1>9, <3>1
  <2>2. ASSUME NEW x \in Trees, x \notin Atoms, First(x) \in P, Second(x) \in P PROVE x \in P
    BY <1>4, <1>9, <2>2
  <2> HIDE DEF P
  <2>3. Trees \subseteq P
    BY <2>1, <2>2, TreesIn
  <2> QED
    BY <2>3 DEF P
<1> QED
  BY <1>4, <1>8, <1>9, <1>10

-----------------------------------------------------------------------------
(***************************************************************************)
(* An answer that is known stays, as more becomes known                    *)
(***************************************************************************)
\* A part of a plain expression that is not at fault.
Fine(x) == IF x[1] = "compare" THEN PlainComparison(x) ELSE RawValue \notin Operands(x)

\* What was known of some paths is still known, of others more may be.
KnowsMore(on, at) ==
    /\ DOMAIN on = DOMAIN at
    /\ \A p \in DOMAIN on : /\ {on[p], at[p]} \subseteq PredicateValues \cup {Missing}
                            /\ on[p] \in {at[p], Missing}

\* Missing is no value that a field may have.
LEMMA ValuesApart ==
  /\ Missing \notin PredicateValues /\ Unknown \notin PredicateValues
  /\ Missing # Null /\ Missing # Unknown /\ Missing # Yes /\ Missing # No
  /\ Yes # No /\ Unknown # Yes /\ Unknown # No
BY DEF Missing, Unknown, Null, Yes, No, Of, PredicateValues, Types

\* A comparison that is decided has both its values.
LEMMA Deciding ==
  ASSUME NEW op, NEW a, NEW b, Missing \in {a, b}, op = "==" => Null \notin {a, b}
  PROVE  Compared(op, a, b) = Unknown /\ CondCompared(op, a, b) = Unknown
<1>1. MissingCompared(op, a, b) = Unknown
  BY DEF MissingCompared
<1> QED
  BY <1>1 DEF Compared, CondCompared

\* In a plain comparison a value is missing only next to one that is not null.
LEMMA PlainOperands ==
  ASSUME NEW e \in Trees, e[1] = "compare", PlainComparison(e), NEW a, NEW b,
         e[3][1] = "lit" => a = e[3][2], e[4][1] = "lit" => b = e[4][2], Missing \in {a, b}
  PROVE  e[2] = "==" => Null \notin {a, b}
<1> SUFFICES ASSUME e[2] = "==" PROVE Null \notin {a, b}
  OBVIOUS
<1>1. e[3] \in Atoms /\ e[4] \in Atoms /\ "lit" \in {e[3][1], e[4][1]}
      /\ <<"lit", Null>> # e[3] /\ <<"lit", Null>> # e[4]
  BY DEF PlainComparison
<1>2. ASSUME NEW x \in Atoms, x[1] = "lit" PROVE x = <<"lit", x[2]>> /\ x[2] \in PredicateValues
  BY <1>2 DEF Atoms
<1>3. CASE e[3][1] = "lit"
  <2>1. a = e[3][2] /\ a \in PredicateValues /\ a # Null
    BY <1>1, <1>2, <1>3
  <2>2. b = Missing
    BY <2>1, ValuesApart
  <2> QED
    BY <2>1, <2>2, ValuesApart
<1>4. CASE e[4][1] = "lit"
  <2>1. b = e[4][2] /\ b \in PredicateValues /\ b # Null
    BY <1>1, <1>2, <1>4
  <2>2. a = Missing
    BY <2>1, ValuesApart
  <2> QED
    BY <2>1, <2>2, ValuesApart
<1> QED
  BY <1>1, <1>3, <1>4

\* An atom keeps its value once it has one.
LEMMA AtomKeeps ==
  ASSUME NEW on, NEW at, KnowsMore(on, at), NEW e \in Atoms
  PROVE  /\ ValueOf(e, on) = Missing \/ ValueOf(e, at) = ValueOf(e, on)
         /\ e[1] = "lit" => ValueOf(e, on) = e[2]
<1>1. e \in Trees /\ e[1] \in {"lit", "path"}
  BY AllHeights, HeightAssumption, Shapes DEF Trees
<1>2. /\ \A p \in DOMAIN on : on[p] \in Outcomes
      /\ \A p \in DOMAIN at : at[p] \in Outcomes
  BY DEF KnowsMore, Outcomes
<1>3. CASE e[1] = "lit"
  BY <1>1, <1>2, <1>3, ValueIs
<1>4. CASE e[1] = "path"
  <2>1. /\ ValueOf(e, on) = IF e[2] \in DOMAIN on THEN on[e[2]] ELSE Missing
        /\ ValueOf(e, at) = IF e[2] \in DOMAIN at THEN at[e[2]] ELSE Missing
    BY <1>1, <1>2, <1>4, ValueIs
  <2> QED
    BY <1>4, <2>1 DEF KnowsMore
<1> QED
  BY <1>1, <1>3, <1>4

\* What a plain expression is known to be it stays.
LEMMA AnswerStays ==
  ASSUME NEW on, NEW at, KnowsMore(on, at)
  PROVE  \A e \in Trees : /\ \A x \in PartsOf(e) : Fine(x)
                          /\ AsTruth(ValueOf(e, on)) # Unknown
                          => ValueOf(e, at) = ValueOf(e, on)
<1> DEFINE Stays(e) == AsTruth(ValueOf(e, on)) # Unknown => ValueOf(e, at) = ValueOf(e, on)
           P == {e \in Trees : (\A x \in PartsOf(e) : Fine(x)) => Stays(e)}
<1>1. /\ \A p \in DOMAIN on : on[p] \in Outcomes
      /\ \A p \in DOMAIN at : at[p] \in Outcomes
  BY DEF KnowsMore, Outcomes
<1>2. Atoms \subseteq P
  <2>1. Atoms \subseteq Trees
    BY AllHeights, HeightAssumption DEF Trees
  <2>2. AsTruth(Missing) = Unknown
    BY DEF AsTruth, Missing, Of
  <2> QED
    BY <2>1, <2>2, AtomKeeps
<1>3. ASSUME NEW e \in Trees, e \notin Atoms, First(e) \in P, Second(e) \in P PROVE e \in P
  <2> SUFFICES ASSUME \A x \in PartsOf(e) : Fine(x) PROVE Stays(e)
    OBVIOUS
  <2>1. /\ Fine(e) /\ Composed(e) /\ First(e) \in Trees /\ Second(e) \in Trees
        /\ Stays(First(e)) /\ Stays(Second(e))
    BY <1>3, Below, PartsAre
  <2>2. CASE e[1] = "compare"
    <3> DEFINE a == ValueOf(e[3], on)
               b == ValueOf(e[4], on)
    <3>1. PlainComparison(e) /\ e[3] \in Atoms /\ e[4] \in Atoms
      BY <2>1, <2>2 DEF Fine, PlainComparison
    <3>2. /\ a = Missing \/ ValueOf(e[3], at) = a
          /\ b = Missing \/ ValueOf(e[4], at) = b
          /\ e[3][1] = "lit" => a = e[3][2]
          /\ e[4][1] = "lit" => b = e[4][2]
      BY <3>1, AtomKeeps
    <3>3. /\ ValueOf(e, on) = Compared(e[2], a, b)
          /\ ValueOf(e, at) = Compared(e[2], ValueOf(e[3], at), ValueOf(e[4], at))
      BY <1>1, <2>2, ValueIs
    <3>4. CASE Missing \in {a, b}
      <4>1. e[2] = "==" => Null \notin {a, b}
        <5> HIDE DEF a, b
        <5> QED
          BY <2>2, <3>1, <3>2, <3>4, PlainOperands
      <4>2. Compared(e[2], a, b) = Unknown
        <5> HIDE DEF a, b
        <5> QED
          BY <3>4, <4>1, Deciding
      <4>3. AsTruth(Unknown) = Unknown
        BY DEF AsTruth
      <4> QED
        BY <3>3, <4>2, <4>3
    <3>5. CASE Missing \notin {a, b}
      BY <3>2, <3>3, <3>5
    <3> QED
      BY <3>4, <3>5
  <2>3. CASE e[1] \in {"and", "or", "not"}
    <3> DEFINE a == ValueOf(First(e), on)
               b == ValueOf(Second(e), on)
               a1 == ValueOf(First(e), at)
               b1 == ValueOf(Second(e), at)
    <3>1. /\ AsTruth(a) # Unknown => a1 = a
          /\ AsTruth(b) # Unknown => b1 = b
      BY <2>1
    <3>2. /\ e[1] = "and" => ValueOf(e, on) = And3(a, b) /\ ValueOf(e, at) = And3(a1, b1)
          /\ e[1] = "or" => ValueOf(e, on) = Or3(a, b) /\ ValueOf(e, at) = Or3(a1, b1)
          /\ e[1] = "not" => ValueOf(e, on) = Not3(a) /\ ValueOf(e, at) = Not3(a1)
      BY <1>1, <2>3, ValueIs DEF First, Second
    <3> HIDE DEF a, b, a1, b1
    <3>3. AsTruth(Unknown) = Unknown
      BY DEF AsTruth
    <3>4. And3(a, b) # Unknown => And3(a1, b1) = And3(a, b)
      BY <3>1, ValuesApart DEF And3
    <3>5. Or3(a, b) # Unknown => Or3(a1, b1) = Or3(a, b)
      BY <3>1, ValuesApart DEF Or3
    <3>6. Not3(a) # Unknown => Not3(a1) = Not3(a)
      BY <3>1 DEF Not3
    <3> QED
      BY <2>3, <3>2, <3>3, <3>4, <3>5, <3>6
  <2> QED
    BY <2>1, <2>2, <2>3 DEF Composed, Connectives
<1> HIDE DEF P
<1>4. Trees \subseteq P
  BY <1>2, <1>3, TreesIn
<1> QED
  BY <1>4 DEF P

\* The same for a condition: raw_value may be its operand in comparisons only.
LEMMA VerdictStays ==
  ASSUME NEW raw, NEW at, raw \in PredicateValues \cup {Missing},
         at \in PredicateValues \cup {Missing}, raw \in {at, Missing}
  PROVE  \A e \in Trees : /\ \A x \in PartsOf(e) : Fine(x) /\ (x[1] = "path" => x = RawValue)
                          /\ e # RawValue /\ CondValueOf(e, raw) # Unknown
                          => CondValueOf(e, at) = CondValueOf(e, raw)
<1> DEFINE Right(e) == \A x \in PartsOf(e) : Fine(x) /\ (x[1] = "path" => x = RawValue)
           Stays(e) == e # RawValue /\ CondValueOf(e, raw) # Unknown
                       => CondValueOf(e, at) = CondValueOf(e, raw)
           P == {e \in Trees : Right(e) => Stays(e)}
<1>1. raw \in Outcomes /\ at \in Outcomes
  BY DEF Outcomes
<1>2. ASSUME NEW e \in Atoms
      PROVE  /\ e \in Trees /\ e[1] \in {"lit", "path"}
             /\ e[1] = "lit" => CondValueOf(e, raw) = e[2] /\ CondValueOf(e, at) = e[2]
             /\ e[1] = "path" => CondValueOf(e, raw) = raw /\ CondValueOf(e, at) = at
  <2>1. e \in Trees /\ e[1] \in {"lit", "path"}
    BY AllHeights, HeightAssumption, Shapes DEF Trees
  <2> QED
    BY <1>1, <2>1, CondValueIs
<1>3. Atoms \subseteq P
  <2>1. ASSUME NEW e \in Atoms, Right(e) PROVE Stays(e)
    <3>1. e \in PartsOf(e)
      BY <1>2, PartsAre
    <3> QED
      BY <1>2, <2>1, <3>1
  <2> QED
    BY <1>2, <2>1
<1>4. ASSUME NEW e \in Trees, e \notin Atoms, First(e) \in P, Second(e) \in P PROVE e \in P
  <2> SUFFICES ASSUME Right(e) PROVE Stays(e)
    OBVIOUS
  <2>1. /\ Fine(e) /\ Composed(e) /\ First(e) \in Trees /\ Second(e) \in Trees
        /\ Stays(First(e)) /\ Stays(Second(e))
    BY <1>4, Below, PartsAre
  <2>2. CASE e[1] = "compare"
    <3> DEFINE a == CondValueOf(e[3], raw)
               b == CondValueOf(e[4], raw)
    <3>1. PlainComparison(e) /\ e[3] \in Atoms /\ e[4] \in Atoms
      BY <2>1, <2>2 DEF Fine, PlainComparison
    <3>2. /\ a = Missing \/ CondValueOf(e[3], at) = a
          /\ b = Missing \/ CondValueOf(e[4], at) = b
          /\ e[3][1] = "lit" => a = e[3][2]
          /\ e[4][1] = "lit" => b = e[4][2]
      BY <1>2, <3>1
    <3>3. /\ CondValueOf(e, raw) = CondCompared(e[2], a, b)
          /\ CondValueOf(e, at) = CondCompared(e[2], CondValueOf(e[3], at), CondValueOf(e[4], at))
      BY <1>1, <2>2, CondValueIs
    <3>4. CASE Missing \in {a, b}
      <4>1. e[2] = "==" => Null \notin {a, b}
        <5> HIDE DEF a, b
        <5> QED
          BY <2>2, <3>1, <3>2, <3>4, PlainOperands
      <4>2. CondCompared(e[2], a, b) = Unknown
        <5> HIDE DEF a, b
        <5> QED
          BY <3>4, <4>1, Deciding
      <4> QED
        BY <3>3, <4>2
    <3>5. CASE Missing \notin {a, b}
      BY <3>2, <3>3, <3>5
    <3> QED
      BY <3>4, <3>5
  <2>3. CASE e[1] \in {"and", "or", "not"}
    <3> DEFINE a == CondValueOf(First(e), raw)
               b == CondValueOf(Second(e), raw)
               a1 == CondValueOf(First(e), at)
               b1 == CondValueOf(Second(e), at)
    <3>1. First(e) # RawValue /\ Second(e) # RawValue
      BY <2>1, <2>3 DEF Fine, Operands, First, Second, Connectives
    <3>2. /\ a # Unknown => a1 = a
          /\ b # Unknown => b1 = b
      BY <2>1, <3>1
    <3>3. /\ e[1] = "and" => CondValueOf(e, raw) = CondAnd(a, b) /\ CondValueOf(e, at) = CondAnd(a1, b1)
          /\ e[1] = "or" => CondValueOf(e, raw) = CondOr(a, b) /\ CondValueOf(e, at) = CondOr(a1, b1)
          /\ e[1] = "not" => CondValueOf(e, raw) = CondNot(a) /\ CondValueOf(e, at) = CondNot(a1)
      BY <1>1, <2>3, CondValueIs DEF First, Second
    <3> HIDE DEF a, b, a1, b1
    <3>4. CondAnd(a, b) # Unknown => CondAnd(a1, b1) = CondAnd(a, b)
      BY <3>2, ValuesApart DEF CondAnd
    <3>5. CondOr(a, b) # Unknown => CondOr(a1, b1) = CondOr(a, b)
      BY <3>2, ValuesApart DEF CondOr
    <3>6. CondNot(a) # Unknown => CondNot(a1) = CondNot(a)
      BY <3>2 DEF CondNot
    <3> QED
      BY <2>3, <3>3, <3>4, <3>5, <3>6
  <2> QED
    BY <2>1, <2>2, <2>3 DEF Composed, Connectives
<1> HIDE DEF P
<1>5. Trees \subseteq P
  BY <1>3, <1>4, TreesIn
<1> QED
  BY <1>5 DEF P

\* The predicate is one of those written, and a path has a value or none yet.
Watched ==
    /\ predicate \in Written
    /\ event \in [PathsOf(predicate) -> PredicateValues \cup {Missing}]

\* It holds at first.
LEMMA WatchedInit == PredicatesInit => Watched
BY DEF PredicatesInit, Watched

\* Every step keeps it.
LEMMA WatchedStep ==
  ASSUME Watched, [PredicatesNext]_predicateVars
  PROVE  Watched' /\ predicate' = predicate /\ KnowsMore(event, event')
<1>1. DOMAIN event = PathsOf(predicate) /\ \A p \in DOMAIN event : event[p] \in PredicateValues \cup {Missing}
  BY DEF Watched
<1>2. CASE UNCHANGED predicateVars
  BY <1>1, <1>2 DEF Watched, predicateVars, KnowsMore
<1>3. CASE Compile
  BY <1>1, <1>3 DEF Watched, Compile, KnowsMore
<1>4. ASSUME NEW p \in DOMAIN event, NEW value \in Readings, BecomesKnown(p, value)
      PROVE  Watched' /\ predicate' = predicate /\ KnowsMore(event, event')
  <2>1. value \in PredicateValues
    BY PredicateAssumption
  <2>2. /\ event' = [event EXCEPT ![p] = value] /\ event[p] = Missing
        /\ predicate' = predicate
    BY <1>4 DEF BecomesKnown
  <2> QED
    BY <1>1, <2>1, <2>2 DEF Watched, KnowsMore
<1> QED
  BY <1>2, <1>3, <1>4 DEF PredicatesNext

\* The only path of a condition is raw_value.
LEMMA ConditionPaths ==
  ASSUME NEW e \in Written, IsCondition(e)
  PROVE  PathsOf(e) = {RawValue[2]}
<1>1. RawValue[2] \in PathsOf(e)
  BY DEF IsCondition
<1>2. RawValue[2] \notin FieldPaths
  BY DEF RawValue, FieldPaths, AllowedFields
<1> QED
  BY <1>1, <1>2, PredicateAssumption

\* A plain expression that passes passes one step later.
LEMMA StillPasses ==
  ASSUME Watched, [PredicatesNext]_predicateVars, Plain(predicate), Passes(predicate, event)
  PROVE  Passes(predicate, event')
<1>1. predicate \in Written /\ predicate \in Trees /\ KnowsMore(event, event')
  BY WatchedStep, PredicateAssumption DEF Watched
<1>2. predicate # RawValue /\ \A x \in PartsOf(predicate) : Fine(x)
  BY DEF Plain, Fine
<1>3. CASE IsCondition(predicate)
  <2> DEFINE raw == event[RawValue[2]]
             at == event'[RawValue[2]]
  <2>1. PathsOf(predicate) = {RawValue[2]}
    BY <1>1, <1>3, ConditionPaths
  <2>2. ASSUME NEW x \in PartsOf(predicate), x[1] = "path" PROVE x = RawValue
    <3>1. x[2] = RawValue[2]
      BY <2>1, <2>2 DEF PathsOf
    <3>2. x \in Atoms
      <4>1. x \in Trees
        BY <1>1, PartsAre
      <4> QED
        BY <2>2, <4>1, Below DEF Composed, Connectives
    <3>3. x = <<"path", x[2]>>
      BY <2>2, <3>2 DEF Atoms
    <3> QED
      BY <3>1, <3>3 DEF RawValue
  <2>3. /\ raw \in PredicateValues \cup {Missing} /\ at \in PredicateValues \cup {Missing}
        /\ raw \in {at, Missing}
    BY <1>1, <2>1 DEF KnowsMore, Watched
  <2>4. predicate \in PartsOf(predicate)
    BY <1>1, PartsAre
  <2>5. CondValueOf(predicate, raw) = Yes
    BY <1>3 DEF Passes, ConditionHolds
  <2> HIDE DEF raw, at
  <2>6. CondValueOf(predicate, at) = Yes
    BY <1>1, <1>2, <2>2, <2>3, <2>4, <2>5, VerdictStays, ValuesApart
  <2> QED
    BY <1>3, <2>6 DEF Passes, ConditionHolds, at
<1>4. CASE ~IsCondition(predicate)
  <2>1. ValueOf(predicate, event) = Yes
    BY <1>4 DEF Passes, PredicateHolds
  <2>2. AsTruth(Yes) # Unknown
    BY ValuesApart DEF AsTruth, Yes, Of
  <2>3. ValueOf(predicate, event') = Yes
    BY <1>1, <1>2, <2>1, <2>2, AnswerStays
  <2> QED
    BY <1>4, <2>3 DEF Passes, PredicateHolds
<1> QED
  BY <1>3, <1>4

\* A missing field never passes a check by accident: what passes without it
\* passes with it (predicates.py:416-520, evaluators.py:737-783).
THEOREM PassesForGood == PredicatesSpec => NoPassByAccident
<1>1. Watched /\ [PredicatesNext]_predicateVars
      => [Plain(predicate) /\ Passes(predicate, event) => Passes(predicate, event')]_predicateVars
  BY StillPasses
<1>2. Watched /\ [PredicatesNext]_predicateVars => Watched'
  BY WatchedStep
<1> QED
  BY <1>1, <1>2, WatchedInit, PTL DEF PredicatesSpec, NoPassByAccident

-----------------------------------------------------------------------------
(***************************************************************************)
(* How trees are written, and how deep they nest                           *)
(***************************************************************************)
\* What is written of an operator, of what is written of its operands for each
\* rule, and with the parentheses it needs.
Built(e, f, g) ==
    IF e[1] = "compare" THEN f[5] \o Op(e[2]) \o g[5]
    ELSE IF e[1] = "not" THEN Op("!") \o f[3]
    ELSE IF e[1] = "and" THEN f[2] \o Op("&&") \o g[3]
    ELSE f[1] \o Op("||") \o g[2]
Bracketed(e, rule, body) ==
    IF Level(e) >= rule THEN body
    ELSE <<<<"paren", "(">>>> \o body \o <<<<"paren", ")">>>>
Inside(e) ==
    IF e[1] = "lit" THEN <<e>> ELSE IF e[1] = "path" THEN WriteSegments(e[2])
    ELSE IF e[1] = "compare" THEN Write(e[3], 5) \o Op(e[2]) \o Write(e[4], 5)
    ELSE IF e[1] = "not" THEN Op("!") \o Write(e[2], 3)
    ELSE IF e[1] = "and" THEN Write(e[2], 2) \o Op("&&") \o Write(e[3], 3)
    ELSE Write(e[2], 1) \o Op("||") \o Write(e[3], 2)

\* A path is written in tokens.
LEMMA SegmentsWritten ==
  ASSUME NEW p \in Seq(STRING)
  PROVE  WriteSegments(p) \in Seq(Tokens)
<1>1. Len(p) \in Nat /\ \A i \in 1..Len(p) : p[i] \in STRING
  OBVIOUS
<1>2. ASSUME NEW i \in 1..(2 * Len(p) - 1) PROVE WriteSegments(p)[i] \in Tokens
  <2>1. CASE i % 2 = 1
    <3>1. (i + 1) \div 2 \in 1..Len(p)
      BY <1>1, <2>1
    <3>2. p[(i + 1) \div 2] \in STRING
      BY <1>1, <3>1
    <3>3. <<"ident", p[(i + 1) \div 2]>> \in Tokens
      BY <3>2 DEF Tokens
    <3> QED
      BY <2>1, <3>3 DEF WriteSegments
  <2>2. CASE i % 2 # 1
    BY <2>2 DEF WriteSegments, Tokens
  <2> QED
    BY <2>1, <2>2
<1>3. CASE Len(p) = 0
  <2>1. 1..(2 * Len(p) - 1) = 1..0
    BY <1>3
  <2>2. WriteSegments(p) = [i \in 1..0 |-> WriteSegments(p)[i]]
    BY <2>1 DEF WriteSegments
  <2> QED
    BY <2>2
<1>4. CASE Len(p) # 0
  <2>1. 2 * Len(p) - 1 \in Nat
    BY <1>1, <1>4
  <2>2. WriteSegments(p) = [i \in 1..(2 * Len(p) - 1) |-> WriteSegments(p)[i]]
    BY DEF WriteSegments
  <2> DEFINE n == 2 * Len(p) - 1
             f == WriteSegments(p)
  <2> HIDE DEF n, f
  <2>3. f \in [1..n -> Tokens]
    BY <1>2, <2>2 DEF n, f
  <2>4. n \in Nat
    BY <2>1 DEF n
  <2>5. f \in Seq(Tokens)
    BY ONLY <2>3, <2>4
  <2> QED
    BY <2>5 DEF f
<1> QED
  BY <1>3, <1>4

\* So are literals, operators and parentheses.
LEMMA TokensOfOperators ==
  /\ \A x \in Atoms : x[1] = "lit" => <<x>> \in Seq(Tokens)
  /\ \A op \in Comparisons \cup {"!", "&&", "||"} : Op(op) \in Seq(Tokens)
  /\ <<<<"paren", "(">>>> \in Seq(Tokens) /\ <<<<"paren", ")">>>> \in Seq(Tokens)
<1>1. ASSUME NEW x \in Atoms, x[1] = "lit" PROVE <<x>> \in Seq(Tokens)
  <2>1. x \in Tokens
    BY <1>1 DEF Atoms, Tokens
  <2> QED
    BY <2>1
<1>2. ASSUME NEW op \in Comparisons \cup {"!", "&&", "||"} PROVE Op(op) \in Seq(Tokens)
  <2>1. <<"op", op>> \in Tokens
    BY DEF Tokens
  <2> QED
    BY <2>1 DEF Op
<1>3. <<"paren", "(">> \in Tokens /\ <<"paren", ")">> \in Tokens
  BY DEF Tokens
<1> QED
  BY <1>1, <1>2, <1>3

\* What is written of a tree, from what is written of its operands.
LEMMA WriteIs ==
  ASSUME NEW e \in Trees, NEW rule \in 1..5
  PROVE  /\ Write(e, rule) \in Seq(Tokens) /\ Inside(e) \in Seq(Tokens)
         /\ Write(e, rule) = Bracketed(e, rule, Inside(e))
<1> DEFINE Body(x, l, f) ==
             LET body == CASE x[1] = "lit" -> <<x>>
                           [] x[1] = "path" -> WriteSegments(x[2])
                           [] x[1] = "compare" -> f[<<x[3], 5>>] \o Op(x[2]) \o f[<<x[4], 5>>]
                           [] x[1] = "not" -> Op("!") \o f[<<x[2], 3>>]
                           [] x[1] = "and" -> f[<<x[2], 2>>] \o Op("&&") \o f[<<x[3], 3>>]
                           [] OTHER -> f[<<x[2], 1>>] \o Op("||") \o f[<<x[3], 2>>]
             IN IF Level(x) >= l THEN body
                ELSE <<<<"paren", "(">>>> \o body \o <<<<"paren", ")">>>>
           Solves(f) == f = [at \in Trees \X (1..5) |-> Body(at[1], at[2], f)]
           tokens == CHOOSE f : Solves(f)
           Lines == [1..5 -> Seq(Tokens)]
           leaf == [x \in Atoms |-> [l \in 1..5 |-> IF x[1] = "lit" THEN <<x>> ELSE WriteSegments(x[2])]]
           node == [c \in Trees \X Lines \X Lines |->
                      [l \in 1..5 |-> IF c[1] \in Atoms THEN <<>>
                                      ELSE Bracketed(c[1], l, Built(c[1], c[2], c[3]))]]
<1>0. ASSUME NEW x \in Atoms PROVE x[1] \in {"lit", "path"} /\ Level(x) = 5
                                   /\ (x[1] = "path" => x[2] \in Seq(STRING))
  BY Shapes DEF Level, Atoms
<1>1. \A x \in Atoms : leaf[x] \in Lines
  BY <1>0, TokensOfOperators, SegmentsWritten
<1>2. ASSUME NEW x \in Trees, NEW a \in Lines, NEW b \in Lines PROVE node[<<x, a, b>>] \in Lines
  <2>1. CASE x \in Atoms
    BY <2>1
  <2>2. CASE x \notin Atoms
    <3>1. Composed(x)
      BY <2>2, Below
    <3>2. Built(x, a, b) \in Seq(Tokens)
      <4>1. \A i \in 1..5 : a[i] \in Seq(Tokens) /\ b[i] \in Seq(Tokens)
        OBVIOUS
      <4>2. x[1] = "compare" => Op(x[2]) \in Seq(Tokens)
        BY <3>1, TokensOfOperators DEF Composed, Connectives
      <4> QED
        BY <4>1, <4>2, TokensOfOperators DEF Built
    <3>3. ASSUME NEW l \in 1..5 PROVE Bracketed(x, l, Built(x, a, b)) \in Seq(Tokens)
      BY <3>2, TokensOfOperators DEF Bracketed
    <3> QED
      BY <2>2, <3>3
  <2> QED
    BY <2>1, <2>2
<1>a. PICK f : FoldsTrees(f, Lines, leaf, node)
  <2>1. Combines(Lines, leaf, node)
    BY <1>1, <1>2 DEF Combines
  <2> HIDE DEF leaf, node
  <2> QED
    BY <2>1, TreeRecursion
<1>3. /\ f \in [Trees -> Lines]
      /\ \A x \in Trees :
           f[x] = IF x \in Atoms THEN leaf[x] ELSE node[<<x, f[First(x)], f[Second(x)]>>]
  BY <1>a DEF FoldsTrees
<1> DEFINE g == [at \in Trees \X (1..5) |-> f[at[1]][at[2]]]
<1>4. ASSUME NEW x \in Trees, NEW l \in 1..5 PROVE g[<<x, l>>] = Body(x, l, g) /\ g[<<x, l>>] \in Seq(Tokens)
  <2>0. g[<<x, l>>] = f[x][l] /\ f[x] \in Lines
    BY <1>3
  <2>1. CASE x \in Atoms
    <3>1. f[x][l] = IF x[1] = "lit" THEN <<x>> ELSE WriteSegments(x[2])
      <4>1. f[x] = leaf[x]
        <5> HIDE DEF leaf, node
        <5> QED
          BY <1>3, <2>1
      <4>2. leaf[x] = [i \in 1..5 |-> IF x[1] = "lit" THEN <<x>> ELSE WriteSegments(x[2])]
        BY <2>1
      <4> QED
        BY <4>1, <4>2
    <3>2. x[1] \in {"lit", "path"} /\ Level(x) >= l
      BY <1>0, <2>1
    <3> HIDE DEF g
    <3>3. Body(x, l, g) = IF x[1] = "lit" THEN <<x>> ELSE WriteSegments(x[2])
      BY <3>2
    <3>4. g[<<x, l>>] = Body(x, l, g)
      BY <2>0, <3>1, <3>3, Zenon
    <3>5. f[x][l] \in Seq(Tokens)
      BY <2>0
    <3> QED
      BY <2>0, <3>4, <3>5, Zenon
  <2>2. CASE x \notin Atoms
    <3>1. Composed(x) /\ First(x) \in Trees /\ Second(x) \in Trees
      BY <2>2, Below
    <3>2. f[First(x)] \in Lines /\ f[Second(x)] \in Lines
      BY <1>3, <3>1
    <3>3. <<x, f[First(x)], f[Second(x)]>> \in Trees \X Lines \X Lines
      BY <3>2
    <3>4. f[x] = node[<<x, f[First(x)], f[Second(x)]>>]
      BY <1>3, <2>2
    <3>5. f[x][l] = Bracketed(x, l, Built(x, f[First(x)], f[Second(x)]))
      BY <2>2, <3>3, <3>4
    <3>6. \A i \in 1..5 : f[First(x)][i] = g[<<First(x), i>>] /\ f[Second(x)][i] = g[<<Second(x), i>>]
      BY <3>1
    <3> HIDE DEF g
    <3>7. Built(x, f[First(x)], f[Second(x)])
            = IF x[1] = "compare" THEN g[<<x[3], 5>>] \o Op(x[2]) \o g[<<x[4], 5>>]
              ELSE IF x[1] = "not" THEN Op("!") \o g[<<x[2], 3>>]
              ELSE IF x[1] = "and" THEN g[<<x[2], 2>>] \o Op("&&") \o g[<<x[3], 3>>]
              ELSE g[<<x[2], 1>>] \o Op("||") \o g[<<x[3], 2>>]
      BY <3>1, <3>6 DEF Built, Composed, First, Second, Connectives
    <3> QED
      BY <2>0, <3>1, <3>5, <3>7 DEF Bracketed, Composed, Connectives
  <2> QED
    BY <2>1, <2>2
<1>5. Solves(g)
  <2>1. g = [at \in Trees \X (1..5) |-> g[at]]
    OBVIOUS
  <2>2. ASSUME NEW at \in Trees \X (1..5) PROVE g[at] = Body(at[1], at[2], g)
    <3>1. at = <<at[1], at[2]>> /\ at[1] \in Trees /\ at[2] \in 1..5
      OBVIOUS
    <3> HIDE DEF g, Body
    <3> QED
      BY <1>4, <3>1
  <2> HIDE DEF g, Body
  <2> QED
    BY <2>1, <2>2
<1>6. Solves(tokens)
  <2> HIDE DEF Solves, g
  <2> QED
    BY <1>5
<1>7. \A x, l : Write(x, l) = tokens[<<x, l>>]
  BY DEF Write
<1> HIDE DEF tokens, g
<1>8. \A x \in Trees, l \in 1..5 : Write(x, l) = Body(x, l, tokens)
  <2>1. ASSUME NEW x \in Trees, NEW l \in 1..5 PROVE tokens[<<x, l>>] = Body(x, l, tokens)
    <3>1. <<x, l>> \in Trees \X (1..5) /\ <<x, l>>[1] = x /\ <<x, l>>[2] = l
      OBVIOUS
    <3> HIDE DEF Body
    <3> QED
      BY <1>6, <3>1
  <2> HIDE DEF Body
  <2> QED
    BY <1>7, <2>1
<1>9. ASSUME NEW x \in Trees PROVE x[1] \in {"lit", "path", "compare", "not", "and", "or"}
  BY <1>0, Below DEF Composed, Connectives
<1>10. ASSUME NEW x \in Trees, NEW l \in 1..5 PROVE Write(x, l) = Bracketed(x, l, Inside(x))
  BY <1>7, <1>8, <1>9 DEF Bracketed, Inside
<1>11. \A x \in Trees : Inside(x) \in Seq(Tokens)
  <2> DEFINE P == {x \in Trees : Inside(x) \in Seq(Tokens)}
  <2>1. Atoms \subseteq P
    <3>1. Atoms \subseteq Trees
      BY AllHeights, HeightAssumption DEF Trees
    <3> QED
      BY <1>0, <3>1, TokensOfOperators, SegmentsWritten DEF Inside
  <2>2. ASSUME NEW x \in Trees, x \notin Atoms, First(x) \in P, Second(x) \in P PROVE x \in P
    <3>1. Composed(x)
      BY <2>2, Below
    <3>2. ASSUME NEW l \in 1..5 PROVE Write(First(x), l) \in Seq(Tokens) /\ Write(Second(x), l) \in Seq(Tokens)
      <4>1. \A y \in P : Bracketed(y, l, Inside(y)) \in Seq(Tokens)
        BY TokensOfOperators DEF Bracketed
      <4> QED
        BY <1>10, <2>2, <4>1
    <3>3. x[1] = "compare" => Op(x[2]) \in Seq(Tokens)
      BY <3>1, TokensOfOperators DEF Composed, Connectives
    <3>4. Inside(x) \in Seq(Tokens)
      <4>1. CASE x[1] = "compare"
        BY <3>2, <3>3, <4>1 DEF Inside, First, Second
      <4>2. CASE x[1] = "not"
        BY <3>2, <4>2, TokensOfOperators DEF Inside, First, Second
      <4>3. CASE x[1] = "and"
        BY <3>2, <4>3, TokensOfOperators DEF Inside, First, Second
      <4>4. CASE x[1] = "or"
        BY <3>2, <4>4, TokensOfOperators DEF Inside, First, Second
      <4> QED
        BY <3>1, <4>1, <4>2, <4>3, <4>4 DEF Composed, Connectives
    <3> QED
      BY <3>4
  <2> HIDE DEF P
  <2>3. Trees \subseteq P
    BY <2>1, <2>2, TreesIn
  <2> QED
    BY <2>3 DEF P
<1>12. Bracketed(e, rule, Inside(e)) \in Seq(Tokens)
  BY <1>11, TokensOfOperators DEF Bracketed
<1> QED
  BY <1>10, <1>11, <1>12

\* How deep a tree nests inside, from how deep its operands do.
Within(e) ==
    IF e[1] = "compare" THEN Greater(Nesting(e[3], 5), Nesting(e[4], 5))
    ELSE IF e[1] = "not" THEN 1 + Nesting(e[2], 3)
    ELSE IF e[1] = "and" THEN Greater(Nesting(e[2], 2), Nesting(e[3], 3))
    ELSE IF e[1] = "or" THEN Greater(Nesting(e[2], 1), Nesting(e[3], 2))
    ELSE 0
Nested(e, f, g) ==
    IF e[1] = "compare" THEN Greater(f[5], g[5])
    ELSE IF e[1] = "not" THEN 1 + f[3]
    ELSE IF e[1] = "and" THEN Greater(f[2], g[3])
    ELSE Greater(f[1], g[2])

\* How deep a tree nests, from how deep its operands do.
LEMMA NestingIs ==
  ASSUME NEW e \in Trees, NEW rule \in 1..5
  PROVE  /\ Nesting(e, rule) \in Nat /\ Within(e) \in Nat
         /\ Nesting(e, rule) = (IF Level(e) < rule THEN 1 ELSE 0) + Within(e)
<1> DEFINE Body(x, l, f) ==
             (IF Level(x) < l THEN 1 ELSE 0)
             + CASE x[1] = "compare" -> Greater(f[<<x[3], 5>>], f[<<x[4], 5>>])
                 [] x[1] = "not" -> 1 + f[<<x[2], 3>>]
                 [] x[1] = "and" -> Greater(f[<<x[2], 2>>], f[<<x[3], 3>>])
                 [] x[1] = "or" -> Greater(f[<<x[2], 1>>], f[<<x[3], 2>>])
                 [] OTHER -> 0
           Solves(f) == f = [at \in Trees \X (1..5) |-> Body(at[1], at[2], f)]
           open == CHOOSE f : Solves(f)
           Depths5 == [1..5 -> Nat]
           leaf == [x \in Atoms |-> [l \in 1..5 |-> 0]]
           node == [c \in Trees \X Depths5 \X Depths5 |->
                      [l \in 1..5 |-> IF c[1] \in Atoms THEN 0
                                      ELSE (IF Level(c[1]) < l THEN 1 ELSE 0) + Nested(c[1], c[2], c[3])]]
<1>0. ASSUME NEW x \in Atoms PROVE x[1] \in {"lit", "path"} /\ Level(x) = 5
  BY Shapes DEF Level
<1>1. \A x \in Atoms : leaf[x] \in Depths5
  OBVIOUS
<1>2. ASSUME NEW x \in Trees, NEW a \in Depths5, NEW b \in Depths5 PROVE node[<<x, a, b>>] \in Depths5
  <2>1. \A i \in 1..5 : a[i] \in Nat /\ b[i] \in Nat
    OBVIOUS
  <2>2. Nested(x, a, b) \in Nat
    BY <2>1 DEF Nested, Greater
  <2>3. (IF Level(x) < 1 THEN 1 ELSE 0) + Nested(x, a, b) \in Nat
        /\ \A l \in 1..5 : (IF Level(x) < l THEN 1 ELSE 0) + Nested(x, a, b) \in Nat
    BY <2>2
  <2> QED
    BY <2>3
<1>a. PICK f : FoldsTrees(f, Depths5, leaf, node)
  <2>1. Combines(Depths5, leaf, node)
    BY <1>1, <1>2 DEF Combines
  <2> HIDE DEF leaf, node
  <2> QED
    BY <2>1, TreeRecursion
<1>3. /\ f \in [Trees -> Depths5]
      /\ \A x \in Trees :
           f[x] = IF x \in Atoms THEN leaf[x] ELSE node[<<x, f[First(x)], f[Second(x)]>>]
  BY <1>a DEF FoldsTrees
<1> DEFINE g == [at \in Trees \X (1..5) |-> f[at[1]][at[2]]]
<1>4. ASSUME NEW x \in Trees, NEW l \in 1..5 PROVE g[<<x, l>>] = Body(x, l, g) /\ g[<<x, l>>] \in Nat
  <2>0. g[<<x, l>>] = f[x][l] /\ f[x] \in Depths5
    BY <1>3
  <2>1. CASE x \in Atoms
    <3>1. f[x][l] = 0
      BY <1>3, <2>1
    <3> QED
      BY <1>0, <2>0, <2>1, <3>1
  <2>2. CASE x \notin Atoms
    <3>1. Composed(x) /\ First(x) \in Trees /\ Second(x) \in Trees
      BY <2>2, Below
    <3>2. f[First(x)] \in Depths5 /\ f[Second(x)] \in Depths5
      BY <1>3, <3>1
    <3>3. <<x, f[First(x)], f[Second(x)]>> \in Trees \X Depths5 \X Depths5
      BY <3>2
    <3>4. f[x] = node[<<x, f[First(x)], f[Second(x)]>>]
      BY <1>3, <2>2
    <3>5. f[x][l] = (IF Level(x) < l THEN 1 ELSE 0) + Nested(x, f[First(x)], f[Second(x)])
      BY <2>2, <3>3, <3>4
    <3>6. \A i \in 1..5 : f[First(x)][i] = g[<<First(x), i>>] /\ f[Second(x)][i] = g[<<Second(x), i>>]
      BY <3>1
    <3> HIDE DEF g
    <3>7. Nested(x, f[First(x)], f[Second(x)])
            = IF x[1] = "compare" THEN Greater(g[<<x[3], 5>>], g[<<x[4], 5>>])
              ELSE IF x[1] = "not" THEN 1 + g[<<x[2], 3>>]
              ELSE IF x[1] = "and" THEN Greater(g[<<x[2], 2>>], g[<<x[3], 3>>])
              ELSE Greater(g[<<x[2], 1>>], g[<<x[3], 2>>])
      BY <3>1, <3>6 DEF Nested, Composed, First, Second, Connectives
    <3> QED
      BY <2>0, <3>1, <3>5, <3>7 DEF Composed, Connectives
  <2> QED
    BY <2>1, <2>2
<1>5. Solves(g)
  <2>1. g = [at \in Trees \X (1..5) |-> g[at]]
    OBVIOUS
  <2>2. ASSUME NEW at \in Trees \X (1..5) PROVE g[at] = Body(at[1], at[2], g)
    <3>1. at = <<at[1], at[2]>> /\ at[1] \in Trees /\ at[2] \in 1..5
      OBVIOUS
    <3> HIDE DEF g, Body
    <3> QED
      BY <1>4, <3>1
  <2> HIDE DEF g, Body
  <2> QED
    BY <2>1, <2>2
<1>6. Solves(open)
  <2> HIDE DEF Solves, g
  <2> QED
    BY <1>5
<1>7. \A x, l : Nesting(x, l) = open[<<x, l>>]
  BY DEF Nesting
<1> HIDE DEF open, g
<1>8. ASSUME NEW x \in Trees, NEW l \in 1..5 PROVE Nesting(x, l) = Body(x, l, open)
  <2>1. <<x, l>> \in Trees \X (1..5) /\ <<x, l>>[1] = x /\ <<x, l>>[2] = l
    OBVIOUS
  <2> HIDE DEF Body
  <2> QED
    BY <1>6, <1>7, <2>1
<1>9. ASSUME NEW x \in Trees, NEW l \in 1..5
      PROVE  Nesting(x, l) = (IF Level(x) < l THEN 1 ELSE 0) + Within(x)
  BY <1>7, <1>8 DEF Within
<1>10. \A x \in Trees : Within(x) \in Nat
  <2> DEFINE P == {x \in Trees : Within(x) \in Nat}
  <2>1. Atoms \subseteq P
    <3>1. Atoms \subseteq Trees
      BY AllHeights, HeightAssumption DEF Trees
    <3> QED
      BY <1>0, <3>1 DEF Within
  <2>2. ASSUME NEW x \in Trees, x \notin Atoms, First(x) \in P, Second(x) \in P PROVE x \in P
    <3>1. ASSUME NEW l \in 1..5 PROVE Nesting(First(x), l) \in Nat /\ Nesting(Second(x), l) \in Nat
      BY <1>9, <2>2
    <3>2. Composed(x)
      BY <2>2, Below
    <3> QED
      BY <3>1, <3>2 DEF Within, Composed, First, Second, Connectives, Greater
  <2> HIDE DEF P
  <2>3. Trees \subseteq P
    BY <2>1, <2>2, TreesIn
  <2> QED
    BY <2>3 DEF P
<1> QED
  BY <1>9, <1>10

-----------------------------------------------------------------------------
(***************************************************************************)
(* The parser                                                              *)
(***************************************************************************)
\* Sequences of tokens put one after another.
LEMMA Following ==
  ASSUME NEW t \in Tokens, NEW s \in Seq(Tokens)
  PROVE  /\ <<t>> \o s \in Seq(Tokens) /\ <<t>> \o s # <<>> /\ Len(<<t>> \o s) = Len(s) + 1
         /\ Head(<<t>> \o s) = t /\ Tail(<<t>> \o s) = s
<1> DEFINE a == <<t>> \o s
<1>1. a \in Seq(Tokens) /\ Len(a) = Len(s) + 1 /\ a[1] = t /\ \A i \in 1..Len(s) : a[i + 1] = s[i]
  OBVIOUS
<1> HIDE DEF a
<1>2. a # <<>> /\ Head(a) = t /\ Tail(a) \in Seq(Tokens) /\ Len(Tail(a)) = Len(s)
      /\ \A i \in 1..Len(s) : Tail(a)[i] = s[i]
  BY <1>1
<1>3. Tail(a) = s
  BY <1>2
<1> QED
  BY <1>1, <1>2, <1>3 DEF a

\* Three sequences may be put together from either end.
LEMMA Regrouped ==
  ASSUME NEW a \in Seq(Tokens), NEW b \in Seq(Tokens), NEW c \in Seq(Tokens)
  PROVE  /\ (a \o b) \o c = a \o (b \o c) /\ a \o b \in Seq(Tokens) /\ Len(a \o b) = Len(a) + Len(b)
         /\ Len(a) \in Nat /\ Len(b) \in Nat
<1> DEFINE x == (a \o b) \o c
           y == a \o (b \o c)
<1>1. /\ x \in Seq(Tokens) /\ y \in Seq(Tokens) /\ Len(x) = Len(y)
      /\ Len(x) = Len(a) + Len(b) + Len(c) /\ Len(a) \in Nat /\ Len(b) \in Nat /\ Len(c) \in Nat
  OBVIOUS
<1>2. ASSUME NEW i \in 1..Len(x) PROVE x[i] = y[i]
  <2>1. CASE i <= Len(a)
    BY <1>1, <2>1
  <2>2. CASE i > Len(a) /\ i <= Len(a) + Len(b)
    BY <1>1, <2>2
  <2>3. CASE i > Len(a) + Len(b)
    BY <1>1, <2>3
  <2> QED
    BY <1>1, <2>1, <2>2, <2>3
<1>3. x = y
  <2> HIDE DEF x, y
  <2>1. x \in Seq(Tokens) /\ y \in Seq(Tokens) /\ Len(x) = Len(y) /\ \A i \in 1..Len(x) : x[i] = y[i]
    BY <1>1, <1>2
  <2>2. x = [i \in 1..Len(x) |-> x[i]] /\ y = [i \in 1..Len(y) |-> y[i]]
    BY <2>1
  <2>3. [i \in 1..Len(x) |-> x[i]] = [i \in 1..Len(x) |-> y[i]]
    BY <2>1
  <2> QED
    BY <2>1, <2>2, <2>3
<1> QED
  BY <1>1, <1>3

\* The parser, by how many calls may be open.
Bottom == [call \in Calls |-> SyntaxError]
Ruling(parse) == [call \in Calls |-> ParseRule(parse, call[1], call[2], call[3])]

\* There is a parser for any number of open calls.
LEMMA ParserExists ==
  \A n \in Nat : \E f : f = [m \in 0..n |-> IF m = 0 THEN Bottom ELSE Ruling(f[m - 1])]
<1> DEFINE Solves(f, n) == f = [m \in 0..n |-> IF m = 0 THEN Bottom ELSE Ruling(f[m - 1])]
           H == {n \in Nat : \E f : Solves(f, n)}
<1>1. 0 \in H
  <2> DEFINE f == [m \in 0..0 |-> Bottom]
  <2>1. Solves(f, 0)
    OBVIOUS
  <2> QED
    BY <2>1
<1>2. ASSUME NEW n \in Nat, n \in H PROVE n + 1 \in H
  <2>1. PICK f : Solves(f, n)
    BY <1>2
  <2> DEFINE g == [m \in 0..(n + 1) |-> IF m = n + 1 THEN Ruling(f[n]) ELSE f[m]]
  <2>2. ASSUME NEW m \in 0..(n + 1) PROVE g[m] = IF m = 0 THEN Bottom ELSE Ruling(g[m - 1])
    <3>1. CASE m = n + 1
      <4>1. g[m] = Ruling(f[n]) /\ m # 0 /\ m - 1 = n /\ n \in 0..(n + 1) /\ n # n + 1
        BY <3>1
      <4>2. g[n] = f[n]
        BY <4>1
      <4> QED
        BY <4>1, <4>2
    <3>2. CASE m # n + 1
      <4>1. m \in 0..n /\ g[m] = f[m]
        BY <3>2
      <4>2. f[m] = IF m = 0 THEN Bottom ELSE Ruling(f[m - 1])
        BY <2>1, <4>1
      <4>3. m # 0 => m - 1 \in 0..(n + 1) /\ m - 1 # n + 1
        BY <4>1
      <4>4. m # 0 => g[m - 1] = f[m - 1]
        BY <4>3
      <4> QED
        BY <4>1, <4>2, <4>4
    <3> QED
      BY <3>1, <3>2
  <2>3. Solves(g, n + 1)
    <3>1. g = [m \in 0..(n + 1) |-> g[m]]
      OBVIOUS
    <3> HIDE DEF g
    <3> QED
      BY <3>1, <2>2
  <2> HIDE DEF Solves
  <2> QED
    BY <2>3
<1> HIDE DEF H
<1>3. Nat \subseteq H
  BY <1>1, <1>2, NaturalsIn
<1> QED
  BY <1>3 DEF H

\* A call is of a rule, on the rules that may call one another less deep.
Ruled(parse, n) ==
    \A m \in 1..n, rule \in 1..5, ts \in Seq(Tokens), d \in Int :
        parse[m][<<rule, ts, d>>] = ParseRule(parse[m - 1], rule, ts, d)

\* Parse is a call of the first rule on such a parser.
LEMMA ParseIs ==
  ASSUME NEW ts \in Seq(Tokens), NEW d \in Int
  PROVE  \E parse : /\ Ruled(parse, MostCalls(ts))
                    /\ Parse(ts, d) = LET read == parse[MostCalls(ts)][<<1, ts, d>>]
                                      IN IF read.rest = <<>> THEN read ELSE SyntaxError
<1> DEFINE n == MostCalls(ts)
           Solves(f) == f = [m \in 0..n |-> [call \in Calls |-> IF m = 0 THEN SyntaxError
                               ELSE ParseRule(f[m - 1], call[1], call[2], call[3])]]
           parse == CHOOSE f : Solves(f)
<1>1. n \in Nat
  BY DEF MostCalls
<1>2. PICK f : f = [m \in 0..n |-> IF m = 0 THEN Bottom ELSE Ruling(f[m - 1])]
  BY <1>1, ParserExists
<1>3. Solves(f)
  <2>1. ASSUME NEW m \in 0..n
        PROVE  f[m] = [call \in Calls |-> IF m = 0 THEN SyntaxError
                        ELSE ParseRule(f[m - 1], call[1], call[2], call[3])]
    <3>1. f[m] = IF m = 0 THEN Bottom ELSE Ruling(f[m - 1])
      BY <1>2
    <3> QED
      BY <3>1 DEF Bottom, Ruling
  <2>2. f = [m \in 0..n |-> f[m]]
    BY <1>2
  <2> HIDE DEF n
  <2> QED
    BY <2>1, <2>2
<1>4. Solves(parse)
  <2> HIDE DEF Solves
  <2> QED
    BY <1>3
<1>5. Parse(ts, d) = LET read == parse[n][<<1, ts, d>>] IN IF read.rest = <<>> THEN read ELSE SyntaxError
  BY DEF Parse
<1> HIDE DEF parse, n
<1>6. Ruled(parse, n)
  <2> SUFFICES ASSUME NEW m \in 1..n, NEW rule \in 1..5, NEW t \in Seq(Tokens), NEW e \in Int
               PROVE  parse[m][<<rule, t, e>>] = ParseRule(parse[m - 1], rule, t, e)
    BY DEF Ruled
  <2>1. m \in 0..n /\ m # 0
    BY <1>1
  <2>2. parse[m] = [call \in Calls |-> ParseRule(parse[m - 1], call[1], call[2], call[3])]
    BY <1>4, <2>1
  <2>3. <<rule, t, e>> \in Calls
    BY DEF Calls
  <2> QED
    BY <2>2, <2>3
<1> QED
  BY <1>5, <1>6 DEF n

-----------------------------------------------------------------------------
(***************************************************************************)
(* Each rule reads what is written for it                                  *)
(***************************************************************************)
\* What a parser may have open, whether n levels more fit, and what comes of
\* reading e, that nests n levels.
Opens == {Uncounted} \cup 0..MaxNesting
Fits(d, n) == d = Uncounted \/ d + n <= MaxNesting
Comes(e, n, d, rest) == IF Fits(d, n) THEN Got(e, rest) ELSE SyntaxError

\* What follows is not for the rule to read.
Stops(rule, rest) ==
    \/ rest = <<>>
    \/ /\ Head(rest) # <<"dot", ".">>
       /\ rule <= 4 => ~(Head(rest)[1] = "op" /\ Head(rest)[2] \in Comparisons)
       /\ rule <= 2 => Head(rest) # <<"op", "&&">>
       /\ rule <= 1 => Head(rest) # <<"op", "||">>

\* The paths of e are those of a condition, or of a predicate.
Suits(e, d) == PathsOf(e) \subseteq (IF d = Uncounted THEN {RawValue[2]} ELSE FieldPaths)

\* The rule reads e where it is written for it, if enough calls are left.
Parses(parse, n, e, rule) ==
    \A m \in 1..n, rest \in Seq(Tokens), d \in Opens :
        /\ m >= 5 * Len(Write(e, rule)) + 6 - rule
        /\ Suits(e, d) /\ Stops(rule, rest)
        => parse[m][<<rule, Write(e, rule) \o rest, d>>] = Comes(e, Nesting(e, rule), d, rest)

Kind(rule) == IF rule = 1 THEN "or" ELSE "and"
Symbol(rule) == IF rule = 1 THEN "||" ELSE "&&"

\* The turns of the loop of a chain.
Turned(after, parse, rule, ts, d) ==
    /\ after[0] = parse[<<rule + 1, ts, d>>]
    /\ \A k \in 1..Len(ts) :
         after[k] = MoreOf(parse, Kind(rule), Symbol(rule), rule + 1, after[k - 1], d)

\* After some turns e has been read.
Chained(parse, n, e, rule) ==
    \A m \in 1..n, rest \in Seq(Tokens), d \in Opens : \A after :
        /\ m >= 5 * Len(Write(e, rule)) + 5 - rule
        /\ Suits(e, d) /\ Stops(rule + 1, rest)
        /\ Turned(after, parse[m], rule, Write(e, rule) \o rest, d)
        => \E k \in 0..Len(Write(e, rule)) : after[k] = Comes(e, Nesting(e, rule), d, rest)

Chain(f, n, parse, kind, symbol, operand, ts, d) ==
    f = [k \in 0..n |-> IF k = 0 THEN parse[<<operand, ts, d>>]
                        ELSE MoreOf(parse, kind, symbol, operand, f[k - 1], d)]

\* The loop of a chain has its results, turn by turn.
LEMMA ChainExists ==
  ASSUME NEW parse, NEW kind, NEW symbol, NEW operand, NEW ts, NEW d
  PROVE  \A n \in Nat : \E f : Chain(f, n, parse, kind, symbol, operand, ts, d)
<1> DEFINE first == parse[<<operand, ts, d>>]
           More(x) == MoreOf(parse, kind, symbol, operand, x, d)
           Solves(f, n) == f = [m \in 0..n |-> IF m = 0 THEN first ELSE More(f[m - 1])]
           H == {n \in Nat : \E f : Solves(f, n)}
<1> HIDE DEF first, More
<1>1. 0 \in H
  <2> DEFINE f == [m \in 0..0 |-> first]
  <2>1. Solves(f, 0)
    OBVIOUS
  <2> QED
    BY <2>1
<1>2. ASSUME NEW n \in Nat, n \in H PROVE n + 1 \in H
  <2>1. PICK f : Solves(f, n)
    BY <1>2
  <2> DEFINE g == [m \in 0..(n + 1) |-> IF m = n + 1 THEN More(f[n]) ELSE f[m]]
  <2>2. ASSUME NEW m \in 0..(n + 1) PROVE g[m] = IF m = 0 THEN first ELSE More(g[m - 1])
    <3>1. CASE m = n + 1
      <4>1. g[m] = More(f[n]) /\ m # 0 /\ m - 1 = n /\ n \in 0..(n + 1) /\ n # n + 1
        BY <3>1
      <4>2. g[n] = f[n]
        BY <4>1
      <4> QED
        BY <4>1, <4>2
    <3>2. CASE m # n + 1
      <4>1. m \in 0..n /\ g[m] = f[m]
        BY <3>2
      <4>2. f[m] = IF m = 0 THEN first ELSE More(f[m - 1])
        BY <2>1, <4>1
      <4>3. m # 0 => m - 1 \in 0..(n + 1) /\ m - 1 # n + 1
        BY <4>1
      <4>4. m # 0 => g[m - 1] = f[m - 1]
        BY <4>3
      <4> QED
        BY <4>1, <4>2, <4>4
    <3> QED
      BY <3>1, <3>2
  <2>3. Solves(g, n + 1)
    <3>1. g = [m \in 0..(n + 1) |-> g[m]]
      OBVIOUS
    <3> HIDE DEF g
    <3> QED
      BY <3>1, <2>2
  <2> HIDE DEF Solves
  <2> QED
    BY <2>3
<1> HIDE DEF H
<1>3. Nat \subseteq H
  BY <1>1, <1>2, NaturalsIn
<1> QED
  BY <1>3 DEF H, first, More, Chain

\* A rule that is a chain returns what its last turn left.
LEMMA ChainTurns ==
  ASSUME NEW parse, NEW rule \in 1..2, NEW ts \in Seq(Tokens), NEW d
  PROVE  \E after : /\ Turned(after, parse, rule, ts, d)
                    /\ ParseRule(parse, rule, ts, d) = after[Len(ts)]
<1> DEFINE Solves(f) == Chain(f, Len(ts), parse, Kind(rule), Symbol(rule), rule + 1, ts, d)
           turns == CHOOSE f : Solves(f)
<1>0. Len(ts) \in Nat
  OBVIOUS
<1>1. \E f : Solves(f)
  BY <1>0, ChainExists
<1>2. Solves(turns)
  <2> HIDE DEF Solves
  <2> QED
    BY <1>1
<1>3. ParseRule(parse, rule, ts, d) = ParseChain(parse, Kind(rule), Symbol(rule), rule + 1, ts, d)
  BY DEF ParseRule, Kind, Symbol
<1>4. ParseChain(parse, Kind(rule), Symbol(rule), rule + 1, ts, d) = turns[Len(ts)]
  BY DEF ParseChain, Chain
<1> HIDE DEF turns
<1>5. Turned(turns, parse, rule, ts, d)
  <2> DEFINE Made(k) == IF k = 0 THEN parse[<<rule + 1, ts, d>>]
                        ELSE MoreOf(parse, Kind(rule), Symbol(rule), rule + 1, turns[k - 1], d)
  <2>1. turns = [k \in 0..Len(ts) |-> Made(k)]
    BY <1>2 DEF Chain
  <2>2. \A k \in 0..Len(ts) : turns[k] = Made(k)
    <3> HIDE DEF Made
    <3> QED
      BY <2>1
  <2>3. turns[0] = parse[<<rule + 1, ts, d>>]
    BY <1>0, <2>2
  <2>4. ASSUME NEW k \in 1..Len(ts)
        PROVE  turns[k] = MoreOf(parse, Kind(rule), Symbol(rule), rule + 1, turns[k - 1], d)
    <3>1. k \in 0..Len(ts) /\ k # 0
      BY <1>0
    <3> QED
      BY <2>2, <3>1
  <2> QED
    BY <2>3, <2>4 DEF Turned
<1> QED
  BY <1>3, <1>4, <1>5

\* A chain that has met no symbol of its own, or an error, goes no further.
LEMMA ChainRests ==
  ASSUME NEW after, NEW parse, NEW rule \in 1..2, NEW ts \in Seq(Tokens), NEW d,
         Turned(after, parse, rule, ts, d), NEW k \in 0..Len(ts),
         ~(after[k].ok /\ NextIs(after[k].rest, "op", Symbol(rule)))
  PROVE  after[Len(ts)] = after[k]
<1> DEFINE H == {i \in Nat : k + i <= Len(ts) => after[k + i] = after[k]}
<1>0. Len(ts) \in Nat /\ k \in Nat
  OBVIOUS
<1>1. 0 \in H
  BY <1>0
<1>2. ASSUME NEW i \in Nat, i \in H PROVE i + 1 \in H
  <2> SUFFICES ASSUME k + (i + 1) <= Len(ts) PROVE after[k + (i + 1)] = after[k]
    OBVIOUS
  <2>1. k + (i + 1) \in 1..Len(ts) /\ (k + (i + 1)) - 1 = k + i /\ k + i <= Len(ts)
    BY <1>0
  <2>2. after[k + (i + 1)] = MoreOf(parse, Kind(rule), Symbol(rule), rule + 1, after[k + i], d)
    BY <2>1 DEF Turned
  <2>3. after[k + i] = after[k]
    BY <1>2, <2>1
  <2> QED
    BY <2>2, <2>3 DEF MoreOf
<1> HIDE DEF H
<1>3. Len(ts) - k \in H
  <2>1. Len(ts) - k \in Nat
    BY <1>0
  <2> QED
    BY <1>1, <1>2, <2>1, NaturalsIn
<1>4. k + (Len(ts) - k) = Len(ts)
  BY <1>0
<1> QED
  BY <1>0, <1>3, <1>4 DEF H

\* The rule that is a tree's own, by its shape.
LEMMA LevelIs ==
  ASSUME NEW e \in Trees
  PROVE  /\ Level(e) \in 1..5
         /\ e \in Atoms => Level(e) = 5
         /\ e \notin Atoms => Level(e) \in 1..4
         /\ Level(e) = 1 => e[1] = "or"
         /\ Level(e) = 2 => e[1] = "and"
         /\ Level(e) = 3 => e[1] = "not"
         /\ Level(e) = 4 => e[1] = "compare"
         /\ Level(e) = 5 => e \in Atoms
<1>1. e \in Atoms => e[1] \in {"lit", "path"}
  BY Shapes
<1>2. e \notin Atoms => e[1] \in {"or", "and", "not", "compare"}
  BY Below DEF Composed, Connectives
<1> QED
  BY <1>1, <1>2 DEF Level

\* For a rule that is not its own a tree is written as for the next.
LEMMA SameForNext ==
  ASSUME NEW e \in Trees, NEW rule \in 1..4, Level(e) # rule
  PROVE  Write(e, rule) = Write(e, rule + 1) /\ Nesting(e, rule) = Nesting(e, rule + 1)
<1>1. rule \in 1..5 /\ rule + 1 \in 1..5 /\ Level(e) \in 1..5
  BY LevelIs
<1>2. Level(e) >= rule <=> Level(e) >= rule + 1
  BY <1>1
<1>3. Level(e) < rule <=> Level(e) < rule + 1
  BY <1>1
<1> QED
  BY <1>1, <1>2, <1>3, WriteIs, NestingIs DEF Bracketed

\* The operands of what suits a parser suit it.
LEMMA SuitsBelow ==
  ASSUME NEW e \in Trees, e \notin Atoms, NEW d, Suits(e, d)
  PROVE  Suits(First(e), d) /\ Suits(Second(e), d)
BY PartsAre DEF Suits, PathsOf

\* What one rule leaves alone the next leaves alone.
LEMMA StopsNext ==
  ASSUME NEW rule \in 1..4, NEW rest, Stops(rule, rest)
  PROVE  Stops(rule + 1, rest)
BY DEF Stops

\* Two that follow one another fit where the deeper one does.
LEMMA FitBoth ==
  ASSUME NEW d \in Opens, NEW a \in Nat, NEW b \in Nat
  PROVE  Fits(d, Greater(a, b)) <=> Fits(d, a) /\ Fits(d, b)
<1>1. MaxNesting \in Nat
  BY PredicateAssumption
<1> QED
  BY <1>1 DEF Fits, Greater, Opens, Uncounted

\* What may be open, and what fits one level deeper.
LEMMA OpensAre ==
  /\ Opens \subseteq Int
  /\ \A d \in Opens : EnterNesting(d) <=> Fits(d, 1)
  /\ \A d \in Opens, n \in Nat : EnterNesting(d) => Deeper(d) \in Opens
                                                 /\ (Fits(Deeper(d), n) <=> Fits(d, 1 + n))
                                                 /\ (Deeper(d) = Uncounted <=> d = Uncounted)
  /\ \A d \in Opens, n \in Nat : Fits(d, 1 + n) => Fits(d, 1)
  /\ \A d \in Opens : Fits(d, 0)
<1>1. MaxNesting \in Nat /\ MaxNesting # 0
  BY PredicateAssumption
<1> QED
  BY <1>1 DEF Opens, Fits, EnterNesting, Deeper, Uncounted

\* A rule made of a chain, once the chain has read the tree.
LEMMA ChainedReads ==
  ASSUME NEW parse, NEW n \in Nat, Ruled(parse, n), NEW e \in Trees, NEW rule \in 1..2,
         Chained(parse, n, e, rule)
  PROVE  Parses(parse, n, e, rule)
<1> SUFFICES ASSUME NEW m \in 1..n, NEW rest \in Seq(Tokens), NEW d \in Opens,
                    m >= 5 * Len(Write(e, rule)) + 6 - rule, Suits(e, d), Stops(rule, rest)
             PROVE  parse[m][<<rule, Write(e, rule) \o rest, d>>] = Comes(e, Nesting(e, rule), d, rest)
  BY DEF Parses
<1> DEFINE w == Write(e, rule)
           ts == w \o rest
<1>1. w \in Seq(Tokens) /\ Len(w) \in Nat /\ rule \in 1..5
  BY WriteIs
<1>2. ts \in Seq(Tokens) /\ Len(ts) = Len(w) + Len(rest) /\ Len(rest) \in Nat
  BY <1>1
<1> HIDE DEF w
<1>3. m - 1 \in 1..n /\ m - 1 >= 5 * Len(w) + 5 - rule
  BY <1>1 DEF w
<1>4. d \in Int
  BY OpensAre
<1> HIDE DEF ts
<1>5. parse[m][<<rule, ts, d>>] = ParseRule(parse[m - 1], rule, ts, d)
  BY <1>1, <1>2, <1>4 DEF Ruled
<1>6. PICK after : Turned(after, parse[m - 1], rule, ts, d)
                   /\ ParseRule(parse[m - 1], rule, ts, d) = after[Len(ts)]
  BY <1>2, ChainTurns
<1>7. PICK k \in 0..Len(w) : after[k] = Comes(e, Nesting(e, rule), d, rest)
  <2>1. Stops(rule + 1, rest)
    BY StopsNext
  <2> QED
    BY <1>3, <1>6, <2>1 DEF Chained, w, ts
<1>8. ~(after[k].ok /\ NextIs(after[k].rest, "op", Symbol(rule)))
  <2>1. CASE Fits(d, Nesting(e, rule))
    <3>1. after[k].rest = rest
      BY <1>7, <2>1 DEF Comes, Got
    <3> QED
      BY <3>1 DEF NextIs, Symbol, Stops
  <2>2. CASE ~Fits(d, Nesting(e, rule))
    BY <1>7, <2>2 DEF Comes, SyntaxError
  <2> QED
    BY <2>1, <2>2
<1>9. k \in 0..Len(ts)
  BY <1>1, <1>2
<1>10. after[Len(ts)] = after[k]
  BY <1>2, <1>6, <1>8, <1>9, ChainRests
<1> QED
  BY <1>5, <1>6, <1>7, <1>10 DEF ts, w

\* A tree that is no chain of the rule is its first operand.
LEMMA ChainedFirst ==
  ASSUME NEW parse, NEW n \in Nat, NEW e \in Trees, NEW rule \in 1..2, Level(e) # rule,
         Parses(parse, n, e, rule + 1)
  PROVE  Chained(parse, n, e, rule)
<1> SUFFICES ASSUME NEW m \in 1..n, NEW rest \in Seq(Tokens), NEW d \in Opens, NEW after,
                    m >= 5 * Len(Write(e, rule)) + 5 - rule, Suits(e, d), Stops(rule + 1, rest),
                    Turned(after, parse[m], rule, Write(e, rule) \o rest, d)
             PROVE  \E k \in 0..Len(Write(e, rule)) : after[k] = Comes(e, Nesting(e, rule), d, rest)
  BY DEF Chained
<1>1. Write(e, rule) = Write(e, rule + 1) /\ Nesting(e, rule) = Nesting(e, rule + 1)
  BY SameForNext
<1>2. Len(Write(e, rule)) \in Nat
  BY WriteIs
<1>3. m >= 5 * Len(Write(e, rule + 1)) + 6 - (rule + 1)
  BY <1>1, <1>2
<1>4. parse[m][<<rule + 1, Write(e, rule + 1) \o rest, d>>] = Comes(e, Nesting(e, rule + 1), d, rest)
  BY <1>3 DEF Parses
<1>5. after[0] = Comes(e, Nesting(e, rule), d, rest)
  BY <1>1, <1>4 DEF Turned
<1> QED
  BY <1>2, <1>5

\* A chain: its first operand is a chain again, and one turn more reads the second.
LEMMA ChainedOn ==
  ASSUME NEW parse, NEW n \in Nat, NEW e \in Trees, NEW rule \in 1..2, Level(e) = rule,
         Chained(parse, n, First(e), rule), Parses(parse, n, Second(e), rule + 1)
  PROVE  Chained(parse, n, e, rule)
<1> SUFFICES ASSUME NEW m \in 1..n, NEW rest \in Seq(Tokens), NEW d \in Opens, NEW after,
                    m >= 5 * Len(Write(e, rule)) + 5 - rule, Suits(e, d), Stops(rule + 1, rest),
                    Turned(after, parse[m], rule, Write(e, rule) \o rest, d)
             PROVE  \E k \in 0..Len(Write(e, rule)) : after[k] = Comes(e, Nesting(e, rule), d, rest)
  BY DEF Chained
<1> DEFINE a == First(e)
           b == Second(e)
           u == Write(a, rule)
           v == Write(b, rule + 1)
           t == <<"op", Symbol(rule)>>
           then == <<t>> \o (v \o rest)
<1>1. e \notin Atoms /\ e[1] = Kind(rule) /\ a = e[2] /\ b = e[3] /\ e = <<Kind(rule), a, b>>
  <2>1. e \notin Atoms
    BY LevelIs
  <2>2. e[1] = Kind(rule)
    BY LevelIs DEF Kind
  <2>3. Composed(e)
    BY <2>1, Below
  <2> QED
    BY <2>1, <2>2, <2>3 DEF Composed, First, Second, Kind, Connectives
<1>2. a \in Trees /\ b \in Trees /\ Suits(a, d) /\ Suits(b, d)
  BY <1>1, Below, SuitsBelow
<1>3. rule \in 1..5 /\ rule + 1 \in 1..5
  OBVIOUS
<1>4. u \in Seq(Tokens) /\ v \in Seq(Tokens) /\ Nesting(a, rule) \in Nat /\ Nesting(b, rule + 1) \in Nat
  BY <1>2, <1>3, WriteIs, NestingIs
<1>5. Write(e, rule) = u \o <<t>> \o v /\ Nesting(e, rule) = Greater(Nesting(a, rule), Nesting(b, rule + 1))
  <2>0. Level(e) >= rule /\ ~(Level(e) < rule)
    OBVIOUS
  <2>1. Write(e, rule) = Inside(e) /\ Nesting(e, rule) = 0 + Within(e) /\ Within(e) \in Nat
    <3>1. Write(e, rule) = Bracketed(e, rule, Inside(e))
      BY <1>3, WriteIs
    <3>2. Within(e) \in Nat /\ Nesting(e, rule) = (IF Level(e) < rule THEN 1 ELSE 0) + Within(e)
      BY <1>3, NestingIs
    <3> QED
      BY <2>0, <3>1, <3>2 DEF Bracketed
  <2>2. Inside(e) = u \o <<t>> \o v
    <3>1. CASE rule = 1
      <4>1. Inside(e) = Write(e[2], 1) \o Op("||") \o Write(e[3], 2)
        BY <1>1, <3>1 DEF Inside, Kind
      <4>2. u = Write(e[2], 1) /\ v = Write(e[3], 2) /\ <<t>> = Op("||")
        BY <1>1, <3>1 DEF Op, Symbol
      <4> QED
        BY <4>1, <4>2
    <3>2. CASE rule = 2
      <4>1. Inside(e) = Write(e[2], 2) \o Op("&&") \o Write(e[3], 3)
        BY <1>1, <3>2 DEF Inside, Kind
      <4>2. u = Write(e[2], 2) /\ v = Write(e[3], 3) /\ <<t>> = Op("&&")
        BY <1>1, <3>2 DEF Op, Symbol
      <4> HIDE DEF u, v, t
      <4> QED
        BY <4>1, <4>2
    <3>3. rule = 1 \/ rule = 2
      OBVIOUS
    <3> HIDE DEF u, v, t
    <3> QED
      BY <3>1, <3>2, <3>3
  <2>3. Within(e) = Greater(Nesting(a, rule), Nesting(b, rule + 1))
    BY <1>1 DEF Within, Kind
  <2> QED
    BY <2>1, <2>2, <2>3
<1>6. t \in Tokens
  BY DEF Tokens, Symbol
<1> HIDE DEF a, b, u, v, t
<1>7. /\ v \o rest \in Seq(Tokens) /\ then \in Seq(Tokens) /\ then # <<>>
      /\ Head(then) = t /\ Tail(then) = v \o rest
      /\ <<t>> \in Seq(Tokens) /\ Len(<<t>>) = 1
  <2>1. v \o rest \in Seq(Tokens)
    BY <1>4
  <2> QED
    BY <1>6, <2>1, Following
<1>8. Write(e, rule) \o rest = u \o then
  <2> DEFINE one == <<t>>
  <2>0. one \in Seq(Tokens)
    BY <1>7
  <2> HIDE DEF one
  <2>1. u \o one \in Seq(Tokens) /\ (u \o one) \o (v \o rest) = u \o (one \o (v \o rest))
    <3> DEFINE w == v \o rest
    <3>1. u \in Seq(Tokens) /\ w \in Seq(Tokens)
      BY <1>4, <1>7
    <3> HIDE DEF w
    <3>2. (u \o one) \o w = u \o (one \o w) /\ u \o one \in Seq(Tokens)
      BY ONLY <2>0, <3>1, Regrouped
    <3> QED
      BY <3>2 DEF w
  <2>2. ((u \o one) \o v) \o rest = (u \o one) \o (v \o rest)
    BY <1>4, <2>1, Regrouped
  <2> QED
    BY <1>5, <2>1, <2>2 DEF one
<1>9. Len(Write(e, rule)) = Len(u) + 1 + Len(v) /\ Len(u) \in Nat /\ Len(v) \in Nat
  BY <1>4, <1>5, <1>7, Regrouped
<1>10. Stops(rule + 1, then)
  BY <1>7 DEF Stops, t, Symbol, Comparisons
<1> HIDE DEF then
<1>11. PICK k \in 0..Len(u) : after[k] = Comes(a, Nesting(a, rule), d, then)
  <2>1. m >= 5 * Len(u) + 5 - rule
    BY <1>9
  <2>2. Turned(after, parse[m], rule, u \o then, d)
    BY <1>8
  <2>3. Chained(parse, n, a, rule) /\ u = Write(a, rule)
    BY DEF a, u
  <2>4. \E k \in 0..Len(Write(a, rule)) : after[k] = Comes(a, Nesting(a, rule), d, then)
    <3>1. /\ m \in 1..n /\ then \in Seq(Tokens) /\ d \in Opens
          /\ m >= 5 * Len(Write(a, rule)) + 5 - rule /\ Suits(a, d) /\ Stops(rule + 1, then)
          /\ Turned(after, parse[m], rule, Write(a, rule) \o then, d)
      BY <1>2, <1>7, <1>10, <2>1, <2>2, <2>3
    <3> QED
      BY ONLY <2>3, <3>1, Zenon DEF Chained
  <2> QED
    BY <2>3, <2>4
<1>12. parse[m][<<rule + 1, v \o rest, d>>] = Comes(b, Nesting(b, rule + 1), d, rest)
  <2>1. m >= 5 * Len(v) + 6 - (rule + 1)
    BY <1>9
  <2>2. Parses(parse, n, b, rule + 1)
    BY DEF b
  <2> QED
    BY <1>2, <2>1, <2>2 DEF Parses, v
<1>13. /\ k + 1 \in 1..Len(Write(e, rule) \o rest) /\ (k + 1) - 1 = k
       /\ k + 1 \in 0..Len(Write(e, rule))
  <2>1. Write(e, rule) \in Seq(Tokens) /\ Len(Write(e, rule) \o rest) = Len(Write(e, rule)) + Len(rest)
        /\ Len(rest) \in Nat
    <3> DEFINE w == Write(e, rule)
    <3>1. w \in Seq(Tokens) /\ rest \in Seq(Tokens)
      BY <1>3, WriteIs
    <3> HIDE DEF w
    <3>2. Len(w \o rest) = Len(w) + Len(rest) /\ Len(rest) \in Nat
      BY ONLY <3>1
    <3> QED
      BY <3>1, <3>2 DEF w
  <2> QED
    BY <1>9, <2>1
<1>14. after[k + 1] = MoreOf(parse[m], Kind(rule), Symbol(rule), rule + 1, after[k], d)
  BY <1>13 DEF Turned
<1>15. Fits(d, Nesting(e, rule)) <=> Fits(d, Nesting(a, rule)) /\ Fits(d, Nesting(b, rule + 1))
  BY <1>4, <1>5, FitBoth
<1>16. after[k + 1] = Comes(e, Nesting(e, rule), d, rest)
  <2>1. CASE ~Fits(d, Nesting(a, rule))
    <3>1. after[k] = SyntaxError /\ ~SyntaxError.ok
      BY <1>11, <2>1 DEF Comes, SyntaxError
    <3> QED
      BY <1>14, <1>15, <2>1, <3>1 DEF MoreOf, Comes
  <2>2. CASE Fits(d, Nesting(a, rule))
    <3>1. after[k] = Got(a, then)
      BY <1>11, <2>2 DEF Comes
    <3>2. after[k].ok /\ after[k].node = a /\ after[k].rest = then
      BY <3>1 DEF Got
    <3>3. NextIs(then, "op", Symbol(rule))
      BY <1>7 DEF NextIs, t
    <3>4. after[k + 1] = LET right == Comes(b, Nesting(b, rule + 1), d, rest) IN
                         IF right.ok THEN Got(<<Kind(rule), a, right.node>>, right.rest) ELSE SyntaxError
      BY <1>7, <1>12, <1>14, <3>2, <3>3 DEF MoreOf
    <3>5. CASE Fits(d, Nesting(b, rule + 1))
      <4>1. Comes(b, Nesting(b, rule + 1), d, rest) = Got(b, rest)
        BY <3>5 DEF Comes
      <4>2. Got(b, rest).ok /\ Got(b, rest).node = b /\ Got(b, rest).rest = rest
        BY DEF Got
      <4>3. after[k + 1] = Got(<<Kind(rule), a, b>>, rest)
        BY <3>4, <4>1, <4>2
      <4> QED
        BY <1>1, <1>15, <2>2, <3>5, <4>3 DEF Comes
    <3>6. CASE ~Fits(d, Nesting(b, rule + 1))
      BY <1>15, <3>4, <3>6 DEF Comes, SyntaxError
    <3> QED
      BY <3>5, <3>6
  <2> QED
    BY <2>1, <2>2
<1> QED
  BY <1>13, <1>16

\* A sequence that begins with one that is not empty.
LEMMA HeadsOf ==
  ASSUME NEW a \in Seq(Tokens), NEW b \in Seq(Tokens), a # <<>>
  PROVE  a \o b \in Seq(Tokens) /\ a \o b # <<>> /\ Head(a \o b) = Head(a)
<1> DEFINE c == a \o b
<1>1. Len(a) \in Nat /\ Len(a) > 0 /\ Head(a) = a[1]
  OBVIOUS
<1>2. c \in Seq(Tokens) /\ Len(c) = Len(a) + Len(b) /\ Len(b) \in Nat /\ c[1] = a[1]
  BY <1>1
<1> HIDE DEF c
<1>3. c # <<>> /\ Head(c) = c[1]
  BY <1>1, <1>2
<1> QED
  BY <1>1, <1>2, <1>3 DEF c

\* What the paths of an atom are, under Suits.
LEMMA PathSuits ==
  ASSUME NEW e \in Atoms, e[1] = "path", NEW d, Suits(e, d)
  PROVE  /\ e = <<"path", e[2]>> /\ e[2] \in Seq(STRING) /\ e[2] # <<>>
         /\ e[2] \in (IF d = Uncounted THEN {RawValue[2]} ELSE FieldPaths)
<1>1. e \in Trees
  <2>1. 0 \in 0..MaxHeight
    BY HeightAssumption
  <2> QED
    BY <2>1, TreesGrow, AllHeights
<1>2. e \in PartsOf(e)
  BY <1>1, PartsAre
<1>3. e[2] \in (IF d = Uncounted THEN {RawValue[2]} ELSE FieldPaths)
  BY <1>2 DEF Suits, PathsOf
<1>4. e[2] # <<>>
  <2>1. CASE e[2] \in FieldPaths
    BY <2>1 DEF FieldPaths
  <2>2. CASE e[2] = <<"raw_value">>
    BY <2>2
  <2> QED
    BY <1>3, <2>1, <2>2 DEF RawValue
<1> QED
  BY <1>3, <1>4 DEF Atoms

\* What is written for _parse_primary begins with no operator.
LEMMA PrimaryBegins ==
  ASSUME NEW e \in Trees, NEW d, Suits(e, d)
  PROVE  Write(e, 5) # <<>> /\ Head(Write(e, 5))[1] # "op"
<1>1. Level(e) \in 1..5 /\ (Level(e) = 5 => e \in Atoms)
  BY LevelIs
<1>2. Write(e, 5) = Bracketed(e, 5, Inside(e)) /\ Inside(e) \in Seq(Tokens)
  BY WriteIs
<1>3. CASE Level(e) < 5
  <2> DEFINE s == <<<<"paren", "(">>>>
             t == <<<<"paren", ")">>>>
             i == Inside(e)
  <2>1. s \in Seq(Tokens) /\ t \in Seq(Tokens) /\ i \in Seq(Tokens)
    BY <1>2, TokensOfOperators
  <2>2. s # <<>> /\ Head(s) = <<"paren", "(">>
    OBVIOUS
  <2>3. Write(e, 5) = s \o i \o t
    BY <1>1, <1>2, <1>3 DEF Bracketed
  <2> HIDE DEF s, t, i
  <2>4. s \o i \in Seq(Tokens) /\ s \o i # <<>> /\ Head(s \o i) = Head(s)
    BY ONLY <2>1, <2>2, HeadsOf
  <2>5. (s \o i) \o t # <<>> /\ Head((s \o i) \o t) = Head(s \o i)
    <3> DEFINE si == s \o i
    <3> HIDE DEF si
    <3>1. si \in Seq(Tokens) /\ si # <<>>
      BY <2>4 DEF si
    <3>2. si \o t # <<>> /\ Head(si \o t) = Head(si)
      BY ONLY <3>1, <2>1, HeadsOf
    <3> QED
      BY <3>2 DEF si
  <2> QED
    BY <2>2, <2>3, <2>4, <2>5
<1>4. CASE Level(e) = 5
  <2>1. Write(e, 5) = Inside(e) /\ e \in Atoms
    BY <1>1, <1>2, <1>4 DEF Bracketed
  <2>2. CASE e[1] = "lit"
    BY <2>1, <2>2 DEF Inside
  <2>3. CASE e[1] = "path"
    <3>1. Inside(e) = WriteSegments(e[2])
      BY <2>3 DEF Inside
    <3>2. e[2] \in Seq(STRING) /\ e[2] # <<>>
      BY <2>1, <2>3, PathSuits
    <3>3. Len(e[2]) \in Nat /\ Len(e[2]) > 0
      BY <3>2
    <3> DEFINE w == WriteSegments(e[2])
    <3>4. w \in Seq(Tokens)
      BY <3>2, SegmentsWritten
    <3>5. 1 \in 1..(2 * Len(e[2]) - 1) /\ 1 % 2 = 1
      BY <3>3
    <3>6. w[1][1] = "ident" /\ 1 \in DOMAIN w
      BY <3>5 DEF WriteSegments
    <3> HIDE DEF w
    <3>7. w # <<>> /\ Head(w) = w[1]
      BY <3>4, <3>6
    <3> QED
      BY <2>1, <3>1, <3>6, <3>7 DEF w
  <2>4. e[1] \in {"lit", "path"}
    BY <2>1, Shapes
  <2> QED
    BY <2>2, <2>3, <2>4
<1> QED
  BY <1>1, <1>3, <1>4

\* The calls of the rules that are no chains.
LEMMA CallIs ==
  ASSUME NEW parse, NEW n \in Nat, Ruled(parse, n), NEW m \in 1..n,
         NEW ts \in Seq(Tokens), NEW d \in Opens
  PROVE  /\ parse[m][<<3, ts, d>>] = ParseNot(parse[m - 1], ts, d)
         /\ parse[m][<<4, ts, d>>] = ParseComparison(parse[m - 1], ts, d)
         /\ parse[m][<<5, ts, d>>] = ParsePrimary(parse[m - 1], ts, d)
<1>1. d \in Int
  BY OpensAre
<1>2. \A rule \in 1..5 : parse[m][<<rule, ts, d>>] = ParseRule(parse[m - 1], rule, ts, d)
  BY <1>1 DEF Ruled
<1>3. 3 \in 1..5 /\ 4 \in 1..5 /\ 5 \in 1..5
  OBVIOUS
<1> QED
  BY <1>2, <1>3 DEF ParseRule

\* A name, and names joined by dots, that what follows does not continue.
LEMMA SegmentsRead ==
  ASSUME NEW p \in Seq(STRING), p # <<>>, \A i \in 2..Len(p) : p[i] \notin Reserved,
         NEW rest \in Seq(Tokens), Stops(5, rest)
  PROVE  MorePath(WriteSegments(p) \o rest) = Got(<<"path", p>>, rest)
<1> DEFINE w == WriteSegments(p)
           ts == w \o rest
           k == Len(p)
<1>1. k \in Nat /\ k > 0 /\ 2 * k - 1 \in Nat
  OBVIOUS
<1>2. w \in Seq(Tokens) /\ Len(w) = 2 * k - 1
  <2>1. w \in Seq(Tokens)
    BY SegmentsWritten
  <2>2. DOMAIN w = 1..(2 * k - 1)
    BY DEF WriteSegments
  <2> HIDE DEF w
  <2> QED
    BY <1>1, <2>1, <2>2
<1>3. /\ \A j \in 1..(k - 1) : w[2 * j] = <<"dot", ".">>
      /\ \A j \in 1..k : w[2 * j - 1] = <<"ident", p[j]>>
  <2>1. ASSUME NEW j \in 1..(k - 1) PROVE w[2 * j] = <<"dot", ".">>
    <3>1. 2 * j \in 1..(2 * k - 1) /\ (2 * j) % 2 # 1
      BY <1>1
    <3> QED
      BY <3>1 DEF WriteSegments
  <2>2. ASSUME NEW j \in 1..k PROVE w[2 * j - 1] = <<"ident", p[j]>>
    <3>1. 2 * j - 1 \in 1..(2 * k - 1) /\ (2 * j - 1) % 2 = 1 /\ ((2 * j - 1) + 1) \div 2 = j
      BY <1>1
    <3> QED
      BY <3>1 DEF WriteSegments
  <2> QED
    BY <2>1, <2>2
<1> HIDE DEF w, k
<1>4. /\ ts \in Seq(Tokens) /\ Len(ts) = 2 * k - 1 + Len(rest) /\ Len(rest) \in Nat
      /\ \A i \in 1..(2 * k - 1) : ts[i] = w[i]
      /\ \A i \in 1..Len(rest) : ts[2 * k - 1 + i] = rest[i]
  <2>1. ts \in Seq(Tokens) /\ Len(ts) = Len(w) + Len(rest) /\ Len(rest) \in Nat
    BY <1>2
  <2>2. \A i \in 1..Len(w) : ts[i] = w[i]
    BY <1>2
  <2>3. \A i \in 1..Len(rest) : ts[Len(w) + i] = rest[i]
    BY <1>2
  <2> HIDE DEF ts
  <2> QED
    BY <1>2, <2>1, <2>2, <2>3
<1> HIDE DEF ts
<1>5. ASSUME NEW j \in 1..(k - 1) PROVE DotAt(ts, j) /\ NameAt(ts, 2 * j + 1)
  <2>1. 2 * j \in 1..(2 * k - 1) /\ 2 * j <= Len(ts)
    BY <1>1, <1>4
  <2>2. ts[2 * j] = <<"dot", ".">>
    BY <1>3, <1>4, <2>1
  <2>3. j + 1 \in 1..k /\ 2 * (j + 1) - 1 = 2 * j + 1 /\ 2 * j + 1 \in 1..(2 * k - 1) /\ 2 * j + 1 <= Len(ts)
    BY <1>1, <1>4
  <2>4. ts[2 * j + 1] = <<"ident", p[j + 1]>>
    BY <1>3, <1>4, <2>3
  <2>5. j + 1 \in 2..Len(p)
    BY <1>1 DEF k
  <2> QED
    BY <2>1, <2>2, <2>3, <2>4, <2>5 DEF DotAt, NameAt
<1>6. ~DotAt(ts, k)
  <2> SUFFICES ASSUME DotAt(ts, k) PROVE FALSE
    OBVIOUS
  <2>1. 2 * k <= Len(ts) /\ ts[2 * k] = <<"dot", ".">>
    BY DEF DotAt
  <2>2. 1 \in 1..Len(rest) /\ 2 * k - 1 + 1 = 2 * k
    BY <1>1, <1>4, <2>1
  <2>3. rest[1] = <<"dot", ".">>
    BY <1>4, <2>1, <2>2
  <2>4. rest # <<>> /\ Head(rest) = rest[1]
    BY <2>2
  <2> QED
    BY <2>3, <2>4 DEF Stops
<1> DEFINE Here(i) == (\A j \in 1..i : DotAt(ts, j)) /\ ~DotAt(ts, i + 1)
           n == CHOOSE i \in 0..Len(ts) : Here(i)
<1>7. \A i \in 0..Len(ts) : Here(i) <=> i = k - 1
  <2> TAKE i \in 0..Len(ts)
  <2>0. i \in Nat
    BY <1>4
  <2>1. CASE i = k - 1
    <3>1. i + 1 = k
      BY <1>1, <2>1
    <3> QED
      BY <1>5, <1>6, <2>1, <3>1
  <2>2. CASE i < k - 1
    <3>1. i + 1 \in 1..(k - 1)
      BY <1>1, <2>0, <2>2
    <3> QED
      BY <1>5, <2>2, <3>1
  <2>3. CASE i > k - 1
    <3>1. k \in 1..i
      BY <1>1, <2>0, <2>3
    <3> QED
      BY <1>6, <2>3, <3>1
  <2> QED
    BY <1>1, <2>0, <2>1, <2>2, <2>3
<1>8. n = k - 1
  <2>1. k - 1 \in 0..Len(ts)
    BY <1>1, <1>4
  <2> HIDE DEF Here
  <2> QED
    BY <1>7, <2>1
<1>9. MorePath(ts) = IF \A j \in 1..n : NameAt(ts, 2 * j + 1)
                     THEN Got(<<"path", [j \in 1..(n + 1) |-> ts[2 * j - 1][2]]>>, SubSeq(ts, 2 * n + 2, Len(ts)))
                     ELSE SyntaxError
  BY DEF MorePath
<1> HIDE DEF n
<1>10. [j \in 1..(n + 1) |-> ts[2 * j - 1][2]] = p
  <2> DEFINE q == [j \in 1..(n + 1) |-> ts[2 * j - 1][2]]
  <2>1. n + 1 = k /\ p = [j \in 1..k |-> p[j]]
    BY <1>1, <1>8 DEF k
  <2>2. ASSUME NEW j \in 1..k PROVE ts[2 * j - 1][2] = p[j]
    <3>1. 2 * j - 1 \in 1..(2 * k - 1)
      BY <1>1
    <3>2. ts[2 * j - 1] = <<"ident", p[j]>>
      BY <1>3, <1>4, <3>1
    <3> QED
      BY <3>2
  <2> QED
    BY <2>1, <2>2
<1>11. SubSeq(ts, 2 * n + 2, Len(ts)) = rest
  <2>1. 2 * n + 2 = 2 * k
    BY <1>1, <1>8
  <2> DEFINE s == SubSeq(ts, 2 * k, Len(ts))
  <2>2. s \in Seq(Tokens) /\ Len(s) = Len(rest)
        /\ \A i \in 1..Len(rest) : s[i] = ts[2 * k - 1 + i]
    BY <1>1, <1>4
  <2> HIDE DEF s
  <2>3. \A i \in 1..Len(rest) : s[i] = rest[i]
    BY <1>4, <2>2
  <2>4. s = rest
    BY <2>2, <2>3
  <2> QED
    BY <2>1, <2>4 DEF s
<1>12. \A j \in 1..n : NameAt(ts, 2 * j + 1)
  BY <1>5, <1>8
<1> QED
  BY <1>9, <1>10, <1>11, <1>12 DEF ts, w

\* Four sequences, as Write puts them together and as the parser takes them.
Join(a, b) == a \o b

\* Putting sequences together, as an operator that the provers leave closed.
LEMMA Joins ==
  \A x, y, z \in Seq(Tokens) : /\ Join(x, y) \in Seq(Tokens) /\ Len(Join(x, y)) = Len(x) + Len(y)
                               /\ Join(Join(x, y), z) = Join(x, Join(y, z))
<1> TAKE x, y, z \in Seq(Tokens)
<1>1. Join(x, y) \in Seq(Tokens) /\ Len(Join(x, y)) = Len(x) + Len(y)
  BY DEF Join
<1>2. (x \o y) \o z = x \o (y \o z)
  BY Regrouped
<1>3. Join(Join(x, y), z) = Join(x, Join(y, z))
  BY <1>2, Zenon DEF Join
<1> QED
  BY <1>1, <1>3

\* Four of them.
LEMMA FourJoined ==
  \A a, b, c, s \in Seq(Tokens) :
      Join(Join(Join(a, b), c), s) = Join(a, Join(b, Join(c, s)))
<1> TAKE a, b, c, s \in Seq(Tokens)
<1> DEFINE ab == Join(a, b)
           cs == Join(c, s)
<1>1. ab \in Seq(Tokens) /\ Len(ab) = Len(a) + Len(b) /\ cs \in Seq(Tokens)
  BY Joins
<1>2. Join(ab, cs) = Join(a, Join(b, cs))
  <2> HIDE DEF cs
  <2> QED
    BY <1>1, Joins
<1> HIDE DEF ab
<1>3. Join(Join(ab, c), s) = Join(ab, cs)
  BY <1>1, Joins
<1> QED
  BY <1>2, <1>3, Zenon DEF ab

\* What _parse_primary does, by the first token.
LEMMA PrimaryIs ==
  ASSUME NEW parse, NEW ts, ts # <<>>, NEW d
  PROVE  /\ Head(ts)[1] = "lit" => ParsePrimary(parse, ts, d) = Got(Head(ts), Tail(ts))
         /\ Head(ts)[1] = "ident" => ParsePrimary(parse, ts, d) = ParsePath(ts, d)
         /\ Head(ts) = <<"paren", "(">> =>
              ParsePrimary(parse, ts, d)
              = IF ~EnterNesting(d) THEN SyntaxError
                ELSE LET inner == parse[<<1, Tail(ts), Deeper(d)>>] IN
                     IF inner.ok /\ NextIs(inner.rest, "paren", ")")
                     THEN Got(inner.node, Tail(inner.rest)) ELSE SyntaxError
<1> DEFINE kind == Head(ts)[1]
           Opened == NextIs(ts, "paren", "(")
           inside == LET inner == parse[<<1, Tail(ts), Deeper(d)>>] IN
                     IF inner.ok /\ NextIs(inner.rest, "paren", ")")
                     THEN Got(inner.node, Tail(inner.rest)) ELSE SyntaxError
<1>1. Opened <=> Head(ts) = <<"paren", "(">>
  BY DEF NextIs
<1>2. Opened => kind = "paren"
  BY <1>1
<1>3. ParsePrimary(parse, ts, d) = CASE kind = "lit" -> Got(Head(ts), Tail(ts))
                                     [] kind = "ident" -> ParsePath(ts, d)
                                     [] Opened /\ EnterNesting(d) -> inside
                                     [] OTHER -> SyntaxError
  BY DEF ParsePrimary
<1> HIDE DEF kind, Opened, inside
<1>4. CASE kind = "lit"
  <2>1. ParsePrimary(parse, ts, d) = Got(Head(ts), Tail(ts))
    BY <1>2, <1>3, <1>4
  <2> QED
    BY <1>1, <1>2, <1>4, <2>1 DEF kind
<1>5. CASE kind = "ident"
  <2>1. ParsePrimary(parse, ts, d) = ParsePath(ts, d)
    BY <1>2, <1>3, <1>5
  <2> QED
    BY <1>1, <1>2, <1>5, <2>1 DEF kind
<1>6. CASE kind = "paren"
  <2>1. Opened => ParsePrimary(parse, ts, d) = IF ~EnterNesting(d) THEN SyntaxError ELSE inside
    BY <1>2, <1>3, <1>6
  <2> QED
    BY <1>1, <1>6, <2>1 DEF kind, inside
<1>7. kind \notin {"lit", "ident", "paren"} => ~(Head(ts) = <<"paren", "(">>)
  BY <1>1, <1>2
<1> QED
  BY <1>4, <1>5, <1>6, <1>7 DEF kind

\* _parse_primary reads a literal or a path.
LEMMA PrimaryAtoms ==
  ASSUME NEW parse, NEW n \in Nat, Ruled(parse, n), NEW e \in Trees, e \in Atoms
  PROVE  Parses(parse, n, e, 5)
<1> SUFFICES ASSUME NEW m \in 1..n, NEW rest \in Seq(Tokens), NEW d \in Opens,
                    Suits(e, d), Stops(5, rest)
             PROVE  parse[m][<<5, Write(e, 5) \o rest, d>>] = Comes(e, Nesting(e, 5), d, rest)
  BY DEF Parses
<1>1. Level(e) = 5 /\ Write(e, 5) = Inside(e) /\ Nesting(e, 5) = 0
  <2>1. Level(e) = 5
    BY LevelIs
  <2>2. Write(e, 5) = Bracketed(e, 5, Inside(e))
    BY WriteIs
  <2>3. Nesting(e, 5) = (IF Level(e) < 5 THEN 1 ELSE 0) + Within(e)
    BY NestingIs
  <2>4. Within(e) = 0
    BY Shapes DEF Within
  <2> QED
    BY <2>1, <2>2, <2>3, <2>4 DEF Bracketed
<1>2. Comes(e, Nesting(e, 5), d, rest) = Got(e, rest)
  BY <1>1, OpensAre DEF Comes
<1> DEFINE w == Write(e, 5)
           ts == w \o rest
<1>3. w \in Seq(Tokens) /\ w # <<>> /\ ts \in Seq(Tokens) /\ ts # <<>> /\ Head(ts) = Head(w)
  BY WriteIs, PrimaryBegins, HeadsOf
<1>4. parse[m][<<5, ts, d>>] = ParsePrimary(parse[m - 1], ts, d)
  BY <1>3, CallIs
<1>5. CASE e[1] = "lit"
  <2>1. w = <<e>> /\ e \in Tokens
    BY <1>1, <1>5 DEF Inside, Atoms, Tokens
  <2>2. Head(ts) = e /\ Tail(ts) = rest
    BY <2>1, Following
  <2> HIDE DEF ts
  <2>3. Head(ts)[1] = "lit"
    BY <1>5, <2>2
  <2>4. ParsePrimary(parse[m - 1], ts, d) = Got(Head(ts), Tail(ts))
    BY <1>3, <2>3, PrimaryIs, Zenon
  <2>5. ParsePrimary(parse[m - 1], ts, d) = Got(e, rest)
    BY <2>2, <2>4, Zenon
  <2> QED
    BY <1>2, <1>4, <2>5 DEF ts
<1>6. CASE e[1] = "path"
  <2> DEFINE p == e[2]
  <2>1. w = WriteSegments(p)
    BY <1>1, <1>6 DEF Inside
  <2>2. /\ e = <<"path", p>> /\ p \in Seq(STRING) /\ p # <<>>
        /\ p \in (IF d = Uncounted THEN {RawValue[2]} ELSE FieldPaths)
    BY <1>6, PathSuits
  <2> HIDE DEF p
  <2>3. Len(p) \in Nat /\ Len(p) > 0 /\ 1 \in 1..(2 * Len(p) - 1) /\ 1 % 2 = 1 /\ (1 + 1) \div 2 = 1
        /\ p[1] \in STRING
    BY <2>2
  <2>4. w[1] = <<"ident", p[1]>> /\ Head(w) = w[1]
    <3>1. WriteSegments(p)[1] = <<"ident", p[1]>>
      BY <2>3 DEF WriteSegments
    <3> HIDE DEF w
    <3>2. Head(w) = w[1]
      BY <1>3
    <3> QED
      BY <2>1, <3>1, <3>2
  <2>5. Head(ts) = <<"ident", p[1]>>
    BY <1>3, <2>4
  <2>6. CASE d = Uncounted
    <3>1. p = <<"raw_value">> /\ e = RawValue
      BY <2>2, <2>6 DEF RawValue
    <3>2. ts = <<<<"ident", "raw_value">>>> \o rest
      <4>1. WriteSegments(p) = [i \in 1..1 |-> <<"ident", "raw_value">>]
        <5>1. 2 * Len(p) - 1 = 1 /\ 1 % 2 = 1 /\ (1 + 1) \div 2 = 1 /\ p[1] = "raw_value"
          BY <3>1
        <5>2. \A i \in 1..1 : i = 1
          OBVIOUS
        <5> QED
          BY <5>1, <5>2 DEF WriteSegments
      <4>2. w = <<<<"ident", "raw_value">>>>
        BY <2>1, <4>1
      <4> HIDE DEF w
      <4> QED
        BY <4>2
    <3>3. <<"ident", "raw_value">> \in Tokens
      <4>1. p[1] = "raw_value"
        BY <3>1
      <4>2. <<"ident", p[1]>> \in Tokens
        BY <2>3 DEF Tokens
      <4> QED
        BY <4>1, <4>2
    <3>4. Head(ts) = <<"ident", "raw_value">> /\ Tail(ts) = rest
      BY <3>2, <3>3, Following
    <3> HIDE DEF ts
    <3>5. ParsePrimary(parse[m - 1], ts, d) = ParsePath(ts, d)
      <4>1. Head(ts)[1] = "ident"
        BY <3>4
      <4> QED
        BY <1>3, <4>1, PrimaryIs, Zenon
    <3>6. ParsePath(ts, d) = Got(e, rest)
      BY <1>3, <2>6, <3>1, <3>4 DEF ParsePath, NextIs
    <3> QED
      BY <1>2, <1>4, <3>5, <3>6 DEF ts
  <2>7. CASE d # Uncounted
    <3>1. p[1] \in AllowedFields /\ \A i \in 2..Len(p) : p[i] \notin Reserved
      BY <2>2, <2>7 DEF FieldPaths
    <3>2. MorePath(ts) = Got(e, rest)
      BY <2>1, <2>2, <3>1, SegmentsRead
    <3> HIDE DEF ts
    <3>3. ParsePrimary(parse[m - 1], ts, d) = ParsePath(ts, d)
      <4>1. Head(ts)[1] = "ident"
        BY <2>5
      <4> QED
        BY <1>3, <4>1, PrimaryIs, Zenon
    <3>4. Head(ts)[2] \in AllowedFields
      BY <2>5, <3>1
    <3>5. ParsePath(ts, d) = MorePath(ts)
      BY <2>7, <3>4 DEF ParsePath
    <3> QED
      BY <1>2, <1>4, <3>2, <3>3, <3>5 DEF ts
  <2> QED
    BY <2>6, <2>7
<1> QED
  BY <1>5, <1>6, Shapes

\* Parentheses.
LEMMA PrimaryParens ==
  ASSUME NEW parse, NEW n \in Nat, Ruled(parse, n), NEW e \in Trees, Level(e) < 5,
         Parses(parse, n, e, 1)
  PROVE  Parses(parse, n, e, 5)
<1> SUFFICES ASSUME NEW m \in 1..n, NEW rest \in Seq(Tokens), NEW d \in Opens,
                    m >= 5 * Len(Write(e, 5)) + 6 - 5, Suits(e, d), Stops(5, rest)
             PROVE  parse[m][<<5, Write(e, 5) \o rest, d>>] = Comes(e, Nesting(e, 5), d, rest)
  BY DEF Parses
<1> DEFINE w == Write(e, 1)
           l == <<"paren", "(">>
           r == <<"paren", ")">>
           then == <<r>> \o rest
           ts == <<l>> \o (w \o then)
<1>1. l \in Tokens /\ r \in Tokens /\ <<l>> \in Seq(Tokens) /\ <<r>> \in Seq(Tokens)
      /\ Len(<<l>>) = 1 /\ Len(<<r>>) = 1
  BY TokensOfOperators DEF Tokens
<1>2. w \in Seq(Tokens) /\ Nesting(e, 1) \in Nat /\ Nesting(e, 5) = 1 + Nesting(e, 1)
      /\ Write(e, 5) = <<l>> \o w \o <<r>>
  <2>1. Level(e) \in 1..5
    BY LevelIs
  <2>2. /\ Write(e, 1) = Inside(e) /\ Inside(e) \in Seq(Tokens)
        /\ Write(e, 5) = <<l>> \o Inside(e) \o <<r>>
    <3>1. Level(e) >= 1 /\ ~(Level(e) >= 5)
      BY <2>1
    <3>2. Write(e, 1) = Bracketed(e, 1, Inside(e)) /\ Inside(e) \in Seq(Tokens)
      BY WriteIs
    <3>3. Write(e, 5) = Bracketed(e, 5, Inside(e))
      BY WriteIs
    <3> QED
      BY <3>1, <3>2, <3>3, Zenon DEF Bracketed
  <2>3. Nesting(e, 5) = 1 + Within(e) /\ Nesting(e, 1) = 0 + Within(e) /\ Within(e) \in Nat
    BY <2>1, NestingIs
  <2> QED
    BY <2>2, <2>3
<1> HIDE DEF w, l, r
<1>3. then \in Seq(Tokens) /\ then # <<>> /\ Head(then) = r /\ Tail(then) = rest
  BY <1>1, Following
<1>4. w \o then \in Seq(Tokens)
  BY <1>2, <1>3
<1>5. ts \in Seq(Tokens) /\ ts # <<>> /\ Head(ts) = l /\ Tail(ts) = w \o then
  BY <1>1, <1>4, Following
<1>6. Write(e, 5) \o rest = ts /\ Len(Write(e, 5)) = 2 + Len(w) /\ Len(w) \in Nat
  <2> DEFINE x == <<l>>
             y == <<r>>
  <2>1. x \in Seq(Tokens) /\ y \in Seq(Tokens) /\ Len(x) = 1 /\ Len(y) = 1 /\ Len(w) \in Nat
    BY <1>1, <1>2
  <2>2. Write(e, 5) = x \o w \o y /\ ts = x \o (w \o (y \o rest))
    BY <1>2
  <2> HIDE DEF x, y, ts
  <2>3. Join(Join(Join(x, w), y), rest) = Join(x, Join(w, Join(y, rest)))
    BY <1>2, <2>1, FourJoined
  <2>4. Len(Join(Join(x, w), y)) = Len(x) + Len(w) + Len(y)
    <3> DEFINE xw == Join(x, w)
    <3>1. xw \in Seq(Tokens) /\ Len(xw) = Len(x) + Len(w)
      BY <1>2, <2>1, Joins
    <3> HIDE DEF xw
    <3>2. Len(Join(xw, y)) = Len(xw) + Len(y)
      BY <2>1, <3>1, Joins
    <3> QED
      BY <3>1, <3>2 DEF xw
  <2>5. Len(Write(e, 5)) = 1 + Len(w) + 1
    BY <2>1, <2>2, <2>4, Zenon DEF Join
  <2>6. 1 + Len(w) + 1 = 2 + Len(w)
    BY <2>1
  <2>7. Write(e, 5) \o rest = ts
    BY <2>2, <2>3, Zenon DEF Join
  <2> QED
    BY <2>1, <2>5, <2>6, <2>7
<1>7. Stops(1, then)
  BY <1>3 DEF Stops, r
<1> HIDE DEF then, ts
<1>8. parse[m][<<5, ts, d>>] = ParsePrimary(parse[m - 1], ts, d)
  BY <1>5, CallIs
<1>9. Fits(d, Nesting(e, 5)) => EnterNesting(d)
  BY <1>2, OpensAre
<1>10. ParsePrimary(parse[m - 1], ts, d)
       = IF ~EnterNesting(d) THEN SyntaxError
         ELSE LET inner == parse[m - 1][<<1, w \o then, Deeper(d)>>] IN
              IF inner.ok /\ NextIs(inner.rest, "paren", ")")
              THEN Got(inner.node, Tail(inner.rest)) ELSE SyntaxError
  <2>1. Head(ts) = <<"paren", "(">>
    BY <1>5 DEF l
  <2> QED
    BY <1>5, <2>1, PrimaryIs
<1>11. CASE ~EnterNesting(d)
  BY <1>6, <1>8, <1>9, <1>10, <1>11 DEF Comes
<1>12. CASE EnterNesting(d)
  <2>1. Deeper(d) \in Opens /\ (Fits(Deeper(d), Nesting(e, 1)) <=> Fits(d, Nesting(e, 5)))
        /\ (Deeper(d) = Uncounted <=> d = Uncounted)
    <3> DEFINE k == Nesting(e, 1)
    <3>1. k \in Nat /\ Nesting(e, 5) = 1 + k
      BY <1>2
    <3> HIDE DEF k
    <3>2. Deeper(d) \in Opens /\ (Fits(Deeper(d), k) <=> Fits(d, 1 + k))
          /\ (Deeper(d) = Uncounted <=> d = Uncounted)
      BY <1>12, <3>1, OpensAre
    <3> QED
      BY <3>1, <3>2 DEF k
  <2>2. Suits(e, Deeper(d))
    BY <2>1 DEF Suits
  <2>3. m - 1 \in 1..n /\ m - 1 >= 5 * Len(w) + 6 - 1
    BY <1>6
  <2>4. parse[m - 1][<<1, w \o then, Deeper(d)>>] = Comes(e, Nesting(e, 1), Deeper(d), then)
    BY <1>3, <1>7, <2>1, <2>2, <2>3 DEF Parses, w
  <2>5. CASE Fits(d, Nesting(e, 5))
    <3>1. parse[m - 1][<<1, w \o then, Deeper(d)>>] = Got(e, then)
      BY <2>1, <2>4, <2>5 DEF Comes
    <3>2. Got(e, then).ok /\ Got(e, then).node = e /\ Got(e, then).rest = then
      BY DEF Got
    <3>3. NextIs(then, "paren", ")")
      BY <1>3 DEF NextIs, r
    <3>4. ParsePrimary(parse[m - 1], ts, d) = Got(e, rest)
      BY <1>3, <1>10, <1>12, <3>1, <3>2, <3>3
    <3> QED
      BY <1>6, <1>8, <2>5, <3>4 DEF Comes
  <2>6. CASE ~Fits(d, Nesting(e, 5))
    <3>1. parse[m - 1][<<1, w \o then, Deeper(d)>>] = SyntaxError /\ ~SyntaxError.ok
      BY <2>1, <2>4, <2>6 DEF Comes, SyntaxError
    <3>2. ParsePrimary(parse[m - 1], ts, d) = SyntaxError
      BY <1>10, <1>12, <3>1
    <3> QED
      BY <1>6, <1>8, <2>6, <3>2 DEF Comes
  <2> QED
    BY <2>5, <2>6
<1> QED
  BY <1>11, <1>12

\* A comparison as it is written, with what follows.
LEMMA ComparisonWritten ==
  ASSUME NEW e \in Trees, Level(e) = 4
  PROVE  /\ e \notin Atoms /\ e = <<"compare", e[2], First(e), Second(e)>> /\ e[2] \in Comparisons
         /\ First(e) \in Trees /\ Second(e) \in Trees
         /\ Write(e, 4) = Write(First(e), 5) \o <<<<"op", e[2]>>>> \o Write(Second(e), 5)
         /\ Nesting(e, 4) = Greater(Nesting(First(e), 5), Nesting(Second(e), 5))
<1>1. e \notin Atoms /\ e[1] = "compare"
  BY LevelIs
<1>2. Composed(e) /\ First(e) \in Trees /\ Second(e) \in Trees
  BY <1>1, Below
<1>3. First(e) = e[3] /\ Second(e) = e[4]
  BY <1>1 DEF First, Second
<1>4. e[2] \in Comparisons /\ e = <<"compare", e[2], e[3], e[4]>>
  BY <1>1, <1>2 DEF Composed, Connectives
<1>5. Write(e, 4) = Inside(e) /\ Nesting(e, 4) = 0 + Within(e) /\ Within(e) \in Nat
  BY WriteIs, NestingIs DEF Bracketed
<1>6. Inside(e) = Write(e[3], 5) \o Op(e[2]) \o Write(e[4], 5)
  BY <1>1 DEF Inside
<1>7. Within(e) = Greater(Nesting(e[3], 5), Nesting(e[4], 5))
  BY <1>1 DEF Within
<1>8. Write(e, 4) = Write(First(e), 5) \o <<<<"op", e[2]>>>> \o Write(Second(e), 5)
  BY <1>3, <1>5, <1>6, Zenon DEF Op
<1>9. Nesting(e, 4) = Greater(Nesting(First(e), 5), Nesting(Second(e), 5))
  <2>1. Nesting(e, 4) = Within(e)
    BY <1>5
  <2> QED
    BY <1>3, <1>7, <2>1, Zenon
<1>10. e = <<"compare", e[2], First(e), Second(e)>>
  BY <1>3, <1>4, Zenon
<1> QED
  BY <1>1, <1>2, <1>4, <1>8, <1>9, <1>10, Zenon

\* An operator between two operands: what comes after the first, and how long it is.
Placed(u, t, v, rest) ==
    /\ v \o rest \in Seq(Tokens) /\ <<t>> \o (v \o rest) \in Seq(Tokens)
    /\ <<t>> \o (v \o rest) # <<>> /\ Head(<<t>> \o (v \o rest)) = t
    /\ Tail(<<t>> \o (v \o rest)) = v \o rest
    /\ (u \o <<t>> \o v) \o rest = u \o (<<t>> \o (v \o rest))
    /\ Len(u \o <<t>> \o v) = Len(u) + 1 + Len(v) /\ Len(u) \in Nat /\ Len(v) \in Nat

\* An operator between two operands, and what follows, is placed so.
LEMMA Between ==
  ASSUME NEW u \in Seq(Tokens), NEW t \in Tokens, NEW v \in Seq(Tokens), NEW rest \in Seq(Tokens)
  PROVE  Placed(u, t, v, rest)
<1> DEFINE one == <<t>>
<1>1. one \in Seq(Tokens) /\ Len(one) = 1 /\ v \o rest \in Seq(Tokens)
  OBVIOUS
<1>2. /\ <<t>> \o (v \o rest) \in Seq(Tokens) /\ <<t>> \o (v \o rest) # <<>>
      /\ Head(<<t>> \o (v \o rest)) = t /\ Tail(<<t>> \o (v \o rest)) = v \o rest
  BY <1>1, Following
<1> HIDE DEF one
<1>3. Join(Join(Join(u, one), v), rest) = Join(u, Join(one, Join(v, rest)))
  BY <1>1, FourJoined
<1>4. Len(Join(Join(u, one), v)) = Len(u) + Len(one) + Len(v)
  <2> DEFINE x == Join(u, one)
  <2>1. x \in Seq(Tokens) /\ Len(x) = Len(u) + Len(one)
    BY <1>1, Joins
  <2> HIDE DEF x
  <2>2. Len(Join(x, v)) = Len(x) + Len(v)
    BY <2>1, Joins
  <2> QED
    BY <2>1, <2>2 DEF x
<1>5. (u \o one \o v) \o rest = u \o (one \o (v \o rest))
  BY <1>3, Zenon DEF Join
<1>6. Len(u \o one \o v) = Len(u) + Len(one) + Len(v)
  BY <1>4, Zenon DEF Join
<1>7. Len(u \o one \o v) = Len(u) + 1 + Len(v)
  BY <1>1, <1>6, Zenon
<1>8. Len(u) \in Nat /\ Len(v) \in Nat
  OBVIOUS
<1> QED
  BY <1>1, <1>2, <1>5, <1>7, <1>8, Zenon DEF one, Placed

\* What is written for _parse_comparison begins with no operator.
LEMMA ComparisonBegins ==
  ASSUME NEW e \in Trees, NEW d, Suits(e, d)
  PROVE  Write(e, 4) # <<>> /\ Head(Write(e, 4))[1] # "op"
<1>1. CASE Level(e) # 4
  <2>1. Write(e, 4) = Write(e, 5)
    BY <1>1, SameForNext
  <2> QED
    BY <2>1, PrimaryBegins
<1>2. CASE Level(e) = 4
  <2> DEFINE u == Write(First(e), 5)
             v == Write(Second(e), 5)
             t == <<"op", e[2]>>
  <2>1. /\ e \notin Atoms /\ First(e) \in Trees /\ Second(e) \in Trees /\ e[2] \in Comparisons
        /\ Write(e, 4) = u \o <<t>> \o v
    BY <1>2, ComparisonWritten
  <2>2. Suits(First(e), d)
    BY <2>1, SuitsBelow
  <2>3. u # <<>> /\ Head(u)[1] # "op" /\ u \in Seq(Tokens) /\ v \in Seq(Tokens)
    BY <2>1, <2>2, PrimaryBegins, WriteIs
  <2>4. t \in Tokens
    BY <2>1 DEF Tokens
  <2> HIDE DEF u, v, t
  <2> DEFINE one == <<t>> \o (v \o <<>>)
  <2>5. <<>> \in Seq(Tokens)
    OBVIOUS
  <2>6. one \in Seq(Tokens) /\ (u \o <<t>> \o v) \o <<>> = u \o one
    <3>1. Placed(u, t, v, <<>>)
      BY <2>3, <2>4, <2>5, Between
    <3> QED
      BY <3>1, Zenon DEF Placed
  <2>7. (u \o <<t>> \o v) \o <<>> = u \o <<t>> \o v
    <3>1. u \o <<t>> \o v \in Seq(Tokens)
      BY <2>3, <2>4
    <3> QED
      BY <3>1
  <2> HIDE DEF one
  <2>8. u \o one # <<>> /\ Head(u \o one) = Head(u)
    BY <2>3, <2>6, HeadsOf
  <2> QED
    BY <2>1, <2>3, <2>6, <2>7, <2>8
<1> QED
  BY <1>1, <1>2

\* A tree that is no comparison, as the left side of none.
LEMMA ComparisonFromHigher ==
  ASSUME NEW parse, NEW n \in Nat, Ruled(parse, n), NEW e \in Trees, Level(e) # 4,
         Parses(parse, n, e, 5)
  PROVE  Parses(parse, n, e, 4)
<1> SUFFICES ASSUME NEW m \in 1..n, NEW rest \in Seq(Tokens), NEW d \in Opens,
                    m >= 5 * Len(Write(e, 4)) + 6 - 4, Suits(e, d), Stops(4, rest)
             PROVE  parse[m][<<4, Write(e, 4) \o rest, d>>] = Comes(e, Nesting(e, 4), d, rest)
  BY DEF Parses
<1> DEFINE w == Write(e, 5)
           ts == w \o rest
           left == parse[m - 1][<<5, ts, d>>]
<1>1. Write(e, 4) = w /\ Nesting(e, 4) = Nesting(e, 5) /\ w \in Seq(Tokens) /\ ts \in Seq(Tokens)
      /\ Len(w) \in Nat
  BY SameForNext, WriteIs
<1>2. m - 1 \in 1..n /\ m - 1 >= 5 * Len(w) + 6 - 5
  BY <1>1
<1>3. Stops(5, rest)
  BY StopsNext
<1>4. left = Comes(e, Nesting(e, 5), d, rest)
  BY <1>2, <1>3 DEF Parses
<1> HIDE DEF ts
<1>5. parse[m][<<4, ts, d>>] = ParseComparison(parse[m - 1], ts, d)
  BY <1>1, CallIs
<1>6. ParseComparison(parse[m - 1], ts, d) = left
  <2>1. CASE ~left.ok
    BY <2>1 DEF ParseComparison
  <2>2. CASE left.ok
    <3>1. Fits(d, Nesting(e, 5))
      BY <1>4, <2>2 DEF Comes, SyntaxError
    <3>2. left.rest = rest
      BY <1>4, <3>1 DEF Comes, Got
    <3> HIDE DEF left
    <3>3. rest = <<>> \/ ~(Head(rest)[1] = "op" /\ Head(rest)[2] \in Comparisons)
      BY DEF Stops
    <3> QED
      BY <3>2, <3>3 DEF ParseComparison, left
  <2> QED
    BY <2>1, <2>2
<1> QED
  BY <1>1, <1>4, <1>5, <1>6 DEF ts

\* A comparison.
LEMMA ComparisonOwn ==
  ASSUME NEW parse, NEW n \in Nat, Ruled(parse, n), NEW e \in Trees, Level(e) = 4,
         Parses(parse, n, First(e), 5), Parses(parse, n, Second(e), 5)
  PROVE  Parses(parse, n, e, 4)
<1> SUFFICES ASSUME NEW m \in 1..n, NEW rest \in Seq(Tokens), NEW d \in Opens,
                    m >= 5 * Len(Write(e, 4)) + 6 - 4, Suits(e, d), Stops(4, rest)
             PROVE  parse[m][<<4, Write(e, 4) \o rest, d>>] = Comes(e, Nesting(e, 4), d, rest)
  BY DEF Parses
<1> DEFINE a == First(e)
           b == Second(e)
           u == Write(a, 5)
           v == Write(b, 5)
           t == <<"op", e[2]>>
           then == <<t>> \o (v \o rest)
           ts == u \o then
<1>1. /\ e \notin Atoms /\ e = <<"compare", e[2], a, b>> /\ e[2] \in Comparisons
      /\ a \in Trees /\ b \in Trees /\ Write(e, 4) = u \o <<t>> \o v
      /\ Nesting(e, 4) = Greater(Nesting(a, 5), Nesting(b, 5))
  BY ComparisonWritten
<1>2. Suits(a, d) /\ Suits(b, d)
  BY <1>1, SuitsBelow
<1>3. u \in Seq(Tokens) /\ v \in Seq(Tokens) /\ Nesting(a, 5) \in Nat /\ Nesting(b, 5) \in Nat
  BY <1>1, WriteIs, NestingIs
<1>4. t \in Tokens /\ t[1] = "op" /\ t[2] = e[2]
  BY <1>1 DEF Tokens
<1>5. Parses(parse, n, a, 5) /\ Parses(parse, n, b, 5)
  OBVIOUS
<1> HIDE DEF a, b, t
<1>6. Stops(5, <<>>) /\ (t # <<"dot", ".">>)
  BY <1>4 DEF Stops
<1> HIDE DEF u, v
<1>7. /\ v \o rest \in Seq(Tokens) /\ then \in Seq(Tokens) /\ then # <<>>
      /\ Head(then) = t /\ Tail(then) = v \o rest
      /\ (u \o <<t>> \o v) \o rest = ts
      /\ Len(u \o <<t>> \o v) = Len(u) + 1 + Len(v) /\ Len(u) \in Nat /\ Len(v) \in Nat
  <2>1. Placed(u, t, v, rest)
    BY <1>3, <1>4, Between
  <2> QED
    BY <2>1, Zenon DEF Placed
<1> HIDE DEF then
<1>8. ts \in Seq(Tokens) /\ Write(e, 4) \o rest = ts
  <2>1. ts \in Seq(Tokens)
    BY <1>3, <1>7
  <2> QED
    BY <1>1, <1>7, <2>1, Zenon
<1> HIDE DEF ts
<1>9. m - 1 \in 1..n /\ m - 1 >= 5 * Len(u) + 6 - 5 /\ m - 1 >= 5 * Len(v) + 6 - 5
  BY <1>1, <1>7
<1>10. Stops(5, then) /\ Stops(5, rest)
  <2>1. Stops(5, then)
    <3>1. Head(then) # <<"dot", ".">>
      BY <1>6, <1>7, Zenon
    <3> QED
      BY ONLY <3>1 DEF Stops
  <2> QED
    BY <2>1, StopsNext
<1> DEFINE left == parse[m - 1][<<5, ts, d>>]
           right == parse[m - 1][<<5, v \o rest, d>>]
<1>11. left = Comes(a, Nesting(a, 5), d, then)
  BY <1>2, <1>5, <1>7, <1>9, <1>10 DEF Parses, u, ts
<1>12. right = Comes(b, Nesting(b, 5), d, rest)
  BY <1>2, <1>5, <1>7, <1>9, <1>10 DEF Parses, v
<1>13. parse[m][<<4, ts, d>>] = ParseComparison(parse[m - 1], ts, d)
  BY <1>8, CallIs
<1>14. Fits(d, Nesting(e, 4)) <=> Fits(d, Nesting(a, 5)) /\ Fits(d, Nesting(b, 5))
  BY <1>1, <1>3, FitBoth
<1>15. ParseComparison(parse[m - 1], ts, d) = Comes(e, Nesting(e, 4), d, rest)
  <2>1. CASE ~Fits(d, Nesting(a, 5))
    <3>1. left = SyntaxError /\ ~SyntaxError.ok
      BY <1>11, <2>1 DEF Comes, SyntaxError
    <3> QED
      BY <1>14, <2>1, <3>1 DEF ParseComparison, Comes
  <2>2. CASE Fits(d, Nesting(a, 5))
    <3>1. left = Got(a, then)
      BY <1>11, <2>2 DEF Comes
    <3>2. left.ok /\ left.node = a /\ left.rest = then
      BY <3>1 DEF Got
    <3>3. Head(left.rest) = t /\ Tail(left.rest) = v \o rest /\ left.rest # <<>>
      BY <1>7, <3>2
    <3>4. Head(left.rest)[1] = "op" /\ Head(left.rest)[2] = e[2]
      BY <1>4, <3>3
    <3>5. ParseComparison(parse[m - 1], ts, d)
          = IF right.ok THEN Got(<<"compare", e[2], a, right.node>>, right.rest) ELSE SyntaxError
      <4> HIDE DEF left
      <4> QED
        BY <1>1, <3>2, <3>3, <3>4 DEF ParseComparison, left
    <3>6. CASE Fits(d, Nesting(b, 5))
      <4>1. right = Got(b, rest)
        BY <1>12, <3>6 DEF Comes
      <4>2. right.ok /\ right.node = b /\ right.rest = rest
        BY <4>1 DEF Got
      <4>3. ParseComparison(parse[m - 1], ts, d) = Got(<<"compare", e[2], a, b>>, rest)
        BY <3>5, <4>2
      <4> QED
        BY <1>1, <1>14, <2>2, <3>6, <4>3 DEF Comes
    <3>7. CASE ~Fits(d, Nesting(b, 5))
      <4>1. ~right.ok
        BY <1>12, <3>7 DEF Comes, SyntaxError
      <4> QED
        BY <1>14, <3>5, <3>7, <4>1 DEF Comes
    <3> QED
      BY <3>6, <3>7
  <2> QED
    BY <2>1, <2>2
<1> QED
  BY <1>8, <1>13, <1>15

\* A tree that is no negation, at the rule that looks for "!".
LEMMA NotFromHigher ==
  ASSUME NEW parse, NEW n \in Nat, Ruled(parse, n), NEW e \in Trees, Level(e) # 3,
         Parses(parse, n, e, 4)
  PROVE  Parses(parse, n, e, 3)
<1> SUFFICES ASSUME NEW m \in 1..n, NEW rest \in Seq(Tokens), NEW d \in Opens,
                    m >= 5 * Len(Write(e, 3)) + 6 - 3, Suits(e, d), Stops(3, rest)
             PROVE  parse[m][<<3, Write(e, 3) \o rest, d>>] = Comes(e, Nesting(e, 3), d, rest)
  BY DEF Parses
<1> DEFINE w == Write(e, 4)
           ts == w \o rest
<1>1. Write(e, 3) = w /\ Nesting(e, 3) = Nesting(e, 4) /\ w \in Seq(Tokens) /\ Len(w) \in Nat
  BY SameForNext, WriteIs
<1>2. m - 1 \in 1..n /\ m - 1 >= 5 * Len(w) + 6 - 4
  BY <1>1
<1>3. Stops(4, rest)
  BY StopsNext
<1>4. parse[m - 1][<<4, ts, d>>] = Comes(e, Nesting(e, 4), d, rest)
  BY <1>2, <1>3 DEF Parses
<1>5. w # <<>> /\ Head(w)[1] # "op"
  BY ComparisonBegins
<1> HIDE DEF w
<1>6. ts \in Seq(Tokens) /\ Head(ts) = Head(w)
  BY <1>1, <1>5, HeadsOf
<1> HIDE DEF ts
<1>7. Head(ts) # <<"op", "!">>
  BY <1>5, <1>6
<1>8. parse[m][<<3, ts, d>>] = ParseNot(parse[m - 1], ts, d)
  BY <1>6, CallIs
<1>9. ParseNot(parse[m - 1], ts, d) = parse[m - 1][<<4, ts, d>>]
  BY <1>7 DEF ParseNot, NextIs
<1> QED
  BY <1>1, <1>4, <1>8, <1>9 DEF ts

\* A negation.
LEMMA NotOwn ==
  ASSUME NEW parse, NEW n \in Nat, Ruled(parse, n), NEW e \in Trees, Level(e) = 3,
         Parses(parse, n, First(e), 3)
  PROVE  Parses(parse, n, e, 3)
<1> SUFFICES ASSUME NEW m \in 1..n, NEW rest \in Seq(Tokens), NEW d \in Opens,
                    m >= 5 * Len(Write(e, 3)) + 6 - 3, Suits(e, d), Stops(3, rest)
             PROVE  parse[m][<<3, Write(e, 3) \o rest, d>>] = Comes(e, Nesting(e, 3), d, rest)
  BY DEF Parses
<1> DEFINE a == First(e)
           w == Write(a, 3)
           k == Nesting(a, 3)
           t == <<"op", "!">>
           ts == <<t>> \o (w \o rest)
<1>1. e \notin Atoms /\ e = <<"not", a>> /\ a \in Trees
  <2>1. e \notin Atoms /\ e[1] = "not"
    BY LevelIs
  <2>2. Composed(e) /\ First(e) \in Trees
    BY <2>1, Below
  <2> QED
    BY <2>1, <2>2 DEF Composed, Connectives, First
<1>2. Suits(a, d)
  BY <1>1, SuitsBelow
<1>3. w \in Seq(Tokens) /\ Len(w) \in Nat /\ k \in Nat
  BY <1>1, WriteIs, NestingIs
<1>4. Write(e, 3) = <<t>> \o w /\ Nesting(e, 3) = 1 + k
  <2>1. Write(e, 3) = Inside(e) /\ Nesting(e, 3) = 0 + Within(e) /\ Within(e) \in Nat
    BY WriteIs, NestingIs DEF Bracketed
  <2>2. e[1] = "not" /\ e[2] = a
    BY <1>1
  <2>3. Inside(e) = Op("!") \o w
    BY <2>2 DEF Inside
  <2>4. Within(e) = 1 + k
    BY <2>2 DEF Within
  <2> QED
    BY <2>1, <2>3, <2>4 DEF Op
<1>5. t \in Tokens
  BY DEF Tokens
<1>6. Parses(parse, n, a, 3)
  OBVIOUS
<1> HIDE DEF a, w, k, t
<1>7. w \o rest \in Seq(Tokens)
  BY <1>3
<1>8. ts \in Seq(Tokens) /\ ts # <<>> /\ Head(ts) = t /\ Tail(ts) = w \o rest
  BY <1>5, <1>7, Following
<1>9. Len(<<t>> \o w) = Len(w) + 1
  BY <1>3, <1>5, Following
<1>10. Write(e, 3) \o rest = ts
  <2> DEFINE one == <<t>>
  <2>1. one \in Seq(Tokens)
    BY <1>5
  <2> HIDE DEF one
  <2>2. Join(Join(one, w), rest) = Join(one, Join(w, rest))
    BY <1>3, <2>1, Joins
  <2> QED
    BY <1>4, <2>2, Zenon DEF Join, one
<1> HIDE DEF ts
<1>11. parse[m][<<3, ts, d>>] = ParseNot(parse[m - 1], ts, d)
  BY <1>8, CallIs
<1>12. NextIs(ts, "op", "!")
  BY <1>8 DEF NextIs, t
<1>13. CASE ~EnterNesting(d)
  <2>1. ~Fits(d, Nesting(e, 3))
    BY <1>3, <1>4, <1>13, OpensAre
  <2>2. ParseNot(parse[m - 1], ts, d) = SyntaxError
    BY <1>12, <1>13 DEF ParseNot
  <2> QED
    BY <1>10, <1>11, <2>1, <2>2 DEF Comes
<1>14. CASE EnterNesting(d)
  <2>1. Deeper(d) \in Opens /\ (Fits(Deeper(d), k) <=> Fits(d, 1 + k))
        /\ (Deeper(d) = Uncounted <=> d = Uncounted)
    BY <1>3, <1>14, OpensAre
  <2>2. Suits(a, Deeper(d))
    BY <1>2, <2>1 DEF Suits
  <2>3. m - 1 \in 1..n /\ m - 1 >= 5 * Len(w) + 6 - 3
    BY <1>3, <1>4, <1>9
  <2>4. parse[m - 1][<<3, w \o rest, Deeper(d)>>] = Comes(a, k, Deeper(d), rest)
    BY <1>6, <2>1, <2>2, <2>3 DEF Parses, w, k
  <2>5. ParseNot(parse[m - 1], ts, d)
        = LET child == Comes(a, k, Deeper(d), rest) IN
          IF child.ok THEN Got(<<"not", child.node>>, child.rest) ELSE SyntaxError
    BY <1>8, <1>12, <1>14, <2>4 DEF ParseNot
  <2>6. CASE Fits(d, 1 + k)
    <3>1. Comes(a, k, Deeper(d), rest) = Got(a, rest)
      BY <2>1, <2>6 DEF Comes
    <3>2. Got(a, rest).ok /\ Got(a, rest).node = a /\ Got(a, rest).rest = rest
      BY DEF Got
    <3>3. ParseNot(parse[m - 1], ts, d) = Got(<<"not", a>>, rest)
      BY <2>5, <3>1, <3>2
    <3> QED
      BY <1>1, <1>4, <1>10, <1>11, <2>6, <3>3 DEF Comes
  <2>7. CASE ~Fits(d, 1 + k)
    <3>1. Comes(a, k, Deeper(d), rest) = SyntaxError /\ ~SyntaxError.ok
      BY <2>1, <2>7 DEF Comes, SyntaxError
    <3>2. ParseNot(parse[m - 1], ts, d) = SyntaxError
      BY <2>5, <3>1
    <3> QED
      BY <1>4, <1>10, <1>11, <2>7, <3>2 DEF Comes
  <2> QED
    BY <2>6, <2>7
<1> QED
  BY <1>13, <1>14

-----------------------------------------------------------------------------
(***************************************************************************)
(* All rules read all trees                                                *)
(***************************************************************************)
\* Every rule reads every tree written for it: induction over trees.
Reads(parse, n, e) ==
    /\ \A rule \in 1..5 : Parses(parse, n, e, rule)
    /\ \A rule \in 1..2 : Chained(parse, n, e, rule)

\* By the rule that is its own, from its operands.
LEMMA OwnRule ==
  ASSUME NEW parse, NEW n \in Nat, Ruled(parse, n), NEW e \in Trees,
         e \in Atoms \/ (Reads(parse, n, First(e)) /\ Reads(parse, n, Second(e)))
  PROVE  /\ Parses(parse, n, e, Level(e))
         /\ Level(e) \in 1..2 => Chained(parse, n, e, Level(e))
<1>1. Level(e) \in 1..5 /\ (Level(e) = 5 => e \in Atoms) /\ (e \in Atoms => Level(e) = 5)
  BY LevelIs
<1>2. CASE Level(e) = 5
  BY <1>1, <1>2, PrimaryAtoms
<1>3. CASE Level(e) = 4
  BY <1>1, <1>3, ComparisonOwn DEF Reads
<1>4. CASE Level(e) = 3
  BY <1>1, <1>4, NotOwn DEF Reads
<1>5. CASE Level(e) \in 1..2
  <2> DEFINE rule == Level(e)
  <2>1. rule \in 1..2 /\ rule + 1 \in 1..5
    BY <1>5
  <2>2. Chained(parse, n, First(e), rule) /\ Parses(parse, n, Second(e), rule + 1)
    BY <1>1, <2>1 DEF Reads
  <2>3. Level(e) = rule
    OBVIOUS
  <2> HIDE DEF rule
  <2>4. Chained(parse, n, e, rule)
    BY <2>1, <2>2, <2>3, ChainedOn
  <2>5. Parses(parse, n, e, rule)
    BY <2>1, <2>4, ChainedReads
  <2> QED
    BY <2>4, <2>5 DEF rule
<1> QED
  BY <1>1, <1>2, <1>3, <1>4, <1>5

\* And by the others: those before its own, then parentheses, then those after it.
LEMMA OtherRules ==
  ASSUME NEW parse, NEW n \in Nat, Ruled(parse, n), NEW e \in Trees,
         Parses(parse, n, e, Level(e)),
         Level(e) \in 1..2 => Chained(parse, n, e, Level(e))
  PROVE  Reads(parse, n, e)
<1> DEFINE P(rule) == Parses(parse, n, e, rule)
           C(rule) == Chained(parse, n, e, rule)
           v == Level(e)
<1>1. v # 4 /\ P(5) => P(4)
  BY ComparisonFromHigher
<1>2. v # 3 /\ P(4) => P(3)
  BY NotFromHigher
<1>3. v # 2 /\ P(3) => C(2) /\ P(2)
  <2> SUFFICES ASSUME v # 2, P(3) PROVE C(2) /\ P(2)
    OBVIOUS
  <2>1. C(2)
    <3>1. 2 \in 1..2 /\ 2 + 1 = 3
      OBVIOUS
    <3>2. Parses(parse, n, e, 2 + 1)
      BY <3>1
    <3> QED
      BY <3>1, <3>2, ChainedFirst
  <2> QED
    BY <2>1, ChainedReads
<1>4. v # 1 /\ P(2) => C(1) /\ P(1)
  <2> SUFFICES ASSUME v # 1, P(2) PROVE C(1) /\ P(1)
    OBVIOUS
  <2>1. C(1)
    <3>1. 1 \in 1..2 /\ 1 + 1 = 2
      OBVIOUS
    <3>2. Parses(parse, n, e, 1 + 1)
      BY <3>1
    <3> QED
      BY <3>1, <3>2, ChainedFirst
  <2> QED
    BY <2>1, ChainedReads
<1>5. v # 5 /\ P(1) => P(5)
  <2>1. v \in 1..5
    BY LevelIs
  <2> QED
    BY <2>1, PrimaryParens
<1>6. P(v) /\ (v \in 1..2 => C(v)) /\ v \in 1..5
  BY LevelIs
<1>7. Reads(parse, n, e) <=> P(1) /\ P(2) /\ P(3) /\ P(4) /\ P(5) /\ C(1) /\ C(2)
  <2>1. 1..5 = {1, 2, 3, 4, 5} /\ 1..2 = {1, 2}
    OBVIOUS
  <2> QED
    BY <2>1 DEF Reads
<1> HIDE DEF P, C, v
<1>8. CASE v = 5
  BY <1>1, <1>2, <1>3, <1>4, <1>6, <1>7, <1>8
<1>9. CASE v = 4
  BY <1>2, <1>3, <1>4, <1>5, <1>6, <1>7, <1>9
<1>10. CASE v = 3
  BY <1>1, <1>3, <1>4, <1>5, <1>6, <1>7, <1>10
<1>11. CASE v = 2
  BY <1>1, <1>2, <1>4, <1>5, <1>6, <1>7, <1>11
<1>12. CASE v = 1
  BY <1>1, <1>2, <1>3, <1>5, <1>6, <1>7, <1>12
<1> QED
  BY <1>6, <1>8, <1>9, <1>10, <1>11, <1>12

\* All rules, all trees.
LEMMA EveryTreeReads ==
  ASSUME NEW parse, NEW n \in Nat, Ruled(parse, n), NEW e \in Trees
  PROVE  Reads(parse, n, e)
<1> DEFINE P == {x \in Trees : Reads(parse, n, x)}
<1>1. Atoms \subseteq P
  <2> SUFFICES ASSUME NEW x \in Atoms PROVE x \in Trees /\ Reads(parse, n, x)
    OBVIOUS
  <2>1. x \in Trees
    <3>1. 0 \in 0..MaxHeight
      BY HeightAssumption
    <3> QED
      BY <3>1, TreesGrow, AllHeights
  <2> QED
    BY <2>1, OwnRule, OtherRules
<1>2. ASSUME NEW x \in Trees, x \notin Atoms, First(x) \in P, Second(x) \in P PROVE x \in P
  <2>1. Parses(parse, n, x, Level(x)) /\ (Level(x) \in 1..2 => Chained(parse, n, x, Level(x)))
    BY <1>2, OwnRule
  <2> QED
    BY <2>1, OtherRules
<1> HIDE DEF P
<1>3. Trees \subseteq P
  BY <1>1, <1>2, TreesIn
<1> QED
  BY <1>3 DEF P

-----------------------------------------------------------------------------
(***************************************************************************)
(* What is compiled                                                        *)
(***************************************************************************)
\* What Predicate.compile makes of an expression that was written.
LEMMA ReadIs ==
  ASSUME NEW e \in Written
  PROVE  Read(e) = Comes(e, Nesting(e, 1), StartDepth(e), <<>>)
<1> DEFINE ts == Write(e, 1)
           d == StartDepth(e)
           n == MostCalls(ts)
<1>1. e \in Trees /\ MaxNesting \in Nat
  BY PredicateAssumption
<1>2. ts \in Seq(Tokens) /\ Len(ts) \in Nat /\ <<>> \in Seq(Tokens)
  BY <1>1, WriteIs
<1>3. d \in Opens /\ d \in Int
  BY <1>1 DEF StartDepth, Opens, Uncounted
<1>4. Suits(e, d)
  <2>1. CASE IsCondition(e)
    <3>1. PathsOf(e) = {RawValue[2]} /\ d = Uncounted
      BY <2>1, ConditionPaths DEF StartDepth
    <3> QED
      BY <3>1 DEF Suits
  <2>2. CASE ~IsCondition(e)
    <3>1. d # Uncounted
      BY <2>2 DEF StartDepth, Uncounted
    <3>2. PathsOf(e) \subseteq FieldPaths
      BY <2>2, PredicateAssumption DEF IsCondition
    <3> QED
      BY <3>1, <3>2 DEF Suits
  <2> QED
    BY <2>1, <2>2
<1>5. Stops(1, <<>>)
  BY DEF Stops
<1>6. n \in Nat /\ n \in 1..n /\ n >= 5 * Len(ts) + 6 - 1
  BY <1>2 DEF MostCalls
<1>7. PICK parse : /\ Ruled(parse, n)
                   /\ Parse(ts, d) = LET read == parse[n][<<1, ts, d>>]
                                     IN IF read.rest = <<>> THEN read ELSE SyntaxError
  BY <1>2, <1>3, ParseIs
<1> HIDE DEF n
<1>8. Parses(parse, n, e, 1)
  BY <1>1, <1>6, <1>7, EveryTreeReads DEF Reads
<1>9. parse[n][<<1, ts \o <<>>, d>>] = Comes(e, Nesting(e, 1), d, <<>>)
  BY <1>2, <1>3, <1>4, <1>5, <1>6, <1>8 DEF Parses
<1>10. ts \o <<>> = ts
  BY <1>2
<1>11. Comes(e, Nesting(e, 1), d, <<>>).rest = <<>>
  BY DEF Comes, Got, SyntaxError
<1>12. Parse(ts, d) = Comes(e, Nesting(e, 1), d, <<>>)
  <2>1. parse[n][<<1, ts, d>>] = Comes(e, Nesting(e, 1), d, <<>>)
    BY <1>9, <1>10
  <2> QED
    BY <1>7, <1>11, <2>1
<1> QED
  BY <1>12 DEF Read

\* Nothing else is ever compiled.
Compiled == predicate \in Written /\ compiled \in {SyntaxError, Read(predicate)}

\* What is compiled is what was written, and what compiles is what nests no
\* deeper than the cap (predicates.py:532-660, evaluators.py:786-935).
THEOREM CompilesWhatWasWritten == PredicatesSpec => []ReadsBack
<1>1. PredicatesInit => Compiled
  BY DEF PredicatesInit, Compiled
<1>2. Compiled /\ [PredicatesNext]_predicateVars => Compiled'
  BY DEF Compiled, PredicatesNext, Compile, BecomesKnown, predicateVars
<1>3. Compiled => ReadsBack
  <2> SUFFICES ASSUME Compiled PROVE ReadsBack
    OBVIOUS
  <2> DEFINE e == predicate
             d == StartDepth(e)
             k == Nesting(e, 1)
  <2>1. e \in Written /\ e \in Trees /\ MaxNesting \in Nat
    BY PredicateAssumption DEF Compiled
  <2>2. Read(e) = Comes(e, k, d, <<>>) /\ k \in Nat
    BY <2>1, ReadIs, NestingIs
  <2>3. Fits(d, k) <=> IsCondition(e) \/ k <= MaxNesting
    BY <2>1, <2>2 DEF StartDepth, Fits, Uncounted
  <2>4. Read(e).ok <=> Fits(d, k)
    BY <2>2 DEF Comes, Got, SyntaxError
  <2>5. Read(e).ok => Read(e).node = e
    BY <2>2, <2>4 DEF Comes, Got
  <2>6. ~SyntaxError.ok
    BY DEF SyntaxError
  <2> QED
    BY <2>3, <2>4, <2>5, <2>6 DEF Compiled, ReadsBack
<1> QED
  BY <1>1, <1>2, <1>3, PTL DEF PredicatesSpec
=============================================================================
