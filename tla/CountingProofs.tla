--------------------------- MODULE CountingProofs ---------------------------
(***************************************************************************)
(* Theorems about components whose promise is a count: of EgressBudget,    *)
(* for any finite set of requests and any budget, reservations and bills,  *)
(* that the providers honor the budget and the spend covers the bills; of  *)
(* FairDispatch, for any finite pool and any number of workspaces, that a  *)
(* workspace that waits is passed over a bounded number of times; of       *)
(* ScoredRuns, for any cases, metrics, retries and outages, that a resumed *)
(* run keeps its verdict and a gate needs a score that earned something.   *)
(*                                                                         *)
(* The budget's invariants speak of sums over the requests: the first part *)
(* shows of the library's SumFunctionOnSet what the other parts need. The  *)
(* third part counts the passes of a pool, the fourth adds up and ranks    *)
(* scores.                                                                 *)
(***************************************************************************)
EXTENDS EgressBudget, FairDispatch, ScoredRuns, FiniteSetTheorems, TLAPS

-----------------------------------------------------------------------------
(***************************************************************************)
(* Sums over finite sets                                                   *)
(***************************************************************************)
\* What the fold that SumFunctionOnSet is defined by makes of the set s.
Unfolded(f, g, s) ==
    IF s = {} THEN 0 ELSE f[CHOOSE x \in s : TRUE] + g[s \ {CHOOSE x \in s : TRUE}]

\* Folding a function over a set with +, the definition expanded.
LEMMA Unfolds ==
  ASSUME NEW f, NEW S
  PROVE  SumFunctionOnSet(f, S) = (CHOOSE g : g = [s \in SUBSET S |-> Unfolded(f, g, s)])[S]
  BY DEF SumFunctionOnSet, FoldFunctionOnSet, MapThenFoldSet, Unfolded

\* What holds of a subset of a finite set when it holds of all smaller ones
\* holds of every subset; H is the set of those it holds of.
LEMMA SubsetInduction ==
  ASSUME NEW S, IsFiniteSet(S), NEW H,
         \A T \in SUBSET S : (\A U \in (SUBSET T) \ {T} : U \in H) => T \in H
  PROVE  \A T \in SUBSET S : T \in H
<1>1. IsWellFoundedOn(StrictSubsetOrdering(S), SUBSET S)
  BY FS_StrictSubsetOrderingWellFounded, FS_FiniteSubsetsOfFinite
<1> DEFINE C == (SUBSET S) \ H
<1>2. ASSUME C # {} PROVE FALSE
  <2>1. PICK T \in C : \A U \in C : ~ (<<U, T>> \in StrictSubsetOrdering(S))
    <3> HIDE DEF C
    <3>1. C \subseteq SUBSET S BY DEF C
    <3> QED BY <1>1, <1>2, <3>1, WFMin
  <2>2. \A U \in (SUBSET T) \ {T} : U \in H
    BY <2>1 DEF StrictSubsetOrdering
  <2> QED BY <2>1, <2>2
<1> QED BY <1>2

\* g gives the sums of f over the subsets of S.
Sums(f, S, g) == g = [s \in SUBSET S |-> Unfolded(f, g, s)]

\* Two solutions of the equation agree on the sets both are defined on.
LEMMA SumsAgree ==
  ASSUME NEW f, NEW S, IsFiniteSet(S), NEW T \in SUBSET S, NEW g, NEW h, Sums(f, S, g), Sums(f, T, h)
  PROVE  \A U \in SUBSET T : g[U] = h[U]
<1> DEFINE H == {U \in SUBSET T : g[U] = h[U]}
<1>1. IsFiniteSet(T)
  BY FS_Subset
<1>2. ASSUME NEW U \in SUBSET T, \A V \in (SUBSET U) \ {U} : V \in H
      PROVE  U \in H
  <2>1. CASE U = {}
    BY <2>1 DEF Sums, Unfolded
  <2>2. CASE U # {}
    <3> DEFINE x == CHOOSE x \in U : TRUE
    <3>1. x \in U
      BY <2>2
    <3>2. U \ {x} \in (SUBSET U) \ {U}
      BY <3>1
    <3>3. g[U \ {x}] = h[U \ {x}]
      BY <1>2, <3>2
    <3>4. g[U] = f[x] + g[U \ {x}] /\ h[U] = f[x] + h[U \ {x}]
      BY <2>2 DEF Sums, Unfolded
    <3> QED BY <3>3, <3>4
  <2> QED BY <2>1, <2>2
<1>3. \A U \in SUBSET T : U \in H
  <2> HIDE DEF H
  <2> QED BY <1>1, <1>2, SubsetInduction
<1> QED BY <1>3

\* The equation has a solution.
LEMMA SumsExist ==
  ASSUME NEW f, NEW S, IsFiniteSet(S)
  PROVE  \E g : Sums(f, S, g)
<1> DEFINE H == {T \in SUBSET S : \E g : Sums(f, T, g)}
<1>1. ASSUME NEW T \in SUBSET S, \A U \in (SUBSET T) \ {T} : U \in H
      PROVE  T \in H
  <2> DEFINE part[U \in (SUBSET T) \ {T}] == CHOOSE g : Sums(f, U, g)
             value(U) == part[U][U]
             smaller == [U \in SUBSET T |-> value(U)]
             g == [U \in SUBSET T |-> Unfolded(f, smaller, U)]
  <2>1. IsFiniteSet(T)
    BY FS_Subset
  <2>2. \A U \in (SUBSET T) \ {T} : Sums(f, U, part[U]) /\ IsFiniteSet(U)
    BY <1>1, <2>1, FS_Subset
  <2> HIDE DEF part
  <2>a. \A U \in (SUBSET T) \ {T} : part[U][U] = Unfolded(f, part[U], U)
    BY <2>2 DEF Sums
  <2>b. \A U \in (SUBSET T) \ {T} : \A V \in SUBSET U : part[U][V] = part[V][V]
    <3> SUFFICES ASSUME NEW U \in (SUBSET T) \ {T}, NEW V \in SUBSET U PROVE part[U][V] = part[V][V]
      OBVIOUS
    <3>1. Sums(f, U, part[U]) /\ Sums(f, V, part[V]) /\ IsFiniteSet(U)
      BY <2>2
    <3>2. \A W \in SUBSET V : part[U][W] = part[V][W]
      <4> DEFINE g1 == part[U]
                 h1 == part[V]
      <4>1. Sums(f, U, g1) /\ Sums(f, V, h1)
        BY <3>1
      <4> HIDE DEF g1, h1
      <4>2. \A W \in SUBSET V : g1[W] = h1[W]
        BY <3>1, <4>1, SumsAgree
      <4> QED BY <4>2 DEF g1, h1
    <3> QED BY <3>2
  <2>3. ASSUME NEW U \in (SUBSET T) \ {T} PROVE g[U] = smaller[U]
    <3>1. CASE U = {}
      BY <2>a, <3>1 DEF Unfolded
    <3>2. CASE U # {}
      <4>1. PICK V \in SUBSET U : V # U /\ V = U \ {CHOOSE x \in U : TRUE}
        BY <3>2
      <4>2. smaller[V] = part[U][V]
        BY <2>b, <4>1
      <4> QED BY <2>a, <3>2, <4>1, <4>2 DEF Unfolded
    <3> QED BY <3>1, <3>2
  <2>4. \A U \in SUBSET T : Unfolded(f, smaller, U) = Unfolded(f, g, U)
    <3> SUFFICES ASSUME NEW U \in SUBSET T, U # {} PROVE Unfolded(f, smaller, U) = Unfolded(f, g, U)
      BY DEF Unfolded
    <3> DEFINE x == CHOOSE x \in U : TRUE
    <3>1. x \in U /\ U \ {x} \in (SUBSET T) \ {T}
      OBVIOUS
    <3>2. smaller[U \ {x}] = g[U \ {x}]
      BY <2>3, <3>1
    <3> QED BY <3>2 DEF Unfolded
  <2>5. g = [U \in SUBSET T |-> Unfolded(f, g, U)]
    BY <2>4
  <2> QED BY <2>5 DEF Sums
<1>2. \A T \in SUBSET S : T \in H
  <2> HIDE DEF H
  <2> QED BY <1>1, SubsetInduction
<1>3. S \in H
  BY <1>2
<1> QED BY <1>3

\* SumFunctionOnSet is the solution of the equation.
LEMMA SumStep ==
  ASSUME NEW f, NEW S, IsFiniteSet(S)
  PROVE  /\ SumFunctionOnSet(f, {}) = 0
         /\ \E g : Sums(f, S, g) /\ \A T \in SUBSET S : SumFunctionOnSet(f, T) = g[T]
<1>1. ASSUME NEW T, IsFiniteSet(T)
      PROVE  \E g : Sums(f, T, g) /\ SumFunctionOnSet(f, T) = g[T]
  <2>1. PICK g : Sums(f, T, g)
    BY <1>1, SumsExist
  <2> DEFINE c == CHOOSE h : h = [s \in SUBSET T |-> Unfolded(f, h, s)]
  <2>2. c = [s \in SUBSET T |-> Unfolded(f, c, s)]
    BY <2>1 DEF Sums
  <2>3. SumFunctionOnSet(f, T) = c[T]
    BY Unfolds
  <2> QED BY <2>2, <2>3 DEF Sums
<1>2. PICK g : Sums(f, S, g)
  BY SumsExist
<1>3. ASSUME NEW T \in SUBSET S PROVE SumFunctionOnSet(f, T) = g[T]
  <2>1. IsFiniteSet(T)
    BY FS_Subset
  <2>2. PICK h : Sums(f, T, h) /\ SumFunctionOnSet(f, T) = h[T]
    BY <1>1, <2>1
  <2> QED BY <1>2, <2>2, SumsAgree
<1>4. SumFunctionOnSet(f, {}) = 0
  <2>1. g[{}] = 0
    BY <1>2 DEF Sums, Unfolded
  <2> QED BY <1>3, <2>1
<1> QED BY <1>2, <1>3, <1>4

\* A sum of integers is an integer, and any member may be taken first.
LEMMA SumTake ==
  ASSUME NEW S, IsFiniteSet(S), NEW f \in [S -> Int]
  PROVE  \A T \in SUBSET S :
            /\ SumFunctionOnSet(f, T) \in Int
            /\ \A x \in T : SumFunctionOnSet(f, T) = f[x] + SumFunctionOnSet(f, T \ {x})
<1>1. PICK g : Sums(f, S, g) /\ \A T \in SUBSET S : SumFunctionOnSet(f, T) = g[T]
  BY SumStep
<1>2. \A T \in SUBSET S : g[T] = Unfolded(f, g, T)
  BY <1>1 DEF Sums
<1> DEFINE H == {T \in SUBSET S : g[T] \in Int /\ \A x \in T : g[T] = f[x] + g[T \ {x}]}
<1>3. ASSUME NEW T \in SUBSET S, \A U \in (SUBSET T) \ {T} : U \in H
      PROVE  T \in H
  <2>1. CASE T = {}
    <3>1. g[T] = 0
      BY <1>2, <2>1 DEF Unfolded
    <3> QED BY <2>1, <3>1
  <2>2. CASE T # {}
    <3>1. PICK y \in T : g[T] = f[y] + g[T \ {y}]
      BY <1>2, <2>2 DEF Unfolded
    <3>2. T \ {y} \in H
      BY <1>3
    <3>3. g[T] \in Int
      BY <3>1, <3>2
    <3>4. ASSUME NEW x \in T, x # y PROVE g[T] = f[x] + g[T \ {x}]
      <4>1. T \ {x} \in H /\ (T \ {x}) \ {y} = (T \ {y}) \ {x} /\ (T \ {x}) \ {y} \in H
        BY <1>3, <3>4
      <4>2. g[T \ {y}] = f[x] + g[(T \ {x}) \ {y}] /\ g[T \ {x}] = f[y] + g[(T \ {x}) \ {y}]
        BY <3>2, <3>4, <4>1
      <4> QED BY <3>1, <4>1, <4>2
    <3> QED BY <3>1, <3>3, <3>4
  <2> QED BY <2>1, <2>2
<1>4. \A T \in SUBSET S : T \in H
  <2> HIDE DEF H
  <2> QED BY <1>3, SubsetInduction
<1> QED BY <1>1, <1>4

\* Functions that agree on a set have the same sum over it.
LEMMA SumCongruent ==
  ASSUME NEW S, IsFiniteSet(S), NEW f \in [S -> Int], NEW g \in [S -> Int]
  PROVE  \A T \in SUBSET S : (\A x \in T : f[x] = g[x]) => SumFunctionOnSet(f, T) = SumFunctionOnSet(g, T)
<1> DEFINE H == {T \in SUBSET S : (\A x \in T : f[x] = g[x]) => SumFunctionOnSet(f, T) = SumFunctionOnSet(g, T)}
<1>3. ASSUME NEW T \in SUBSET S, \A U \in (SUBSET T) \ {T} : U \in H
      PROVE  T \in H
  <2>1. CASE T = {}
    BY <2>1, SumStep
  <2>2. CASE T # {}
    <3>1. PICK y \in T : TRUE
      BY <2>2
    <3>2. T \ {y} \in H
      BY <1>3
    <3>3. /\ SumFunctionOnSet(f, T) = f[y] + SumFunctionOnSet(f, T \ {y})
          /\ SumFunctionOnSet(g, T) = g[y] + SumFunctionOnSet(g, T \ {y})
      BY SumTake
    <3> QED BY <3>2, <3>3
  <2> QED BY <2>1, <2>2
<1>4. \A T \in SUBSET S : T \in H
  <2> HIDE DEF H
  <2> QED BY <1>3, SubsetInduction
<1> QED BY <1>4

\* A function that is nowhere larger has no larger sum.
LEMMA SumMonotone ==
  ASSUME NEW S, IsFiniteSet(S), NEW f \in [S -> Int], NEW g \in [S -> Int]
  PROVE  \A T \in SUBSET S : (\A x \in T : f[x] <= g[x]) => SumFunctionOnSet(f, T) <= SumFunctionOnSet(g, T)
<1> DEFINE H == {T \in SUBSET S : (\A x \in T : f[x] <= g[x]) => SumFunctionOnSet(f, T) <= SumFunctionOnSet(g, T)}
<1>3. ASSUME NEW T \in SUBSET S, \A U \in (SUBSET T) \ {T} : U \in H
      PROVE  T \in H
  <2>1. CASE T = {}
    BY <2>1, SumStep
  <2>2. CASE T # {}
    <3>1. PICK y \in T : TRUE
      BY <2>2
    <3>2. T \ {y} \in H
      BY <1>3
    <3>3. /\ SumFunctionOnSet(f, T) = f[y] + SumFunctionOnSet(f, T \ {y})
          /\ SumFunctionOnSet(g, T) = g[y] + SumFunctionOnSet(g, T \ {y})
          /\ SumFunctionOnSet(f, T \ {y}) \in Int /\ SumFunctionOnSet(g, T \ {y}) \in Int
      BY SumTake
    <3> QED BY <3>2, <3>3
  <2> QED BY <2>1, <2>2
<1>4. \A T \in SUBSET S : T \in H
  <2> HIDE DEF H
  <2> QED BY <1>3, SubsetInduction
<1> QED BY <1>4

\* The sum of two functions' bound bounds the sum.
LEMMA SumBounded ==
  ASSUME NEW S, IsFiniteSet(S), NEW f \in [S -> Int], NEW g \in [S -> Int], NEW h \in [S -> Int],
         \A x \in S : f[x] <= g[x] + h[x]
  PROVE  SumFunctionOnSet(f, S) <= SumFunctionOnSet(g, S) + SumFunctionOnSet(h, S)
<1> DEFINE H == {T \in SUBSET S : SumFunctionOnSet(f, T) <= SumFunctionOnSet(g, T) + SumFunctionOnSet(h, T)}
<1>1. ASSUME NEW T \in SUBSET S, \A U \in (SUBSET T) \ {T} : U \in H
      PROVE  T \in H
  <2>1. CASE T = {}
    BY <2>1, SumStep
  <2>2. CASE T # {}
    <3>1. PICK y \in T : TRUE
      BY <2>2
    <3>2. T \ {y} \in H
      BY <1>1
    <3>3. /\ SumFunctionOnSet(f, T) = f[y] + SumFunctionOnSet(f, T \ {y})
          /\ SumFunctionOnSet(g, T) = g[y] + SumFunctionOnSet(g, T \ {y})
          /\ SumFunctionOnSet(h, T) = h[y] + SumFunctionOnSet(h, T \ {y})
          /\ SumFunctionOnSet(f, T \ {y}) \in Int
          /\ SumFunctionOnSet(g, T \ {y}) \in Int
          /\ SumFunctionOnSet(h, T \ {y}) \in Int
      BY SumTake
    <3> QED BY <3>2, <3>3
  <2> QED BY <2>1, <2>2
<1>2. \A T \in SUBSET S : T \in H
  <2> HIDE DEF H
  <2> QED BY <1>1, SubsetInduction
<1> QED BY <1>2

\* A sum of naturals is one, and grows with the set.
LEMMA SumNat ==
  ASSUME NEW S, IsFiniteSet(S), NEW f \in [S -> Nat]
  PROVE  \A T \in SUBSET S : SumFunctionOnSet(f, T) \in Nat
<1> DEFINE H == {T \in SUBSET S : SumFunctionOnSet(f, T) \in Nat}
<1>1. ASSUME NEW T \in SUBSET S, \A U \in (SUBSET T) \ {T} : U \in H
      PROVE  T \in H
  <2>1. CASE T = {}
    BY <2>1, SumStep
  <2>2. CASE T # {}
    <3>1. PICK y \in T : TRUE
      BY <2>2
    <3>2. T \ {y} \in H
      BY <1>1
    <3>3. f \in [S -> Int]
      OBVIOUS
    <3>4. SumFunctionOnSet(f, T) = f[y] + SumFunctionOnSet(f, T \ {y})
      BY <3>3, SumTake
    <3> QED BY <3>2, <3>4
  <2> QED BY <2>1, <2>2
<1>2. \A T \in SUBSET S : T \in H
  <2> HIDE DEF H
  <2> QED BY <1>1, SubsetInduction
<1> QED BY <1>2

\* Of naturals, a part sums to no more than the whole.
LEMMA SumPart ==
  ASSUME NEW S, IsFiniteSet(S), NEW f \in [S -> Nat]
  PROVE  \A T \in SUBSET S : SumFunctionOnSet(f, T) <= SumFunctionOnSet(f, S)
<1> SUFFICES ASSUME NEW T \in SUBSET S
             PROVE  SumFunctionOnSet(f, T) <= SumFunctionOnSet(f, S)
  OBVIOUS
<1> DEFINE H == {U \in SUBSET S : T \subseteq U => SumFunctionOnSet(f, T) <= SumFunctionOnSet(f, U)}
<1>1. ASSUME NEW U \in SUBSET S, \A V \in (SUBSET U) \ {U} : V \in H
      PROVE  U \in H
  <2>1. CASE T = U \/ ~ (T \subseteq U)
    <3>1. SumFunctionOnSet(f, T) \in Nat
      BY SumNat
    <3> QED BY <2>1, <3>1
  <2>2. CASE T # U /\ T \subseteq U
    <3>1. PICK y \in U : y \notin T
      BY <2>2
    <3>2. U \ {y} \in H /\ T \subseteq U \ {y}
      BY <1>1, <2>2, <3>1
    <3>3. f \in [S -> Int]
      OBVIOUS
    <3>4. SumFunctionOnSet(f, U) = f[y] + SumFunctionOnSet(f, U \ {y})
      BY <3>3, SumTake
    <3>5. SumFunctionOnSet(f, T) \in Nat /\ SumFunctionOnSet(f, U \ {y}) \in Nat
      BY SumNat
    <3> QED BY <3>2, <3>4, <3>5
  <2> QED BY <2>1, <2>2
<1>2. \A U \in SUBSET S : U \in H
  <2> HIDE DEF H
  <2> QED BY <1>1, SubsetInduction
<1> QED BY <1>2

\* Zeros sum to zero.
LEMMA SumZero ==
  ASSUME NEW S, IsFiniteSet(S), NEW f \in [S -> Nat], \A x \in S : f[x] = 0
  PROVE  SumFunctionOnSet(f, S) = 0
<1> DEFINE H == {T \in SUBSET S : SumFunctionOnSet(f, T) = 0}
<1>1. ASSUME NEW T \in SUBSET S, \A U \in (SUBSET T) \ {T} : U \in H
      PROVE  T \in H
  <2>1. CASE T = {}
    BY <2>1, SumStep
  <2>2. CASE T # {}
    <3>1. PICK y \in T : TRUE
      BY <2>2
    <3>2. T \ {y} \in H
      BY <1>1
    <3>3. f \in [S -> Int]
      OBVIOUS
    <3>4. SumFunctionOnSet(f, T) = f[y] + SumFunctionOnSet(f, T \ {y})
      BY <3>3, SumTake
    <3> QED BY <3>2, <3>4
  <2> QED BY <2>1, <2>2
<1>2. \A T \in SUBSET S : T \in H
  <2> HIDE DEF H
  <2> QED BY <1>1, SubsetInduction
<1> QED BY <1>2

\* A change of one value changes the sum by as much.
LEMMA SumUpdate ==
  ASSUME NEW S, IsFiniteSet(S), NEW f \in [S -> Int], NEW g \in [S -> Int],
         NEW r \in S, \A x \in S \ {r} : g[x] = f[x]
  PROVE  SumFunctionOnSet(g, S) = SumFunctionOnSet(f, S) - f[r] + g[r]
<1>1. SumFunctionOnSet(g, S \ {r}) = SumFunctionOnSet(f, S \ {r})
  BY SumCongruent
<1>2. /\ SumFunctionOnSet(f, S) = f[r] + SumFunctionOnSet(f, S \ {r})
      /\ SumFunctionOnSet(g, S) = g[r] + SumFunctionOnSet(g, S \ {r})
      /\ SumFunctionOnSet(f, S \ {r}) \in Int
  BY SumTake
<1> QED
  BY <1>1, <1>2

-----------------------------------------------------------------------------
(***************************************************************************)
(* The budget                                                              *)
(***************************************************************************)
\* What the budget has counted as spent for a request.
Charge == [r \in Requests |->
    IF request[r].at \in {"metered", "breaking", "breached"} THEN request[r].billed
    ELSE IF request[r].at \in {"unmetered", "unsent"} THEN request[r].held
    ELSE 0]

TotalCharge == SumFunctionOnSet(Charge, Requests)

\* What the budget still reserves for a request, as long as it is open. A
\* request whose connection broke never gives its reservation back.
Outstanding == [r \in Requests |->
    IF request[r].at \in {"secret", "sent", "observed", "exceeded", "unknown", "abandoned"}
    THEN request[r].held ELSE 0]

TotalOutstanding == SumFunctionOnSet(Outstanding, Requests)

\* A request is billed once it was sent, within its reservation unless the
\* answer disproved the bounds.
BilledWithinBounds ==
    \A r \in Requests :
        /\ request[r].at \in {"new", "refused", "secret", "sent", "unsent"} => request[r].billed = 0
        /\ r \notin Broke => request[r].billed <= request[r].held

\* No request disproved its bound or went unmeasured.
Honest == Unmeasured \cup Broke = {}

\* The books balance: the spend is the charges, always; the reservation is
\* what is outstanding, and with the spend within the budget, while nothing
\* was unmeasured (a closed budget reopens: Committed).
Balanced ==
    /\ EgressTypeOK
    /\ BilledWithinBounds
    /\ spent = TotalCharge
    /\ Honest => /\ reserved = TotalOutstanding
                 /\ spent + reserved <= Total

\* The amounts of a request are numbers.
LEMMA Amounts ==
  ASSUME EgressTypeOK, NEW r \in Requests
  PROVE  /\ request[r].held \in Nat /\ request[r].billed \in Nat
         /\ request[r].held \in Worst \cup {0} /\ request[r].billed \in Bills \cup {0}
         /\ spent \in Nat /\ reserved \in Nat \cup {-1} /\ Total \in Nat
<1>1. Worst \cup {0} \subseteq Nat /\ Bills \cup {0} \subseteq Nat /\ Total \in Nat
  BY EgressAssumption
<1> QED
  BY <1>1 DEF EgressTypeOK

\* What is charged and what is outstanding are natural numbers.
LEMMA BooksTyped ==
  ASSUME EgressTypeOK
  PROVE  /\ Charge \in [Requests -> Nat] /\ Outstanding \in [Requests -> Nat]
         /\ TotalCharge \in Nat /\ TotalOutstanding \in Nat
<1>1. \A r \in Requests : request[r].held \in Nat /\ request[r].billed \in Nat
  BY Amounts
<1>2. Charge \in [Requests -> Nat] /\ Outstanding \in [Requests -> Nat]
  BY <1>1 DEF Charge, Outstanding
<1>3. TotalCharge \in Nat /\ TotalOutstanding \in Nat
  BY <1>2, SumNat, EgressAssumption DEF TotalCharge, TotalOutstanding
<1> QED
  BY <1>2, <1>3

\* The budget reserves no less than any one request holds.
LEMMA StillOutstanding ==
  ASSUME EgressTypeOK, NEW r \in Requests
  PROVE  Outstanding[r] <= TotalOutstanding
<1>1. Outstanding \in [Requests -> Nat] /\ IsFiniteSet(Requests)
  BY BooksTyped, EgressAssumption
<1>2. SumFunctionOnSet(Outstanding, Requests \ {r}) \in Nat
  BY <1>1, SumNat
<1>3. TotalOutstanding = Outstanding[r] + SumFunctionOnSet(Outstanding, Requests \ {r})
  BY <1>1, SumTake DEF TotalOutstanding
<1> QED
  BY <1>1, <1>2, <1>3

\* Nothing is spent or reserved.
LEMMA BalancedInit == EgressInit => Balanced
<1> SUFFICES ASSUME EgressInit PROVE Balanced
  OBVIOUS
<1>1. EgressTypeOK /\ BilledWithinBounds
  BY DEF EgressInit, EgressTypeOK, BilledWithinBounds, Stages
<1>2. \A r \in Requests : Charge[r] = 0 /\ Outstanding[r] = 0
  BY DEF EgressInit, Charge, Outstanding
<1>3. TotalCharge = 0 /\ TotalOutstanding = 0
  BY <1>1, <1>2, BooksTyped, SumZero, EgressAssumption DEF TotalCharge, TotalOutstanding
<1> QED
  BY <1>1, <1>3, EgressAssumption DEF Balanced, EgressInit

\* A step of one request changes the books by what it changes of its own.
LEMMA OneRequest ==
  ASSUME EgressTypeOK, EgressTypeOK', NEW r \in Requests,
         \A x \in Requests \ {r} : request'[x] = request[x]
  PROVE  /\ TotalCharge' = TotalCharge - Charge[r] + Charge'[r]
         /\ TotalOutstanding' = TotalOutstanding - Outstanding[r] + Outstanding'[r]
<1>1. Charge \in [Requests -> Int] /\ Outstanding \in [Requests -> Int]
  BY BooksTyped
<1>2. Charge' \in [Requests -> Int] /\ Outstanding' \in [Requests -> Int]
  <2>1. \A x \in Requests : request'[x].held \in Nat /\ request'[x].billed \in Nat
    <3>1. Worst \cup {0} \subseteq Nat /\ Bills \cup {0} \subseteq Nat
      BY EgressAssumption
    <3> QED BY <3>1 DEF EgressTypeOK
  <2> QED BY <2>1 DEF Charge, Outstanding
<1>3. \A x \in Requests \ {r} : Charge'[x] = Charge[x] /\ Outstanding'[x] = Outstanding[x]
  BY DEF Charge, Outstanding
<1>4. IsFiniteSet(Requests)
  BY EgressAssumption
<1> QED
  BY <1>1, <1>2, <1>3, <1>4, SumUpdate DEF TotalCharge, TotalOutstanding

\* A step keeps the books balanced when it moves one request and books, on
\* both sides, what that request changed of its own.
LEMMA BalanceKept ==
  ASSUME Balanced, EgressTypeOK', BilledWithinBounds',
         NEW r \in Requests, \A x \in Requests \ {r} : request'[x] = request[x],
         spent' = spent - Charge[r] + Charge'[r],
         Honest' => /\ Honest
                    /\ reserved' = reserved - Outstanding[r] + Outstanding'[r]
                    /\ spent' + reserved' <= Total
  PROVE  Balanced'
  BY OneRequest DEF Balanced

\* What a step may do to one request and a balanced budget.
LEMMA RequestStep ==
  ASSUME Balanced, EgressTypeOK',
         NEW r \in Requests, \A x \in Requests \ {r} : request'[x] = request[x],
         request[r].at \notin {"unsent", "unmetered", "breached"},
         r \in Broke => request'[r].at \in {"breaking", "breached"},
         request'[r].at \in {"new", "refused", "secret", "sent", "unsent"} => request'[r].billed = 0,
         request'[r].at \notin {"exceeded", "breaking", "breached"}
           => request'[r].billed <= request'[r].held,
         spent' = spent - Charge[r] + Charge'[r],
         /\ Honest
         /\ request'[r].at \notin {"unsent", "unmetered", "exceeded", "breaking", "breached"}
         => /\ reserved' = reserved - Outstanding[r] + Outstanding'[r]
            /\ spent' + reserved' <= Total
  PROVE  Balanced'
<1> EgressTypeOK /\ BilledWithinBounds
  BY DEF Balanced
<1>1. BilledWithinBounds'
  BY DEF BilledWithinBounds, Broke
<1>2. Honest' => /\ Honest
                 /\ request'[r].at \notin {"unsent", "unmetered", "exceeded", "breaking", "breached"}
  BY DEF Honest, Unmeasured, Broke
<1> QED
  BY <1>1, <1>2, BalanceKept

\* Where a step only moves r to another stage.
LEMMA Moved ==
  ASSUME EgressTypeOK, NEW r \in Requests, NEW stage \in Stages, Goto(r, stage),
         spent' \in Nat, reserved' \in Nat \cup {-1}
  PROVE  /\ EgressTypeOK'
         /\ \A x \in Requests \ {r} : request'[x] = request[x]
         /\ request'[r].at = stage
         /\ request'[r].held = request[r].held /\ request'[r].billed = request[r].billed
  BY DEF EgressTypeOK, Goto

\* Where a step also records what the provider bills.
LEMMA Answered ==
  ASSUME EgressTypeOK, NEW r \in Requests, NEW stage \in Stages, NEW bill \in Bills,
         Bill(r, stage, bill),
         UNCHANGED <<spent, reserved>>
  PROVE  /\ EgressTypeOK'
         /\ \A x \in Requests \ {r} : request'[x] = request[x]
         /\ request'[r].at = stage
         /\ request'[r].held = request[r].held /\ request'[r].billed = bill
  BY DEF EgressTypeOK, Bill

\* Steps that book nothing: a refusal, and what is sent, learned or lost on
\* the way before the budget hears of it.
LEMMA UnbookedStep ==
  ASSUME Balanced, NEW r \in Requests,
         \/ Refuse(r) \/ Send(r)
         \/ \E bill \in Bills : Observe(r, bill) \/ Fail(r, bill) \/ Abandon(r, bill)
  PROVE  Balanced'
<1> EgressTypeOK /\ BilledWithinBounds
  BY DEF Balanced
<1>1. UNCHANGED <<spent, reserved>>
  BY DEF Refuse, Send, Fail, Abandon, Observe
<1>2. spent \in Nat /\ reserved \in Nat \cup {-1} /\ request[r].held \in Nat
  BY Amounts
<1> DEFINE moved == /\ EgressTypeOK'
                    /\ \A x \in Requests \ {r} : request'[x] = request[x]
                    /\ request'[r].held = request[r].held
           quiet == /\ request'[r].billed = request[r].billed
                    /\ \/ request[r].at = "new" /\ request'[r].at = "refused"
                       \/ request[r].at = "secret" /\ request'[r].at = "sent"
           ended == /\ request'[r].billed <= request[r].held
                    /\ request[r].at = "sent" /\ request'[r].at \in {"unknown", "abandoned", "observed"}
           exceeded == request[r].at = "sent" /\ request'[r].at = "exceeded"
<1>3. moved /\ (quiet \/ ended \/ exceeded)
  <2>1. CASE Refuse(r)
    BY <1>1, <1>2, <2>1, Moved DEF Refuse, At, Stages
  <2>2. CASE Send(r)
    BY <1>1, <1>2, <2>2, Moved DEF Send, At, Stages
  <2>3. CASE \E bill \in Bills : Fail(r, bill)
    <3>1. PICK bill \in Bills : Fail(r, bill)
      BY <2>3
    <3>2. "unknown" \in Stages
      BY DEF Stages
    <3> QED BY <1>1, <3>1, <3>2, Answered DEF Fail, At
  <2>4. CASE \E bill \in Bills : Abandon(r, bill)
    <3>1. PICK bill \in Bills : Abandon(r, bill)
      BY <2>4
    <3>2. "abandoned" \in Stages
      BY DEF Stages
    <3> QED BY <1>1, <3>1, <3>2, Answered DEF Abandon, At
  <2>5. CASE \E bill \in Bills : Observe(r, bill)
    <3>1. PICK bill \in Bills, found \in {"observed", "exceeded"} :
            /\ request[r].at = "sent"
            /\ bill > request[r].held => found = "exceeded"
            /\ Bill(r, found, bill)
      BY <2>5 DEF Observe, At
    <3>2. bill \in Nat
      BY EgressAssumption
    <3>3. found \in Stages
      BY DEF Stages
    <3>4. moved /\ request'[r].at = found /\ request'[r].billed = bill
      BY <1>1, <3>1, <3>3, Answered
    <3>5. CASE found = "observed"
      <4>1. bill <= request[r].held
        BY <1>2, <3>1, <3>2, <3>5
      <4> QED BY <3>1, <3>4, <3>5, <4>1
    <3>6. CASE found = "exceeded"
      BY <3>1, <3>4, <3>6
    <3> QED BY <3>5, <3>6
  <2> QED BY <2>1, <2>2, <2>3, <2>4, <2>5
<1>4. Charge'[r] = Charge[r] /\ Charge[r] = 0 /\ Outstanding[r] \in Nat
  BY <1>2, <1>3 DEF Charge, Outstanding
<1>5. request'[r].at # "exceeded" => Outstanding'[r] = Outstanding[r]
  BY <1>3 DEF Outstanding
<1>6. Honest => spent + reserved <= Total
  BY DEF Balanced
<1>7. /\ r \notin Broke
      /\ quiet => request'[r].billed = 0
  BY <1>3 DEF BilledWithinBounds, Broke
<1> QED
  BY <1>1, <1>2, <1>3, <1>4, <1>5, <1>6, <1>7, RequestStep

\* The budget grants a reservation only when it is open and what is left
\* covers it.
LEMMA ReserveStep ==
  ASSUME Balanced, NEW r \in Requests, NEW worst \in Worst, Reserve(r, worst)
  PROVE  Balanced'
<1> EgressTypeOK /\ BilledWithinBounds
  BY DEF Balanced
<1>1. /\ reserved' = reserved + worst /\ spent' = spent
      /\ reserved >= 0 /\ worst <= Total - spent - reserved
  BY DEF Reserve, Covers, Remaining
<1>2. worst \in Nat /\ spent \in Nat /\ reserved \in Nat \cup {-1} /\ Total \in Nat
  BY Amounts, EgressAssumption
<1>3. EgressTypeOK'
  <2>1. "secret" \in Stages
    BY DEF Stages
  <2>2. spent' \in Nat /\ reserved' \in Nat \cup {-1}
    BY <1>1, <1>2
  <2>3. request' \in [Requests -> [at : Stages, held : Worst \cup {0}, billed : Bills \cup {0}]]
    BY <2>1 DEF Reserve, EgressTypeOK
  <2> QED BY <2>2, <2>3 DEF EgressTypeOK
<1>4. /\ request[r].at = "new" /\ request[r].billed = 0
      /\ request'[r].at = "secret" /\ request'[r].held = worst /\ request'[r].billed = 0
      /\ \A x \in Requests \ {r} : request'[x] = request[x]
  BY DEF Reserve, At, EgressTypeOK, BilledWithinBounds
<1>5. Charge[r] = 0 /\ Charge'[r] = 0 /\ Outstanding[r] = 0 /\ Outstanding'[r] = worst
  BY <1>4 DEF Charge, Outstanding
<1>6. r \notin Broke
  BY <1>4 DEF Broke
<1> QED
  BY <1>1, <1>2, <1>3, <1>4, <1>5, <1>6, RequestStep

\* A request whose bill cannot be known costs its reservation and closes the
\* budget.
LEMMA UnmeteredStep ==
  ASSUME Balanced, NEW r \in Requests, LoseSecret(r) \/ Close(r)
  PROVE  Balanced'
<1> EgressTypeOK /\ BilledWithinBounds
  BY DEF Balanced
<1>1. request[r].held \in Nat /\ request[r].billed \in Nat /\ spent \in Nat
  BY Amounts
<1>2. reserved' = -1 /\ spent' = spent + request[r].held
  BY DEF LoseSecret, Close, Charged
<1>3. PICK stage \in {"unsent", "unmetered"} :
        /\ Goto(r, stage)
        /\ request[r].at = IF stage = "unsent" THEN "secret" ELSE "unknown"
  BY DEF LoseSecret, Close, At
<1>4. stage \in Stages
  BY DEF Stages
<1>5. /\ EgressTypeOK'
      /\ \A x \in Requests \ {r} : request'[x] = request[x]
      /\ request'[r].at = stage
      /\ request'[r].held = request[r].held /\ request'[r].billed = request[r].billed
  BY <1>1, <1>2, <1>3, <1>4, Moved
<1>6. Charge[r] = 0 /\ Charge'[r] = request[r].held
  BY <1>3, <1>5 DEF Charge
<1>7. /\ r \notin Broke
      /\ stage = "unsent" => request[r].billed = 0
      /\ request[r].billed <= request[r].held
  BY <1>3 DEF Broke, BilledWithinBounds
<1> QED
  BY <1>1, <1>2, <1>3, <1>5, <1>6, <1>7, RequestStep

\* The bill replaces the reservation: while the books balance, what is
\* reserved is at least the reservation given back.
LEMMA CommitStep ==
  ASSUME Balanced, NEW r \in Requests, Commit(r)
  PROVE  Balanced'
<1> EgressTypeOK /\ BilledWithinBounds
  BY DEF Balanced
<1> DEFINE held == request[r].held
           billed == request[r].billed
<1>1. /\ held \in Nat /\ billed \in Nat
      /\ spent \in Nat /\ reserved \in Nat \cup {-1} /\ Total \in Nat
  BY Amounts
<1>2. /\ reserved' = IF reserved - held > 0 THEN reserved - held ELSE 0
      /\ spent' = spent + billed
  BY DEF Commit, Committed
<1>3. PICK stage \in {"metered", "breaking"} :
        /\ Goto(r, stage)
        /\ request[r].at = IF stage = "metered" THEN "observed" ELSE "exceeded"
  BY DEF Commit, At
<1>4. stage \in Stages /\ spent' \in Nat /\ reserved' \in Nat \cup {-1}
  BY <1>1, <1>2 DEF Stages
<1>5. /\ EgressTypeOK'
      /\ \A x \in Requests \ {r} : request'[x] = request[x]
      /\ request'[r].at = stage /\ request'[r].held = held /\ request'[r].billed = billed
  BY <1>3, <1>4, Moved
<1>6. Charge[r] = 0 /\ Charge'[r] = billed /\ Outstanding[r] = held /\ Outstanding'[r] = 0
  BY <1>3, <1>5 DEF Charge, Outstanding
<1>7. /\ r \in Broke => stage = "breaking"
      /\ stage = "metered" => billed <= held
  BY <1>3 DEF Broke, BilledWithinBounds
<1>8. Honest => held <= reserved /\ spent + reserved <= Total
  <2>1. Outstanding[r] <= TotalOutstanding
    BY StillOutstanding
  <2> QED BY <1>6, <2>1 DEF Balanced
<1>9. Honest /\ stage = "metered" => reserved' = reserved - held /\ spent' + reserved' <= Total
  BY <1>1, <1>2, <1>7, <1>8
<1> HIDE DEF held, billed
<1>10. spent' = spent - Charge[r] + Charge'[r]
  BY <1>1, <1>2, <1>6
<1>11. /\ Honest /\ stage = "metered"
       => /\ reserved' = reserved - Outstanding[r] + Outstanding'[r]
          /\ spent' + reserved' <= Total
  BY <1>1, <1>6, <1>9
<1> QED
  BY <1>3, <1>5, <1>7, <1>10, <1>11, RequestStep

\* A bill above the bound reserved for it keeps the books.
LEMMA BreachStep ==
  ASSUME Balanced, NEW r \in Requests, Breach(r)
  PROVE  Balanced'
<1> EgressTypeOK /\ BilledWithinBounds
  BY DEF Balanced
<1>1. request[r].billed \in Nat /\ spent \in Nat
  BY Amounts
<1>2. /\ request[r].at = "breaking" /\ Goto(r, "breached")
      /\ reserved' = -1 /\ spent' = spent
  BY DEF Breach, At
<1>3. "breached" \in Stages
  BY DEF Stages
<1>4. /\ EgressTypeOK'
      /\ \A x \in Requests \ {r} : request'[x] = request[x]
      /\ request'[r].at = "breached" /\ request'[r].billed = request[r].billed
  BY <1>1, <1>2, <1>3, Moved
<1>5. Charge[r] = request[r].billed /\ Charge'[r] = request[r].billed
  BY <1>2, <1>4 DEF Charge
<1> QED
  BY <1>1, <1>2, <1>4, <1>5, RequestStep

\* Every step keeps the books.
LEMMA BalancedStep == Balanced /\ [EgressNext]_egressVars => Balanced'
<1> SUFFICES ASSUME Balanced, [EgressNext]_egressVars PROVE Balanced'
  OBVIOUS
<1>1. CASE UNCHANGED egressVars
  BY <1>1 DEF egressVars, Balanced, EgressTypeOK, BilledWithinBounds, Broke, TotalCharge, Charge,
     TotalOutstanding, Outstanding, Honest, Unmeasured
<1>2. CASE EgressNext
  <2>1. PICK r \in Requests :
          \/ Refuse(r) \/ LoseSecret(r) \/ Send(r) \/ Commit(r) \/ Breach(r) \/ Close(r)
          \/ \E worst \in Worst : Reserve(r, worst)
          \/ \E bill \in Bills : Observe(r, bill) \/ Fail(r, bill) \/ Abandon(r, bill)
    BY <1>2 DEF EgressNext
  <2> QED
    BY <2>1, UnbookedStep, ReserveStep, UnmeteredStep, CommitStep, BreachStep
<1> QED
  BY <1>1, <1>2

\* EgressTypeOK, the budget's types (Budget): its spend never negative, its
\* reservation a number or -1, each request in one stage.
THEOREM EgressTypes == EgressSpec => []EgressTypeOK
<1>1. Balanced => EgressTypeOK
  BY DEF Balanced
<1> QED
  BY <1>1, BalancedInit, BalancedStep, PTL DEF EgressSpec

\* Every bill is covered by what its request was charged or still holds.
LEMMA BillsWithinBooks ==
  ASSUME Balanced, Honest
  PROVE  Billed(Requests) <= TotalCharge + TotalOutstanding
<1> DEFINE bills == [r \in Requests |-> request[r].billed]
<1> EgressTypeOK /\ BilledWithinBounds
  BY DEF Balanced
<1>1. bills \in [Requests -> Nat] /\ Charge \in [Requests -> Nat] /\ Outstanding \in [Requests -> Nat]
  BY Amounts, BooksTyped
<1>2. \A r \in Requests : bills[r] <= Charge[r] + Outstanding[r]
  <2> SUFFICES ASSUME NEW r \in Requests PROVE bills[r] <= Charge[r] + Outstanding[r]
    OBVIOUS
  <2>1. request[r].at \in Stages /\ r \notin Broke /\ r \notin Unmeasured
    BY DEF Honest, EgressTypeOK
  <2>2. request[r].held \in Nat /\ request[r].billed \in Nat
    BY Amounts
  <2> QED
    BY <2>1, <2>2 DEF Charge, Outstanding, Stages, Broke, Unmeasured, BilledWithinBounds
<1>3. IsFiniteSet(Requests)
  BY EgressAssumption
<1> HIDE DEF bills
<1>4. SumFunctionOnSet(bills, Requests) <= TotalCharge + TotalOutstanding
  BY <1>1, <1>2, <1>3, SumBounded DEF TotalCharge, TotalOutstanding
<1> QED
  BY <1>4 DEF Billed, bills

\* BudgetHonored: while every request was measured within its bounds, the
\* providers bill no more than the budget (Budget.reserve, commit).
THEOREM BudgetIsHonored == EgressSpec => []BudgetHonored
<1>1. ASSUME Balanced PROVE BudgetHonored
  <2> SUFFICES ASSUME Honest PROVE Billed(Requests) <= Total
    BY DEF BudgetHonored, Honest
  <2> DEFINE bills == [r \in Requests |-> request[r].billed]
  <2>1. Billed(Requests) \in Nat
    <3>1. bills \in [Requests -> Nat] /\ IsFiniteSet(Requests)
      BY <1>1, Amounts, EgressAssumption DEF Balanced
    <3> HIDE DEF bills
    <3>2. SumFunctionOnSet(bills, Requests) \in Nat
      BY <3>1, SumNat
    <3> QED BY <3>2 DEF Billed, bills
  <2>2. spent + reserved <= Total /\ spent = TotalCharge /\ reserved = TotalOutstanding
    BY <1>1 DEF Balanced
  <2>3. Billed(Requests) <= TotalCharge + TotalOutstanding
    BY <1>1, BillsWithinBooks
  <2>4. TotalCharge \in Nat /\ TotalOutstanding \in Nat /\ Total \in Nat
    BY <1>1, BooksTyped, EgressAssumption DEF Balanced
  <2> QED
    BY <2>1, <2>2, <2>3, <2>4
<1> QED
  BY <1>1, BalancedInit, BalancedStep, PTL DEF EgressSpec

\* SpentCoversBills: what the budget counts as spent is at least what the
\* requests it settled were billed (Budget.uncertain), and with what is reserved
\* at least all bills, those of abandoned streams included.
THEOREM SpendCovers == EgressSpec => []SpentCoversBills
<1>1. ASSUME Balanced PROVE SpentCoversBills
  <2> DEFINE bills == [r \in Requests |-> request[r].billed]
  <2> EgressTypeOK /\ BilledWithinBounds
    BY <1>1 DEF Balanced
  <2>1. bills \in [Requests -> Nat] /\ Charge \in [Requests -> Nat] /\ IsFiniteSet(Requests)
    BY Amounts, BooksTyped, EgressAssumption
  <2>2. \A r \in Accounted : bills[r] <= Charge[r]
    <3> SUFFICES ASSUME NEW r \in Accounted PROVE bills[r] <= Charge[r]
      OBVIOUS
    <3>1. request[r].held \in Nat /\ request[r].billed \in Nat
      BY Amounts DEF Accounted
    <3> QED
      BY <3>1 DEF Charge, Accounted, BilledWithinBounds, Broke
  <2>3. Accounted \subseteq Requests
    BY DEF Accounted
  <2> HIDE DEF bills
  <2>4. SumFunctionOnSet(bills, Accounted) <= SumFunctionOnSet(Charge, Accounted)
    BY <2>1, <2>2, <2>3, SumMonotone
  <2>5. SumFunctionOnSet(Charge, Accounted) <= TotalCharge
    BY <2>1, <2>3, SumPart DEF TotalCharge
  <2>6. /\ SumFunctionOnSet(bills, Accounted) \in Nat /\ SumFunctionOnSet(Charge, Accounted) \in Nat
        /\ TotalCharge \in Nat
    BY <2>1, <2>3, SumNat DEF TotalCharge
  <2>7. SumFunctionOnSet(bills, Accounted) <= spent
    BY <1>1, <2>4, <2>5, <2>6 DEF Balanced
  <2>8. Honest => Billed(Requests) <= spent + reserved
    BY <1>1, BillsWithinBooks DEF Balanced
  <2> QED
    BY <2>7, <2>8 DEF SpentCoversBills, Billed, bills, Honest
<1> QED
  BY <1>1, BalancedInit, BalancedStep, PTL DEF EgressSpec

-----------------------------------------------------------------------------
(***************************************************************************)
(* The fair dispatch                                                       *)
(*                                                                         *)
(* A reservation of the shared cursor is one in Size of a workspace, so    *)
(* what has passed it over, what may still and how far the cursor is from  *)
(* it have a common bound.                                                 *)
(***************************************************************************)
\* How many reservations after position from the one of w comes.
Ahead(from, w) == IF w >= from THEN w - from ELSE w - from + Size

\* A pass that began at w and asks it, and one that is asking elsewhere, or
\* began elsewhere: it may still serve another workspace than w.
Holds(r, w) == r.at = "asking" /\ r.start = w /\ r.asked = 0
Roams(r, w) == r.at = "asking" /\ ~Holds(r, w)
Held(w) == {p \in Pool : Holds(pass[p], w)}
Roving(w) == {p \in Pool : Roams(pass[p], w)}

PassRecord == [at : {"between", "asking", "running"}, start : Positions, asked : Positions,
               own : Positions]

DispatchTyped ==
    /\ durable \in BOOLEAN /\ cursor \in Positions /\ deaths \in Nat
    /\ pass \in [Processes -> PassRecord]
    /\ waiting \in [Positions -> Nat] /\ passed \in [Positions -> Nat]
    /\ \A w \in Positions : waiting[w] = 0 => passed[w] = 0

\* How often a workspace may be passed over: once by each of the passes that
\* roam, and Size - 1 times for each pass that held it or died.
Allowed(roam, hold, died) == roam + (hold + died + 1) * (Size - 1)

\* With the shared cursor: every reservation that is not of w brings the one of
\* w nearer, and of those of w only what is still held, or died, did not serve
\* it. When all processes hold w, the last reservation was one of w.
SharedFair ==
    \A w \in Positions :
        /\ passed[w] + Cardinality(Roving(w)) + Ahead(cursor, w)
              <= Allowed(Cardinality(Pool), Cardinality(Held(w)), deaths)
        /\ Held(w) = Pool => cursor = After(w)

\* With a cursor of its own: where the one process goes on from, and that a
\* workspace it has asked in vain in this pass was not waiting then.
GoesOn(r) == CASE r.at = "between" -> r.own
               [] r.at = "asking" -> (r.start + r.asked) % Size
               [] OTHER -> After((r.start + r.asked) % Size)

OwnShare(r, times, w) ==
    /\ times + Ahead(GoesOn(r), w) <= Allowed(0, 0, deaths)
    /\ r.at = "asking" /\ Ahead(r.start, w) < r.asked => times = 0
OwnFair == \A p \in Pool, w \in Positions : OwnShare(pass[p], passed[w], w)

\* The inductive invariant of the dispatch.
Dispatched == DispatchTyped /\ IF durable THEN SharedFair ELSE OwnFair

\* The parameters of the dispatch, throughout.
USE DispatchAssumption

\* Positions on the circle of workspaces.
LEMMA Circle ==
    ASSUME NEW c \in Positions, NEW w \in Positions
    PROVE  /\ After(c) \in Positions /\ Ahead(c, w) \in Positions
           /\ c = w => Ahead(c, w) = 0 /\ Ahead(After(c), w) = Size - 1
           /\ c # w => Ahead(After(c), w) = Ahead(c, w) - 1
<1>1. After(c) = IF c + 1 = Size THEN 0 ELSE c + 1
  BY DEF After, Positions
<1> QED BY <1>1 DEF Positions, Ahead

\* Where a pass is that began at start and asked some.
LEMMA PassPlace ==
    ASSUME NEW start \in Positions, NEW asked \in Positions
    PROVE  LET q == (start + asked) % Size IN
           /\ q \in Positions /\ Ahead(start, q) = asked
           /\ asked = 0 => q = start
           /\ asked + 1 < Size => (start + (asked + 1)) % Size = After(q)
           /\ asked + 1 = Size => After(q) = start
           /\ \A w \in Positions : Ahead(start, w) = asked => w = q
<1> DEFINE q == (start + asked) % Size
<1>1. q = IF start + asked >= Size THEN start + asked - Size ELSE start + asked
  BY DEF Positions
<1>2. q \in Positions
  BY <1>1 DEF Positions
<1>3. After(q) = IF q + 1 = Size THEN 0 ELSE q + 1
  BY <1>2 DEF After, Positions
<1>4. asked + 1 < Size => (start + (asked + 1)) % Size =
         IF start + asked + 1 >= Size THEN start + asked + 1 - Size ELSE start + asked + 1
  BY DEF Positions
<1> HIDE DEF q
<1> QED BY <1>1, <1>2, <1>3, <1>4 DEF Positions, Ahead, q

One(b) == IF b THEN 1 ELSE 0

\* Sets that differ in one element at most.
LEMMA CountUpdate ==
    ASSUME NEW S, IsFiniteSet(S), NEW T, NEW p, T \ {p} = S \ {p}
    PROVE  /\ IsFiniteSet(T) /\ Cardinality(S) \in Nat /\ Cardinality(T) \in Nat
           /\ Cardinality(T) + One(p \in S) = Cardinality(S) + One(p \in T)
<1> DEFINE R == S \ {p}
<1>1. IsFiniteSet(R) /\ Cardinality(R) \in Nat /\ p \notin R
  BY FS_Subset, FS_CardinalityType
<1>2. /\ IsFiniteSet(R \cup {p}) /\ Cardinality(R \cup {p}) = Cardinality(R) + 1
  BY <1>1, FS_AddElement
<1>3. /\ S = IF p \in S THEN R \cup {p} ELSE R
      /\ T = IF p \in T THEN R \cup {p} ELSE R
  OBVIOUS
<1> HIDE DEF R
<1> QED BY <1>1, <1>2, <1>3 DEF One

\* Parts of a finite set that have nothing in common.
LEMMA Parts ==
    ASSUME NEW P, IsFiniteSet(P), NEW A \in SUBSET P, NEW B \in SUBSET P, A \cap B = {}
    PROVE  /\ IsFiniteSet(A) /\ IsFiniteSet(B)
           /\ Cardinality(A) \in Nat /\ Cardinality(B) \in Nat /\ Cardinality(P) \in Nat
           /\ Cardinality(A) + Cardinality(B) <= Cardinality(P)
           /\ Cardinality(A) = Cardinality(P) => A = P
<1>1. /\ IsFiniteSet(A) /\ IsFiniteSet(B)
      /\ Cardinality(A) \in Nat /\ Cardinality(B) \in Nat /\ Cardinality(P) \in Nat
  BY FS_Subset, FS_CardinalityType
<1>2. Cardinality(A \cap B) = 0
  BY FS_EmptySet
<1>3. Cardinality(A \cup B) = Cardinality(A) + Cardinality(B) - Cardinality(A \cap B)
  BY <1>1, FS_Union
<1>4. Cardinality(A \cup B) <= Cardinality(P)
  BY FS_Subset
<1>5. Cardinality(A) = Cardinality(P) => A = P
  BY FS_Subset
<1> QED BY <1>1, <1>2, <1>3, <1>4, <1>5

\* The processes who hold w or ask elsewhere are different parts of the pool.
LEMMA PoolCounts ==
    /\ IsFiniteSet(Pool) /\ Pool \subseteq Processes /\ (~durable => Cardinality(Pool) = 1)
    /\ \A w : /\ Held(w) \in SUBSET Pool /\ Roving(w) \in SUBSET Pool
              /\ Held(w) \cap Roving(w) = {}
<1>1. Pool \subseteq Processes
  BY DEF Pool
<1>2. ~durable => Cardinality(Pool) = 1
  BY FS_Singleton DEF Pool
<1>3. \A w : /\ Held(w) \in SUBSET Pool /\ Roving(w) \in SUBSET Pool
            /\ Held(w) \cap Roving(w) = {}
  BY DEF Held, Roving, Roams
<1> QED BY <1>1, <1>2, <1>3, FS_Subset

\* A process goes on with its pass: only it may begin or cease to hold w, or to
\* ask elsewhere.
LEMMA PassCounts ==
    ASSUME DispatchTyped, NEW p \in Pool, NEW new, pass' = [pass EXCEPT ![p] = new],
           durable' = durable, NEW w
    PROVE  /\ Pool' = Pool /\ IsFiniteSet(Pool) /\ Cardinality(Pool) \in Nat
           /\ Cardinality(Held(w)) \in Nat /\ Cardinality(Held(w)') \in Nat
           /\ Cardinality(Roving(w)) \in Nat /\ Cardinality(Roving(w)') \in Nat
           /\ Cardinality(Held(w)') + Cardinality(Roving(w)') <= Cardinality(Pool)
           /\ Cardinality(Held(w)') + One(Holds(pass[p], w))
                 = Cardinality(Held(w)) + One(Holds(new, w))
           /\ Cardinality(Roving(w)') + One(Roams(pass[p], w))
                 = Cardinality(Roving(w)) + One(Roams(new, w))
<1>1. /\ Pool' = Pool /\ p \in Processes /\ IsFiniteSet(Pool)
      /\ Held(w) \in SUBSET Pool /\ Roving(w) \in SUBSET Pool /\ Held(w) \cap Roving(w) = {}
  BY PoolCounts DEF Pool
<1>2. pass'[p] = new /\ \A x \in Pool \ {p} : pass'[x] = pass[x]
  BY <1>1, PoolCounts DEF DispatchTyped
<1>3. /\ Held(w)' = {x \in Pool : Holds(pass'[x], w)}
      /\ Roving(w)' = {x \in Pool : Roams(pass'[x], w)}
  BY <1>1 DEF Held, Roving, Holds, Roams
<1>4. /\ Held(w)' \ {p} = Held(w) \ {p} /\ Roving(w)' \ {p} = Roving(w) \ {p}
      /\ p \in Held(w)' <=> Holds(new, w)
      /\ p \in Roving(w)' <=> Roams(new, w)
      /\ p \in Held(w) <=> Holds(pass[p], w)
      /\ p \in Roving(w) <=> Roams(pass[p], w)
  BY <1>2, <1>3 DEF Held, Roving
<1>5. /\ Held(w)' \in SUBSET Pool /\ Roving(w)' \in SUBSET Pool /\ Held(w)' \cap Roving(w)' = {}
  BY <1>3 DEF Roams
<1>6. /\ IsFiniteSet(Held(w)) /\ IsFiniteSet(Roving(w))
      /\ Cardinality(Held(w)) \in Nat /\ Cardinality(Roving(w)) \in Nat
      /\ Cardinality(Pool) \in Nat
  BY <1>1, Parts
<1>7. /\ Cardinality(Held(w)') \in Nat /\ Cardinality(Roving(w)') \in Nat
      /\ Cardinality(Held(w)') + Cardinality(Roving(w)') <= Cardinality(Pool)
  BY <1>1, <1>5, Parts
<1>8. Cardinality(Held(w)') + One(Holds(pass[p], w)) = Cardinality(Held(w)) + One(Holds(new, w))
  <2>1. Cardinality(Held(w)') + One(p \in Held(w)) = Cardinality(Held(w)) + One(p \in Held(w)')
    BY <1>4, <1>6, CountUpdate
  <2> QED BY <1>4, <2>1 DEF One
<1>9. Cardinality(Roving(w)') + One(Roams(pass[p], w))
         = Cardinality(Roving(w)) + One(Roams(new, w))
  <2>1. Cardinality(Roving(w)') + One(p \in Roving(w))
           = Cardinality(Roving(w)) + One(p \in Roving(w)')
    BY <1>4, <1>6, CountUpdate
  <2> QED BY <1>4, <2>1 DEF One
<1> QED BY <1>1, <1>6, <1>7, <1>8, <1>9

\* What each step writes has its type, and a workspace that does not wait has
\* been passed over by nobody.
LEMMA DispatchTypedStep ==
    ASSUME DispatchTyped, [DispatchNext]_dispatchVars PROVE DispatchTyped'
<1> USE DEF DispatchTyped
<1>1. NoPass \in PassRecord /\ 0 \in Positions
  BY DEF NoPass, PassRecord, Positions
<1>2. \A c \in Positions : After(c) \in Positions
  BY Circle
<1>3. \A p \in Pool : p \in Processes /\ pass[p] \in PassRecord
  BY PoolCounts
<1>4. \A p \in Pool : Asked(p) \in Positions
  BY <1>3, PassPlace DEF Asked, PassRecord
<1>5. \A x \in Positions : [NoPass EXCEPT !.own = x] \in PassRecord
  BY <1>1 DEF NoPass, PassRecord
<1>6. CASE UNCHANGED dispatchVars
  BY <1>6 DEF dispatchVars
<1>7. ASSUME NEW w \in Positions, SubmitTo(w) PROVE DispatchTyped'
  BY <1>7 DEF SubmitTo
<1>8. ASSUME NEW p \in Pool, FairStart(p) PROVE DispatchTyped'
  <2> DEFINE start == IF durable THEN cursor ELSE pass[p].own
             new == [pass[p] EXCEPT !.at = "asking", !.start = start, !.asked = 0]
  <2>1. start \in Positions
    BY <1>3 DEF PassRecord
  <2>2. new \in PassRecord
    BY <1>1, <1>3, <2>1 DEF PassRecord
  <2>3. pass' = [pass EXCEPT ![p] = new] /\ cursor' \in Positions
    BY <1>2, <1>8, <2>1 DEF FairStart, NextCursor
  <2> QED BY <1>3, <1>8, <2>2, <2>3 DEF FairStart
<1>9. ASSUME NEW p \in Pool, Serve(p) PROVE DispatchTyped'
  <2> DEFINE new == [pass[p] EXCEPT !.at = "running"]
  <2>1. new \in PassRecord /\ pass' = [pass EXCEPT ![p] = new]
    BY <1>3, <1>9 DEF PassRecord, Serve
  <2>2. /\ passed' \in [Positions -> Nat] /\ waiting' \in [Positions -> Nat]
        /\ \A w \in Positions : waiting'[w] = 0 => passed'[w] = 0
    BY <1>4, <1>9 DEF Serve
  <2> QED BY <1>3, <1>9, <2>1, <2>2 DEF Serve
<1>10. ASSUME NEW p \in Pool, AskNext(p) PROVE DispatchTyped'
  <2> DEFINE new == IF pass[p].asked + 1 < Size THEN [pass[p] EXCEPT !.asked = @ + 1]
                    ELSE [NoPass EXCEPT !.own = After(pass[p].start)]
  <2>1. pass' = [pass EXCEPT ![p] = new]
    BY <1>3, <1>10 DEF AskNext
  <2>2. pass[p].start \in Positions /\ pass[p].asked \in Positions
    BY <1>3 DEF PassRecord
  <2>3. new \in PassRecord
    <3>1. CASE pass[p].asked + 1 < Size
      <4>1. pass[p].asked + 1 \in Positions
        <5>1. \A n \in Positions : n + 1 < Size => n + 1 \in Positions
          BY DEF Positions
        <5> QED BY <2>2, <3>1, <5>1
      <4> QED BY <1>3, <3>1, <4>1 DEF PassRecord
    <3>2. CASE ~(pass[p].asked + 1 < Size)
      BY <1>2, <1>5, <2>2, <3>2
    <3> QED BY <3>1, <3>2
  <2> HIDE DEF new
  <2> QED BY <1>3, <1>10, <2>1, <2>3 DEF AskNext
<1>11. ASSUME NEW p \in Pool, Return(p) PROVE DispatchTyped'
  BY <1>2, <1>3, <1>4, <1>5, <1>11 DEF Return
<1>12. ASSUME NEW p \in Pool, ProcessDies(p) PROVE DispatchTyped'
  BY <1>1, <1>3, <1>12 DEF ProcessDies
<1> QED BY <1>6, <1>7, <1>8, <1>9, <1>10, <1>11, <1>12 DEF DispatchNext

\* The bound grows with what it counts, and leaves room for a whole pool that
\* asks elsewhere.
LEMMA Room ==
    ASSUME NEW n \in Nat, NEW h \in Nat, NEW d \in Nat
    PROVE  /\ Allowed(n, h, d) \in Nat
           /\ \A r \in Nat, a \in Positions : r <= n => r + a <= Allowed(n, h, d)
<1>1. ASSUME NEW m \in Nat PROVE (m + 1) * (Size - 1) \in Nat /\ (m + 1) * (Size - 1) >= Size - 1
  OBVIOUS
<1>2. (h + d + 1) * (Size - 1) \in Nat /\ (h + d + 1) * (Size - 1) >= Size - 1
  BY <1>1
<1> QED BY <1>2 DEF Allowed, Positions

\* One more pass that holds a workspace, or dies with it, allows a turn for each other place.
LEMMA RoomForOneMore ==
    ASSUME NEW n \in Nat, NEW h \in Nat, NEW d \in Nat
    PROVE  /\ Allowed(n, h + 1, d) = Allowed(n, h, d) + (Size - 1)
           /\ Allowed(n, h, d + 1) = Allowed(n, h, d) + (Size - 1)
<1>1. ASSUME NEW m \in Nat PROVE (m + 1) * (Size - 1) = m * (Size - 1) + (Size - 1)
  OBVIOUS
<1> QED BY <1>1 DEF Allowed

\* A death makes up for the pass that held the workspace and was lost.
LEMMA RoomKept ==
    ASSUME NEW n \in Nat, NEW h \in Nat, NEW d \in Nat, NEW i \in Nat, NEW e \in Nat,
           \/ h = i /\ e \in {d, d + 1}
           \/ h = i + 1 /\ e = d + 1
    PROVE  Allowed(n, h, d) <= Allowed(n, i, e)
<1>1. Allowed(n, i + 1, d) = Allowed(n, i, d + 1) /\ Allowed(n, i, d + 1) = Allowed(n, i, d) + (Size - 1)
  BY RoomForOneMore
<1>2. Allowed(n, i, d) \in Nat
  BY Room
<1>3. CASE h = i /\ e = d
  BY <1>2, <1>3
<1>4. CASE h = i /\ e = d + 1
  BY <1>1, <1>2, <1>4
<1>5. CASE h = i + 1 /\ e = d + 1
  BY <1>1, <1>2, <1>5
<1> QED BY <1>3, <1>4, <1>5

\* Where positions and distances lie.
LEMMA Near ==
    /\ \A c \in Positions : After(c) \in Positions
    /\ \A c \in Positions, w \in Positions : Ahead(c, w) \in Positions /\ Ahead(c, w) \in Nat
    /\ \A n \in Positions : n \in Nat /\ n + 1 # 0
<1>1. \A n \in Positions : n \in Nat /\ n + 1 # 0
  BY DEF Positions
<1>2. /\ \A c \in Positions : After(c) \in Positions
      /\ \A c \in Positions, w \in Positions : Ahead(c, w) \in Positions
  BY Circle
<1> QED BY <1>1, <1>2

\* A process goes on without reserving.
LEMMA SharedGoesOn ==
    ASSUME DispatchTyped, DispatchTyped', SharedFair, NEW p \in Pool, NEW new,
           pass' = [pass EXCEPT ![p] = new], durable' = durable, cursor' = cursor,
           NEW w \in Positions, ~Holds(new, w), deaths' \in {deaths, deaths + 1},
           \/ passed'[w] = 0
           \/ /\ passed'[w] + One(Roams(new, w)) <= passed[w] + One(Roams(pass[p], w))
              /\ Holds(pass[p], w) => deaths' = deaths + 1
    PROVE  /\ passed'[w] + Cardinality(Roving(w)') + Ahead(cursor', w)
                 <= Allowed(Cardinality(Pool'), Cardinality(Held(w)'), deaths')
           /\ Held(w)' # Pool'
<1>0. /\ Pool' = Pool /\ IsFiniteSet(Pool) /\ Cardinality(Pool) \in Nat
      /\ Cardinality(Held(w)) \in Nat /\ Cardinality(Held(w)') \in Nat
      /\ Cardinality(Roving(w)) \in Nat /\ Cardinality(Roving(w)') \in Nat
      /\ Cardinality(Held(w)') + Cardinality(Roving(w)') <= Cardinality(Pool)
      /\ Cardinality(Held(w)') + One(Holds(pass[p], w))
            = Cardinality(Held(w)) + One(Holds(new, w))
      /\ Cardinality(Roving(w)') + One(Roams(pass[p], w))
            = Cardinality(Roving(w)) + One(Roams(new, w))
  BY PassCounts
<1> DEFINE H == Cardinality(Held(w))
           HH == Cardinality(Held(w)')
           R == Cardinality(Roving(w))
           RR == Cardinality(Roving(w)')
           N == Cardinality(Pool)
           a == Ahead(cursor, w)
<1>1. /\ Pool' = Pool /\ N \in Nat /\ H \in Nat /\ HH \in Nat /\ R \in Nat /\ RR \in Nat
      /\ HH + RR <= N
      /\ HH + One(Holds(pass[p], w)) = H + One(Holds(new, w))
      /\ RR + One(Roams(pass[p], w)) = R + One(Roams(new, w))
  BY <1>0
<1>2. /\ deaths \in Nat /\ deaths' \in Nat /\ passed[w] \in Nat /\ passed'[w] \in Nat
      /\ cursor \in Positions
  BY DEF DispatchTyped
<1>3. a \in Positions /\ a \in Nat
  BY <1>2, Near
<1>4. passed[w] + R + a <= Allowed(N, H, deaths)
  BY DEF SharedFair
<1>5. One(Holds(pass[p], w)) \in {0, 1} /\ One(Holds(new, w)) = 0 /\ One(Roams(pass[p], w)) \in Nat
      /\ One(Roams(new, w)) \in Nat /\ (~Holds(pass[p], w) => One(Holds(pass[p], w)) = 0)
  BY DEF One
<1>6. p \in Pool /\ ~Holds(pass'[p], w)
  BY PoolCounts DEF DispatchTyped
<1>7. Held(w)' # Pool'
  BY <1>1, <1>6 DEF Held
<1> HIDE DEF H, HH, R, RR, N, a
<1>8. passed'[w] + RR + a <= Allowed(N, HH, deaths')
  <2>1. CASE passed'[w] = 0
    <3>1. RR <= N
      BY <1>1
    <3>2. RR + a <= Allowed(N, HH, deaths')
      BY <1>1, <1>2, <1>3, <3>1, Room
    <3> QED BY <1>1, <1>3, <2>1, <3>2
  <2>2. CASE /\ passed'[w] + One(Roams(new, w)) <= passed[w] + One(Roams(pass[p], w))
             /\ Holds(pass[p], w) => deaths' = deaths + 1
    <3>1. passed'[w] + RR <= passed[w] + R
      BY <1>1, <1>2, <1>5, <2>2
    <3>2. HH + One(Holds(pass[p], w)) = H
      BY <1>1, <1>5
    <3>3. ASSUME Holds(pass[p], w) PROVE H = HH + 1 /\ deaths' = deaths + 1
      <4>1. One(Holds(pass[p], w)) = 1 /\ deaths' = deaths + 1
        BY <2>2, <3>3 DEF One
      <4> QED BY <1>1, <3>2, <4>1
    <3>4. H = HH \/ (H = HH + 1 /\ deaths' = deaths + 1)
      <4>1. CASE ~Holds(pass[p], w)
        BY <1>1, <1>5, <3>2, <4>1
      <4> QED BY <3>3, <4>1
    <3>5. Allowed(N, H, deaths) <= Allowed(N, HH, deaths')
      BY <1>1, <1>2, <3>4, RoomKept
    <3>6. Allowed(N, H, deaths) \in Nat /\ Allowed(N, HH, deaths') \in Nat
      BY <1>1, <1>2, Room
    <3> QED BY <1>1, <1>2, <1>3, <1>4, <3>1, <3>5, <3>6
  <2> QED BY <2>1, <2>2
<1> QED BY <1>1, <1>7, <1>8 DEF HH, RR, N, a

\* A process reserves the position of the shared cursor.
LEMMA SharedReserve ==
    ASSUME DispatchTyped, DispatchTyped', SharedFair, NEW p \in Pool, NEW new,
           pass' = [pass EXCEPT ![p] = new], durable' = durable, cursor' = After(cursor),
           passed' = passed, deaths' = deaths, pass[p].at = "between",
           new.at = "asking", new.start = cursor, new.asked = 0, NEW w \in Positions
    PROVE  /\ passed'[w] + Cardinality(Roving(w)') + Ahead(cursor', w)
                 <= Allowed(Cardinality(Pool'), Cardinality(Held(w)'), deaths')
           /\ Held(w)' = Pool' => cursor' = After(w)
<1>0. /\ Pool' = Pool /\ IsFiniteSet(Pool) /\ Cardinality(Pool) \in Nat
      /\ Cardinality(Held(w)) \in Nat /\ Cardinality(Held(w)') \in Nat
      /\ Cardinality(Roving(w)) \in Nat /\ Cardinality(Roving(w)') \in Nat
      /\ Cardinality(Held(w)') + Cardinality(Roving(w)') <= Cardinality(Pool)
      /\ Cardinality(Held(w)') + One(Holds(pass[p], w))
            = Cardinality(Held(w)) + One(Holds(new, w))
      /\ Cardinality(Roving(w)') + One(Roams(pass[p], w))
            = Cardinality(Roving(w)) + One(Roams(new, w))
  BY PassCounts
<1> DEFINE H == Cardinality(Held(w))
           HH == Cardinality(Held(w)')
           R == Cardinality(Roving(w))
           RR == Cardinality(Roving(w)')
           N == Cardinality(Pool)
<1>1. /\ Pool' = Pool /\ N \in Nat /\ H \in Nat /\ HH \in Nat /\ R \in Nat /\ RR \in Nat
      /\ HH + One(Holds(pass[p], w)) = H + One(Holds(new, w))
      /\ RR + One(Roams(pass[p], w)) = R + One(Roams(new, w))
  BY <1>0
<1>2. deaths \in Nat /\ passed[w] \in Nat /\ cursor \in Positions
  BY DEF DispatchTyped
<1>3. passed[w] + R + Ahead(cursor, w) <= Allowed(N, H, deaths)
  BY DEF SharedFair
<1>4. One(Holds(pass[p], w)) = 0 /\ One(Roams(pass[p], w)) = 0
  BY DEF One, Holds, Roams
<1>5. Held(w)' = Pool' => cursor = w
  <2>1. pass'[p] = new
    BY PoolCounts DEF DispatchTyped
  <2>2. p \in Held(w)' => Holds(pass'[p], w)
    BY DEF Held
  <2> QED BY <1>1, <2>1, <2>2 DEF Holds
<1> HIDE DEF H, HH, R, RR, N
<1>6. Allowed(N, H + 1, deaths) = Allowed(N, H, deaths) + (Size - 1) /\ Allowed(N, H, deaths) \in Nat
  <2>1. H \in Nat /\ N \in Nat /\ deaths \in Nat
    BY <1>1, <1>2
  <2>2. Allowed(N, H, deaths) \in Nat
    BY <2>1, Room
  <2>3. Allowed(N, H + 1, deaths) = Allowed(N, H, deaths) + (Size - 1)
    BY <2>1, RoomForOneMore
  <2> QED BY <2>2, <2>3
<1>7. Ahead(cursor, w) \in Nat /\ Ahead(After(cursor), w) \in Nat
  BY <1>2, Near
<1>8. CASE cursor = w
  <2>1. One(Holds(new, w)) = 1 /\ One(Roams(new, w)) = 0
    BY <1>8 DEF One, Holds, Roams
  <2>2. HH = H + 1 /\ RR = R
    BY <1>1, <1>4, <2>1
  <2>3. Ahead(cursor, w) = 0 /\ Ahead(cursor', w) = Size - 1
    BY <1>2, <1>8, Circle
  <2>4. passed'[w] + RR + Ahead(cursor', w) <= Allowed(N, HH, deaths')
    BY <1>1, <1>2, <1>3, <1>6, <2>2, <2>3
  <2> QED BY <1>1, <1>8, <2>4 DEF HH, RR, N
<1>9. CASE cursor # w
  <2>1. One(Holds(new, w)) = 0 /\ One(Roams(new, w)) = 1
    BY <1>9 DEF One, Holds, Roams
  <2>2. HH = H /\ RR = R + 1
    BY <1>1, <1>4, <2>1
  <2>3. Ahead(cursor', w) = Ahead(cursor, w) - 1
    BY <1>2, <1>9, Circle
  <2>4. passed'[w] + RR + Ahead(cursor', w) <= Allowed(N, HH, deaths')
    BY <1>1, <1>2, <1>3, <1>6, <1>7, <2>2, <2>3
  <2> QED BY <1>1, <1>5, <1>9, <2>4 DEF HH, RR, N
<1> QED BY <1>8, <1>9

\* The shared cursor, step by step.
LEMMA SharedStep ==
    ASSUME DispatchTyped, DispatchTyped', SharedFair, durable, DispatchNext PROVE SharedFair'
<1> USE DEF DispatchTyped
<1> SUFFICES ASSUME NEW w \in Positions
             PROVE  /\ passed'[w] + Cardinality(Roving(w)') + Ahead(cursor', w)
                          <= Allowed(Cardinality(Pool'), Cardinality(Held(w)'), deaths')
                    /\ Held(w)' = Pool' => cursor' = After(w)
  BY DEF SharedFair, Allowed, Positions
<1>1. \A p \in Pool : p \in Processes /\ pass[p] \in PassRecord /\ Asked(p) \in Positions
  <2>1. \A p \in Pool : p \in Processes /\ pass[p] \in PassRecord
    BY PoolCounts
  <2> QED BY <2>1, PassPlace DEF Asked, PassRecord
<1>2. \A p \in Pool : Holds(pass[p], w) => Asked(p) = w
  BY <1>1, PassPlace DEF Holds, Asked, PassRecord
<1>3. /\ passed[w] + Cardinality(Roving(w)) + Ahead(cursor, w)
            <= Allowed(Cardinality(Pool), Cardinality(Held(w)), deaths)
      /\ Held(w) = Pool => cursor = After(w)
      /\ waiting[w] = 0 => passed[w] = 0
      /\ passed[w] \in Nat /\ deaths \in Nat /\ cursor \in Positions
  BY DEF SharedFair
<1>12. \A p \in Pool : /\ pass[p].asked \in Positions
                     /\ \A x : /\ [NoPass EXCEPT !.own = x].at = "between"
                              /\ [pass[p] EXCEPT !.asked = x].at = pass[p].at
                              /\ [pass[p] EXCEPT !.asked = x].asked = x
  BY <1>1 DEF PassRecord, NoPass
<1>4. CASE \E v \in Positions : SubmitTo(v)
  <2>1. UNCHANGED <<durable, cursor, pass, passed, deaths>>
    BY <1>4 DEF SubmitTo
  <2>2. Held(w)' = Held(w) /\ Roving(w)' = Roving(w) /\ Pool' = Pool
    BY <2>1 DEF Held, Roving, Pool, Holds, Roams
  <2> QED BY <1>3, <2>1, <2>2
<1>5. ASSUME NEW p \in Pool, FairStart(p)
      PROVE  /\ passed'[w] + Cardinality(Roving(w)') + Ahead(cursor', w)
                   <= Allowed(Cardinality(Pool'), Cardinality(Held(w)'), deaths')
             /\ Held(w)' = Pool' => cursor' = After(w)
  <2> DEFINE new == [pass[p] EXCEPT !.at = "asking", !.start = cursor, !.asked = 0]
  <2>1. /\ pass' = [pass EXCEPT ![p] = new] /\ cursor' = After(cursor)
        /\ passed' = passed /\ deaths' = deaths /\ durable' = durable /\ pass[p].at = "between"
    BY <1>1, <1>5 DEF FairStart, NextCursor
  <2>2. new.at = "asking" /\ new.start = cursor /\ new.asked = 0
    BY <1>1 DEF PassRecord
  <2> HIDE DEF new, DispatchTyped
  <2> QED BY <2>1, <2>2, SharedReserve
<1>6. ASSUME NEW p \in Pool, Serve(p)
      PROVE  /\ passed'[w] + Cardinality(Roving(w)') + Ahead(cursor', w)
                   <= Allowed(Cardinality(Pool'), Cardinality(Held(w)'), deaths')
             /\ Held(w)' = Pool' => cursor' = After(w)
  <2> DEFINE new == [pass[p] EXCEPT !.at = "running"]
  <2>1. /\ pass' = [pass EXCEPT ![p] = new] /\ cursor' = cursor /\ deaths' = deaths
        /\ durable' = durable /\ pass[p].at = "asking"
        /\ passed'[w] = IF w = Asked(p) \/ waiting[w] = 0 THEN 0 ELSE passed[w] + 1
    BY <1>1, <1>6 DEF Serve
  <2>2. new.at = "running"
    BY <1>1 DEF PassRecord
  <2> HIDE DEF new, DispatchTyped
  <2>3. ~Holds(new, w) /\ ~Roams(new, w)
    BY <2>2 DEF Holds, Roams
  <2>4. w # Asked(p) => Roams(pass[p], w) /\ ~Holds(pass[p], w)
    BY <1>2, <2>1 DEF Roams
  <2>5. \/ passed'[w] = 0
        \/ /\ passed'[w] + One(Roams(new, w)) <= passed[w] + One(Roams(pass[p], w))
           /\ Holds(pass[p], w) => deaths' = deaths + 1
    BY <1>3, <2>1, <2>3, <2>4 DEF One
  <2> QED BY <2>1, <2>3, <2>5, SharedGoesOn
<1>7. ASSUME NEW p \in Pool, AskNext(p)
      PROVE  /\ passed'[w] + Cardinality(Roving(w)') + Ahead(cursor', w)
                   <= Allowed(Cardinality(Pool'), Cardinality(Held(w)'), deaths')
             /\ Held(w)' = Pool' => cursor' = After(w)
  <2> DEFINE new == IF pass[p].asked + 1 < Size THEN [pass[p] EXCEPT !.asked = pass[p].asked + 1]
                    ELSE [NoPass EXCEPT !.own = After(pass[p].start)]
  <2>1. /\ pass' = [pass EXCEPT ![p] = new] /\ cursor' = cursor /\ deaths' = deaths
        /\ durable' = durable /\ pass[p].at = "asking" /\ waiting[Asked(p)] = 0
        /\ passed' = passed
    BY <1>1, <1>7 DEF AskNext
  <2>2. \/ new.at = "asking" /\ new.asked = pass[p].asked + 1
        \/ new.at = "between"
    BY <1>12, <2>1
  <2>3. pass[p].asked + 1 # 0
    BY <1>12, Near
  <2> HIDE DEF new, DispatchTyped
  <2>4. ~Holds(new, w)
    BY <2>2, <2>3 DEF Holds
  <2>5. waiting[w] # 0 => Roams(pass[p], w) /\ ~Holds(pass[p], w)
    BY <1>2, <2>1 DEF Roams
  <2>6. \/ passed'[w] = 0
        \/ /\ passed'[w] + One(Roams(new, w)) <= passed[w] + One(Roams(pass[p], w))
           /\ Holds(pass[p], w) => deaths' = deaths + 1
    BY <1>3, <2>1, <2>5 DEF One
  <2> QED BY <2>1, <2>4, <2>6, SharedGoesOn
<1>8. ASSUME NEW p \in Pool, Return(p) \/ ProcessDies(p)
      PROVE  /\ passed'[w] + Cardinality(Roving(w)') + Ahead(cursor', w)
                   <= Allowed(Cardinality(Pool'), Cardinality(Held(w)'), deaths')
             /\ Held(w)' = Pool' => cursor' = After(w)
  <2> DEFINE new == IF Return(p) THEN [NoPass EXCEPT !.own = After(Asked(p))] ELSE NoPass
  <2>1. /\ pass' = [pass EXCEPT ![p] = new] /\ cursor' = cursor /\ durable' = durable
        /\ passed' = passed /\ deaths' \in {deaths, deaths + 1}
        /\ deaths' = deaths + 1 \/ pass[p].at = "running"
    BY <1>8 DEF Return, ProcessDies
  <2>2. new.at = "between"
    BY DEF NoPass
  <2> HIDE DEF new, DispatchTyped
  <2>3. ~Holds(new, w) /\ ~Roams(new, w)
    BY <2>2 DEF Holds, Roams
  <2>4. /\ passed'[w] + One(Roams(new, w)) <= passed[w] + One(Roams(pass[p], w))
        /\ Holds(pass[p], w) => deaths' = deaths + 1
    BY <1>3, <2>1, <2>3 DEF One, Holds
  <2> QED BY <2>1, <2>3, <2>4, SharedGoesOn
<1> QED BY <1>4, <1>5, <1>6, <1>7, <1>8 DEF DispatchNext

\* A cursor of its own: the process goes on to another place of its pass.
LEMMA OwnGoesOn ==
    ASSUME DispatchTyped, ~durable, durable' = durable, NEW p \in Pool, NEW new,
           pass' = [pass EXCEPT ![p] = new],
           \A w \in Positions :
               /\ passed'[w] + Ahead(GoesOn(new), w) <= Allowed(0, 0, deaths')
               /\ new.at = "asking" /\ Ahead(new.start, w) < new.asked => passed'[w] = 0
    PROVE  OwnFair'
<1>1. Pool' = Pool /\ \A x \in Pool : x = p
  BY DEF Pool
<1>2. pass'[p] = new
  BY PoolCounts DEF DispatchTyped
<1>3. SUFFICES ASSUME NEW w \in Positions
               PROVE  /\ passed'[w] + Ahead(GoesOn(pass'[p]), w) <= Allowed(0, 0, deaths')
                      /\ pass'[p].at = "asking" /\ Ahead(pass'[p].start, w) < pass'[p].asked
                           => passed'[w] = 0
  BY <1>1 DEF OwnFair, OwnShare, GoesOn, Ahead, Allowed, After, Positions
<1> QED BY <1>2

\* The cursor of its own, step by step.
LEMMA OwnStep ==
    ASSUME DispatchTyped, DispatchTyped', OwnFair, ~durable, DispatchNext PROVE OwnFair'
<1>1. \A p \in Pool : /\ p \in Processes /\ pass[p] \in PassRecord
                      /\ pass[p].start \in Positions /\ pass[p].asked \in Positions
                      /\ pass[p].own \in Positions
  BY PoolCounts DEF DispatchTyped, PassRecord
<1>2. \A p \in Pool : Asked(p) \in Positions /\ GoesOn(pass[p]) \in Positions
  <2>1. \A p \in Pool : Asked(p) \in Positions
    BY <1>1, PassPlace DEF Asked
  <2> QED BY <1>1, <2>1, Near DEF GoesOn, Asked
<1>3. \A w \in Positions : /\ waiting[w] = 0 => passed[w] = 0
                           /\ passed[w] \in Nat /\ waiting[w] \in Nat
  BY DEF DispatchTyped
<1>4. deaths \in Nat /\ Allowed(0, 0, deaths) \in Nat
      /\ \A a \in Positions : a <= Allowed(0, 0, deaths) /\ 0 + a <= Allowed(0, 0, deaths)
  <2>1. deaths \in Nat
    BY DEF DispatchTyped
  <2>2. /\ Allowed(0, 0, deaths) \in Nat
        /\ \A r \in Nat, a \in Positions : r <= 0 => r + a <= Allowed(0, 0, deaths)
    BY <2>1, Room
  <2> QED BY <2>1, <2>2 DEF Positions
<1>5. \A p \in Pool, w \in Positions :
         /\ passed[w] + Ahead(GoesOn(pass[p]), w) <= Allowed(0, 0, deaths)
         /\ pass[p].at = "asking" /\ Ahead(pass[p].start, w) < pass[p].asked => passed[w] = 0
  BY DEF OwnFair, OwnShare
<1>6. CASE \E v \in Positions : SubmitTo(v)
  <2>1. UNCHANGED <<durable, pass, passed, deaths>>
    BY <1>6 DEF SubmitTo
  <2>2. Pool' = Pool
    BY <2>1 DEF Pool
  <2> QED BY <2>1, <2>2, <1>5 DEF OwnFair, OwnShare, GoesOn, Ahead, Allowed, After, Positions
<1>7. ASSUME NEW p \in Pool, FairStart(p) PROVE OwnFair'
  <2> DEFINE new == [pass[p] EXCEPT !.at = "asking", !.start = pass[p].own, !.asked = 0]
  <2>1. /\ pass' = [pass EXCEPT ![p] = new] /\ passed' = passed /\ deaths' = deaths
        /\ durable' = durable /\ pass[p].at = "between"
    BY <1>1, <1>7 DEF FairStart
  <2>2. new.at = "asking" /\ new.start = pass[p].own /\ new.asked = 0
    BY <1>1 DEF PassRecord
  <2> HIDE DEF new
  <2>3. (pass[p].own + 0) % Size = pass[p].own
    BY <1>1 DEF Positions
  <2>4. GoesOn(new) = pass[p].own /\ GoesOn(pass[p]) = pass[p].own
    BY <2>1, <2>2, <2>3 DEF GoesOn
  <2>5. \A w \in Positions : ~(Ahead(pass[p].own, w) < 0)
    <3>1. \A w \in Positions : Ahead(pass[p].own, w) \in Nat
      BY <1>1, Near
    <3> QED BY <3>1
  <2>6. \A w \in Positions :
          /\ passed'[w] + Ahead(GoesOn(new), w) <= Allowed(0, 0, deaths')
          /\ new.at = "asking" /\ Ahead(new.start, w) < new.asked => passed'[w] = 0
    BY <1>5, <2>1, <2>2, <2>4, <2>5
  <2> QED BY <2>1, <2>6, OwnGoesOn
<1>8. ASSUME NEW p \in Pool, Serve(p) PROVE OwnFair'
  <2> DEFINE new == [pass[p] EXCEPT !.at = "running"]
             q == Asked(p)
  <2>1. /\ pass' = [pass EXCEPT ![p] = new] /\ deaths' = deaths
        /\ durable' = durable /\ pass[p].at = "asking"
        /\ \A w \in Positions :
              passed'[w] = IF w = q \/ waiting[w] = 0 THEN 0 ELSE passed[w] + 1
    BY <1>1, <1>8 DEF Serve
  <2>2. new.at = "running" /\ new.start = pass[p].start /\ new.asked = pass[p].asked
    BY <1>1 DEF PassRecord
  <2> HIDE DEF new
  <2>3. GoesOn(new) = After(q) /\ GoesOn(pass[p]) = q
    BY <2>1, <2>2 DEF GoesOn, Asked
  <2> HIDE DEF q
  <2>4. q \in Positions
    BY <1>2 DEF q
  <2>5. ASSUME NEW w \in Positions
        PROVE  passed'[w] + Ahead(After(q), w) <= Allowed(0, 0, deaths)
    <3>1. Ahead(q, w) \in Nat /\ Ahead(After(q), w) \in Nat /\ Ahead(After(q), w) \in Positions
      BY <2>4, Near
    <3>2. CASE w = q \/ waiting[w] = 0
      <4>1. passed'[w] = 0
        BY <2>1, <3>2
      <4> QED BY <1>4, <3>1, <4>1
    <3>3. CASE w # q /\ waiting[w] # 0
      <4>1. passed'[w] = passed[w] + 1 /\ Ahead(After(q), w) = Ahead(q, w) - 1
        BY <2>1, <2>4, <3>3, Circle
      <4>2. passed[w] + Ahead(q, w) <= Allowed(0, 0, deaths)
        BY <1>5, <2>3
      <4> QED BY <1>3, <1>4, <3>1, <4>1, <4>2
    <3> QED BY <3>2, <3>3
  <2> QED BY <2>1, <2>2, <2>3, <2>5, OwnGoesOn
<1>9. ASSUME NEW p \in Pool, AskNext(p) PROVE OwnFair'
  <2> DEFINE new == IF pass[p].asked + 1 < Size THEN [pass[p] EXCEPT !.asked = pass[p].asked + 1]
                    ELSE [NoPass EXCEPT !.own = After(pass[p].start)]
             q == Asked(p)
             start == pass[p].start
             asked == pass[p].asked
  <2>1. /\ pass' = [pass EXCEPT ![p] = new] /\ deaths' = deaths /\ passed' = passed
        /\ durable' = durable /\ pass[p].at = "asking" /\ waiting[q] = 0
    BY <1>1, <1>9 DEF AskNext
  <2>2. /\ asked + 1 < Size => new.at = "asking" /\ new.start = start /\ new.asked = asked + 1
        /\ ~(asked + 1 < Size) => new.at = "between" /\ new.own = After(start)
    BY <1>1, <2>1 DEF PassRecord, NoPass
  <2> HIDE DEF new
  <2>3. /\ asked + 1 < Size => (start + (asked + 1)) % Size = After(q)
        /\ \A w \in Positions : Ahead(start, w) = asked => w = q
    BY <1>1, PassPlace DEF Asked
  <2>4. start \in Positions /\ asked \in Positions /\ GoesOn(pass[p]) = q /\ q \in Positions
    BY <1>1, <1>2, <2>1 DEF GoesOn, Asked
  <2>5. \A w \in Positions : Ahead(start, w) < asked => passed[w] = 0
    BY <1>5, <2>1
  <2> HIDE DEF q, start, asked
  <2>6. passed[q] = 0
    BY <1>3, <2>1, <2>4
  <2>7. ASSUME NEW w \in Positions, Ahead(start, w) <= asked PROVE passed[w] = 0
    <3>1. Ahead(start, w) \in Nat /\ asked \in Nat
      BY <2>4, Near
    <3>2. Ahead(start, w) < asked \/ Ahead(start, w) = asked
      BY <2>7, <3>1
    <3> QED BY <2>3, <2>5, <2>6, <3>2
  <2>8. CASE asked + 1 < Size
    <3>1. GoesOn(new) = After(q)
      BY <2>2, <2>3, <2>8 DEF GoesOn
    <3>2. ASSUME NEW w \in Positions
          PROVE  /\ passed[w] + Ahead(After(q), w) <= Allowed(0, 0, deaths)
                 /\ Ahead(start, w) < asked + 1 => passed[w] = 0
      <4>1. /\ Ahead(q, w) \in Nat /\ Ahead(After(q), w) \in Nat /\ Ahead(After(q), w) \in Positions
            /\ Ahead(start, w) \in Nat /\ asked \in Nat
        BY <2>4, Near
      <4>2. Ahead(start, w) < asked + 1 => passed[w] = 0
        BY <2>7, <4>1
      <4>3. CASE w = q
        BY <1>4, <2>6, <4>1, <4>3
      <4>4. CASE w # q
        <5>1. Ahead(After(q), w) = Ahead(q, w) - 1
          BY <2>4, <4>4, Circle
        <5>2. passed[w] + Ahead(q, w) <= Allowed(0, 0, deaths)
          BY <1>5, <2>4
        <5> QED BY <1>3, <1>4, <4>1, <4>2, <5>1, <5>2
      <4> QED BY <4>2, <4>3, <4>4
    <3> QED BY <2>1, <2>2, <2>8, <3>1, <3>2, OwnGoesOn
  <2>9. CASE ~(asked + 1 < Size)
    <3>1. GoesOn(new) = After(start)
      BY <2>2, <2>9 DEF GoesOn
    <3>2. \A n \in Positions : n <= asked
      BY <2>4, <2>9 DEF Positions
    <3>3. \A w \in Positions : passed[w] = 0 /\ 0 + Ahead(After(start), w) <= Allowed(0, 0, deaths)
      BY <1>4, <2>4, <2>7, <3>2, Near
    <3> QED BY <2>1, <2>2, <2>9, <3>1, <3>3, OwnGoesOn
  <2> QED BY <2>8, <2>9
<1>10. ASSUME NEW p \in Pool, Return(p) PROVE OwnFair'
  <2> DEFINE new == [NoPass EXCEPT !.own = After(Asked(p))]
  <2>1. /\ pass' = [pass EXCEPT ![p] = new] /\ deaths' = deaths /\ passed' = passed
        /\ durable' = durable /\ pass[p].at = "running"
    BY <1>1, <1>10 DEF Return
  <2>2. new.at = "between" /\ new.own = After(Asked(p))
    BY DEF NoPass
  <2> HIDE DEF new
  <2>3. GoesOn(new) = GoesOn(pass[p])
    BY <2>1, <2>2 DEF GoesOn, Asked
  <2> QED BY <1>5, <2>1, <2>2, <2>3, OwnGoesOn
<1>11. ASSUME NEW p \in Pool, ProcessDies(p) PROVE OwnFair'
  <2>1. /\ pass' = [pass EXCEPT ![p] = NoPass] /\ deaths' = deaths + 1 /\ passed' = passed
        /\ durable' = durable
    BY <1>11 DEF ProcessDies
  <2>2. NoPass.at = "between" /\ GoesOn(NoPass) = 0 /\ 0 \in Positions
    BY DEF NoPass, GoesOn, Positions
  <2>3. Allowed(0, 0, deaths') = Allowed(0, 0, deaths) + (Size - 1)
    BY <1>4, <2>1, RoomForOneMore
  <2>4. ASSUME NEW w \in Positions PROVE passed[w] + Ahead(0, w) <= Allowed(0, 0, deaths')
    <3>1. Ahead(GoesOn(pass[p]), w) \in Nat /\ Ahead(0, w) \in Positions
      BY <1>2, <2>2, Near
    <3>2. passed[w] + Ahead(GoesOn(pass[p]), w) <= Allowed(0, 0, deaths)
      BY <1>5
    <3>3. Ahead(0, w) <= Size - 1 /\ Ahead(0, w) \in Nat
      BY <3>1 DEF Positions
    <3> QED BY <1>3, <1>4, <2>3, <3>1, <3>2, <3>3
  <2> QED BY <2>1, <2>2, <2>4, OwnGoesOn
<1> QED BY <1>6, <1>7, <1>8, <1>9, <1>10, <1>11 DEF DispatchNext

\* The first pass starts at 0 and nobody has been passed over.
LEMMA DispatchedInit == ASSUME DispatchInit PROVE Dispatched
<1>1. NoPass \in PassRecord /\ 0 \in Positions
  BY DEF NoPass, PassRecord, Positions
<1>2. DispatchTyped
  BY <1>1 DEF DispatchInit, DispatchTyped
<1>3. /\ cursor = 0 /\ deaths = 0 /\ \A w \in Positions : passed[w] = 0
      /\ \A p \in Pool : pass[p] = NoPass
  BY PoolCounts DEF DispatchInit
<1>4. \A w : Held(w) = {} /\ Roving(w) = {}
  BY <1>3 DEF Held, Roving, Holds, Roams, NoPass
<1>5. Cardinality({}) = 0
  BY FS_EmptySet
<1>6. Pool # {} /\ Cardinality(Pool) \in Nat
  BY PoolCounts, FS_CardinalityType DEF Pool
<1>7. SharedFair
  <2>1. ASSUME NEW w \in Positions
        PROVE  passed[w] + Cardinality(Roving(w)) + Ahead(cursor, w)
                  <= Allowed(Cardinality(Pool), Cardinality(Held(w)), deaths)
    <3>1. Ahead(0, w) \in Positions /\ Ahead(0, w) \in Nat
      BY <1>1, Near
    <3>2. 0 + Ahead(0, w) <= Allowed(Cardinality(Pool), 0, 0)
      BY <1>6, <3>1, Room
    <3> QED BY <1>3, <1>4, <1>5, <3>1, <3>2
  <2> QED BY <1>4, <1>6, <2>1 DEF SharedFair
<1>8. OwnFair
  <2>1. GoesOn(NoPass) = 0 /\ NoPass.at # "asking"
    BY DEF GoesOn, NoPass
  <2>2. ASSUME NEW w \in Positions PROVE 0 + Ahead(0, w) <= Allowed(0, 0, 0)
    <3>1. Ahead(0, w) \in Positions
      BY <1>1, Near
    <3> QED BY <3>1, Room
  <2> QED BY <1>3, <2>1, <2>2 DEF OwnFair, OwnShare
<1> QED BY <1>2, <1>7, <1>8 DEF Dispatched

\* Every step of a process, and every job submitted, keeps the invariant.
LEMMA DispatchedStep == ASSUME Dispatched, [DispatchNext]_dispatchVars PROVE Dispatched'
<1>1. DispatchTyped /\ DispatchTyped'
  BY DispatchTypedStep DEF Dispatched
<1>2. CASE UNCHANGED dispatchVars
  <2>1. UNCHANGED <<durable, cursor, pass, passed, deaths>>
    BY <1>2 DEF dispatchVars
  <2>2. SharedFair' = SharedFair /\ OwnFair' = OwnFair
    BY <2>1 DEF SharedFair, OwnFair, OwnShare, GoesOn, Ahead, Allowed, After, Positions, Held,
                Roving, Holds, Roams, Pool
  <2> QED BY <1>1, <2>1, <2>2 DEF Dispatched
<1>3. CASE DispatchNext
  <2>1. durable' = durable
    BY <1>3 DEF DispatchNext, SubmitTo, FairStart, Serve, AskNext, Return, ProcessDies
  <2>2. CASE durable
    BY <1>1, <1>3, <2>1, <2>2, SharedStep DEF Dispatched
  <2>3. CASE ~durable
    BY <1>1, <1>3, <2>1, <2>3, OwnStep DEF Dispatched
  <2> QED BY <2>2, <2>3
<1> QED BY <1>2, <1>3

\* The invariant of the dispatch: what a workspace that waits has been passed
\* over, the passes that may still pass it over and the reservations to come
\* before its own are together bounded (_fair_start, run_fair_once).
THEOREM DispatchedAlways == DispatchSpec => []Dispatched
<1>1. DispatchInit => Dispatched
  BY DispatchedInit
<1>2. Dispatched /\ [DispatchNext]_dispatchVars => Dispatched'
  BY DispatchedStep
<1> QED BY <1>1, <1>2, PTL DEF DispatchSpec

\* The bound with a shared cursor: not all of the pool can hold the workspace
\* unless the next reservation of it is a whole round away.
LEMMA SharedBound ==
    ASSUME DispatchTyped, SharedFair, durable, NEW w \in Positions
    PROVE  passed[w] <= Cardinality(Pool) + (Cardinality(Pool) + deaths) * (Size - 1)
<1> DEFINE N == Cardinality(Pool)
           H == Cardinality(Held(w))
           R == Cardinality(Roving(w))
           a == Ahead(cursor, w)
<1>1. /\ N \in Nat /\ H \in Nat /\ R \in Nat /\ H <= N
      /\ H = N => Held(w) = Pool
  BY PoolCounts, Parts
<1>2. deaths \in Nat /\ passed[w] \in Nat /\ cursor \in Positions
  BY DEF DispatchTyped
<1>3. a \in Nat /\ a \in Positions
  BY <1>2, Near
<1>4. passed[w] + R + a <= Allowed(N, H, deaths)
  BY DEF SharedFair
<1>5. H = N => a = Size - 1
  BY <1>1, Circle DEF SharedFair
<1> HIDE DEF N, H, R, a
<1>6. \A m \in Nat : m * (Size - 1) \in Nat
  OBVIOUS
<1>7. CASE H = N
  <2>1. Allowed(N, N, deaths) = N + (N + deaths) * (Size - 1) + (Size - 1)
    BY <1>1, <1>2 DEF Allowed
  <2>2. (N + deaths) * (Size - 1) \in Nat
    BY <1>1, <1>2, <1>6
  <2> QED BY <1>1, <1>2, <1>4, <1>5, <1>7, <2>1, <2>2 DEF N
<1>8. CASE H # N
  <2>1. PICK k \in Nat : N = H + 1 + k
    <3>1. N - H - 1 \in Nat /\ N = H + 1 + (N - H - 1)
      BY <1>1, <1>8
    <3> QED BY <3>1
  <2>2. (N + deaths) * (Size - 1) = (H + deaths + 1) * (Size - 1) + k * (Size - 1)
    BY <1>1, <1>2, <2>1
  <2>3. k * (Size - 1) \in Nat /\ (H + deaths + 1) * (Size - 1) \in Nat
    BY <1>1, <1>2, <1>6
  <2>4. Allowed(N, H, deaths) = N + (H + deaths + 1) * (Size - 1)
    BY DEF Allowed
  <2> DEFINE less == (H + deaths + 1) * (Size - 1)
             more == (N + deaths) * (Size - 1)
  <2>5. less <= more /\ less \in Nat /\ more \in Nat
    BY <2>2, <2>3
  <2> HIDE DEF less, more
  <2>6. passed[w] + R + a <= N + less
    BY <1>4, <2>4 DEF less
  <2>7. passed[w] <= N + more
    BY <1>1, <1>2, <1>3, <2>5, <2>6
  <2> QED BY <2>7 DEF N, more
<1> QED BY <1>7, <1>8

\* The bound of a process with a cursor of its own.
LEMMA OwnBound ==
    ASSUME DispatchTyped, OwnFair, ~durable, NEW w \in Positions
    PROVE  passed[w] <= Cardinality(Pool) + (Cardinality(Pool) + deaths) * (Size - 1)
<1>1. PICK p \in Pool : TRUE
  BY DEF Pool
<1>2. Cardinality(Pool) = 1
  BY PoolCounts
<1>3. deaths \in Nat /\ passed[w] \in Nat /\ pass[p] \in PassRecord
  BY <1>1, PoolCounts DEF DispatchTyped
<1>4. GoesOn(pass[p]) \in Positions
  BY <1>3, PassPlace, Near DEF GoesOn, PassRecord
<1>5. Ahead(GoesOn(pass[p]), w) \in Nat
  BY <1>4, Near
<1>6. passed[w] + Ahead(GoesOn(pass[p]), w) <= Allowed(0, 0, deaths)
  BY <1>1 DEF OwnFair, OwnShare
<1>7. Allowed(0, 0, deaths) = (1 + deaths) * (Size - 1) /\ (1 + deaths) * (Size - 1) \in Nat
  BY <1>3 DEF Allowed
<1> QED BY <1>2, <1>3, <1>5, <1>6, <1>7

\* However many processes a pool has and workspaces it serves, and wherever they
\* die, a workspace that waits is passed over a bounded number of times
\* (run_fair_once).
THEOREM FairShareAlways == DispatchSpec => []FairShare
<1>1. Dispatched => FairShare
  BY SharedBound, OwnBound DEF Dispatched, FairShare
<1> QED BY <1>1, DispatchedAlways, PTL

\* The rest is not about the dispatch.
HIDE DispatchAssumption

-----------------------------------------------------------------------------
(***************************************************************************)
(* Scores over a run                                                       *)
(***************************************************************************)
\* The values of a function on a finite set are finitely many.
LEMMA ImageFinite ==
  ASSUME NEW S, IsFiniteSet(S), NEW f
  PROVE  IsFiniteSet({f[x] : x \in S})
<1> DEFINE T == {f[x] : x \in S}
           g == [x \in S |-> f[x]]
<1>1. g \in Surjection(S, T)
  BY DEF Surjection
<1> QED BY <1>1, FS_Surjection

\* Nonempty finite sets of integers have a largest and a smallest member.
LEMMA LargestOf ==
  ASSUME NEW S, IsFiniteSet(S), S \subseteq Int, S # {}
  PROVE  Max(S) \in S /\ \A i \in S : i <= Max(S)
<1> DEFINE H == {T \in SUBSET S : T # {} => \E top \in T : \A i \in T : i <= top}
<1>1. ASSUME NEW T \in SUBSET S, \A U \in (SUBSET T) \ {T} : U \in H
      PROVE  T \in H
  <2> SUFFICES ASSUME T # {} PROVE \E top \in T : \A i \in T : i <= top
    OBVIOUS
  <2>1. PICK x \in T : TRUE
    OBVIOUS
  <2>2. CASE T \ {x} = {}
    <3>1. T = {x} /\ x \in Int
      BY <2>1, <2>2
    <3> QED BY <3>1
  <2>3. CASE T \ {x} # {}
    <3>1. PICK top \in T \ {x} : \A i \in T \ {x} : i <= top
      <4>1. T \ {x} \in (SUBSET T) \ {T}
        BY <2>1
      <4>2. T \ {x} \in H
        BY <1>1, <4>1
      <4> QED BY <2>3, <4>2
    <3>2. x \in Int /\ top \in Int /\ \A i \in T : i \in Int
      BY <2>1
    <3>3. CASE x <= top
      BY <3>1, <3>3
    <3>4. CASE ~(x <= top)
      <4>1. \A i \in T : i <= x
        BY <3>1, <3>2, <3>4
      <4> QED BY <2>1, <4>1
    <3> QED BY <3>3, <3>4
  <2> QED BY <2>2, <2>3
<1>2. \A T \in SUBSET S : T \in H
  <2> HIDE DEF H
  <2> QED BY <1>1, SubsetInduction
<1>3. PICK top \in S : \A i \in S : i <= top
  BY <1>2
<1>4. \A i \in S : top >= i
  BY <1>3
<1> QED BY <1>4 DEF Max

\* See LargestOf.
LEMMA SmallestOf ==
  ASSUME NEW S, IsFiniteSet(S), S \subseteq Int, S # {}
  PROVE  Min(S) \in S /\ \A i \in S : Min(S) <= i
<1> DEFINE minus == [i \in S |-> -i]
           N == {minus[i] : i \in S}
<1>1. IsFiniteSet(N) /\ N \subseteq Int /\ N # {}
  <2>1. IsFiniteSet(N)
    <3> HIDE DEF minus
    <3> QED BY ImageFinite
  <2>2. \A i \in S : minus[i] \in Int
    OBVIOUS
  <2> QED BY <2>1, <2>2
<1>2. Max(N) \in N /\ \A j \in N : j <= Max(N)
  <2> HIDE DEF N
  <2> QED BY <1>1, LargestOf
<1>3. PICK low \in S : Max(N) = -low
  BY <1>2
<1>4. \A i \in S : low <= i
  <2> SUFFICES ASSUME NEW i \in S PROVE low <= i
    OBVIOUS
  <2>1. -i <= -low
    BY <1>2, <1>3
  <2> QED BY <2>1
<1> QED BY <1>4 DEF Min

\* The larger of two integers.
LEMMA LargerOf ==
  ASSUME NEW a \in Int, NEW b \in Int
  PROVE  Max({a, b}) \in {a, b} /\ a <= Max({a, b}) /\ b <= Max({a, b})
<1>1. {a, b} = {a} \cup {b}
  OBVIOUS
<1>2. IsFiniteSet({a})
  BY FS_Singleton
<1>3. IsFiniteSet({a, b})
  BY <1>1, <1>2, FS_AddElement
<1> DEFINE S == {a, b}
<1>4. S \subseteq Int /\ S # {} /\ a \in S /\ b \in S
  OBVIOUS
<1>5. Max(S) \in S /\ \A i \in S : i <= Max(S)
  <2> HIDE DEF S
  <2>1. IsFiniteSet(S)
    BY <1>3 DEF S
  <2> QED BY <1>4, <2>1, LargestOf
<1> QED BY <1>4, <1>5

\* A percentile is one of the scores it is taken of (evaluators.py).
LEMMA PercentileIsOne ==
  ASSUME NEW counted, IsFiniteSet(counted), counted # {}, NEW scores \in [counted -> Int],
         NEW percent \in {50, 95}
  PROVE  Percentile(counted, scores, percent) \in {scores[i] : i \in counted}
<1> DEFINE n == Cardinality(counted)
           rank == Max({1, (percent * n + 99) \div 100})
           V == {scores[i] : i \in counted}
           Q == {q \in V : Cardinality({i \in counted : scores[i] <= q}) >= rank}
<1>1. n \in Nat \ {0}
  BY FS_CardinalityType, FS_EmptySet
<1>2. rank \in Int /\ 1 <= rank /\ rank <= n
  <2> DEFINE r == (percent * n + 99) \div 100
  <2>1. r \in Int /\ r <= n
    BY <1>1
  <2> HIDE DEF r
  <2>2. Max({1, r}) \in {1, r} /\ 1 <= Max({1, r})
    BY <2>1, LargerOf
  <2>3. rank = Max({1, r})
    BY DEF r
  <2> HIDE DEF rank
  <2> QED BY <1>1, <2>1, <2>2, <2>3
<1>3. IsFiniteSet(V) /\ V \subseteq Int /\ V # {}
  <2>1. IsFiniteSet(V)
    BY ImageFinite
  <2> QED BY <2>1
<1>4. Max(V) \in V /\ \A v \in V : v <= Max(V)
  <2> HIDE DEF V
  <2> QED BY <1>3, LargestOf
<1>5. Max(V) \in Q
  <2>1. {i \in counted : scores[i] <= Max(V)} = counted
    BY <1>4
  <2> HIDE DEF rank
  <2> QED BY <1>2, <1>4, <2>1
<1>6. Min(Q) \in Q /\ \A q \in Q : Min(Q) <= q
  <2>1. IsFiniteSet(Q) /\ Q \subseteq Int /\ Q # {}
    BY <1>3, <1>5, FS_Subset
  <2> HIDE DEF Q
  <2> QED BY <2>1, SmallestOf
<1> DEFINE B == {i \in counted : scores[i] < Min(Q)}
<1>7. ~(Cardinality(B) >= rank)
  <2> SUFFICES ASSUME Cardinality(B) >= rank PROVE FALSE
    OBVIOUS
  <2> DEFINE W == {scores[i] : i \in B}
  <2> HIDE DEF rank
  <2>1. IsFiniteSet(B) /\ B # {}
    <3>1. IsFiniteSet(B)
      BY FS_Subset
    <3>2. Cardinality({}) = 0
      BY FS_EmptySet
    <3> HIDE DEF B
    <3> QED BY <1>2, <3>1, <3>2
  <2>2. IsFiniteSet(W) /\ W \subseteq Int /\ W # {}
    <3>1. IsFiniteSet(W)
      <4> HIDE DEF B
      <4> QED BY <2>1, ImageFinite
    <3>2. \A i \in B : scores[i] \in Int
      OBVIOUS
    <3> HIDE DEF B
    <3> QED BY <2>1, <3>1, <3>2
  <2>3. Max(W) \in W /\ \A v \in W : v <= Max(W)
    <3> HIDE DEF W
    <3> QED BY <2>2, LargestOf
  <2>4. PICK top \in B : Max(W) = scores[top]
    <3> HIDE DEF B
    <3>1. \A v \in W : \E i \in B : v = scores[i]
      OBVIOUS
    <3> HIDE DEF W
    <3> QED BY <2>3, <3>1
  <2>5. Min(Q) \in Int /\ scores[top] \in V /\ scores[top] < Min(Q)
    BY <1>3, <1>6, <2>4
  <2>6. {i \in counted : scores[i] <= scores[top]} = B
    <3> HIDE DEF Q
    <3>1. \A i \in B : scores[i] <= scores[top]
      BY <2>3, <2>4
    <3>2. \A i \in counted : scores[i] <= scores[top] => scores[i] < Min(Q)
      BY <2>5
    <3> QED BY <3>1, <3>2
  <2>7. scores[top] \in Q
    BY <2>5, <2>6
  <2> HIDE DEF Q
  <2> QED BY <1>6, <2>5, <2>7
<1>8. Cardinality(B) < rank
  <2>1. Cardinality(B) \in Nat
    BY FS_Subset, FS_CardinalityType
  <2> HIDE DEF rank, B
  <2> QED BY <1>2, <1>7, <2>1
<1>9. \E q \in V : Cardinality({i \in counted : scores[i] <= q}) >= rank
                   /\ Cardinality({i \in counted : scores[i] < q}) < rank
  BY <1>6, <1>8
<1> QED BY <1>9 DEF Percentile

-----------------------------------------------------------------------------
(***************************************************************************)
(* Scores are numbers                                                      *)
(***************************************************************************)
\* A step into something well-formed ends at something well-formed.
LEMMA DescendIsWellFormed ==
  ASSUME NEW value, WellFormed(value), NEW token \in SelectorTokens
  PROVE  WellFormed(Descend(value, token))
<1>1. \A x \in Contents : WellFormed(x)
  BY ScoredRunsAssumption DEF ScoredRunsAssumption
<1>2. WellFormed(Missing)
  BY DEF WellFormed, Missing, Of
<1>3. CASE token = <<"*">> /\ value.type = "dict"
  <2> DEFINE items == [i \in DOMAIN value.entries |-> value.entries[i][2]]
  <2>1. value.entries \in Seq(STRING \X Contents)
    BY <1>3 DEF WellFormed
  <2>2. items \in Seq(Contents)
    <3>1. Len(value.entries) \in Nat /\ DOMAIN value.entries = 1..Len(value.entries)
      BY <2>1
    <3>2. \A i \in 1..Len(value.entries) : value.entries[i][2] \in Contents
      BY <2>1
    <3> QED BY <3>1, <3>2
  <2>3. Descend(value, token) = ListOf(items)
    BY <1>3 DEF Descend
  <2> HIDE DEF items
  <2> QED BY <2>2, <2>3 DEF ListOf, WellFormed
<1>4. CASE token = <<"*">> /\ value.type = "list"
  <2>1. Descend(value, token) = value
    BY <1>4 DEF Descend
  <2> QED BY <2>1
<1>5. CASE token # <<"*">> /\ token[1] = "at" /\ value.type = "list"
  <2>1. Descend(value, token) =
          IF token[2] \in DOMAIN value.items THEN value.items[token[2]] ELSE Missing
    BY <1>5 DEF Descend
  <2>2. value.items \in Seq(Contents)
    BY <1>5 DEF WellFormed
  <2>3. token[2] \in DOMAIN value.items => value.items[token[2]] \in Contents
    BY <2>2
  <2> QED BY <1>1, <1>2, <2>1, <2>3
<1>6. CASE token # <<"*">> /\ token[1] = "key" /\ value.type = "dict"
  <2> DEFINE at == {i \in DOMAIN value.entries : value.entries[i][1] = token[2]}
  <2>1. Descend(value, token) = IF at = {} THEN Missing ELSE value.entries[Max(at)][2]
    BY <1>6 DEF Descend
  <2>2. value.entries \in Seq(STRING \X Contents)
    BY <1>6 DEF WellFormed
  <2>3. IsFiniteSet(at) /\ at \subseteq Int
    <3>1. DOMAIN value.entries = 1..Len(value.entries) /\ Len(value.entries) \in Nat
      BY <2>2
    <3>2. IsFiniteSet(1..Len(value.entries))
      BY <3>1, FS_Interval
    <3> QED BY <3>1, <3>2, FS_Subset
  <2>4. at # {} => Max(at) \in at
    <3> HIDE DEF at
    <3> QED BY <2>3, LargestOf
  <2>5. \A i \in at : value.entries[i][2] \in Contents
    <3>1. \A i \in DOMAIN value.entries : value.entries[i] \in STRING \X Contents
      BY <2>2
    <3> QED BY <3>1
  <2> HIDE DEF at
  <2> QED BY <1>1, <1>2, <2>1, <2>4, <2>5
<1>7. CASE Descend(value, token) = Missing
  BY <1>2, <1>7
<1>8. \/ token = <<"*">> /\ value.type = "dict"
      \/ token = <<"*">> /\ value.type = "list"
      \/ token # <<"*">> /\ token[1] = "at" /\ value.type = "list"
      \/ token # <<"*">> /\ token[1] = "key" /\ value.type = "dict"
      \/ Descend(value, token) = Missing
  <2>1. CASE token = <<"*">>
    BY <2>1 DEF Descend
  <2>2. CASE token # <<"*">>
    <3>1. token \in ({"at"} \X Nat) \cup ({"key"} \X STRING)
      BY <2>2 DEF SelectorTokens
    <3>2. token[1] \in {"at", "key"}
      BY <3>1
    <3> QED BY <2>2, <3>2 DEF Descend
  <2> QED BY <2>1, <2>2
<1> QED BY <1>3, <1>4, <1>5, <1>6, <1>7, <1>8

\* What the fold that SelectFrom is defined by makes of the places s of sel.
Selected(sel, context, g, s) ==
    IF s = {} THEN context ELSE Descend(g[s \ {Max(s)}], sel[Max(s)])

\* The fold of a selector, the definition expanded.
LEMMA SelectUnfolds ==
  ASSUME NEW m, NEW context
  PROVE  SelectFrom(m, context) =
           (CHOOSE g : g = [s \in SUBSET (DOMAIN m.selector) |-> Selected(m.selector, context, g, s)])
              [DOMAIN m.selector]
  BY DEF SelectFrom, FoldLeft, MapThenFoldSet, Selected

\* g gives what selecting by the places in the subsets of S comes to.
Selects(sel, context, S, g) == g = [s \in SUBSET S |-> Selected(sel, context, g, s)]

\* Places in a selector.
Places(S) == IsFiniteSet(S) /\ S \subseteq Int

\* The last of some places is one of them.
LEMMA LastPlace ==
  ASSUME NEW S, Places(S), NEW T \in SUBSET S, T # {}
  PROVE  Max(T) \in T /\ T \ {Max(T)} \in (SUBSET T) \ {T}
<1>1. IsFiniteSet(T) /\ T \subseteq Int
  BY FS_Subset DEF Places
<1>2. Max(T) \in T
  BY <1>1, LargestOf
<1> QED BY <1>2

\* Two solutions of the equation agree on the sets both are defined on.
LEMMA SelectsAgree ==
  ASSUME NEW sel, NEW context, NEW S, Places(S), NEW T \in SUBSET S,
         NEW g, NEW h, Selects(sel, context, S, g), Selects(sel, context, T, h)
  PROVE  \A U \in SUBSET T : g[U] = h[U]
<1> DEFINE H == {U \in SUBSET T : g[U] = h[U]}
<1>1. IsFiniteSet(T)
  BY FS_Subset DEF Places
<1>2. ASSUME NEW U \in SUBSET T, \A V \in (SUBSET U) \ {U} : V \in H
      PROVE  U \in H
  <2>1. g[U] = Selected(sel, context, g, U) /\ h[U] = Selected(sel, context, h, U)
    BY DEF Selects
  <2>2. CASE U = {}
    BY <2>1, <2>2 DEF Selected
  <2>3. CASE U # {}
    <3>1. U \ {Max(U)} \in (SUBSET U) \ {U}
      BY <2>3, LastPlace
    <3>2. g[U \ {Max(U)}] = h[U \ {Max(U)}]
      BY <1>2, <3>1
    <3> QED BY <2>1, <3>2 DEF Selected
  <2> QED BY <2>2, <2>3
<1>3. \A U \in SUBSET T : U \in H
  <2> HIDE DEF H
  <2> QED BY <1>1, <1>2, SubsetInduction
<1> QED BY <1>3

\* The equation has a solution.
LEMMA SelectsExist ==
  ASSUME NEW sel, NEW context, NEW S, Places(S)
  PROVE  \E g : Selects(sel, context, S, g)
<1> DEFINE H == {T \in SUBSET S : \E g : Selects(sel, context, T, g)}
<1>1. ASSUME NEW T \in SUBSET S, \A U \in (SUBSET T) \ {T} : U \in H
      PROVE  T \in H
  <2> DEFINE part[U \in (SUBSET T) \ {T}] == CHOOSE g : Selects(sel, context, U, g)
             value(U) == part[U][U]
             smaller == [U \in SUBSET T |-> value(U)]
             g == [U \in SUBSET T |-> Selected(sel, context, smaller, U)]
  <2>1. \A U \in SUBSET T : Places(U) /\ IsFiniteSet(U)
    BY FS_Subset DEF Places
  <2>2. \A U \in (SUBSET T) \ {T} : Selects(sel, context, U, part[U]) /\ IsFiniteSet(U)
    BY <1>1, <2>1, FS_Subset
  <2> HIDE DEF part
  <2>3. \A U \in (SUBSET T) \ {T} : part[U][U] = Selected(sel, context, part[U], U)
    BY <2>2 DEF Selects
  <2>4. ASSUME NEW U \in (SUBSET T) \ {T}, NEW V \in SUBSET U PROVE part[U][V] = part[V][V]
    <3> DEFINE g1 == part[U]
               h1 == part[V]
    <3>1. Selects(sel, context, U, g1) /\ Selects(sel, context, V, h1) /\ Places(U)
      BY <2>1, <2>2
    <3> HIDE DEF g1, h1
    <3>2. \A W \in SUBSET V : g1[W] = h1[W]
      BY <3>1, SelectsAgree
    <3> QED BY <3>2 DEF g1, h1
  <2>5. ASSUME NEW U \in (SUBSET T) \ {T} PROVE g[U] = smaller[U]
    <3>1. CASE U = {}
      BY <2>3, <3>1 DEF Selected
    <3>2. CASE U # {}
      <4> DEFINE V == U \ {Max(U)}
      <4>1. V \in SUBSET U /\ V \in (SUBSET T) \ {T}
        BY <2>1, <3>2, LastPlace
      <4>2. smaller[V] = part[U][V]
        BY <2>4, <4>1
      <4>3. g[U] = Descend(smaller[V], sel[Max(U)])
        BY <3>2 DEF Selected
      <4>4. part[U][U] = Descend(part[U][V], sel[Max(U)])
        BY <2>3, <3>2 DEF Selected
      <4> QED BY <4>2, <4>3, <4>4
    <3> QED BY <3>1, <3>2
  <2>6. ASSUME NEW U \in SUBSET T
        PROVE  Selected(sel, context, smaller, U) = Selected(sel, context, g, U)
    <3>1. CASE U = {}
      BY <3>1 DEF Selected
    <3>2. CASE U # {}
      <4>1. U \ {Max(U)} \in (SUBSET T) \ {T}
        BY <2>1, <3>2, LastPlace
      <4>2. smaller[U \ {Max(U)}] = g[U \ {Max(U)}]
        BY <2>5, <4>1
      <4> QED BY <4>2 DEF Selected
    <3> QED BY <3>1, <3>2
  <2>7. g = [U \in SUBSET T |-> Selected(sel, context, g, U)]
    BY <2>6
  <2> QED BY <2>7 DEF Selects
<1>2. \A T \in SUBSET S : T \in H
  <2> HIDE DEF H
  <2> QED BY <1>1, SubsetInduction DEF Places
<1>3. S \in H
  BY <1>2
<1> QED BY <1>3

\* What is selected of something well-formed is (evaluators.py).
LEMMA SelectedIsWellFormed ==
  ASSUME NEW m, m.selector \in Seq(SelectorTokens), NEW context, WellFormed(context)
  PROVE  WellFormed(SelectFrom(m, context))
<1> DEFINE S == DOMAIN m.selector
           c == CHOOSE g : g = [s \in SUBSET S |-> Selected(m.selector, context, g, s)]
<1>1. Places(S) /\ IsFiniteSet(S)
  <2>1. Len(m.selector) \in Nat /\ S = 1..Len(m.selector)
    OBVIOUS
  <2> QED BY <2>1, FS_Interval DEF Places
<1>2. c = [s \in SUBSET S |-> Selected(m.selector, context, c, s)]
  <2>1. PICK g : Selects(m.selector, context, S, g)
    <3> HIDE DEF S
    <3> QED BY <1>1, SelectsExist
  <2> QED BY <2>1 DEF Selects
<1>3. SelectFrom(m, context) = c[S]
  BY SelectUnfolds
<1> HIDE DEF c
<1> DEFINE H == {T \in SUBSET S : WellFormed(c[T])}
<1>4. ASSUME NEW T \in SUBSET S, \A U \in (SUBSET T) \ {T} : U \in H
      PROVE  T \in H
  <2>1. c[T] = Selected(m.selector, context, c, T)
    BY <1>2
  <2>2. CASE T = {}
    BY <2>1, <2>2 DEF Selected
  <2>3. CASE T # {}
    <3> DEFINE U == T \ {Max(T)}
    <3>1. Max(T) \in S /\ U \in (SUBSET T) \ {T}
      <4> HIDE DEF S
      <4> QED BY <1>1, <2>3, LastPlace
    <3>2. WellFormed(c[U])
      BY <1>4, <3>1
    <3>3. m.selector[Max(T)] \in SelectorTokens
      BY <3>1
    <3>4. c[T] = Descend(c[U], m.selector[Max(T)])
      BY <2>1, <2>3 DEF Selected
    <3> HIDE DEF U, S
    <3> QED BY <3>2, <3>3, <3>4, DescendIsWellFormed
  <2> QED BY <2>2, <2>3
<1>5. \A T \in SUBSET S : T \in H
  <2> HIDE DEF H, S
  <2> QED BY <1>1, <1>4, SubsetInduction
<1> QED BY <1>3, <1>5

\* A number, if it is one; and a value whose score is one.
Numerical(x) == x.type = "number" => x.v \in Int
Gradable(raw) ==
    /\ Numerical(raw)
    /\ raw.type = "list" => \E T : raw.items \in Seq(T) /\ \A x \in T : Numerical(x)

\* What is well-formed is gradable.
LEMMA WellFormedIsGradable ==
  ASSUME NEW x, WellFormed(x)
  PROVE  Gradable(x)
<1>1. \A y \in Contents : Numerical(y)
  BY ScoredRunsAssumption DEF ScoredRunsAssumption, WellFormed, Numerical
<1> QED BY <1>1 DEF WellFormed, Gradable, Numerical

\* Scores that do not come from a value (evaluators.py).
LEMMA FixedScores ==
  /\ \A holds : Binary(holds).score \in Int
  /\ Erred.score \in Int /\ Uncaught.score \in Int
  /\ \A m : OnMissing(m).score \in Int
<1>1. \A holds : Binary(holds).score \in Int
  BY DEF Binary, CaseScore, Full
<1>2. Erred.score \in Int /\ Uncaught.score \in Int /\ CaseScore("SKIPPED", NoScore).score \in Int
  BY DEF Erred, Uncaught, CaseScore, NoScore
<1>3. \A m : OnMissing(m) \in {Binary(TRUE), CaseScore("SKIPPED", NoScore), Binary(FALSE)}
  BY DEF OnMissing
<1> QED BY <1>1, <1>2, <1>3

\* A raw value within or without its range has a number for a score.
LEMMA NormalizedIsNumber ==
  ASSUME NEW m, m.lo \in Int, m.hi \in Int, NEW raw, Numerical(raw)
  PROVE  NormalizeScore(m, raw) \in Int
<1>1. CASE raw.type # "number" \/ ~(m.hi > m.lo)
  BY <1>1 DEF NormalizeScore, Full
<1>2. CASE raw.type = "number" /\ m.hi > m.lo
  <2> DEFINE part == ((raw.v - m.lo) * Full) \div (m.hi - m.lo)
             capped == Min({Full, part})
  <2>1. part \in Int
    <3>1. m.hi - m.lo \in Int /\ m.hi - m.lo > 0 /\ (raw.v - m.lo) * Full \in Int
      BY <1>2 DEF Numerical, Full
    <3>2. \A a \in Int, b \in Int : b > 0 => a \div b \in Int
      OBVIOUS
    <3> QED BY <3>1, <3>2
  <2> HIDE DEF part
  <2>2. capped \in Int
    <3> DEFINE S == {Full, part}
    <3>1. IsFiniteSet(S)
      <4>1. S = {Full} \cup {part} /\ IsFiniteSet({Full})
        BY FS_Singleton
      <4> QED BY <4>1, FS_AddElement
    <3>2. S \subseteq Int /\ S # {}
      BY <2>1 DEF Full
    <3> HIDE DEF S
    <3>3. Min(S) \in S
      BY <3>1, <3>2, SmallestOf
    <3> QED BY <3>2, <3>3 DEF S
  <2> HIDE DEF capped
  <2>3. Max({0, capped}) \in {0, capped}
    <3>1. ASSUME NEW c \in Int PROVE Max({0, c}) \in {0, c}
      <4>1. 0 \in Int
        OBVIOUS
      <4> QED BY <4>1, LargerOf
    <3> QED BY <2>2, <3>1
  <2>4. NormalizeScore(m, raw) = Max({0, capped})
    BY <1>2 DEF NormalizeScore, part, capped
  <2> QED BY <2>2, <2>3, <2>4
<1> QED BY <1>1, <1>2

\* The score of a list is the mean of those of its items.
LEMMA ListScoreIsNumber ==
  ASSUME NEW m, m.lo \in Int, m.hi \in Int, NEW T, \A x \in T : Numerical(x), NEW raws \in Seq(T)
  PROVE  ScoreList(m, raws).score \in Int
<1> DEFINE part == [i \in DOMAIN raws |-> NormalizeScore(m, raws[i])]
           sum == SumFunction(part)
<1>1. CASE m.scoring = "numeric" /\ raws # <<>>
  <2>1. Len(raws) \in Nat /\ DOMAIN raws = 1..Len(raws) /\ Len(raws) > 0
    BY <1>1
  <2>2. \A i \in DOMAIN raws : NormalizeScore(m, raws[i]) \in Int
    <3> SUFFICES ASSUME NEW i \in DOMAIN raws PROVE NormalizeScore(m, raws[i]) \in Int
      OBVIOUS
    <3>1. raws[i] \in T
      OBVIOUS
    <3> QED BY <3>1, NormalizedIsNumber
  <2>3. part \in [DOMAIN raws -> Int] /\ DOMAIN part = DOMAIN raws
    BY <2>2
  <2>4. IsFiniteSet(DOMAIN raws)
    BY <2>1, FS_Interval
  <2> HIDE DEF part
  <2>5. SumFunctionOnSet(part, DOMAIN raws) \in Int
    BY <2>3, <2>4, SumTake
  <2>6. sum \in Int
    BY <2>3, <2>5 DEF SumFunction
  <2> HIDE DEF sum
  <2>7. sum \div Len(raws) \in Int
    BY <2>1, <2>6
  <2>8. ScoreList(m, raws).score = sum \div Len(raws)
    BY <1>1 DEF ScoreList, CaseScore, part, sum
  <2> QED BY <2>7, <2>8
<1>2. CASE ~(m.scoring = "numeric" /\ raws # <<>>)
  <2>1. \/ \E holds \in BOOLEAN : ScoreList(m, raws) = Binary(holds)
        \/ ScoreList(m, raws) \in {Erred, Uncaught}
    <3> DEFINE all == \A i \in DOMAIN raws : EvalCondition(m, raws[i])
    <3>1. all \in BOOLEAN
      OBVIOUS
    <3>2. ScoreList(m, raws) \in {Binary(all), Binary(TRUE), Erred, Uncaught}
      <4> HIDE DEF all
      <4> QED BY <1>2 DEF ScoreList, all
    <3> HIDE DEF all
    <3> QED BY <3>1, <3>2
  <2> QED BY <2>1, FixedScores
<1> QED BY <1>1, <1>2

\* So has anything gradable.
LEMMA RawScoreIsNumber ==
  ASSUME NEW m, m.lo \in Int, m.hi \in Int, NEW raw, Gradable(raw)
  PROVE  ScoreRawValue(m, raw).score \in Int
<1>1. CASE raw.type = "list"
  <2>1. PICK T : raw.items \in Seq(T) /\ \A x \in T : Numerical(x)
    BY <1>1 DEF Gradable
  <2>2. ScoreRawValue(m, raw) = ScoreList(m, raw.items)
    BY <1>1 DEF ScoreRawValue
  <2> QED BY <2>1, <2>2, ListScoreIsNumber
<1>2. CASE raw.type # "list" /\ m.scoring = "numeric"
  <2>1. ScoreRawValue(m, raw).score = NormalizeScore(m, raw)
    BY <1>2 DEF ScoreRawValue, CaseScore
  <2> QED BY <2>1, NormalizedIsNumber DEF Gradable
<1>3. CASE raw.type # "list" /\ m.scoring # "numeric"
  <2>1. ScoreRawValue(m, raw) \in {Erred, Binary(EvalCondition(m, raw)), Binary(raw \in m.categories)}
    BY <1>3 DEF ScoreRawValue
  <2> QED BY <2>1, FixedScores
<1> QED BY <1>1, <1>2, <1>3

\* Recall and citation correctness are (retrieval.py).
LEMMA RetrievedIsGradable ==
  ASSUME NEW m, IsFiniteSet(m.relevant), NEW raw, Gradable(raw)
  PROVE  Gradable(Retrieved(m, raw))
<1>1. Gradable(Failure)
  BY DEF Gradable, Numerical, Failure, Of
<1>2. \A n \in Int : Gradable(Number(n))
  BY DEF Gradable, Numerical, Number, Of
<1>3. ASSUME IsRanked(raw) PROVE Gradable(RecallAtK(m.relevant, raw.items, m.k))
  <2> DEFINE found == m.relevant \cap {raw.items[i] : i \in {j \in DOMAIN raw.items : j <= m.k}}
  <2>1. IsFiniteSet(found)
    BY FS_Subset
  <2> HIDE DEF found
  <2>2. Cardinality(found) \in Nat /\ Cardinality(m.relevant) \in Nat
    BY <2>1, FS_CardinalityType
  <2>3. m.relevant # {} => Cardinality(m.relevant) > 0
    BY <2>2, FS_EmptySet
  <2>4. m.relevant # {} => (2 * Cardinality(found)) \div Cardinality(m.relevant) \in Int
    BY <2>2, <2>3
  <2>5. RecallAtK(m.relevant, raw.items, m.k) =
          IF m.relevant = {} THEN Number(0) ELSE Number((2 * Cardinality(found)) \div Cardinality(m.relevant))
    BY DEF RecallAtK, found
  <2> QED BY <1>2, <2>4, <2>5
<1>4. ASSUME IsRanked(raw) PROVE Gradable(CitationCorrectness(raw.items, m.evidence))
  <2> DEFINE known == {i \in DOMAIN raw.items : m.evidence[raw.items[i]]}
  <2>1. PICK T : raw.items \in Seq(T)
    BY <1>4 DEF IsRanked, Gradable
  <2>2. Len(raw.items) \in Nat /\ DOMAIN raw.items = 1..Len(raw.items)
    BY <2>1
  <2>3. IsFiniteSet(known)
    <3>1. IsFiniteSet(DOMAIN raw.items)
      BY <2>2, FS_Interval
    <3> QED BY <3>1, FS_Subset
  <2> HIDE DEF known
  <2>4. Cardinality(known) \in Nat
    BY <2>3, FS_CardinalityType
  <2>5. raw.items # <<>> => (2 * Cardinality(known)) \div Len(raw.items) \in Int
    <3>1. raw.items # <<>> => Len(raw.items) > 0
      BY <2>1
    <3> QED BY <2>2, <2>4, <3>1
  <2>6. \/ CitationCorrectness(raw.items, m.evidence) = Failure
        \/ raw.items # <<>> /\ CitationCorrectness(raw.items, m.evidence) =
                                 Number((2 * Cardinality(known)) \div Len(raw.items))
    BY DEF CitationCorrectness, known
  <2> QED BY <1>1, <1>2, <2>5, <2>6
<1> QED BY <1>1, <1>3, <1>4 DEF Retrieved

\* Whatever values are observed (evaluators.py).
LEMMA ObservedScoreIsNumber ==
  ASSUME NEW m, m.lo \in Int, m.hi \in Int, IsFiniteSet(m.relevant),
         NEW T, \A x \in T : Gradable(x), NEW values \in Seq(T)
  PROVE  ScoreObservedValue(m, values).score \in Int
<1> DEFINE raw == IF Len(values) = 1 THEN values[1] ELSE ListOf(values)
<1>1. Gradable(raw)
  <2>1. CASE Len(values) = 1
    <3>1. 1 \in DOMAIN values
      BY <2>1
    <3>2. values[1] \in T
      BY <3>1
    <3> QED BY <2>1, <3>2
  <2>2. CASE Len(values) # 1
    <3>1. \A x \in T : Numerical(x)
      BY DEF Gradable
    <3> QED BY <2>2, <3>1 DEF Gradable, Numerical, ListOf
  <2> QED BY <2>1, <2>2
<1> HIDE DEF raw
<1>2. ScoreRawValue(m, raw).score \in Int /\ ScoreRawValue(m, Retrieved(m, raw)).score \in Int
  BY <1>1, RawScoreIsNumber, RetrievedIsGradable
<1> DEFINE all == \A i \in DOMAIN values : Satisfies(m, values[i])
<1>3. ScoreObservedValue(m, values) \in
        {Erred, Binary(all), ScoreRawValue(m, raw), ScoreRawValue(m, Retrieved(m, raw))}
  <2> HIDE DEF all
  <2> QED BY DEF ScoreObservedValue, raw, all
<1> HIDE DEF all
<1> QED BY <1>2, <1>3, FixedScores

\* The score of an attempt is a number, whatever was observed (evaluators.py).
LEMMA ScoreIsNumber ==
  ASSUME NEW m \in Metrics, NEW o \in Observations
  PROVE  /\ ScoreLive(m, o).score \in Int /\ ScoreCustom(m, o).score \in Int
         /\ AttemptScore(m, o).score \in Int
<1>1. /\ m.lo \in Int /\ m.hi \in Int /\ IsFiniteSet(m.relevant)
      /\ m.input \in Contents /\ m.selector \in Seq(SelectorTokens)
      /\ \A x \in Contents : WellFormed(x)
  BY ScoredRunsAssumption DEF ScoredRunsAssumption
<1>2. \A x \in Contents : Gradable(x)
  BY <1>1, WellFormedIsGradable
<1>3. \A x \in Contents \cup {NoOutput} : Gradable(SelectFrom(m, x))
  <2>1. WellFormed(NoOutput)
    BY DEF WellFormed, NoOutput, Of
  <2>2. \A x \in Contents \cup {NoOutput} : WellFormed(SelectFrom(m, x))
    BY <1>1, <2>1, SelectedIsWellFormed
  <2> QED BY <2>2, WellFormedIsGradable
<1>4. /\ o.seen \in Seq(Contents) /\ o.output \in Contents \cup {NoOutput}
      /\ o.verdict \in Contents \cup {Failure}
  BY DEF Observations
<1>5. Gradable(o.verdict)
  BY <1>2, <1>4 DEF Gradable, Numerical, Failure, Of
<1>6. FinishJudge(m, o).score \in Int
  <2>1. FinishJudge(m, o) \in {Erred, ScoreRawValue(m, o.verdict)}
    BY DEF FinishJudge
  <2> QED BY <1>1, <1>5, <2>1, FixedScores, RawScoreIsNumber
<1>7. \A x \in Contents \cup {NoOutput} : ScoreObservedValue(m, <<SelectFrom(m, x)>>).score \in Int
  <2> SUFFICES ASSUME NEW x \in Contents \cup {NoOutput}
               PROVE  ScoreObservedValue(m, <<SelectFrom(m, x)>>).score \in Int
    OBVIOUS
  <2> DEFINE v == SelectFrom(m, x)
  <2>1. Gradable(v)
    BY <1>3
  <2> HIDE DEF v
  <2>2. <<v>> \in Seq({v}) /\ \A y \in {v} : Gradable(y)
    BY <2>1
  <2>3. ScoreObservedValue(m, <<v>>).score \in Int
    BY <1>1, <2>2, ObservedScoreIsNumber
  <2> QED BY <2>3 DEF v
<1>8. ScoreEvents(m, o).score \in Int
  <2> DEFINE chosen == ApplyOccurrence(m.occurrence, o.seen)
             values == [i \in DOMAIN chosen |-> SelectFrom(m, chosen[i])]
             all == \A i \in DOMAIN chosen : Compared("==", values[i], m.expected) = Yes
             T == {SelectFrom(m, x) : x \in Contents}
  <2>1. chosen \in Seq(Contents)
    <3>1. \A at \in DOMAIN o.seen : <<o.seen[at]>> \in Seq(Contents)
      BY <1>4
    <3> QED BY <1>4, <3>1 DEF ApplyOccurrence
  <2> HIDE DEF chosen
  <2>2. values \in Seq(T)
    <3>1. Len(chosen) \in Nat /\ DOMAIN chosen = 1..Len(chosen) /\ \A i \in DOMAIN chosen : chosen[i] \in Contents
      BY <2>1
    <3>2. \A i \in DOMAIN chosen : SelectFrom(m, chosen[i]) \in T
      BY <3>1
    <3> HIDE DEF T
    <3> QED BY <3>1, <3>2
  <2>3. \A x \in T : Gradable(x)
    BY <1>3
  <2> HIDE DEF T
  <2>4. ScoreObservedValue(m, values).score \in Int
    <3> HIDE DEF values
    <3> QED BY <1>1, <2>2, <2>3, ObservedScoreIsNumber
  <2>5. BooleanCaseScore(m, all).score \in Int
    <3>1. \A n \in Int : Gradable(Number(n))
      BY DEF Gradable, Numerical, Number, Of
    <3>2. \A n \in Int : ScoreRawValue(m, Number(n)).score \in Int
      BY <1>1, <3>1, RawScoreIsNumber
    <3> HIDE DEF all
    <3>3. BooleanCaseScore(m, all) \in {Binary(all), ScoreRawValue(m, Number(2)), ScoreRawValue(m, Number(0))}
      BY DEF BooleanCaseScore
    <3> QED BY <3>2, <3>3, FixedScores
  <2>6. ScoreEvents(m, o) \in
          {OnMissing(m), FinishJudge(m, o), BooleanCaseScore(m, all), ScoreObservedValue(m, values)}
    BY DEF ScoreEvents, chosen
  <2> HIDE DEF values, all
  <2> QED BY <1>6, <2>4, <2>5, <2>6, FixedScores
<1>9. ScoreTraceRule(m, o).score \in Int
  <2>1. ScoreTraceRule(m, o) \in {Erred, ScoreRawValue(m, o.verdict), Binary(o.verdict = Yes)}
    BY DEF ScoreTraceRule
  <2> QED BY <1>1, <1>5, <2>1, FixedScores, RawScoreIsNumber
<1>10. AttemptScore(m, o).score \in Int /\ AttemptScore(m, [o EXCEPT !.traced = FALSE]).score \in Int
  <2> DEFINE u == [o EXCEPT !.traced = FALSE]
  <2>1. ~u.traced
    BY DEF Observations
  <2>2. FinishJudge(m, u) = FinishJudge(m, o) /\ ScoreTraceRule(m, u) = ScoreTraceRule(m, o)
        /\ ScoreEvents(m, u) = ScoreEvents(m, o)
    <3>1. u.verdict = o.verdict /\ u.seen = o.seen
      BY DEF Observations
    <3> HIDE DEF u
    <3> QED BY <3>1 DEF FinishJudge, ScoreTraceRule, ScoreEvents
  <2> HIDE DEF u
  <2>3. \A p \in {o, u} : AttemptScore(m, p) \in
          {OnMissing(m), ScoreTraceRule(m, o), ScoreEvents(m, o), FinishJudge(m, o),
           ScoreObservedValue(m, <<SelectFrom(m, m.input)>>), Erred}
    BY <2>2 DEF AttemptScore
  <2>4. ScoreObservedValue(m, <<SelectFrom(m, m.input)>>).score \in Int
    BY <1>1, <1>7
  <2>5. \A p \in {o, u} : AttemptScore(m, p).score \in Int
    BY <1>6, <1>8, <1>9, <2>3, <2>4, FixedScores
  <2> QED BY <2>5 DEF u
<1>11. ScoreOutput(m, o).score \in Int
  <2>1. ScoreOutput(m, o) \in
          {FinishJudge(m, o), ScoreObservedValue(m, <<SelectFrom(m, o.output)>>),
           AttemptScore(m, [o EXCEPT !.traced = FALSE])}
    BY DEF ScoreOutput
  <2> QED BY <1>4, <1>6, <1>7, <1>10, <2>1
<1>12. ScoreCustom(m, o).score \in Int
  <2>1. \/ ScoreCustom(m, o) \in {OnMissing(m), Erred}
        \/ ScoreCustom(m, o).score = NormalizeScore(m, o.verdict)
    BY DEF ScoreCustom, CaseScore
  <2>2. NormalizeScore(m, o.verdict) \in Int
    BY <1>1, <1>5, NormalizedIsNumber DEF Gradable
  <2> QED BY <2>1, <2>2, FixedScores
<1> QED BY <1>10, <1>11, <1>12 DEF ScoreLive

\* And so it is from its trace (engine.py:1385-1417).
LEMMA ScoresAreNumbers ==
  ASSUME NEW m \in Metrics, NEW o \in Observations
  PROVE  ScoreLive(m, o).score \in Int /\ ScoreFromTrace(m, o).score \in Int
<1>1. Unjudged(m, o) \in Observations
  BY DEF Unjudged, Observations
<1>2. AttemptScore(m, Unjudged(m, o)).score \in Int
  BY <1>1, ScoreIsNumber
<1> QED BY <1>2, ScoreIsNumber DEF ScoreFromTrace

-----------------------------------------------------------------------------
(***************************************************************************)
(* What aggregates and gates make of scores                                *)
(***************************************************************************)
\* What no score of scores earned, by the aggregation method of m.
NothingEarned(m, scores) ==
    \A at \in DOMAIN scores :
        IF m.method = "pass_rate" THEN scores[at].status # "PASS" ELSE ~(scores[at].score > 0)

\* Scores that earned nothing have no aggregate above zero (evaluators.py:411-526).
LEMMA AggregateOfNothing ==
  ASSUME NEW m, NEW scores, IsFiniteSet(DOMAIN scores),
         \A at \in DOMAIN scores : scores[at].score \in Int,
         NothingEarned(m, scores), AggregateMetric(m, scores) # NoValue
  PROVE  LET value == AggregateMetric(m, scores) IN
         /\ value[1] \in Int /\ value[1] <= 0
         /\ value[2] \in Int /\ value[2] > 0
<1> DEFINE counted == Denominator(m, scores)
           value == [i \in counted |-> IF scores[i].score = NoScore THEN 0 ELSE scores[i].score]
           passes == {i \in counted : scores[i].status = "PASS"}
           n == Cardinality(counted)
           total == SumFunction(value)
           least == Min({value[i] : i \in counted})
           middle == Percentile(counted, value, IF m.method = "p50" THEN 50 ELSE 95)
<1>1. counted \subseteq DOMAIN scores /\ IsFiniteSet(counted) /\ counted # {}
  <2>1. counted \subseteq DOMAIN scores
    BY DEF Denominator
  <2>2. counted # {}
    BY DEF AggregateMetric
  <2> HIDE DEF counted
  <2> QED BY <2>1, <2>2, FS_Subset
<1>2. AggregateMetric(m, scores) =
        IF m.method = "pass_rate" THEN <<Cardinality(passes), n>>
        ELSE IF m.method = "mean" THEN <<total, Full * n>>
        ELSE IF m.method = "sum" THEN <<total, Full>>
        ELSE IF m.method = "min" THEN <<least, Full>>
        ELSE <<middle, Full>>
  BY <1>1 DEF AggregateMetric
<1> HIDE DEF counted
<1>3. n \in Nat /\ n > 0
  <2>1. n \in Nat /\ n # 0
    BY <1>1, FS_CardinalityType, FS_EmptySet
  <2> HIDE DEF n
  <2> QED BY <2>1
<1>4. value \in [counted -> Int] /\ DOMAIN value = counted
  BY <1>1 DEF NoScore
<1>5. ASSUME m.method # "pass_rate" PROVE \A i \in counted : value[i] <= 0
  BY <1>1, <1>5 DEF NothingEarned, NoScore
<1>6. m.method = "pass_rate" => Cardinality(passes) = 0
  <2>1. m.method = "pass_rate" => passes = {}
    BY <1>1 DEF NothingEarned
  <2> HIDE DEF passes
  <2> QED BY <2>1, FS_EmptySet
<1> HIDE DEF n, passes, value
<1>7. m.method # "pass_rate" => total \in Int /\ total <= 0
  <2> SUFFICES ASSUME m.method # "pass_rate" PROVE total \in Int /\ total <= 0
    OBVIOUS
  <2> DEFINE zero == [i \in counted |-> 0]
  <2>1. zero \in [counted -> Nat] /\ zero \in [counted -> Int] /\ \A i \in counted : zero[i] = 0
    OBVIOUS
  <2>2. \A i \in counted : value[i] <= zero[i]
    BY <1>5
  <2> HIDE DEF zero
  <2>3. SumFunctionOnSet(zero, counted) = 0
    BY <1>1, <2>1, SumZero
  <2>4. SumFunctionOnSet(value, counted) <= SumFunctionOnSet(zero, counted)
    BY <1>1, <1>4, <2>1, <2>2, SumMonotone
  <2>5. SumFunctionOnSet(value, counted) \in Int
    BY <1>1, <1>4, SumTake
  <2>6. total = SumFunctionOnSet(value, counted)
    BY <1>4 DEF SumFunction
  <2> QED BY <2>3, <2>4, <2>5, <2>6
<1>8. m.method # "pass_rate" => least \in Int /\ least <= 0
  <2> SUFFICES ASSUME m.method # "pass_rate" PROVE least \in Int /\ least <= 0
    OBVIOUS
  <2> DEFINE V == {value[i] : i \in counted}
  <2>1. V \subseteq Int /\ V # {} /\ \A v \in V : v <= 0
    BY <1>1, <1>4, <1>5
  <2>2. IsFiniteSet(V)
    BY <1>1, ImageFinite
  <2>3. least = Min(V)
    OBVIOUS
  <2> HIDE DEF V, least
  <2> QED BY <2>1, <2>2, <2>3, SmallestOf
<1>9. m.method # "pass_rate" => middle \in Int /\ middle <= 0
  <2> SUFFICES ASSUME m.method # "pass_rate" PROVE middle \in Int /\ middle <= 0
    OBVIOUS
  <2> DEFINE percent == IF m.method = "p50" THEN 50 ELSE 95
  <2>1. percent \in {50, 95}
    OBVIOUS
  <2> HIDE DEF percent
  <2>2. Percentile(counted, value, percent) \in {value[i] : i \in counted}
    BY <1>1, <1>4, <2>1, PercentileIsOne
  <2>3. middle = Percentile(counted, value, percent)
    BY DEF percent
  <2> HIDE DEF middle
  <2> QED BY <1>4, <1>5, <2>2, <2>3
<1> HIDE DEF total, least, middle
<1> QED BY <1>2, <1>3, <1>6, <1>7, <1>8, <1>9 DEF Full

\* Such an aggregate passes no gate with a lower bound.
LEMMA NothingPassesNoGate ==
  ASSUME NEW m, m.gate \in Int \X Int, m.gate[1] > 0,
         NEW scores, IsFiniteSet(DOMAIN scores),
         \A at \in DOMAIN scores : scores[at].score \in Int,
         NothingEarned(m, scores)
  PROVE  GateStatus(m, AggregateMetric(m, scores)) # "PASS"
<1> DEFINE value == AggregateMetric(m, scores)
<1> SUFFICES ASSUME GateStatus(m, value) = "PASS" PROVE FALSE
  OBVIOUS
<1>1. m.gate # NoGate
  BY DEF NoGate
<1>2. EvaluateGate(m, value)
  BY <1>1 DEF GateStatus
<1>3. value[1] \in Int /\ value[1] <= 0 /\ value[2] \in Int /\ value[2] > 0
  BY <1>2, AggregateOfNothing DEF EvaluateGate
<1> HIDE DEF value
<1>4. 2 * value[1] >= m.gate[1] * value[2]
  BY <1>2 DEF EvaluateGate
<1>5. \A a \in Int, b \in Int : a > 0 /\ b > 0 => a * b > 0
  OBVIOUS
<1> DEFINE product == m.gate[1] * value[2]
<1>6. product \in Int /\ product > 0
  BY <1>3, <1>5
<1> HIDE DEF product
<1> QED BY <1>3, <1>4, <1>6 DEF product
\* What is stored of an attempt of a run that measures m.
TryOf(m) == [seen : Observed(m) \cup {Lost}, number : Nat]

Done == {"completed", "failed"}

\* Types of a run of one metric (engine.py).
ScoredTypeOK ==
    /\ measure \in Metrics
    /\ phase \in {"running", "down", "complete"}
    /\ state \in [Case -> {"queued", "running"} \cup Done]
    /\ tries \in [Case -> Seq(TryOf(measure))]
    /\ DOMAIN landed \subseteq Case

\* The last first attempt was lost, or its scoring ended.
Stands(m, attempts) ==
    /\ FirstOf(attempts) \in Firsts(attempts)
    /\ LET o == attempts[FirstOf(attempts)].seen IN o = Lost \/ ScoreLive(m, o) # Uncaught

\* It did of every case that ended, and of the one that is being executed.
FirstsStand ==
    \A c \in Case : state[c] \in Done \/ (state[c] = "running" /\ phase = "running") => Stands(measure, tries[c])

\* What lands of a case that ended.
LandedOf(m, attempts) ==
    LET i == FirstOf(attempts)
        o == attempts[i].seen
    IN IF o = Lost THEN <<>> ELSE [at \in {i} |-> ScoreLive(m, o)]

\* What has landed is still what the tries say: a case is executed again only
\* by an engine that has nothing of it.
LandedStands ==
    \A c \in DOMAIN landed : state[c] \in Done /\ landed[c] = LandedOf(measure, tries[c])

\* The stored aggregate is that of all scores, of cases that all ended.
VerdictStands ==
    phase = "complete" => final = Verdict(AllScores) /\ \A c \in Case : state[c] \in Done

\* The inductive invariant.
Scored == ScoredTypeOK /\ FirstsStand /\ LandedStands /\ VerdictStands

\* A run begins with nothing.
LEMMA ScoredInitially == ScoredInit => Scored
  BY DEF ScoredInit, Scored, ScoredTypeOK, FirstsStand, LandedStands, VerdictStands, Done

\* A first attempt is the one that counts.
LEMMA FirstCounts ==
  ASSUME NEW T, NEW attempts \in Seq(T), NEW o
  PROVE  LET all == Append(attempts, Try(o, 0)) IN
         /\ FirstOf(all) = Len(attempts) + 1
         /\ FirstOf(all) \in Firsts(all)
         /\ all[FirstOf(all)].seen = o
<1> DEFINE all == Append(attempts, Try(o, 0))
           n == Len(attempts) + 1
<1>1. all[n] = Try(o, 0) /\ DOMAIN all = 1..n /\ n \in Nat \ {0}
  OBVIOUS
<1> HIDE DEF all, n
<1>2. n \in Firsts(all) /\ Firsts(all) \subseteq 1..n
  BY <1>1 DEF Firsts, Try
<1>3. \A x \in Firsts(all) : (\A y \in Firsts(all) : x >= y) <=> x = n
  BY <1>1, <1>2
<1>4. FirstOf(all) = n
  BY <1>2, <1>3 DEF FirstOf, Max
<1> QED BY <1>1, <1>2, <1>4 DEF all, n, Try

\* A retry is not.
LEMMA RetryCountsNot ==
  ASSUME NEW T, NEW attempts \in Seq(T), NEW o, NEW number \in Nat \ {0}
  PROVE  LET all == Append(attempts, Try(o, number)) IN
         /\ Firsts(all) = Firsts(attempts)
         /\ \A i \in Firsts(attempts) : all[i] = attempts[i]
<1> DEFINE all == Append(attempts, Try(o, number))
           n == Len(attempts)
<1>1. /\ n \in Nat /\ DOMAIN attempts = 1..n /\ DOMAIN all = 1..(n + 1)
      /\ all[n + 1] = Try(o, number) /\ \A i \in 1..n : all[i] = attempts[i]
  OBVIOUS
<1> HIDE DEF all, n
<1>2. all[n + 1].number # 0
  BY <1>1 DEF Try
<1>3. \A i : i \in DOMAIN all /\ i # n + 1 <=> i \in DOMAIN attempts
  BY <1>1
<1>4. Firsts(all) = Firsts(attempts)
  BY <1>1, <1>2, <1>3 DEF Firsts
<1> QED BY <1>1, <1>4 DEF all, Firsts

\* A case is attempted for the first time since it was queued.
LEMMA FirstAttemptStep ==
  ASSUME Scored, NEW c \in Case, NEW o \in Observed(measure) \cup {Lost}, FirstAttempt(c, o)
  PROVE  Scored'
<1>1. /\ phase = "running" /\ state[c] = "queued" /\ Engaged = {}
      /\ tries' = [tries EXCEPT ![c] = Append(@, Try(o, 0))]
      /\ state' = [state EXCEPT ![c] = "running"]
      /\ phase' \in {"running", "down"}
      /\ phase' = "running" => o = Lost \/ ScoreLive(measure, o) # Uncaught
      /\ UNCHANGED <<measure, landed, final>>
  BY DEF FirstAttempt
<1>2. tries[c] \in Seq(TryOf(measure)) /\ Try(o, 0) \in TryOf(measure)
  BY DEF Scored, ScoredTypeOK, TryOf, Try
<1>3. ScoredTypeOK'
  <2>1. Append(tries[c], Try(o, 0)) \in Seq(TryOf(measure))
    BY <1>2
  <2> QED BY <1>1, <2>1 DEF Scored, ScoredTypeOK
<1>4. FirstsStand'
  <2> SUFFICES ASSUME NEW d \in Case, state'[d] \in Done \/ (state'[d] = "running" /\ phase' = "running")
               PROVE  Stands(measure, tries'[d])
    BY <1>1 DEF FirstsStand
  <2>1. CASE d = c
    <3>1. phase' = "running" /\ tries'[d] = Append(tries[c], Try(o, 0))
      BY <1>1, <2>1 DEF Scored, ScoredTypeOK, Done
    <3> DEFINE all == Append(tries[c], Try(o, 0))
    <3>2. FirstOf(all) \in Firsts(all) /\ all[FirstOf(all)].seen = o
      BY <1>2, FirstCounts
    <3> HIDE DEF all
    <3>3. o = Lost \/ ScoreLive(measure, o) # Uncaught
      BY <1>1, <3>1
    <3>4. Stands(measure, all)
      BY <3>2, <3>3 DEF Stands
    <3> QED BY <3>1, <3>4 DEF all
  <2>2. CASE d # c
    <3>1. state[d] \in Done /\ tries'[d] = tries[d]
      BY <1>1, <2>2 DEF Scored, ScoredTypeOK, Engaged
    <3> QED BY <3>1 DEF Scored, FirstsStand
  <2> QED BY <2>1, <2>2
<1>5. LandedStands'
  <2> SUFFICES ASSUME NEW d \in DOMAIN landed
               PROVE  state'[d] \in Done /\ landed[d] = LandedOf(measure, tries'[d])
    BY <1>1 DEF LandedStands
  <2>1. d \in Case /\ d # c
    BY <1>1 DEF Scored, ScoredTypeOK, LandedStands, Done
  <2> QED BY <1>1, <2>1 DEF Scored, ScoredTypeOK, LandedStands
<1> QED BY <1>1, <1>3, <1>4, <1>5 DEF Scored, VerdictStands

\* A retry neither lands nor moves the first attempt.
LEMMA RetryStep ==
  ASSUME Scored, NEW c \in Case, NEW o \in Observed(measure) \cup {Lost}, Retry(c, o)
  PROVE  Scored'
<1> DEFINE number == tries[c][Len(tries[c])].number + 1
           all == Append(tries[c], Try(o, number))
<1>1. /\ phase = "running" /\ state[c] = "running"
      /\ tries' = [tries EXCEPT ![c] = all]
      /\ phase' \in {"running", "down"}
      /\ UNCHANGED <<measure, state, landed, final>>
  BY DEF Retry
<1>2. tries[c] \in Seq(TryOf(measure)) /\ Stands(measure, tries[c])
  BY <1>1 DEF Scored, ScoredTypeOK, FirstsStand
<1>3. number \in Nat \ {0}
  <2>1. Len(tries[c]) \in DOMAIN tries[c]
    BY <1>2 DEF Stands, Firsts
  <2>2. tries[c][Len(tries[c])] \in TryOf(measure)
    BY <1>2, <2>1
  <2> QED BY <2>2 DEF TryOf
<1> HIDE DEF number
<1>4. /\ Firsts(all) = Firsts(tries[c])
      /\ \A i \in Firsts(tries[c]) : all[i] = tries[c][i]
  BY <1>2, <1>3, RetryCountsNot
<1>5. all \in Seq(TryOf(measure))
  <2>1. Try(o, number) \in TryOf(measure)
    BY <1>3 DEF TryOf, Try
  <2> QED BY <1>2, <2>1
<1> HIDE DEF all
<1>6. Stands(measure, all)
  BY <1>2, <1>4 DEF Stands, FirstOf
<1>7. ScoredTypeOK'
  BY <1>1, <1>5 DEF Scored, ScoredTypeOK
<1>8. FirstsStand'
  <2> SUFFICES ASSUME NEW d \in Case, state[d] \in Done \/ state[d] = "running"
               PROVE  Stands(measure, tries'[d])
    BY <1>1 DEF FirstsStand
  <2> QED BY <1>1, <1>6 DEF Scored, ScoredTypeOK, FirstsStand
<1>9. LandedStands'
  <2> SUFFICES ASSUME NEW d \in DOMAIN landed
               PROVE  state[d] \in Done /\ landed[d] = LandedOf(measure, tries'[d])
    BY <1>1 DEF LandedStands
  <2>1. d \in Case /\ d # c
    BY <1>1 DEF Scored, ScoredTypeOK, LandedStands, Done
  <2> QED BY <1>1, <2>1 DEF Scored, ScoredTypeOK, LandedStands
<1> QED BY <1>1, <1>7, <1>8, <1>9 DEF Scored, VerdictStands

\* The score of the first attempt lands as the case ends.
LEMMA EndCaseStep ==
  ASSUME Scored, NEW c \in Case, EndCase(c)
  PROVE  Scored'
<1>1. /\ phase = "running" /\ state[c] = "running"
      /\ state' \in [Case -> {"queued", "running"} \cup Done]
      /\ state'[c] \in Done /\ \A d \in Case \ {c} : state'[d] = state[d]
      /\ landed' = WithEntry(landed, c, LandedOf(measure, tries[c]))
      /\ UNCHANGED <<measure, phase, tries, final>>
  BY DEF EndCase, Contribution, LandedOf, Scored, ScoredTypeOK, Done
<1>2. /\ DOMAIN landed' = DOMAIN landed \cup {c}
      /\ \A d \in DOMAIN landed' : landed'[d] = IF d = c THEN LandedOf(measure, tries[c]) ELSE landed[d]
  BY <1>1 DEF WithEntry
<1>3. ScoredTypeOK'
  BY <1>1, <1>2 DEF Scored, ScoredTypeOK
<1>4. FirstsStand'
  <2> SUFFICES ASSUME NEW d \in Case, state'[d] \in Done \/ state'[d] = "running"
               PROVE  Stands(measure, tries[d])
    BY <1>1 DEF FirstsStand
  <2> QED BY <1>1 DEF Scored, FirstsStand
<1>5. LandedStands'
  <2> SUFFICES ASSUME NEW d \in DOMAIN landed'
               PROVE  state'[d] \in Done /\ landed'[d] = LandedOf(measure, tries[d])
    BY <1>1 DEF LandedStands
  <2> QED BY <1>1, <1>2 DEF Scored, ScoredTypeOK, LandedStands
<1> QED BY <1>1, <1>3, <1>4, <1>5 DEF Scored, VerdictStands

\* All scores depend on what was stored and what has landed alone.
LEMMA SameScores ==
  ASSUME UNCHANGED <<measure, tries, landed>>
  PROVE  AllScores' = AllScores
  BY DEF AllScores, Together, FromTraces, FromTrace
\* The engine dies, and what has landed with it when the run is resumed.
LEMMA OutageStep ==
  ASSUME Scored, EngineDies \/ ResumeRun
  PROVE  Scored'
<1>1. CASE EngineDies
  <2>1. phase = "running" /\ phase' = "down" /\ UNCHANGED <<measure, state, tries, landed, final>>
    BY <1>1 DEF EngineDies
  <2> QED BY <2>1 DEF Scored, ScoredTypeOK, FirstsStand, LandedStands, VerdictStands
<1>2. CASE ResumeRun
  <2>1. /\ phase' = "running" /\ landed' = <<>> /\ UNCHANGED <<measure, tries, final>>
        /\ state' \in [Case -> {"queued", "running"} \cup Done]
        /\ \A c \in Case : state'[c] # "queued" => state[c] = "completed" /\ state'[c] = "completed"
    BY <1>2 DEF ResumeRun, Done
  <2>2. DOMAIN landed' = {}
    BY <2>1
  <2> QED BY <2>1, <2>2 DEF Scored, ScoredTypeOK, FirstsStand, LandedStands, VerdictStands, Done
<1> QED BY <1>1, <1>2

\* The run is finalized when its cases have ended, or the engine raises.
LEMMA FinalizeStep ==
  ASSUME Scored, Finalize
  PROVE  Scored'
<1>1. /\ phase = "running" /\ \A c \in Case : state[c] \in Done
      /\ phase' \in {"down", "complete"}
      /\ phase' = "complete" => final' = Verdict(AllScores)
      /\ UNCHANGED <<measure, state, tries, landed>>
  BY DEF Finalize, Done
<1>2. AllScores' = AllScores
  BY <1>1, SameScores
<1>3. VerdictStands'
  BY <1>1, <1>2 DEF VerdictStands, Verdict
<1> QED BY <1>1, <1>3 DEF Scored, ScoredTypeOK, FirstsStand, LandedStands

\* No step of a run breaks the invariant.
LEMMA ScoredStep == Scored /\ [ScoredNext]_scoredVars => Scored'
<1> SUFFICES ASSUME Scored, [ScoredNext]_scoredVars PROVE Scored'
  OBVIOUS
<1>1. ASSUME NEW c \in Case, NEW o \in Observed(measure) \cup {Lost}, FirstAttempt(c, o) \/ Retry(c, o)
      PROVE  Scored'
  BY <1>1, FirstAttemptStep, RetryStep
<1>2. ASSUME NEW c \in Case, EndCase(c) PROVE Scored'
  BY <1>2, EndCaseStep
<1>3. CASE UNCHANGED scoredVars
  <2>1. AllScores' = AllScores
    BY <1>3, SameScores DEF scoredVars
  <2>2. VerdictStands'
    BY <1>3, <2>1 DEF Scored, VerdictStands, Verdict, scoredVars
  <2> QED BY <1>3, <2>2 DEF Scored, ScoredTypeOK, FirstsStand, LandedStands, scoredVars
<1> QED BY <1>1, <1>2, <1>3, OutageStep, FinalizeStep DEF ScoredNext

\* What holds of every run: the last first attempt of a case that ended was
\* scored or lost, what has landed is what the tries say, and a complete run has
\* the verdict of all its scores (engine.py:640-660, 1330-1417).
THEOREM ScoredAlways == ScoredSpec => []Scored
  BY ScoredInitially, ScoredStep, PTL DEF ScoredSpec

\* Types of scored runs (engine.py).
THEOREM ScoredTypes == ScoredSpec => []ScoredTypeOK
<1>1. Scored => ScoredTypeOK
  BY DEF Scored
<1> QED BY <1>1, ScoredAlways, PTL

\* The only first attempt of a case that ended scores from its trace what it
\* scored as it completed, unless by a judge, and that is what landed.
LEMMA OnlyAttempt ==
  ASSUME Scored, NEW c \in Case, state[c] \in Done, Undisturbed
  PROVE  (IF c \in DOMAIN landed THEN landed[c] ELSE FromTraces(tries[c])) = Live(tries[c])
<1>1. PICK i \in Firsts(tries[c]) : Firsts(tries[c]) = {i} /\ tries[c][i].seen # Lost
  BY DEF Undisturbed, ExecutedOnce
<1>2. FirstOf(tries[c]) = i
  <2>1. i \in Nat
    BY <1>1 DEF Firsts, Scored, ScoredTypeOK
  <2> QED BY <1>1, <2>1 DEF FirstOf, Max
<1> DEFINE o == tries[c][i].seen
<1>3. ScoreLive(measure, o) # Uncaught
  BY <1>1, <1>2 DEF Scored, FirstsStand, Stands
<1>4. Live(tries[c]) = [at \in {i} |-> ScoreLive(measure, o)]
  BY <1>1, <1>3 DEF Live
<1>5. measure.kind # "judge" => FromTrace(tries[c][i]) = ScoreLive(measure, o)
  BY <1>1 DEF Undisturbed, FromTrace, ScoreFromTrace, ScoreLive, Unjudged
<1>6. c \notin DOMAIN landed => FromTraces(tries[c]) = [at \in {i} |-> ScoreLive(measure, o)]
  <2>1. c \notin DOMAIN landed => measure.kind # "judge"
    BY DEF Undisturbed
  <2> QED BY <1>1, <1>5, <2>1 DEF FromTraces
<1>7. c \in DOMAIN landed => landed[c] = [at \in {i} |-> ScoreLive(measure, o)]
  BY <1>1, <1>2 DEF Scored, LandedStands, LandedOf
<1> QED BY <1>4, <1>6, <1>7

\* A run that was interrupted between cases has the verdict its attempts had as
\* they completed, for any cases, retries, outages and metrics but those of judges
\* (engine.py:1330-1417): ResumeKeepsVerdict.
THEOREM ResumeKeepsTheVerdict == ScoredSpec => []ResumeKeepsVerdict
<1>1. Scored => ResumeKeepsVerdict
  <2> SUFFICES ASSUME Scored, phase = "complete", Undisturbed
               PROVE  final = Verdict(Together([c \in Case |-> Live(tries[c])]))
    BY DEF ResumeKeepsVerdict
  <2>1. final = Verdict(AllScores) /\ \A c \in Case : state[c] \in Done
    BY DEF Scored, VerdictStands
  <2>2. [c \in Case |-> IF c \in DOMAIN landed THEN landed[c] ELSE FromTraces(tries[c])]
          = [c \in Case |-> Live(tries[c])]
    BY <2>1, OnlyAttempt
  <2>3. AllScores = Together([c \in Case |-> Live(tries[c])])
    BY <2>2 DEF AllScores
  <2> QED BY <2>1, <2>3
<1> QED BY <1>1, ScoredAlways, PTL

\* s is a score of a first attempt of c: as it completed, or from its trace.
ScoredFrom(c, s) ==
    \E i \in Firsts(tries[c]) :
        \/ s = FromTrace(tries[c][i])
        \/ tries[c][i].seen # Lost /\ s = ScoreLive(measure, tries[c][i].seen)

\* All scores are, and they are finitely many.
LEMMA ScoresOfFirsts ==
  ASSUME Scored, \A c \in Case : state[c] \in Done
  PROVE  /\ IsFiniteSet(DOMAIN AllScores)
         /\ \A at \in DOMAIN AllScores : \E c \in Case : ScoredFrom(c, AllScores[at])
<1> DEFINE scores == [c \in Case |-> IF c \in DOMAIN landed THEN landed[c] ELSE FromTraces(tries[c])]
           rows == [c \in Case |-> {c} \X DOMAIN scores[c]]
<1>1. AllScores = [at \in UNION {rows[c] : c \in Case} |-> scores[at[1]][at[2]]]
  BY DEF AllScores, Together
<1>2. ASSUME NEW c \in Case
      PROVE  /\ DOMAIN scores[c] \subseteq Firsts(tries[c])
             /\ \A i \in DOMAIN scores[c] : ScoredFrom(c, scores[c][i])
  <2>1. CASE c \in DOMAIN landed
    <3> DEFINE first == FirstOf(tries[c])
               o == tries[c][first].seen
    <3>1. first \in Firsts(tries[c])
      BY DEF Scored, FirstsStand, Stands
    <3>2. scores[c] = IF o = Lost THEN <<>> ELSE [at \in {first} |-> ScoreLive(measure, o)]
      BY <2>1 DEF Scored, LandedStands, LandedOf
    <3> HIDE DEF scores, first
    <3>3. CASE o = Lost
      <4>1. DOMAIN scores[c] = {}
        BY <3>2, <3>3
      <4> QED BY <4>1
    <3>4. CASE o # Lost
      BY <3>1, <3>2, <3>4 DEF ScoredFrom
    <3> QED BY <3>3, <3>4
  <2>2. CASE c \notin DOMAIN landed
    <3>1. scores[c] = [i \in Firsts(tries[c]) |-> FromTrace(tries[c][i])]
      BY <2>2 DEF FromTraces
    <3> HIDE DEF scores
    <3> QED BY <3>1 DEF ScoredFrom
  <2> QED BY <2>1, <2>2
<1>3. ASSUME NEW c \in Case PROVE IsFiniteSet(rows[c])
  <2>1. tries[c] \in Seq(TryOf(measure)) /\ Len(tries[c]) \in Nat
    BY DEF Scored, ScoredTypeOK
  <2>2. IsFiniteSet(1..Len(tries[c]))
    BY <2>1, FS_Interval
  <2>3. DOMAIN scores[c] \subseteq 1..Len(tries[c])
    BY <1>2, <2>1 DEF Firsts
  <2> HIDE DEF scores
  <2>4. IsFiniteSet(DOMAIN scores[c])
    BY <2>2, <2>3, FS_Subset
  <2>5. IsFiniteSet({c})
    BY FS_Singleton
  <2>6. IsFiniteSet({c} \X DOMAIN scores[c])
    BY <2>4, <2>5, FS_Product
  <2> QED BY <2>6
<1>4. DOMAIN AllScores = UNION {rows[c] : c \in Case}
  BY <1>1
<1>5. IsFiniteSet(DOMAIN AllScores)
  <2>1. IsFiniteSet(Case)
    BY ScoredRunsAssumption, FS_Interval DEF ScoredRunsAssumption, Case
  <2> HIDE DEF rows
  <2>2. IsFiniteSet({rows[c] : c \in Case})
    BY <2>1, ImageFinite
  <2>3. \A T \in {rows[c] : c \in Case} : IsFiniteSet(T)
    BY <1>3
  <2>4. IsFiniteSet(UNION {rows[c] : c \in Case})
    BY <2>2, <2>3, FS_UNION
  <2> QED BY <1>4, <2>4
<1>6. ASSUME NEW at \in DOMAIN AllScores PROVE \E c \in Case : ScoredFrom(c, AllScores[at])
  <2>1. PICK c \in Case : at \in rows[c]
    <3> HIDE DEF rows
    <3> QED BY <1>4
  <2>2. at[1] = c /\ at[2] \in DOMAIN scores[c]
    BY <2>1
  <2>3. AllScores[at] = scores[c][at[2]]
    <3> HIDE DEF rows, scores
    <3> QED BY <1>1, <1>4, <2>2
  <2> HIDE DEF scores
  <2> QED BY <1>2, <2>2, <2>3
<1> QED BY <1>5, <1>6

\* A gate with a lower bound passes only on what some first attempt earned,
\* whichever way the scores are aggregated (evaluators.py:411-526,
\* engine.py:745-770): GateNeedsEvidence.
THEOREM GateNeedsEvidenceAlways == ScoredSpec => []GateNeedsEvidence
<1>1. Scored => GateNeedsEvidence
  <2> SUFFICES ASSUME Scored, phase = "complete", measure.gate[1] > 0,
                      \A c \in Case : \A i \in Firsts(tries[c]) :
                         /\ ~Earns(FromTrace(tries[c][i]))
                         /\ tries[c][i].seen # Lost => ~Earns(ScoreLive(measure, tries[c][i].seen))
               PROVE  final.gate # "PASS"
    BY DEF GateNeedsEvidence
  <2>1. final = Verdict(AllScores) /\ \A c \in Case : state[c] \in Done
    BY DEF Scored, VerdictStands
  <2>2. /\ measure \in Metrics /\ measure.gate \in Int \X Int
        /\ \A o \in Observed(measure) \cup {NoEvidence} :
              ScoreLive(measure, o).score \in Int /\ ScoreFromTrace(measure, o).score \in Int
    <3>1. measure \in Metrics
      BY DEF Scored, ScoredTypeOK
    <3>2. measure.gate \in Int \X Int /\ Observed(measure) \subseteq Observations
      BY <3>1, ScoredRunsAssumption DEF ScoredRunsAssumption
    <3>3. NoEvidence \in Observations
      BY DEF NoEvidence, Observations
    <3> QED BY <3>1, <3>2, <3>3, ScoresAreNumbers
  <2>3. ASSUME NEW at \in DOMAIN AllScores
        PROVE  AllScores[at].score \in Int /\ ~Earns(AllScores[at])
    <3>1. PICK c \in Case : ScoredFrom(c, AllScores[at])
      BY <2>1, ScoresOfFirsts
    <3>2. PICK i \in Firsts(tries[c]) :
             \/ AllScores[at] = FromTrace(tries[c][i])
             \/ tries[c][i].seen # Lost /\ AllScores[at] = ScoreLive(measure, tries[c][i].seen)
      BY <3>1 DEF ScoredFrom
    <3>3. tries[c][i].seen \in Observed(measure) \cup {Lost}
      <4>1. tries[c][i] \in TryOf(measure)
        BY <3>2 DEF Scored, ScoredTypeOK, Firsts
      <4> QED BY <4>1 DEF TryOf
    <3>4. CASE AllScores[at] = FromTrace(tries[c][i])
      <4>1. PICK o \in Observed(measure) \cup {NoEvidence} : AllScores[at] = ScoreFromTrace(measure, o)
        BY <3>3, <3>4 DEF FromTrace
      <4> QED BY <2>2, <3>2, <3>4, <4>1
    <3>5. CASE tries[c][i].seen # Lost /\ AllScores[at] = ScoreLive(measure, tries[c][i].seen)
      BY <2>2, <3>2, <3>3, <3>5
    <3> QED BY <3>2, <3>4, <3>5
  <2>4. NothingEarned(measure, AllScores)
    BY <2>3 DEF NothingEarned, Earns
  <2>5. IsFiniteSet(DOMAIN AllScores)
    BY <2>1, ScoresOfFirsts
  <2>6. GateStatus(measure, AggregateMetric(measure, AllScores)) # "PASS"
    BY <2>2, <2>3, <2>4, <2>5, NothingPassesNoGate
  <2> QED BY <2>1, <2>6 DEF Verdict
<1> QED BY <1>1, ScoredAlways, PTL
=============================================================================
