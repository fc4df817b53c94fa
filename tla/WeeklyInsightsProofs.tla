------------------------ MODULE WeeklyInsightsProofs ------------------------
(* Theorems about WeeklyInsights, for any users, costs, budget and window. *)
EXTENDS WeeklyInsights, FiniteSetTheorems, WellFoundedInduction, TLAPS

(***************************************************************************)
(* Induction over the subsets of a finite set, for a set G rather than for  *)
(* a predicate: the strict subset relation is well-founded on them.         *)
(***************************************************************************)
LEMMA SubsetInduction ==
    ASSUME NEW S, NEW G, IsFiniteSet(S),
           \A T \in SUBSET S : (\A U \in SUBSET T : U # T => U \in G) => T \in G
    PROVE  \A T \in SUBSET S : T \in G
<1> DEFINE Bad == {T \in SUBSET S : T \notin G}
           R == StrictSubsetOrdering(S)
<1> SUFFICES ASSUME Bad # {} PROVE FALSE
  OBVIOUS
<1>1. IsWellFoundedOn(R, SUBSET S)
  <2>1. IsWellFoundedOn(R, FiniteSubsetsOf(S))
    BY FS_StrictSubsetOrderingWellFounded
  <2>2. FiniteSubsetsOf(S) = SUBSET S
    BY FS_FiniteSubsetsOfFinite
  <2>3. QED
    BY <2>1, <2>2
<1>2. PICK T \in Bad : \A U \in Bad : ~(<<U, T>> \in R)
  <2> HIDE DEF Bad, R
  <2>1. Bad \subseteq SUBSET S
    BY DEF Bad
  <2>2. QED
  BY <1>1, <2>1, WFMin
<1>3. ASSUME NEW U \in SUBSET T, U # T PROVE U \in G
  BY <1>2, <1>3 DEF StrictSubsetOrdering
<1>4. QED
  BY <1>2, <1>3

(***************************************************************************)
(* SumFunction takes the elements one by one, whichever CHOOSE gives it.    *)
(* That this makes a sum: the recursive function it is defined by exists,   *)
(* its values are natural numbers, and any element may be taken first.      *)
(***************************************************************************)
Chosen(s) == CHOOSE x \in s : TRUE

IsSum(f, g) == g = [s \in SUBSET DOMAIN f |->
    IF s = {} THEN 0 ELSE f[CHOOSE x \in s : TRUE] + g[s \ {CHOOSE x \in s : TRUE}]]

SumsOf(f) == CHOOSE g : IsSum(f, g)

LEMMA SumIs == ASSUME NEW f PROVE SumFunction(f) = SumsOf(f)[DOMAIN f]
BY DEF SumFunction, SumFunctionOnSet, FoldFunctionOnSet, MapThenFoldSet, SumsOf, IsSum

\* g is the sum of f over every subset of S.
SumsUp(f, g, S) ==
    /\ g \in [SUBSET S -> Nat]
    /\ \A s \in SUBSET S :
          g[s] = IF s = {} THEN 0 ELSE f[Chosen(s)] + g[s \ {Chosen(s)}]

LEMMA SumsAgree ==
    ASSUME NEW f, NEW e, NEW g, NEW h, NEW S, NEW T, NEW U,
           SumsUp(f, g, S), SumsUp(e, h, T),
           IsFiniteSet(U), U \subseteq S, U \subseteq T, \A x \in U : f[x] = e[x]
    PROVE  \A s \in SUBSET U : g[s] = h[s]
<1> DEFINE G == {s \in SUBSET U : g[s] = h[s]}
<1>1. ASSUME NEW s \in SUBSET U, \A t \in SUBSET s : t # s => t \in G PROVE s \in G
  <2>1. CASE s = {}
    BY <2>1 DEF SumsUp
  <2>2. CASE s # {}
    <3> PICK x \in s : x = Chosen(s)
      BY <2>2 DEF Chosen
    <3>1. s \ {x} \in G
      BY <1>1
    <3>2. g[s] = f[x] + g[s \ {x}] /\ h[s] = e[x] + h[s \ {x}]
      BY <2>2 DEF SumsUp
    <3>3. QED
      BY <3>1, <3>2
  <2>3. QED
    BY <2>1, <2>2
<1> HIDE DEF G
<1>2. \A s \in SUBSET U : s \in G
  BY <1>1, SubsetInduction
<1>3. QED
  BY <1>2 DEF G

LEMMA SumsExist ==
    ASSUME NEW S, NEW f, IsFiniteSet(S), \A x \in S : f[x] \in Nat
    PROVE  \E g : SumsUp(f, g, S)
<1> DEFINE G == {T \in SUBSET S : \E g : SumsUp(f, g, T)}
           Of(T) == CHOOSE g : SumsUp(f, g, T)
<1>1. ASSUME NEW T \in SUBSET S, \A U \in SUBSET T : U # T => U \in G PROVE T \in G
  <2> DEFINE g == [s \in SUBSET T |->
                     IF s = {} THEN 0 ELSE f[Chosen(s)] + Of(s \ {Chosen(s)})[s \ {Chosen(s)}]]
  <2>1. ASSUME NEW s \in SUBSET T, s # {}
        PROVE  /\ Chosen(s) \in s /\ f[Chosen(s)] \in Nat
               /\ s \ {Chosen(s)} \in SUBSET T /\ s \ {Chosen(s)} # T
               /\ SumsUp(f, Of(s \ {Chosen(s)}), s \ {Chosen(s)})
    <3>1. Chosen(s) \in s
      BY <2>1 DEF Chosen
    <3>2. s \ {Chosen(s)} \in G
      BY <1>1, <3>1
    <3>3. \E h : SumsUp(f, h, s \ {Chosen(s)})
      BY <3>2
    <3>4. QED
      BY <3>1, <3>3
  <2>2. ASSUME NEW s \in SUBSET T, s # T PROVE g[s] = Of(s)[s] /\ SumsUp(f, Of(s), s)
    <3>1. SumsUp(f, Of(s), s)
      <4>1. \E h : SumsUp(f, h, s)
        BY <1>1, <2>2
      <4>2. QED
        BY <4>1
    <3>2. CASE s = {}
      BY <3>1, <3>2 DEF SumsUp
    <3>3. CASE s # {}
      <4> PICK x, t : x = Chosen(s) /\ t = s \ {x}
        OBVIOUS
      <4>1. x \in s /\ SumsUp(f, Of(t), t) /\ t \subseteq s
        BY <2>1, <3>3
      <4> HIDE DEF Of
      <4>2. IsFiniteSet(t)
        BY FS_Subset
      <4>3. Of(t)[t] = Of(s)[t]
        BY <3>1, <4>1, <4>2, SumsAgree
      <4>4. g[s] = f[x] + Of(t)[t]
        BY <3>3
      <4>5. Of(s)[s] = f[x] + Of(s)[t]
        BY <3>1, <3>3 DEF SumsUp
      <4>6. QED
        BY <3>1, <4>3, <4>4, <4>5
    <3>4. QED
      BY <3>2, <3>3
  <2> HIDE DEF Of
  <2>3. ASSUME NEW s \in SUBSET T PROVE g[s] \in Nat
    <3>1. CASE s = {}
      BY <3>1
    <3>2. CASE s # {}
      <4> PICK t, x : x = Chosen(s) /\ t = s \ {x}
        OBVIOUS
      <4>1. Of(t)[t] \in Nat /\ f[x] \in Nat
        BY <2>1, <3>2 DEF SumsUp
      <4>2. g[s] = f[x] + Of(t)[t]
        BY <3>2
      <4>3. QED
        BY <4>1, <4>2
    <3>3. QED
      BY <3>1, <3>2
  <2>4. ASSUME NEW s \in SUBSET T, s # {}
        PROVE  g[s] = f[Chosen(s)] + g[s \ {Chosen(s)}]
    BY <2>1, <2>2, <2>4
  <2>5. g[{}] = 0 /\ g = [s \in SUBSET T |-> g[s]]
    OBVIOUS
  <2> HIDE DEF g
  <2>6. SumsUp(f, g, T)
    BY <2>3, <2>4, <2>5 DEF SumsUp
  <2>7. QED
    BY <2>6
<1> HIDE DEF G
<1>2. S \in G
  BY <1>1, SubsetInduction
<1>3. QED
  BY <1>2 DEF G

LEMMA SumSumsUp ==
    ASSUME NEW S, NEW f \in [S -> Nat], IsFiniteSet(S)
    PROVE  SumsUp(f, SumsOf(f), S) /\ SumFunction(f) = SumsOf(f)[S]
<1>1. PICK g : SumsUp(f, g, S)
  BY SumsExist
<1>2. g = [s \in SUBSET S |-> g[s]]
  BY <1>1 DEF SumsUp
<1>3. IsSum(f, g)
  BY <1>1, <1>2 DEF SumsUp, IsSum, Chosen
<1>4. IsSum(f, SumsOf(f))
  BY <1>3 DEF SumsOf
<1>5. SumsOf(f) = [s \in SUBSET S |-> IF s = {} THEN 0
                        ELSE f[Chosen(s)] + SumsOf(f)[s \ {Chosen(s)}]]
  BY <1>4 DEF IsSum, Chosen
<1> PICK h : h = SumsOf(f)
  OBVIOUS
<1>6. /\ h = [s \in SUBSET S |-> h[s]]
      /\ \A s \in SUBSET S : h[s] = IF s = {} THEN 0 ELSE f[Chosen(s)] + h[s \ {Chosen(s)}]
  BY <1>5
<1>7. \A s \in SUBSET S : h[s] \in Nat
  <2> DEFINE G == {s \in SUBSET S : h[s] \in Nat}
  <2>1. ASSUME NEW s \in SUBSET S, \A t \in SUBSET s : t # s => t \in G PROVE s \in G
    <3>1. CASE s = {}
      <4>1. h[s] = 0
        BY <1>6, <3>1
      <4>2. QED
        BY <4>1
    <3>2. CASE s # {}
      <4> PICK x \in s : x = Chosen(s)
        BY <3>2 DEF Chosen
      <4>1. h[s \ {x}] \in Nat
        BY <2>1
      <4>2. h[s] = f[x] + h[s \ {x}]
        BY <1>6, <3>2
      <4>3. QED
        BY <4>1, <4>2
    <3>3. QED
      BY <3>1, <3>2
  <2> HIDE DEF G
  <2>2. \A s \in SUBSET S : s \in G
    BY <2>1, SubsetInduction
  <2>3. QED
    BY <2>2 DEF G
<1>8. SumsUp(f, h, S)
  BY <1>6, <1>7 DEF SumsUp
<1>9. QED
  BY <1>8, SumIs

\* Whichever element is taken first.
LEMMA SumsTakeOne ==
    ASSUME NEW S, NEW f \in [S -> Nat], NEW g, NEW z \in S,
           IsFiniteSet(S), SumsUp(f, g, S)
    PROVE  g[S] = f[z] + g[S \ {z}]
<1> DEFINE G == {s \in SUBSET S : \A y \in s : g[s] = f[y] + g[s \ {y}]}
<1>1. ASSUME NEW s \in SUBSET S, \A t \in SUBSET s : t # s => t \in G PROVE s \in G
  <2> SUFFICES ASSUME NEW y \in s PROVE g[s] = f[y] + g[s \ {y}]
    OBVIOUS
  <2> PICK x \in s : x = Chosen(s)
    BY DEF Chosen
  <2>1. g[s] = f[x] + g[s \ {x}]
    BY DEF SumsUp
  <2>2. CASE x = y
    BY <2>1, <2>2
  <2>3. CASE x # y
    <3> PICK a, b, c : a = s \ {x} /\ b = s \ {y} /\ c = s \ {x, y}
      OBVIOUS
    <3>1. a \in G /\ b \in G /\ y \in a /\ x \in b
      BY <1>1, <2>3
    <3>2. a \ {y} = c /\ b \ {x} = c /\ c \in SUBSET S
      OBVIOUS
    <3>3. g[a] = f[y] + g[c] /\ g[b] = f[x] + g[c]
      BY <3>1, <3>2
    <3>4. g[c] \in Nat /\ f[x] \in Nat /\ f[y] \in Nat
      BY <3>2 DEF SumsUp
    <3>5. QED
      BY <2>1, <3>3, <3>4
  <2>4. QED
    BY <2>2, <2>3
<1> HIDE DEF G
<1>2. S \in G
  BY <1>1, SubsetInduction
<1>3. QED
  BY <1>2 DEF G

LEMMA SumType ==
    ASSUME NEW S, NEW f \in [S -> Nat], IsFiniteSet(S)
    PROVE  SumFunction(f) \in Nat
<1> PICK g : SumsUp(f, g, S) /\ SumFunction(f) = g[S]
  BY SumSumsUp
<1>1. QED
  BY DEF SumsUp

LEMMA SumOfZeros ==
    ASSUME NEW S, NEW f \in [S -> Nat], IsFiniteSet(S), \A x \in S : f[x] = 0
    PROVE  SumFunction(f) = 0
<1> PICK g : SumsUp(f, g, S) /\ SumFunction(f) = g[S]
  BY SumSumsUp
<1> DEFINE G == {s \in SUBSET S : g[s] = 0}
<1>1. ASSUME NEW s \in SUBSET S, \A t \in SUBSET s : t # s => t \in G PROVE s \in G
  <2>1. CASE s = {}
    BY <2>1 DEF SumsUp
  <2>2. CASE s # {}
    <3> PICK x \in s : x = Chosen(s)
      BY <2>2 DEF Chosen
    <3>1. s \ {x} \in G
      BY <1>1
    <3>2. g[s] = f[x] + g[s \ {x}]
      BY <2>2 DEF SumsUp
    <3>3. QED
      BY <3>1, <3>2
  <2>3. QED
    BY <2>1, <2>2
<1> HIDE DEF G
<1>2. S \in G
  BY <1>1, SubsetInduction
<1>3. QED
  BY <1>2 DEF G

\* Less for each element is less in all.
LEMMA SumGrows ==
    ASSUME NEW S, NEW f \in [S -> Nat], NEW e \in [S -> Nat], IsFiniteSet(S),
           \A x \in S : f[x] <= e[x]
    PROVE  SumFunction(f) <= SumFunction(e)
<1> PICK g : SumsUp(f, g, S) /\ SumFunction(f) = g[S]
  BY SumSumsUp
<1> PICK h : SumsUp(e, h, S) /\ SumFunction(e) = h[S]
  BY SumSumsUp
<1> DEFINE G == {s \in SUBSET S : g[s] <= h[s]}
<1>1. ASSUME NEW s \in SUBSET S, \A t \in SUBSET s : t # s => t \in G PROVE s \in G
  <2>1. CASE s = {}
    <3>1. g[s] = 0 /\ h[s] = 0
      BY <2>1 DEF SumsUp
    <3>2. QED
      BY <3>1
  <2>2. CASE s # {}
    <3> PICK x \in s : x = Chosen(s)
      BY <2>2 DEF Chosen
    <3>1. s \ {x} \in G
      BY <1>1
    <3>2. g[s] = f[x] + g[s \ {x}] /\ h[s] = e[x] + h[s \ {x}]
      BY <2>2 DEF SumsUp
    <3>3. g[s \ {x}] \in Nat /\ h[s \ {x}] \in Nat /\ f[x] \in Nat /\ e[x] \in Nat
      BY DEF SumsUp
    <3>4. QED
      BY <3>1, <3>2, <3>3
  <2>3. QED
    BY <2>1, <2>2
<1> HIDE DEF G
<1>2. S \in G
  BY <1>1, SubsetInduction
<1>3. QED
  BY <1>2 DEF G

\* One more element, or another value of one, adds at most that.
LEMMA SumWithOne ==
    ASSUME NEW S, NEW f \in [S -> Nat], NEW k, NEW e \in [S \cup {k} -> Nat],
           IsFiniteSet(S),
           \A x \in S : x # k => e[x] <= f[x]
    PROVE  SumFunction(e) <= SumFunction(f) + e[k]
<1> PICK T, R : T = S \cup {k} /\ R = S \ {k}
  OBVIOUS
<1> PICK g : SumsUp(f, g, S) /\ SumFunction(f) = g[S]
  BY SumSumsUp
<1>0. IsFiniteSet(T) /\ IsFiniteSet(R)
  BY FS_AddElement, FS_Subset
<1> PICK h : SumsUp(e, h, T) /\ SumFunction(e) = h[T]
  BY <1>0, SumSumsUp
<1>1. T \ {k} = R /\ k \in T /\ R \subseteq S /\ R \subseteq T
  OBVIOUS
<1>2. h[T] = e[k] + h[R]
  BY <1>0, <1>1, SumsTakeOne
<1> DEFINE fr == [x \in R |-> f[x]]
           er == [x \in R |-> e[x]]
<1>3. fr \in [R -> Nat] /\ er \in [R -> Nat] /\ \A x \in R : er[x] <= fr[x]
  BY <1>1
<1>4. SumFunction(er) <= SumFunction(fr)
  <2> HIDE DEF fr, er
  <2> QED
    BY <1>0, <1>3, SumGrows
<1>5. SumFunction(fr) = g[R] /\ SumFunction(er) = h[R]
  <2>1. \A x \in R : fr[x] = f[x] /\ er[x] = e[x]
    OBVIOUS
  <2> HIDE DEF fr, er
  <2> PICK gr : SumsUp(fr, gr, R) /\ SumFunction(fr) = gr[R]
    BY <1>0, <1>3, SumSumsUp
  <2> PICK hr : SumsUp(er, hr, R) /\ SumFunction(er) = hr[R]
    BY <1>0, <1>3, SumSumsUp
  <2>2. \A s \in SUBSET R : gr[s] = g[s]
    BY <1>0, <1>1, <2>1, SumsAgree
  <2>3. \A s \in SUBSET R : hr[s] = h[s]
    BY <1>0, <1>1, <2>1, SumsAgree
  <2>4. QED
    BY <2>2, <2>3
<1>6. g[R] <= g[S]
  <2>1. CASE k \in S
    <3>1. g[S] = f[k] + g[R]
      BY <2>1, SumsTakeOne
    <3>2. g[R] \in Nat /\ f[k] \in Nat
      BY <1>1, <2>1 DEF SumsUp
    <3>3. QED
      BY <3>1, <3>2
  <2>2. CASE k \notin S
    <3>1. R = S
      BY <2>2
    <3>2. g[S] \in Nat
      BY DEF SumsUp
    <3>3. QED
      BY <3>1, <3>2
  <2>3. QED
    BY <2>1, <2>2
<1>7. g[R] \in Nat /\ g[S] \in Nat /\ h[R] \in Nat /\ e[k] \in Nat
  BY <1>1 DEF SumsUp
<1> HIDE DEF fr, er
<1>8. QED
  BY <1>2, <1>4, <1>5, <1>6, <1>7

-----------------------------------------------------------------------------
(***************************************************************************)
(* What the rows of the window cost, for tables p and t and a week n.       *)
(***************************************************************************)
Persons == [Weeks -> [Users -> Row \cup {NoRow}]]
Teams   == [Weeks -> Seq(Row)]
TeamKeys(t) == UNION {{w} \X DOMAIN t[w] : w \in Weeks}
RecentAt(row, n) == IF row.at > n - Window THEN row.cost ELSE 0
CostsP(p, n) == [k \in Weeks \X Users |-> RecentAt(p[k[1]][k[2]], n)]
CostsT(t, n) == [k \in TeamKeys(t) |-> RecentAt(t[k[1]][k[2]], n)]
SpentIn(p, t, n) == SumFunction(CostsP(p, n)) + SumFunction(CostsT(t, n))

LEMMA SpentSplit ==
    /\ Spent = SpentIn(person, team, now)
    /\ Spent' = SpentIn(person', team', now')
BY DEF Spent, SpentIn, PersonCosts, TeamCosts, CostsP, CostsT, TeamKeys, Recent, RecentAt

LEMMA RecentIsNat ==
    ASSUME NEW row \in Row \cup {NoRow}, NEW n \in Weeks
    PROVE  /\ row.cost \in Nat /\ row.at \in Int
           /\ RecentAt(row, n) \in Nat /\ RecentAt(row, n) <= row.cost
<1>1. row.cost \in Nat /\ row.at \in Int
  <2>1. CASE row \in Row
    <3> PICK c \in Costs, w \in Weeks : row.cost = c /\ row.at = w
      BY <2>1 DEF Row
    <3>1. c \in Nat /\ w \in Nat
      BY InsightsAssumption DEF Weeks
    <3>2. QED
      BY <3>1
  <2>2. CASE row = NoRow
    BY <2>2 DEF NoRow
  <2>3. QED
    BY <2>1, <2>2
<1>2. QED
  BY <1>1 DEF RecentAt

LEMMA FiniteWeeks == IsFiniteSet(Weeks) /\ IsFiniteSet(Weeks \X Users)
<1>1. MaxWeek \in Int
  BY InsightsAssumption
<1>2. IsFiniteSet(0..MaxWeek)
  BY <1>1, FS_Interval, 0 \in Int
<1>3. IsFiniteSet(Weeks)
  BY <1>2 DEF Weeks
<1>4. QED
  BY <1>3, FS_Product, InsightsAssumption

LEMMA FiniteTeamKeys == ASSUME NEW t \in Teams PROVE IsFiniteSet(TeamKeys(t))
<1> DEFINE f == [w \in Weeks |-> {w} \X DOMAIN t[w]]
           T == {f[w] : w \in Weeks}
<1>1. ASSUME NEW w \in Weeks PROVE IsFiniteSet(f[w])
  <2> PICK n \in Nat : n = Len(t[w]) /\ DOMAIN t[w] = 1..n
    BY DEF Teams
  <2>1. IsFiniteSet(1..n) /\ IsFiniteSet({w})
    BY FS_Interval, FS_Singleton, 1 \in Int, n \in Int
  <2>2. QED
    BY <2>1, FS_Product
<1>2. TeamKeys(t) = UNION T
  BY DEF TeamKeys
<1>3. f \in Surjection(Weeks, T)
  BY DEF Surjection
<1> HIDE DEF f
<1>4. IsFiniteSet(T)
  BY <1>3, FS_Surjection, FiniteWeeks
<1>5. QED
  BY <1>1, <1>2, <1>4, FS_UNION

LEMMA TeamRow ==
    ASSUME NEW t \in Teams, NEW k \in TeamKeys(t)
    PROVE  k[1] \in Weeks /\ k[2] \in DOMAIN t[k[1]] /\ t[k[1]][k[2]] \in Row
BY DEF TeamKeys, Teams

LEMMA CostsAreNat ==
    ASSUME NEW p \in Persons, NEW t \in Teams, NEW n \in Weeks
    PROVE  /\ CostsP(p, n) \in [Weeks \X Users -> Nat]
           /\ CostsT(t, n) \in [TeamKeys(t) -> Nat]
<1>1. ASSUME NEW k \in Weeks \X Users PROVE RecentAt(p[k[1]][k[2]], n) \in Nat
  BY RecentIsNat DEF Persons
<1>2. ASSUME NEW k \in TeamKeys(t) PROVE RecentAt(t[k[1]][k[2]], n) \in Nat
  BY TeamRow, RecentIsNat
<1>3. QED
  BY <1>1, <1>2 DEF CostsP, CostsT

LEMMA SpentIsNat ==
    ASSUME NEW p \in Persons, NEW t \in Teams, NEW n \in Weeks
    PROVE  /\ SumFunction(CostsP(p, n)) \in Nat /\ SumFunction(CostsT(t, n)) \in Nat
           /\ SpentIn(p, t, n) \in Nat
<1>1. SumFunction(CostsP(p, n)) \in Nat
  BY CostsAreNat, FiniteWeeks, SumType
<1>2. SumFunction(CostsT(t, n)) \in Nat
  BY CostsAreNat, FiniteTeamKeys, SumType
<1>3. QED
  BY <1>1, <1>2 DEF SpentIn

\* As time goes by, rows leave the window.
LEMMA SpentFades ==
    ASSUME NEW p \in Persons, NEW t \in Teams, NEW n \in Weeks, NEW m \in Weeks, n <= m
    PROVE  SpentIn(p, t, m) <= SpentIn(p, t, n)
<1>1. ASSUME NEW row \in Row \cup {NoRow} PROVE RecentAt(row, m) <= RecentAt(row, n)
  BY RecentIsNat, InsightsAssumption DEF RecentAt, Weeks
<1>2. SumFunction(CostsP(p, m)) <= SumFunction(CostsP(p, n))
  <2>1. ASSUME NEW k \in Weeks \X Users PROVE CostsP(p, m)[k] <= CostsP(p, n)[k]
    BY <1>1 DEF CostsP, Persons
  <2>2. QED
    BY <2>1, CostsAreNat, FiniteWeeks, SumGrows
<1>3. SumFunction(CostsT(t, m)) <= SumFunction(CostsT(t, n))
  <2>1. ASSUME NEW k \in TeamKeys(t) PROVE CostsT(t, m)[k] <= CostsT(t, n)[k]
    BY <1>1, TeamRow DEF CostsT
  <2>2. QED
    BY <2>1, CostsAreNat, FiniteTeamKeys, SumGrows
<1>4. QED
  BY <1>2, <1>3, SpentIsNat DEF SpentIn

\* A person's digest that is stored, over another or not.
LEMMA SpentWithPerson ==
    ASSUME NEW p \in Persons, NEW t \in Teams, NEW n \in Weeks,
           NEW w \in Weeks, NEW u \in Users, NEW row \in Row,
           NEW q \in Persons, q = [p EXCEPT ![w][u] = row]
    PROVE  SpentIn(q, t, n) <= SpentIn(p, t, n) + row.cost
<1> PICK k : k = <<w, u>>
  OBVIOUS
<1>1. k \in Weeks \X Users /\ CostsP(q, n)[k] = RecentAt(row, n)
  BY DEF CostsP, Persons
<1>2. ASSUME NEW x \in Weeks \X Users, x # k PROVE CostsP(q, n)[x] <= CostsP(p, n)[x]
  <2>1. q[x[1]][x[2]] = p[x[1]][x[2]]
    BY <1>2 DEF Persons
  <2>2. CostsP(p, n)[x] \in Nat
    BY CostsAreNat
  <2>3. QED
    BY <2>1, <2>2 DEF CostsP
<1> PICK S, f, e : S = Weeks \X Users /\ f = CostsP(p, n) /\ e = CostsP(q, n)
  OBVIOUS
<1>3. /\ IsFiniteSet(S) /\ f \in [S -> Nat] /\ e \in [S -> Nat] /\ S = S \cup {k}
      /\ \A x \in S : x # k => e[x] <= f[x]
  BY <1>1, <1>2, CostsAreNat, FiniteWeeks
<1>4. SumFunction(e) <= SumFunction(f) + e[k]
  BY <1>3, SumWithOne
<1>5. e[k] <= row.cost /\ e[k] \in Nat /\ row.cost \in Nat
  BY <1>1, RecentIsNat
<1>6. QED
  BY <1>4, <1>5, SpentIsNat DEF SpentIn

LEMMA AddsUp ==
    ASSUME NEW a \in Nat, NEW b \in Nat, NEW c \in Nat, NEW x \in Nat, NEW y \in Nat,
           c <= b + x, x <= y
    PROVE  a + c <= (a + b) + y
OBVIOUS

\* A team's digest, always a row of its own.
LEMMA SpentWithTeam ==
    ASSUME NEW p \in Persons, NEW t \in Teams, NEW n \in Weeks,
           NEW w \in Weeks, NEW row \in Row,
           NEW q \in Teams, q = [t EXCEPT ![w] = Append(@, row)]
    PROVE  SpentIn(p, q, n) <= SpentIn(p, t, n) + row.cost
<1> PICK l \in Nat : l = Len(t[w])
  BY DEF Teams
<1> PICK k : k = <<w, l + 1>>
  OBVIOUS
<1>1. q[w] = Append(t[w], row) /\ \A v \in Weeks : v # w => q[v] = t[v]
  BY DEF Teams
<1>2. /\ DOMAIN t[w] = 1..l /\ DOMAIN q[w] = 1..(l + 1) /\ q[w][l + 1] = row
      /\ \A i \in 1..l : q[w][i] = t[w][i]
  BY <1>1 DEF Teams
<1>3. \A v \in Weeks : DOMAIN t[v] \subseteq DOMAIN q[v]
                         /\ \A i \in DOMAIN t[v] : q[v][i] = t[v][i]
  BY <1>1, <1>2
<1>4. TeamKeys(q) = TeamKeys(t) \cup {k}
  <2>1. ASSUME NEW x \in TeamKeys(t) PROVE x \in TeamKeys(q)
    BY <1>3 DEF TeamKeys
  <2>2. k \in TeamKeys(q)
    BY <1>2 DEF TeamKeys
  <2>3. ASSUME NEW x \in TeamKeys(q), x \notin TeamKeys(t) PROVE x = k
    <3>1. PICK v \in Weeks : \E i \in DOMAIN q[v] : x = <<v, i>>
      BY DEF TeamKeys
    <3> PICK i \in DOMAIN q[v] : x = <<v, i>>
      BY <3>1
    <3>2. i \notin DOMAIN t[v]
      BY <2>3 DEF TeamKeys
    <3>3. v = w
      BY <1>1, <3>2
    <3>4. i = l + 1
      BY <1>2, <3>2, <3>3
    <3>5. QED
      BY <3>3, <3>4
  <2>4. QED
    BY <2>1, <2>2, <2>3
<1>5. CostsT(q, n)[k] = RecentAt(row, n)
  BY <1>2, <1>4 DEF CostsT
<1>6. ASSUME NEW x \in TeamKeys(t) PROVE CostsT(q, n)[x] <= CostsT(t, n)[x]
  <2>1. q[x[1]][x[2]] = t[x[1]][x[2]]
    BY <1>3, TeamRow
  <2>2. CostsT(t, n)[x] \in Nat
    BY CostsAreNat
  <2>3. CostsT(q, n)[x] = CostsT(t, n)[x]
    <3>1. CostsT(q, n)[x] = RecentAt(q[x[1]][x[2]], n)
      BY <1>4 DEF CostsT
    <3>2. CostsT(t, n)[x] = RecentAt(t[x[1]][x[2]], n)
      BY DEF CostsT
    <3>3. QED
      BY <2>1, <3>1, <3>2
  <2>4. QED
    BY <2>2, <2>3
<1> PICK S, f, e : S = TeamKeys(t) /\ f = CostsT(t, n) /\ e = CostsT(q, n)
  OBVIOUS
<1>7. /\ IsFiniteSet(S) /\ f \in [S -> Nat] /\ e \in [S \cup {k} -> Nat]
      /\ \A x \in S : x # k => e[x] <= f[x]
  BY <1>4, <1>6, CostsAreNat, FiniteTeamKeys
<1>8. SumFunction(e) <= SumFunction(f) + e[k]
  BY <1>7, SumWithOne
<1>9. e[k] <= row.cost /\ e[k] \in Nat /\ row.cost \in Nat
  BY <1>5, RecentIsNat
<1> PICK own, old, new : own = SumFunction(CostsP(p, n)) /\ old = SumFunction(f)
                           /\ new = SumFunction(e)
  OBVIOUS
<1>10. own \in Nat /\ old \in Nat /\ new \in Nat
  BY SpentIsNat
<1>11. SpentIn(p, t, n) = own + old /\ SpentIn(p, q, n) = own + new
  BY DEF SpentIn
<1>12. new <= old + e[k]
  BY <1>8
<1>13. own + new <= (own + old) + row.cost
  BY <1>9, <1>10, <1>12, AddsUp, Zenon
<1>14. QED
  BY <1>11, <1>13, Zenon

LEMMA NothingSpent ==
    ASSUME NEW p \in Persons, NEW t \in Teams, NEW n \in Weeks,
           \A w \in Weeks : t[w] = <<>> /\ \A u \in Users : p[w][u] = NoRow
    PROVE  SpentIn(p, t, n) = 0
<1>1. \A k \in Weeks \X Users : CostsP(p, n)[k] = 0
  BY DEF CostsP, RecentAt, NoRow
<1>2. TeamKeys(t) = {}
  BY DEF TeamKeys
<1>3. SumFunction(CostsP(p, n)) = 0
  BY <1>1, CostsAreNat, FiniteWeeks, SumOfZeros
<1>4. SumFunction(CostsT(t, n)) = 0
  BY <1>2, CostsAreNat, FiniteTeamKeys, SumOfZeros
<1>5. QED
  BY <1>3, <1>4 DEF SpentIn
-----------------------------------------------------------------------------
(***************************************************************************)
(* The inductive invariant, in two layers.  KeptInv: at most one run is     *)
(* underway, whoever started it; so what it found out about a person's row  *)
(* when it began to ask is still so when the answer comes, because nobody   *)
(* else writes rows.  SpendOK rests on it: what the table tells of is never *)
(* more than the base of the run underway and what it spent itself.         *)
(***************************************************************************)
OneRun == \A s, t \in Slots : run[s] # Free /\ run[t] # Free => s = t

AskedFor(r) == r.user \in Users /\ (r.force \/ ~HasRow(r.week, r.user))

Asking == \A s \in Slots : run[s] # Free /\ run[s].pc = "asking" => AskedFor(run[s])

KeptInv == TypeOK /\ OneRun /\ Asking

LEMMA RowsTyped == TypeOK => person \in Persons /\ team \in Teams /\ now \in Weeks
BY InsightsAssumption DEF TypeOK, Persons, Teams, Weeks

LEMMA SpentTyped == TypeOK => Spent \in Nat
BY RowsTyped, SpentSplit, SpentIsNat

LEMMA KeptInit == Init => KeptInv
<1> SUFFICES ASSUME Init PROVE KeptInv
  OBVIOUS
<1>1. run \in [Slots -> Run \cup {Free}] /\ spawned \in Seq(Weeks)
  BY DEF Init, NoRun
<1>2. person \in [Weeks -> [Users -> Row \cup {NoRow}]] /\ team \in [Weeks -> Seq(Row)]
  BY DEF Init
<1>3. TypeOK
  BY <1>1, <1>2, InsightsAssumption DEF Init, TypeOK
<1>4. OneRun /\ Asking
  BY DEF Init, NoRun, OneRun, Asking
<1>5. QED
  BY <1>3, <1>4 DEF KeptInv

LEMMA NothingRuns == ASSUME TypeOK', run' = NoRun PROVE KeptInv'
BY DEF NoRun, KeptInv, OneRun, Asking

LEMMA RunUntouched ==
    ASSUME KeptInv, TypeOK', UNCHANGED <<run, person>>
    PROVE  KeptInv'
BY DEF KeptInv, OneRun, Asking, AskedFor, HasRow

\* A run goes on, or ends.
LEMMA RunGoesOn ==
    ASSUME NEW s \in Slots, NEW r \in Run \cup {Free}, KeptInv, TypeOK',
           run[s] # Free, run' = [run EXCEPT ![s] = r],
           r # Free /\ r.pc = "asking" => AskedFor(r)'
    PROVE  KeptInv'
<1>1. \A t \in Slots : run'[t] = IF t = s THEN r ELSE Free
  BY DEF KeptInv, TypeOK, OneRun
<1>2. OneRun' /\ Asking'
  BY <1>1 DEF OneRun, Asking, AskedFor, HasRow
<1>3. QED
  BY <1>2 DEF KeptInv

LEMMA ReturnsTyped ==
    ASSUME NEW by, TypeOK, Returns(by)
    PROVE  cron' \in {"asleep", cron} /\ nextFire' \in 1..MaxWeek + 1
BY InsightsAssumption DEF TypeOK, Returns, UpcomingFire

\* The type of the state after a step of a run: the row and the run are what
\* the step has to answer for.
LEMMA StepTyped ==
    ASSUME NEW s \in Slots, NEW r \in Run \cup {Free}, NEW by, TypeOK,
           run' = [run EXCEPT ![s] = r],
           Returns(by) \/ UNCHANGED <<cron, nextFire>>,
           UNCHANGED <<clock, life, spawned, byHand, runs, tried>>,
           person' \in Persons, team' \in Teams
    PROVE  TypeOK'
<1>1. run' \in [Slots -> Run \cup {Free}]
  BY DEF TypeOK
<1>2. cron' \in {"asleep", cron} /\ nextFire' \in 1..MaxWeek + 1
  BY ReturnsTyped DEF TypeOK
<1>3. QED
  BY <1>1, <1>2 DEF TypeOK, clock, life, Persons, Teams, Run, Weeks

\* A run begins where none was, or the caller goes on without one.
LEMMA BeginsTyped ==
    ASSUME NEW by \in {"cron", "admin", "script"}, NEW week \in Weeks,
           NEW force \in BOOLEAN, TypeOK,
           RunUnderLock(by, week, force) \/ Begins(by, week, force)
    PROVE  /\ run' \in [Slots -> Run \cup {Free}] /\ runs' \in Nat
           /\ tried' \subseteq Weeks
           /\ cron' \in {"starting", "asleep", "running", "none"}
           /\ nextFire' \in 1..MaxWeek + 1
<1>1. CASE Returns(by) /\ UNCHANGED <<run, runs, tried>>
  BY <1>1, ReturnsTyped DEF TypeOK
<1>2. CASE /\ run' = [run EXCEPT ![IF by = "admin" THEN by ELSE "cron"] =
                 [pc |-> "fetch", by |-> by, force |-> force, week |-> week,
                  id |-> runs + 1, todo |-> {}, user |-> NoUser, base |-> 0,
                  acc |-> 0, digests |-> FALSE]]
           /\ runs' = runs + 1 /\ tried' = tried \cup {week}
           /\ IF by = "cron" THEN cron' = "running" /\ UNCHANGED nextFire
                             ELSE UNCHANGED <<cron, nextFire>>
  <2> PICK t \in Slots : t = IF by = "admin" THEN by ELSE "cron"
    BY DEF Slots
  <2> PICK r : r = [pc |-> "fetch", by |-> by, force |-> force, week |-> week,
                    id |-> runs + 1, todo |-> {}, user |-> NoUser, base |-> 0,
                    acc |-> 0, digests |-> FALSE]
    OBVIOUS
  <2>1. r \in Run
    BY DEF Run, TypeOK
  <2>2. run' = [run EXCEPT ![t] = r]
    BY <1>2
  <2>3. run' \in [Slots -> Run \cup {Free}]
    BY <2>1, <2>2 DEF TypeOK
  <2>4. cron' \in {"running", cron} /\ nextFire' = nextFire
    BY <1>2
  <2>5. QED
    BY <1>2, <2>3, <2>4 DEF TypeOK
<1>3. QED
  BY <1>1, <1>2 DEF RunUnderLock, Begins

LEMMA RunBegins ==
    ASSUME NEW by \in {"cron", "admin", "script"}, NEW week \in Weeks,
           NEW force \in BOOLEAN, KeptInv, TypeOK', LockFree,
           Begins(by, week, force), UNCHANGED person
    PROVE  KeptInv'
<1>1. CASE UNCHANGED run
  BY <1>1, RunUntouched
<1>2. CASE ~UNCHANGED run
  <2> PICK t \in Slots : t = IF by = "admin" THEN by ELSE "cron"
    BY DEF Slots
  <2> PICK r : r = [pc |-> "fetch", by |-> by, force |-> force, week |-> week,
                    id |-> runs + 1, todo |-> {}, user |-> NoUser, base |-> 0,
                    acc |-> 0, digests |-> FALSE]
    OBVIOUS
  <2>1. run' = [run EXCEPT ![t] = r]
    BY <1>2 DEF Begins
  <2>2. \A x \in Slots : run'[x] = IF x = t THEN r ELSE Free
    BY <2>1 DEF LockFree, NoRun
  <2>3. r.pc = "fetch"
    OBVIOUS
  <2>4. OneRun' /\ Asking'
    BY <2>2, <2>3 DEF OneRun, Asking
  <2>5. QED
    BY <2>4 DEF KeptInv
<1>3. QED
  BY <1>1, <1>2

LEMMA RunLocked ==
    ASSUME NEW by \in {"cron", "admin", "script"}, NEW week \in Weeks,
           NEW force \in BOOLEAN, KeptInv, TypeOK',
           RunUnderLock(by, week, force), UNCHANGED person
    PROVE  KeptInv'
<1>1. CASE LockFree /\ Begins(by, week, force)
  BY <1>1, RunBegins
<1>2. CASE UNCHANGED run
  BY <1>2, RunUntouched
<1>3. QED
  BY <1>1, <1>2 DEF RunUnderLock

LEMMA LastWeekIsOne == TypeOK => LastFullWeek \in Weeks /\ 0..LastFullWeek \subseteq Weeks
BY InsightsAssumption DEF TypeOK, LastFullWeek, Weeks

-----------------------------------------------------------------------------
LEMMA ClockKeeps == KeptInv /\ (ClockTicks \/ Stop \/ Boot \/ Interrupt) => KeptInv'
<1> SUFFICES ASSUME KeptInv, ClockTicks \/ Stop \/ Boot \/ Interrupt PROVE KeptInv'
  OBVIOUS
<1>1. TypeOK
  BY DEF KeptInv
<1>2. CASE ClockTicks
  <2>1. now' \in 1..MaxWeek /\ day' \in {"early", "late", "over"}
    BY <1>1, <1>2, InsightsAssumption DEF TypeOK, ClockTicks, Tick
  <2>2. UNCHANGED <<life, cron, nextFire, spawned, byHand, run, runs, tried, table>>
    BY <1>2 DEF ClockTicks
  <2>3. TypeOK'
    BY <1>1, <2>1, <2>2 DEF TypeOK, life, table, Run, Row, Weeks
  <2>4. QED
    BY <2>2, <2>3, RunUntouched DEF table
<1>3. CASE Stop
  <2>1. run' = NoRun /\ run' \in [Slots -> Run \cup {Free}] /\ spawned' \in Seq(Weeks)
    BY <1>3 DEF Stop, NoRun
  <2>2. TypeOK'
    BY <1>1, <1>3, <2>1 DEF TypeOK, Stop, clock, table, Run, Row, Weeks
  <2>3. QED
    BY <2>1, <2>2, NothingRuns
<1>4. CASE Boot
  <2>1. boots' \in 0..MaxBoots /\ bootAt' \in (1..MaxWeek) \X {"early", "late", "over"}
    BY <1>1, <1>4, InsightsAssumption DEF TypeOK, Boot
  <2>2. TypeOK'
    BY <1>1, <1>4, <2>1 DEF TypeOK, Boot, clock, table, Run, Row, Weeks
  <2>3. QED
    BY <1>4, <2>2, RunUntouched DEF Boot, table
<1>5. CASE Interrupt
  <2>1. run' = NoRun /\ run' \in [Slots -> Run \cup {Free}]
    BY <1>5 DEF Interrupt, NoRun
  <2>2. TypeOK'
    BY <1>1, <1>5, <2>1 DEF TypeOK, Interrupt, clock, life, table, Run, Row, Weeks
  <2>3. QED
    BY <2>1, <2>2, NothingRuns
<1>6. QED
  BY <1>2, <1>3, <1>4, <1>5

LEMMA StartKeeps ==
    KeptInv /\ (CatchUp \/ Fire \/ Click \/ ClickRuns \/ Script) => KeptInv'
<1> SUFFICES ASSUME KeptInv, CatchUp \/ Fire \/ Click \/ ClickRuns \/ Script
             PROVE  KeptInv'
  OBVIOUS
<1> PICK last : last = LastFullWeek
  OBVIOUS
<1>1. TypeOK /\ last \in Weeks /\ 0..last \subseteq Weeks /\ spawned \in Seq(Weeks)
  BY LastWeekIsOne DEF KeptInv, TypeOK
<1> DEFINE Kept == UNCHANGED <<clock, life, table>>
           Typed == /\ run' \in [Slots -> Run \cup {Free}] /\ runs' \in Nat
                    /\ tried' \subseteq Weeks
                    /\ cron' \in {"starting", "asleep", "running", "none"}
                    /\ nextFire' \in 1..MaxWeek + 1
<1>2. ASSUME Kept, Typed, spawned' \in Seq(Weeks), byHand' \in 0..MaxByHand
      PROVE  TypeOK'
  BY <1>1, <1>2 DEF TypeOK, clock, life, table, Run, Row, Weeks
<1>3. ASSUME Kept, UNCHANGED <<spawned, byHand>>, NEW by \in {"cron", "admin", "script"},
             NEW week \in Weeks, NEW force \in BOOLEAN, RunUnderLock(by, week, force)
      PROVE  KeptInv'
  <2>1. Typed
    BY <1>1, <1>3, BeginsTyped
  <2>2. TypeOK'
    BY <1>1, <1>2, <1>3, <2>1 DEF TypeOK
  <2>3. QED
    BY <1>3, <2>2, RunLocked DEF table
<1>4. CASE CatchUp
  <2>1. Kept /\ UNCHANGED <<spawned, byHand>>
    BY <1>4 DEF CatchUp
  <2>2. CASE RunUnderLock("cron", last, FALSE)
    BY <1>1, <1>3, <2>1, <2>2
  <2>3. CASE Returns("cron") /\ UNCHANGED <<run, runs, tried>>
    <3>1. Typed
      BY <1>1, <2>3, ReturnsTyped DEF TypeOK
    <3>2. TypeOK'
      BY <1>1, <1>2, <2>1, <3>1 DEF TypeOK
    <3>3. QED
      BY <2>1, <2>3, <3>2, RunUntouched DEF table
  <2>4. QED
    BY <1>4, <2>2, <2>3 DEF CatchUp
<1>5. CASE Fire
  BY <1>1, <1>3, <1>5 DEF Fire
<1>6. CASE Click
  <2>1. spawned' \in Seq(Weeks) /\ byHand' \in 0..MaxByHand
    BY <1>1, <1>6, InsightsAssumption DEF Click, TypeOK
  <2>2. Kept /\ Typed
    BY <1>1, <1>6 DEF Click, TypeOK
  <2>3. TypeOK'
    BY <1>2, <2>1, <2>2
  <2>4. QED
    BY <1>6, <2>3, RunUntouched DEF Click, table
<1>7. CASE ClickRuns
  <2> PICK w : w = Head(spawned)
    OBVIOUS
  <2>1. w \in Weeks /\ spawned' \in Seq(Weeks) /\ RunUnderLock("admin", w, TRUE)
    <3>1. spawned # <<>> /\ spawned' = Tail(spawned) /\ RunUnderLock("admin", w, TRUE)
      BY <1>7 DEF ClickRuns
    <3>2. w \in Weeks /\ Tail(spawned) \in Seq(Weeks)
      BY <1>1, <3>1
    <3>3. QED
      BY <3>1, <3>2
  <2>2. Typed
    BY <1>1, <2>1, BeginsTyped
  <2>3. Kept /\ byHand' \in 0..MaxByHand
    BY <1>1, <1>7 DEF ClickRuns, TypeOK
  <2>4. TypeOK'
    BY <1>2, <2>1, <2>2, <2>3
  <2>5. QED
    BY <2>1, <2>3, <2>4, RunLocked DEF table
<1>8. CASE Script
  <2> PICK w \in Weeks : Begins("script", w, FALSE)
    BY <1>1, <1>8 DEF Script
  <2>1. Typed
    BY <1>1, BeginsTyped
  <2>2. Kept /\ spawned' = spawned /\ byHand' \in 0..MaxByHand /\ LockFree
    BY <1>1, <1>8, InsightsAssumption DEF Script, TypeOK
  <2>3. TypeOK'
    BY <1>1, <1>2, <2>1, <2>2
  <2>4. QED
    BY <2>2, <2>3, RunBegins DEF table
<1>9. QED
  BY <1>4, <1>5, <1>6, <1>7, <1>8

-----------------------------------------------------------------------------
\* A run that does something is one.
LEMMA Underway ==
    ASSUME NEW s \in Slots, TypeOK, run[s].pc # "none"
    PROVE  run[s] \in Run /\ run[s] # Free
BY DEF TypeOK, Free

\* A step of a run that leaves the rows alone.
LEMMA StepKeeps ==
    ASSUME NEW s \in Slots, NEW r \in Run \cup {Free}, NEW by, KeptInv,
           run[s].pc # "none", run' = [run EXCEPT ![s] = r],
           Returns(by) \/ UNCHANGED <<cron, nextFire>>,
           UNCHANGED <<clock, life, spawned, byHand, runs, tried>>,
           person' \in Persons, team' \in Teams,
           r # Free /\ r.pc = "asking" => AskedFor(r)'
    PROVE  KeptInv'
<1>1. TypeOK /\ run[s] # Free
  BY Underway DEF KeptInv
<1>2. TypeOK'
  BY <1>1, StepTyped
<1>3. QED
  BY <1>1, <1>2, RunGoesOn

LEMMA FetchKeeps == ASSUME NEW s \in Slots, KeptInv, Fetch(s) PROVE KeptInv'
<1>1. run[s].pc = "fetch" /\ UNCHANGED <<clock, life, spawned, byHand, runs, tried, table>>
  BY DEF Fetch, Runs
<1>2. TypeOK /\ run[s] \in Run /\ person' \in Persons /\ team' \in Teams
  BY <1>1, Underway, RowsTyped DEF KeptInv, table
<1>3. CASE Fails(s)
  <2>1. run' = [run EXCEPT ![s] = Free] /\ Returns(run[s].by)
    BY <1>3 DEF Fails
  <2>2. QED
    BY <1>1, <1>2, <2>1, StepKeeps
<1>4. CASE /\ run' = [run EXCEPT ![s].pc = "next", ![s].todo = Users, ![s].base = Spent]
           /\ UNCHANGED <<cron, nextFire>>
  <2> PICK q : q = [run[s] EXCEPT !.pc = "next", !.todo = Users, !.base = Spent]
    OBVIOUS
  <2>1. q \in Run /\ q.pc = "next"
    BY <1>2, SpentTyped DEF Run
  <2>2. run' = [run EXCEPT ![s] = q]
    BY <1>4
  <2>3. QED
    BY <1>1, <1>2, <1>4, <2>1, <2>2, StepKeeps
<1>5. QED
  BY <1>3, <1>4 DEF Fetch

LEMMA VisitKeeps ==
    ASSUME NEW s \in Slots, NEW u \in Users, KeptInv, Visit(s, u)
    PROVE  KeptInv'
<1>1. /\ run[s].pc = "next" /\ UNCHANGED <<cron, nextFire>>
      /\ UNCHANGED <<clock, life, spawned, byHand, runs, tried, table>>
  BY DEF Visit, Runs
<1>2. TypeOK /\ run[s] \in Run /\ person' \in Persons /\ team' \in Teams
  BY <1>1, Underway, RowsTyped DEF KeptInv, table
<1>3. CASE run' = [run EXCEPT ![s].todo = @ \ {u}]
  <2> PICK q : q = [run[s] EXCEPT !.todo = @ \ {u}]
    OBVIOUS
  <2>1. q \in Run /\ q.pc = "next" /\ run' = [run EXCEPT ![s] = q]
    BY <1>1, <1>2, <1>3 DEF Run
  <2>2. QED
    BY <1>1, <1>2, <2>1, StepKeeps
<1>4. CASE /\ ~Skips(run[s], u)
           /\ run' = [run EXCEPT ![s].todo = @ \ {u}, ![s].user = u, ![s].pc = "asking"]
  <2> PICK q : q = [run[s] EXCEPT !.todo = @ \ {u}, !.user = u, !.pc = "asking"]
    OBVIOUS
  <2>1. q \in Run /\ run' = [run EXCEPT ![s] = q]
    BY <1>2, <1>4 DEF Run
  <2>2. q.user = u /\ q.force = run[s].force /\ q.week = run[s].week
    BY <1>2 DEF Run
  <2>3. person' = person
    BY <1>1 DEF table
  <2>4. AskedFor(q)'
    BY <1>4, <2>2, <2>3 DEF AskedFor, Skips, HasRow
  <2>5. QED
    BY <1>1, <1>2, <2>1, <2>4, StepKeeps
<1>5. QED
  BY <1>3, <1>4 DEF Visit

\* The row and the run that a stored digest leaves.
StoredAs(s, c, w, u, row, q) ==
    /\ w = run[s].week /\ u = run[s].user
    /\ row = [cost |-> c, at |-> now, run |-> run[s].id]
    /\ q = [run[s] EXCEPT !.pc = "next", !.user = NoUser,
                          !.digests = TRUE, !.acc = @ + c]
    /\ run' = [run EXCEPT ![s] = q]
    /\ person' = [person EXCEPT ![w][u] = row] /\ person' \in Persons

LEMMA StoredTyped ==
    ASSUME NEW s \in Slots, NEW c \in Costs, KeptInv, run[s].pc = "asking",
           Stored(s, c)
    PROVE  \E w \in Weeks, u \in Users, row \in Row, q \in Run :
              StoredAs(s, c, w, u, row, q)
<1>1. TypeOK /\ run[s] \in Run /\ AskedFor(run[s]) /\ person \in Persons /\ now \in Weeks
  BY Underway, RowsTyped DEF KeptInv, Asking
<1> PICK w \in Weeks, u \in Users : w = run[s].week /\ u = run[s].user
  BY <1>1 DEF AskedFor, Run
<1> PICK row : row = [cost |-> c, at |-> now, run |-> run[s].id]
  OBVIOUS
<1> PICK q : q = [run[s] EXCEPT !.pc = "next", !.user = NoUser,
                                !.digests = TRUE, !.acc = @ + c]
  OBVIOUS
<1>2. row \in Row
  BY <1>1 DEF Row, Run
<1>3. c \in Nat
  BY InsightsAssumption
<1>4. q \in Run
  <2> PICK a \in Nat : a = run[s].acc + c
    BY <1>1, <1>3 DEF Run
  <2>1. q = [run[s] EXCEPT !.pc = "next", !.user = NoUser, !.digests = TRUE, !.acc = a]
    OBVIOUS
  <2>2. QED
    BY <1>1, <2>1 DEF Run
<1>5. run' = [run EXCEPT ![s] = q] /\ person' = [person EXCEPT ![w][u] = row]
  BY DEF Stored, PersonUpserted
<1>6. person' \in Persons
  BY <1>1, <1>2, <1>5 DEF Persons
<1>7. StoredAs(s, c, w, u, row, q)
  BY <1>5, <1>6 DEF StoredAs
<1>8. QED
  BY <1>2, <1>4, <1>7

LEMMA AnswerKeeps == ASSUME NEW s \in Slots, KeptInv, Answer(s) PROVE KeptInv'
<1>1. /\ run[s].pc = "asking"
      /\ UNCHANGED <<clock, life, spawned, byHand, runs, tried, team>>
  BY DEF Answer, Runs
<1>2. TypeOK /\ run[s] \in Run /\ person \in Persons /\ team' \in Teams
  BY <1>1, Underway, RowsTyped DEF KeptInv
<1>3. CASE run' = [run EXCEPT ![s] = Free] /\ Returns(run[s].by) /\ UNCHANGED person
  BY <1>1, <1>2, <1>3, StepKeeps
<1>4. CASE /\ run' = [run EXCEPT ![s].pc = "next", ![s].user = NoUser]
           /\ UNCHANGED <<cron, nextFire, person>>
  <2> PICK q : q = [run[s] EXCEPT !.pc = "next", !.user = NoUser]
    OBVIOUS
  <2>1. q \in Run /\ q.pc = "next" /\ run' = [run EXCEPT ![s] = q]
    BY <1>2, <1>4 DEF Run
  <2>2. QED
    BY <1>1, <1>2, <1>4, <2>1, StepKeeps
<1>5. ASSUME NEW c \in Costs, Stored(s, c), UNCHANGED <<cron, nextFire>> PROVE KeptInv'
  <2> PICK w \in Weeks, u \in Users, row \in Row, q \in Run : StoredAs(s, c, w, u, row, q)
    BY <1>1, <1>5, StoredTyped
  <2>1. q.pc = "next" /\ run' = [run EXCEPT ![s] = q] /\ person' \in Persons
    BY <1>2 DEF StoredAs, Run
  <2>2. QED
    BY <1>1, <1>2, <1>5, <2>1, StepKeeps
<1>6. QED
  BY <1>3, <1>4, <1>5 DEF Answer, Ends, Fails

\* The row that a team's digest leaves.
LEMMA TeamTyped ==
    ASSUME NEW s \in Slots, NEW c \in Costs, TypeOK, run[s] \in Run,
           TeamUpserted(run[s].week, [cost |-> c, at |-> now, run |-> run[s].id])
    PROVE  \E w \in Weeks, row \in Row :
              /\ row.cost = c /\ team' = [team EXCEPT ![w] = Append(@, row)]
              /\ team' \in Teams
<1> PICK w \in Weeks : w = run[s].week
  BY DEF Run
<1> PICK row : row = [cost |-> c, at |-> now, run |-> run[s].id]
  OBVIOUS
<1>1. row \in Row /\ team \in Teams
  BY RowsTyped DEF Row, Run
<1>2. team' = [team EXCEPT ![w] = Append(@, row)]
  BY DEF TeamUpserted
<1>3. Append(team[w], row) \in Seq(Row)
  BY <1>1 DEF Teams
<1>4. team' \in Teams
  BY <1>1, <1>2, <1>3 DEF Teams
<1>5. QED
  BY <1>1, <1>2, <1>4

LEMMA TeamKeeps ==
    ASSUME NEW s \in Slots, KeptInv, CloseLoop(s) \/ TeamAnswer(s)
    PROVE  KeptInv'
<1>1. /\ run[s].pc \in {"next", "team", "retry"}
      /\ UNCHANGED <<clock, life, spawned, byHand, runs, tried, person>>
  BY DEF CloseLoop, TeamAnswer, Runs, table
<1>2. TypeOK /\ run[s] \in Run /\ person' \in Persons /\ team \in Teams
  BY <1>1, Underway, RowsTyped DEF KeptInv
<1>3. team' \in Teams
  BY <1>2, TeamTyped DEF CloseLoop, TeamAnswer, table
<1>4. CASE Ends(s)
  <2>1. run' = [run EXCEPT ![s] = Free] /\ Returns(run[s].by)
    BY <1>4 DEF Ends
  <2>2. QED
    BY <1>1, <1>2, <1>3, <2>1, StepKeeps
<1>5. ASSUME NEW pc \in {"team", "retry"}, run' = [run EXCEPT ![s].pc = pc],
             UNCHANGED <<cron, nextFire>>
      PROVE  KeptInv'
  <2> PICK q : q = [run[s] EXCEPT !.pc = pc]
    OBVIOUS
  <2>1. q \in Run /\ q.pc # "asking" /\ run' = [run EXCEPT ![s] = q]
    BY <1>2, <1>5 DEF Run
  <2>2. QED
    BY <1>1, <1>2, <1>3, <1>5, <2>1, StepKeeps
<1>6. QED
  BY <1>4, <1>5 DEF CloseLoop, TeamAnswer

LEMMA KeptStep == KeptInv /\ [Next]_vars => KeptInv'
<1> SUFFICES ASSUME KeptInv, [Next]_vars PROVE KeptInv'
  OBVIOUS
<1>1. CASE UNCHANGED vars
  <2>1. TypeOK'
    BY <1>1 DEF vars, clock, life, table, KeptInv, TypeOK, Run, Row, Weeks
  <2>2. QED
    BY <1>1, <2>1, RunUntouched DEF vars, table
<1>2. CASE Next
  BY <1>2, ClockKeeps, StartKeeps, FetchKeeps, VisitKeeps, AnswerKeeps,
     TeamKeeps DEF Next, Step
<1>3. QED
  BY <1>1, <1>2

LEMMA KeptHolds == Spec => []KeptInv
BY KeptInit, KeptStep, PTL DEF Spec

-----------------------------------------------------------------------------
\* Every variable of the weekly insights keeps its type, for any people, costs,
\* budgets, weeks and restarts: a run's row is stored under a week and a person
\* (upsert_weekly_insight), what a run counts from is a number
\* (rolling_insights_cost_usd).
THEOREM TypeCorrect == Spec => []TypeOK
<1>1. KeptInv => TypeOK
  BY DEF KeptInv
<1>2. QED
  BY <1>1, KeptHolds, PTL

\* A digest of a person, once stored, is replaced only by a forced run, however
\* many restarts, clicks and scripts there are between the look for the row and
\* the write of it (run_weekly_insights, upsert_weekly_insight).
THEOREM RowsKept == Spec => KeepsRows
<1>1. ASSUME KeptInv, [Next]_vars,
             NEW w \in Weeks, NEW u \in Users,
             person'[w][u] # person[w][u], HasRow(w, u)
      PROVE  \E s \in Slots : run[s] # Free /\ run[s].force
                                 /\ person'[w][u].run = run[s].id
  <2>1. PICK s \in Slots, c \in Costs : Answer(s) /\ Stored(s, c)
    BY <1>1 DEF vars, table, Next, ClockTicks, Stop, Boot, CatchUp, Fire, Click,
       ClickRuns, Script, Interrupt, Step, Fetch, Visit, CloseLoop, TeamAnswer, Answer
  <2>2. run[s].pc = "asking" /\ run[s] # Free
    BY <2>1 DEF Answer, Runs, Free
  <2>3. AskedFor(run[s])
    BY <1>1, <2>2 DEF KeptInv, Asking
  <2> PICK row : row = [cost |-> c, at |-> now, run |-> run[s].id]
    OBVIOUS
  <2>4. person' = [person EXCEPT ![run[s].week][run[s].user] = row] /\ person \in Persons
    BY <1>1, <2>1, RowsTyped DEF Stored, PersonUpserted, KeptInv
  <2>5. w = run[s].week /\ u = run[s].user /\ person'[w][u] = row
    BY <1>1, <2>4 DEF Persons
  <2>6. run[s].force
    BY <1>1, <2>3, <2>5 DEF AskedFor
  <2>7. QED
    BY <2>2, <2>5, <2>6
<1>2. KeptInv /\ [Next]_vars
        => \A w \in Weeks, u \in Users :
              person'[w][u] # person[w][u] /\ HasRow(w, u)
                 => \E s \in Slots : run[s] # Free /\ run[s].force
                                       /\ person'[w][u].run = run[s].id
  BY <1>1
<1>3. QED
  BY <1>2, KeptHolds, PTL DEF Spec, KeepsRows

-----------------------------------------------------------------------------
(***************************************************************************)
(* The money.  Of the run underway: what the table tells of is no more than *)
(* the base it read and what it spent itself; it asks for a person only     *)
(* below the cap, so that with its last digest it is at most one answer     *)
(* above it; the team is asked for only by a run with a digest.             *)
(***************************************************************************)
Counted(r, spent) ==
    /\ r.pc # "fetch" => spent <= r.base + r.acc
    /\ r.pc = "fetch" => ~r.digests
    /\ r.pc \in {"team", "retry"} => r.digests
    /\ r.pc = "asking" => r.base + r.acc < Budget
    /\ r.digests => r.base + r.acc < Budget + MaxCost

SpendOK == SpendNearCap /\ \A s \in Slots : run[s] # Free => Counted(run[s], Spent)

LEMMA MaxCostBounds ==
    MaxCost \in Nat \ {0} /\ \A c \in Costs : c \in Nat /\ c <= MaxCost
<1>1. PICK c \in Costs \ {0} : \A d \in Costs : d <= c
  BY InsightsAssumption
<1>2. MaxCost \in Costs /\ \A d \in Costs : d <= MaxCost
  BY <1>1 DEF MaxCost
<1>3. Costs \subseteq Nat
  BY InsightsAssumption
<1>4. QED
  BY <1>1, <1>2, <1>3

LEMMA RunNumbers ==
    ASSUME NEW r \in Run
    PROVE  r.base \in Nat /\ r.acc \in Nat /\ r # Free /\ r.digests \in BOOLEAN
BY DEF Run, Free

\* Without a new row, the table tells of no more than before.
LEMMA SpentLess ==
    ASSUME TypeOK, TypeOK', UNCHANGED table, now <= now'
    PROVE  Spent \in Nat /\ Spent' \in Nat /\ Spent' <= Spent
<1>1. person \in Persons /\ team \in Teams /\ now \in Weeks
  BY RowsTyped
<1>2. now' \in Weeks
  BY InsightsAssumption DEF TypeOK, Weeks
<1> PICK p, t, n, m : p = person /\ t = team /\ n = now /\ m = now'
  OBVIOUS
<1>3. SpentIn(p, t, m) <= SpentIn(p, t, n) /\ SpentIn(p, t, m) \in Nat /\ SpentIn(p, t, n) \in Nat
  BY <1>1, <1>2, SpentFades, SpentIsNat
<1>4. Spent = SpentIn(p, t, n) /\ Spent' = SpentIn(p, t, m)
  BY SpentSplit DEF table
<1>5. QED
  BY <1>3, <1>4

LEMMA CountedLess ==
    ASSUME NEW r \in Run, NEW spent \in Nat, NEW less \in Nat, less <= spent,
           Counted(r, spent)
    PROVE  Counted(r, less)
BY RunNumbers DEF Counted

LEMMA SpendInit == Init => SpendOK
<1> SUFFICES ASSUME Init PROVE SpendOK
  OBVIOUS
<1>1. person \in Persons /\ team \in Teams /\ now \in Weeks
  BY KeptInit, RowsTyped DEF KeptInv
<1>2. \A w \in Weeks : team[w] = <<>> /\ \A u \in Users : person[w][u] = NoRow
  BY DEF Init
<1>3. Spent = 0
  BY <1>1, <1>2, NothingSpent, SpentSplit
<1>4. SpendNearCap
  BY <1>3, MaxCostBounds, InsightsAssumption DEF SpendNearCap
<1>5. QED
  BY <1>4 DEF SpendOK, Init, NoRun

\* Steps that leave the run underway as it is, begin one, or end it from
\* outside.
LEMMA SpendOutside ==
    ASSUME KeptInv, KeptInv', SpendOK, UNCHANGED table, now <= now',
           \A s \in Slots : \/ run'[s] \in {run[s], Free}
                            \/ run'[s].pc = "fetch" /\ ~run'[s].digests
    PROVE  SpendOK'
<1>1. TypeOK /\ TypeOK'
  BY DEF KeptInv
<1>2. Spent \in Nat /\ Spent' \in Nat /\ Spent' <= Spent
  BY <1>1, SpentLess
<1>3. SpendNearCap'
  BY <1>2, MaxCostBounds, InsightsAssumption DEF SpendOK, SpendNearCap
<1>4. ASSUME NEW s \in Slots, run'[s] # Free PROVE Counted(run'[s], Spent')
  <2> PICK r : r = run'[s]
    OBVIOUS
  <2>1. r \in Run
    BY <1>1, <1>4 DEF TypeOK, Run, Weeks
  <2>2. CASE r = run[s]
    <3>1. Counted(r, Spent)
      BY <1>4, <2>2 DEF SpendOK
    <3>2. QED
      BY <1>2, <2>1, <3>1, CountedLess
  <2>3. CASE r.pc = "fetch" /\ ~r.digests
    BY <2>3 DEF Counted
  <2>4. QED
    BY <1>4, <2>2, <2>3
<1>5. QED
  BY <1>3, <1>4 DEF SpendOK

LEMMA StartSpends ==
    ASSUME KeptInv, KeptInv', SpendOK,
           ClockTicks \/ Stop \/ Boot \/ CatchUp \/ Fire \/ Click \/ ClickRuns
              \/ Script \/ Interrupt \/ UNCHANGED vars
    PROVE  SpendOK'
<1>1. UNCHANGED table
  BY DEF ClockTicks, Stop, Boot, CatchUp, Fire, Click, ClickRuns, Script, Interrupt,
     vars, table
<1>2. now <= now'
  <2>1. now \in Int
    BY DEF KeptInv, TypeOK
  <2>2. now' = now \/ now' = now + 1
    BY DEF ClockTicks, Tick, Stop, Boot, CatchUp, Fire, Click, ClickRuns, Script,
       Interrupt, vars, clock
  <2>3. QED
    BY <2>1, <2>2
<1>3. ASSUME NEW s \in Slots
      PROVE  run'[s] \in {run[s], Free} \/ (run'[s].pc = "fetch" /\ ~run'[s].digests)
  <2>1. CASE UNCHANGED run
    BY <2>1
  <2>2. CASE run' = NoRun
    BY <2>2 DEF NoRun
  <2>3. ASSUME NEW by \in {"cron", "admin", "script"}, NEW week, NEW force,
               Begins(by, week, force)
        PROVE  run'[s] = run[s] \/ (run'[s].pc = "fetch" /\ ~run'[s].digests)
    <3> PICK t \in Slots : t = IF by = "admin" THEN by ELSE "cron"
      BY DEF Slots
    <3> PICK r : r = [pc |-> "fetch", by |-> by, force |-> force, week |-> week,
                      id |-> runs + 1, todo |-> {}, user |-> NoUser, base |-> 0,
                      acc |-> 0, digests |-> FALSE]
      OBVIOUS
    <3>1. run' = run \/ run' = [run EXCEPT ![t] = r]
      BY <2>3 DEF Begins
    <3>2. run'[s] = run[s] \/ run'[s] = r
      BY <3>1 DEF KeptInv, TypeOK
    <3>3. QED
      BY <3>2
  <2>4. ASSUME NEW by \in {"cron", "admin", "script"}, NEW week, NEW force,
               RunUnderLock(by, week, force)
        PROVE  run'[s] = run[s] \/ (run'[s].pc = "fetch" /\ ~run'[s].digests)
    BY <2>3, <2>4 DEF RunUnderLock
  <2>5. CASE CatchUp
    <3>1. UNCHANGED run \/ RunUnderLock("cron", LastFullWeek, FALSE)
      BY <2>5 DEF CatchUp
    <3>2. QED
      BY <2>1, <2>4, <3>1
  <2>6. CASE Fire \/ ClickRuns
    <3>1. \/ RunUnderLock("cron", LastFullWeek, FALSE)
          \/ RunUnderLock("admin", Head(spawned), TRUE)
      BY <2>6 DEF Fire, ClickRuns
    <3>2. QED
      BY <2>4, <3>1
  <2>7. CASE Script
    BY <2>3, <2>7 DEF Script
  <2>8. CASE ClockTicks \/ Boot \/ Click \/ Stop \/ Interrupt \/ UNCHANGED vars
    BY <2>1, <2>2, <2>8 DEF ClockTicks, Boot, Click, Stop, Interrupt, vars
  <2>9. QED
    BY <2>5, <2>6, <2>7, <2>8
<1>4. QED
  BY <1>1, <1>2, <1>3, SpendOutside

\* A step of the run underway: the run it leaves is counted, and the table is
\* near the cap.
LEMMA SpendMoves ==
    ASSUME NEW s \in Slots, NEW r \in Run \cup {Free}, KeptInv, SpendOK,
           run[s] # Free, run' = [run EXCEPT ![s] = r],
           Spent' < Budget + 2 * MaxCost,
           r # Free => Counted(r, Spent')
    PROVE  SpendOK'
<1>1. \A t \in Slots : run'[t] = IF t = s THEN r ELSE Free
  BY DEF KeptInv, TypeOK, OneRun
<1>2. SpendNearCap'
  BY DEF SpendNearCap, MaxCost
<1>3. QED
  BY <1>1, <1>2 DEF SpendOK

\* What such a step starts from.
LEMMA SpendUnderway ==
    ASSUME NEW s \in Slots, KeptInv, KeptInv', SpendOK, run[s].pc # "none"
    PROVE  /\ run[s] \in Run /\ run[s] # Free /\ Counted(run[s], Spent)
           /\ Spent \in Nat /\ Spent' \in Nat /\ Spent < Budget + 2 * MaxCost
           /\ UNCHANGED <<clock, table>> => Spent' = Spent
<1>1. TypeOK /\ TypeOK'
  BY DEF KeptInv
<1>2. run[s] \in Run /\ run[s] # Free
  BY <1>1, Underway
<1>3. Spent \in Nat
  BY <1>1, SpentTyped
<1>4. Spent' \in Nat
  <2>1. person' \in Persons /\ team' \in Teams
    BY <1>1 DEF TypeOK, Persons, Teams, Row, Weeks
  <2>2. now' \in Weeks
    BY <1>1, InsightsAssumption DEF TypeOK, Weeks
  <2>3. QED
    BY <2>1, <2>2, SpentSplit, SpentIsNat
<1>5. UNCHANGED <<clock, table>> => Spent' = Spent
  BY SpentSplit DEF clock, table
<1>6. QED
  BY <1>2, <1>3, <1>4, <1>5 DEF SpendOK, SpendNearCap

LEMMA FetchSpends ==
    ASSUME NEW s \in Slots, KeptInv, KeptInv', SpendOK, Fetch(s) PROVE SpendOK'
<1>1. run[s].pc = "fetch" /\ UNCHANGED <<clock, table>>
  BY DEF Fetch, Runs
<1>2. /\ run[s] \in Run /\ run[s] # Free /\ Counted(run[s], Spent)
      /\ Spent \in Nat /\ Spent' = Spent /\ Spent < Budget + 2 * MaxCost
  BY <1>1, SpendUnderway
<1>3. CASE run' = [run EXCEPT ![s] = Free]
  BY <1>2, <1>3, SpendMoves
<1>4. CASE run' = [run EXCEPT ![s].pc = "next", ![s].todo = Users, ![s].base = Spent]
  <2> PICK q : q = [run[s] EXCEPT !.pc = "next", !.todo = Users, !.base = Spent]
    OBVIOUS
  <2>1. q \in Run /\ run' = [run EXCEPT ![s] = q]
    BY <1>2, <1>4 DEF Run
  <2>2. /\ q.pc = "next" /\ q.base = Spent /\ q.acc = run[s].acc
        /\ q.digests = run[s].digests
    BY <1>2 DEF Run
  <2>3. ~q.digests
    BY <1>1, <1>2, <2>2 DEF Counted
  <2>4. Counted(q, Spent)
    BY <1>2, <2>2, <2>3, RunNumbers DEF Counted
  <2>5. QED
    BY <1>2, <2>1, <2>4, SpendMoves
<1>5. QED
  BY <1>3, <1>4 DEF Fetch, Fails

LEMMA VisitSpends ==
    ASSUME NEW s \in Slots, NEW u \in Users, KeptInv, KeptInv', SpendOK, Visit(s, u)
    PROVE  SpendOK'
<1>1. run[s].pc = "next" /\ UNCHANGED <<clock, table>> /\ ~CapHit(run[s])
  BY DEF Visit, Runs
<1>2. /\ run[s] \in Run /\ run[s] # Free /\ Counted(run[s], Spent)
      /\ Spent \in Nat /\ Spent' = Spent /\ Spent < Budget + 2 * MaxCost
  BY <1>1, SpendUnderway
<1> DEFINE Visited(pc, user) ==
      [run[s] EXCEPT !.todo = @ \ {u}, !.user = user, !.pc = pc]
<1>0. \E pc \in {"next", "asking"}, user \in Users \cup {NoUser} :
        run' = [run EXCEPT ![s] = Visited(pc, user)]
  <2>1. CASE run' = [run EXCEPT ![s].todo = @ \ {u}]
    <3> PICK v \in Users \cup {NoUser} : v = run[s].user
      BY <1>2 DEF Run
    <3>1. [run[s] EXCEPT !.todo = @ \ {u}] = Visited("next", v)
      BY <1>1, <1>2 DEF Run
    <3>2. QED
      BY <2>1, <3>1
  <2>2. CASE run' = [run EXCEPT ![s].todo = @ \ {u}, ![s].user = u, ![s].pc = "asking"]
    BY <2>2
  <2>3. QED
    BY <2>1, <2>2 DEF Visit
<1> PICK pc \in {"next", "asking"}, user \in Users \cup {NoUser} :
       run' = [run EXCEPT ![s] = Visited(pc, user)]
  BY <1>0
<1> PICK q : q = Visited(pc, user)
  OBVIOUS
<1>3. /\ q \in Run /\ q.pc = pc /\ q.base = run[s].base /\ q.acc = run[s].acc
      /\ q.digests = run[s].digests
  BY <1>2 DEF Run
<1>4. run[s].base + run[s].acc < Budget
  BY <1>1, <1>2, RunNumbers, InsightsAssumption DEF CapHit
<1>5. Counted(q, Spent)
  BY <1>1, <1>2, <1>3, <1>4 DEF Counted
<1>6. QED
  BY <1>2, <1>3, <1>5, SpendMoves

LEMMA AnswerSpends ==
    ASSUME NEW s \in Slots, KeptInv, KeptInv', SpendOK, Answer(s) PROVE SpendOK'
<1>1. run[s].pc = "asking" /\ UNCHANGED <<clock, team>>
  BY DEF Answer, Runs
<1>2. /\ run[s] \in Run /\ run[s] # Free /\ Counted(run[s], Spent)
      /\ Spent \in Nat /\ Spent' \in Nat /\ Spent < Budget + 2 * MaxCost
      /\ UNCHANGED person => Spent' = Spent
  BY <1>1, SpendUnderway DEF table
<1>3. /\ run[s].base \in Nat /\ run[s].acc \in Nat
      /\ Spent <= run[s].base + run[s].acc /\ run[s].base + run[s].acc < Budget
  BY <1>1, <1>2, RunNumbers DEF Counted
<1>4. CASE run' = [run EXCEPT ![s] = Free] /\ UNCHANGED person
  BY <1>2, <1>4, SpendMoves
<1>5. CASE run' = [run EXCEPT ![s].pc = "next", ![s].user = NoUser] /\ UNCHANGED person
  <2> PICK q : q = [run[s] EXCEPT !.pc = "next", !.user = NoUser]
    OBVIOUS
  <2>1. /\ q \in Run /\ run' = [run EXCEPT ![s] = q] /\ q.pc = "next"
        /\ q.base = run[s].base /\ q.acc = run[s].acc /\ q.digests = run[s].digests
    BY <1>2, <1>5 DEF Run
  <2>2. Counted(q, Spent)
    BY <1>2, <1>3, <2>1 DEF Counted
  <2>3. QED
    BY <1>2, <1>5, <2>1, <2>2, SpendMoves
<1>6. ASSUME NEW c \in Costs, Stored(s, c) PROVE SpendOK'
  <2> PICK w \in Weeks, u \in Users, row \in Row, q \in Run : StoredAs(s, c, w, u, row, q)
    BY <1>1, <1>6, StoredTyped
  <2>1. c \in Nat /\ c <= MaxCost /\ MaxCost \in Nat /\ Budget \in Nat
    BY MaxCostBounds, InsightsAssumption
  <2>2. /\ run' = [run EXCEPT ![s] = q] /\ q.pc = "next"
        /\ q.base = run[s].base /\ q.acc = run[s].acc + c /\ row.cost = c
    BY <1>2 DEF StoredAs, Run
  <2>3. Spent' <= Spent + c
    <3>1. TypeOK
      BY DEF KeptInv
    <3>2. person \in Persons /\ team \in Teams /\ now \in Weeks
      BY <3>1, RowsTyped
    <3>3. person' = [person EXCEPT ![w][u] = row] /\ person' \in Persons
      BY DEF StoredAs
    <3> PICK p, q2, t, n : p = person /\ q2 = person' /\ t = team /\ n = now
      OBVIOUS
    <3>4. SpentIn(q2, t, n) <= SpentIn(p, t, n) + row.cost
      BY <3>2, <3>3, SpentWithPerson
    <3>5. QED
      BY <1>1, <2>2, <3>4, SpentSplit DEF clock
  <2>4. Counted(q, Spent') /\ Spent' < Budget + 2 * MaxCost
    BY <1>2, <1>3, <2>1, <2>2, <2>3 DEF Counted
  <2>5. QED
    BY <1>2, <2>2, <2>4, SpendMoves
<1>7. QED
  BY <1>4, <1>5, <1>6 DEF Answer, Ends, Fails

LEMMA CloseSpends ==
    ASSUME NEW s \in Slots, KeptInv, KeptInv', SpendOK, CloseLoop(s) PROVE SpendOK'
<1>1. run[s].pc = "next" /\ UNCHANGED <<clock, table>>
  BY DEF CloseLoop, Runs
<1>2. /\ run[s] \in Run /\ run[s] # Free /\ Counted(run[s], Spent)
      /\ Spent' = Spent /\ Spent < Budget + 2 * MaxCost
  BY <1>1, SpendUnderway
<1>3. CASE run' = [run EXCEPT ![s] = Free]
  BY <1>2, <1>3, SpendMoves
<1>4. CASE run[s].digests /\ run' = [run EXCEPT ![s].pc = "team"]
  <2> PICK q : q = [run[s] EXCEPT !.pc = "team"]
    OBVIOUS
  <2>1. /\ q \in Run /\ run' = [run EXCEPT ![s] = q] /\ q.pc = "team" /\ q.digests
        /\ q.base = run[s].base /\ q.acc = run[s].acc
    BY <1>2, <1>4 DEF Run
  <2>2. Counted(q, Spent)
    BY <1>1, <1>2, <1>4, <2>1 DEF Counted
  <2>3. QED
    BY <1>2, <2>1, <2>2, SpendMoves
<1>5. QED
  BY <1>3, <1>4 DEF CloseLoop, Ends

LEMMA TeamSpends ==
    ASSUME NEW s \in Slots, KeptInv, KeptInv', SpendOK, TeamAnswer(s) PROVE SpendOK'
<1>1. run[s].pc \in {"team", "retry"} /\ UNCHANGED <<clock, person>>
  BY DEF TeamAnswer
<1>2. /\ run[s] \in Run /\ run[s] # Free /\ Counted(run[s], Spent)
      /\ Spent \in Nat /\ Spent' \in Nat /\ Spent < Budget + 2 * MaxCost
      /\ UNCHANGED team => Spent' = Spent
  BY <1>1, SpendUnderway DEF table
<1>3. /\ run[s].base \in Nat /\ run[s].acc \in Nat /\ run[s].digests
      /\ Spent <= run[s].base + run[s].acc
      /\ run[s].base + run[s].acc < Budget + MaxCost
  BY <1>1, <1>2, RunNumbers DEF Counted
<1>4. CASE run' = [run EXCEPT ![s] = Free] /\ UNCHANGED team
  BY <1>2, <1>4, SpendMoves
<1>5. CASE run' = [run EXCEPT ![s].pc = "retry"] /\ UNCHANGED team
  <2> PICK q : q = [run[s] EXCEPT !.pc = "retry"]
    OBVIOUS
  <2>1. /\ q \in Run /\ run' = [run EXCEPT ![s] = q] /\ q.pc = "retry"
        /\ q.base = run[s].base /\ q.acc = run[s].acc /\ q.digests = run[s].digests
    BY <1>2, <1>5 DEF Run
  <2>2. Counted(q, Spent)
    BY <1>3, <2>1 DEF Counted
  <2>3. QED
    BY <1>2, <1>5, <2>1, <2>2, SpendMoves
<1>6. ASSUME NEW c \in Costs, run' = [run EXCEPT ![s] = Free],
             TeamUpserted(run[s].week, [cost |-> c, at |-> now, run |-> run[s].id])
      PROVE  SpendOK'
  <2>1. c \in Nat /\ c <= MaxCost /\ MaxCost \in Nat /\ Budget \in Nat
    BY MaxCostBounds, InsightsAssumption
  <2>2. TypeOK
    BY DEF KeptInv
  <2> PICK w \in Weeks, row \in Row :
              /\ row.cost = c /\ team' = [team EXCEPT ![w] = Append(@, row)]
              /\ team' \in Teams
    BY <1>2, <1>6, <2>2, TeamTyped
  <2>3. Spent' <= Spent + c
    <3>1. person \in Persons /\ team \in Teams /\ now \in Weeks
      BY <2>2, RowsTyped
    <3> PICK p, t, t2, n : p = person /\ t = team /\ t2 = team' /\ n = now
      OBVIOUS
    <3>2. SpentIn(p, t2, n) <= SpentIn(p, t, n) + row.cost
      BY <3>1, SpentWithTeam
    <3>3. QED
      BY <1>1, <3>2, SpentSplit DEF clock
  <2>4. Spent' < Budget + 2 * MaxCost
    BY <1>2, <1>3, <2>1, <2>3
  <2>5. QED
    BY <1>2, <1>6, <2>4, SpendMoves
<1>7. QED
  BY <1>4, <1>5, <1>6 DEF TeamAnswer, Ends

\* Whoever starts runs, and whenever: the rows of the window never tell of as
\* much as the cap and two answers (rolling_insights_cost_usd and the checks of
\* run_weekly_insights), for any cap, window, people and prices.
THEOREM SpendStaysNearCap == Spec => []SpendNearCap
<1>1. KeptInv /\ KeptInv' /\ SpendOK /\ [Next]_vars => SpendOK'
  <2> SUFFICES ASSUME KeptInv, KeptInv', SpendOK, [Next]_vars PROVE SpendOK'
    OBVIOUS
  <2>1. ASSUME NEW s \in Slots, Step(s) PROVE SpendOK'
    BY <2>1, FetchSpends, VisitSpends, AnswerSpends, CloseSpends, TeamSpends DEF Step
  <2>2. QED
    BY <2>1, StartSpends DEF Next
<1>2. SpendOK => SpendNearCap
  BY DEF SpendOK
<1>3. QED
  BY <1>1, <1>2, SpendInit, KeptHolds, PTL DEF Spec
=============================================================================
