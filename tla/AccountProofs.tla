---------------------------- MODULE AccountProofs ----------------------------
(***************************************************************************)
(* Theorems about an affiliate's account, for any set of sales, of         *)
(* withdrawals and of amounts: a sale never holds more than it was         *)
(* credited, what is paid or promised was credited first, the account      *)
(* implements Wallet, and it falls into debt only by a refund.             *)
(*                                                                         *)
(* The balances are sums over sets, so what the sums do comes first, by    *)
(* induction over the subsets of a finite set: of the subsets for which a  *)
(* statement fails, one would be the smallest.  Then, sale by sale and     *)
(* withdrawal by withdrawal, what each step does to one of them.           *)
(***************************************************************************)
EXTENDS AffiliateAccount, FiniteSetTheorems, WellFoundedInduction, TLAPS

-----------------------------------------------------------------------------
(* Sums over a finite set.                                                  *)

Pick(s) == CHOOSE x \in s : TRUE

\* g holds the sum of f over every subset of S.
Sums(g, f, S) ==
    g = [s \in SUBSET S |-> IF s = {} THEN 0 ELSE f[Pick(s)] + g[s \ {Pick(s)}]]

LEMMA PickIn == ASSUME NEW s, s # {} PROVE Pick(s) \in s
BY DEF Pick

\* Among subsets of a finite set, one has no other inside it.
LEMMA Smallest ==
    ASSUME NEW S, IsFiniteSet(S), NEW T \in SUBSET (SUBSET S), T # {}
    PROVE  \E t \in T : \A u \in T : u \subseteq t => u = t
<1>1. T \subseteq FiniteSubsetsOf(S)
  BY FS_Subset DEF FiniteSubsetsOf
<1>2. PICK t \in T : \A u \in T : ~(<<u, t>> \in StrictSubsetOrdering(S))
  BY <1>1, FS_StrictSubsetOrderingWellFounded, WFMin
<1>3. ASSUME NEW u \in T, u \subseteq t
      PROVE  u = t
  BY <1>2, <1>3 DEF StrictSubsetOrdering
<1> QED
  BY <1>2, <1>3

\* The sums are determined, and those over the subsets of a part are the same.
LEMMA SumsAgree ==
    ASSUME NEW f, NEW S, IsFiniteSet(S), NEW R \in SUBSET S,
           NEW g, NEW h, Sums(g, f, S), Sums(h, f, R)
    PROVE  \A s \in SUBSET R : g[s] = h[s]
<1> SUFFICES ASSUME NEW s0 \in SUBSET R, g[s0] # h[s0] PROVE FALSE
  OBVIOUS
<1>1. \E t \in SUBSET R : g[t] # h[t] /\ \A u \in SUBSET t : u # t => ~(g[u] # h[u])
  <2> DEFINE T == {s \in SUBSET R : g[s] # h[s]}
  <2>1. T \in SUBSET (SUBSET S) /\ T # {}
    OBVIOUS
  <2> HIDE DEF T
  <2>2. PICK t \in T : \A u \in T : u \subseteq t => u = t
    BY <2>1, Smallest
  <2>3. \A u \in SUBSET t : u # t => u \notin T
    BY <2>2
  <2> QED
    BY <2>2, <2>3 DEF T
<1>2. PICK t \in SUBSET R : g[t] # h[t] /\ \A u \in SUBSET t : u # t => ~(g[u] # h[u])
  BY <1>1
<1>3. CASE t = {}
  BY <1>2, <1>3 DEF Sums
<1>4. CASE t # {}
  <2>1. Pick(t) \in t
    BY <1>4, PickIn
  <2>2. t \ {Pick(t)} \in SUBSET R /\ t \in SUBSET R /\ t \in SUBSET S
    BY <1>2
  <2>3. g[t \ {Pick(t)}] = h[t \ {Pick(t)}]
    BY <1>2, <2>1, <2>2
  <2>4. g[t] = f[Pick(t)] + g[t \ {Pick(t)}] /\ h[t] = f[Pick(t)] + h[t \ {Pick(t)}]
    BY <1>4, <2>2 DEF Sums
  <2> QED
    BY <1>2, <2>3, <2>4
<1> QED
  BY <1>3, <1>4

\* They exist.
LEMMA SumsExist ==
    ASSUME NEW f, NEW S, IsFiniteSet(S)
    PROVE  \E g : Sums(g, f, S)
<1> SUFFICES ASSUME ~\E g : Sums(g, f, S) PROVE FALSE
  OBVIOUS
<1>1. \E t \in SUBSET S : 
        /\ ~\E g : Sums(g, f, t)
        /\ \A u \in SUBSET t : u # t => \E g : Sums(g, f, u)
  <2> DEFINE T == {s \in SUBSET S : ~\E g : Sums(g, f, s)}
  <2>1. T \in SUBSET (SUBSET S) /\ T # {}
    OBVIOUS
  <2> HIDE DEF T
  <2>2. PICK t \in T : \A u \in T : u \subseteq t => u = t
    BY <2>1, Smallest
  <2>3. \A u \in SUBSET t : u # t => u \notin T
    BY <2>2
  <2> QED
    BY <2>2, <2>3 DEF T
<1>2. PICK t \in SUBSET S : 
        /\ ~\E g : Sums(g, f, t)
        /\ \A u \in SUBSET t : u # t => \E g : Sums(g, f, u)
  BY <1>1
<1> DEFINE Of(u) == CHOOSE g : Sums(g, f, u)
           G == [s \in SUBSET t |->
                  IF s = {} THEN 0
                  ELSE f[Pick(s)] + Of(s \ {Pick(s)})[s \ {Pick(s)}]]
<1>3. \A u \in SUBSET t : u # t => Sums(Of(u), f, u)
  <2>1. ASSUME NEW u \in SUBSET t, u # t
        PROVE  Sums(Of(u), f, u)
    <3>1. \E g : Sums(g, f, u)
      BY <1>2, <2>1
    <3> QED
      BY <3>1
  <2> QED
    BY <2>1
<1>4. \A u \in SUBSET t : u # t => IsFiniteSet(u)
  BY <1>2, FS_Subset
<1> HIDE DEF Of
<1>5. ASSUME NEW s \in SUBSET t, s # t
      PROVE  G[s] = Of(s)[s]
  <2>0. Sums(Of(s), f, s) /\ s \in SUBSET s
    BY <1>3, <1>5
  <2>1. CASE s = {}
    <3>1. Of(s)[s] = 0
      BY <2>0, <2>1 DEF Sums
    <3> QED
      BY <2>1, <3>1
  <2>2. CASE s # {}
    <3> DEFINE r == s \ {Pick(s)}
    <3>1. r \in SUBSET s /\ r \in SUBSET t /\ r # t /\ r \in SUBSET r
      BY <2>2, PickIn
    <3>2. Sums(Of(r), f, r) /\ IsFiniteSet(s)
      BY <1>3, <1>4, <1>5, <3>1
    <3>3. Of(s)[r] = Of(r)[r]
      BY <2>0, <3>1, <3>2, SumsAgree
    <3>4. Of(s)[s] = f[Pick(s)] + Of(s)[r]
      BY <2>0, <2>2 DEF Sums
    <3>5. G[s] = f[Pick(s)] + Of(r)[r]
      BY <2>2
    <3> QED
      BY <3>3, <3>4, <3>5
  <2> QED
    BY <2>1, <2>2
<1>6. \A s \in SUBSET t : s # {} => s \ {Pick(s)} \in SUBSET t /\ s \ {Pick(s)} # t
  BY PickIn
<1>7. \A s \in SUBSET t : s # {} => G[s \ {Pick(s)}] = Of(s \ {Pick(s)})[s \ {Pick(s)}]
  BY <1>5, <1>6
<1>8. G = [s \in SUBSET t |-> IF s = {} THEN 0 ELSE f[Pick(s)] + G[s \ {Pick(s)}]]
  BY <1>7
<1>9. Sums(G, f, t)
  BY <1>8 DEF Sums
<1> QED
  BY <1>2, <1>9

LEMMA SumIsLast ==
    ASSUME NEW f, NEW S, IsFiniteSet(S), S = DOMAIN f
    PROVE  \E g : Sums(g, f, S) /\ SumFunction(f) = g[S]
<1> DEFINE g == CHOOSE iter : iter = [s \in SUBSET S |->
                    IF s = {} THEN 0 ELSE f[Pick(s)] + iter[s \ {Pick(s)}]]
<1>1. Sums(g, f, S)
  <2>1. \E h : h = [s \in SUBSET S |->
                    IF s = {} THEN 0 ELSE f[Pick(s)] + h[s \ {Pick(s)}]]
    <3>1. PICK h : Sums(h, f, S)
      BY SumsExist
    <3> QED
      BY <3>1 DEF Sums
  <2> QED
    BY <2>1 DEF Sums
<1>2. SumFunctionOnSet(f, S) = g[S]
  BY DEF SumFunctionOnSet, FoldFunctionOnSet, MapThenFoldSet, Pick
<1> QED
  BY <1>1, <1>2 DEF SumFunction

\* The subsets, as an operator the provers need not look into.
Parts(S) == SUBSET S

\* What a step of the recursion takes from a subset.
Steps(g, f, S) ==
    \A t \in Parts(S) : t # {} => g[t] = f[Pick(t)] + g[t \ {Pick(t)}]

LEMMA SumsStep == ASSUME NEW f, NEW S, NEW g, Sums(g, f, S) PROVE Steps(g, f, S)
BY PickIn DEF Sums, Parts, Steps

LEMMA SumsEmpty ==
    ASSUME NEW f, NEW S, NEW g, Sums(g, f, S)
    PROVE  {} \in Parts(S) /\ g[{}] = 0
BY DEF Sums, Parts

\* What passes from every smaller subset to a subset is so of all.
LEMMA SubsetsInduction ==
    ASSUME NEW S, IsFiniteSet(S), NEW good,
           ASSUME NEW t \in Parts(S), \A u \in Parts(t) : u # t => u \in good
           PROVE  t \in good
    PROVE  \A t \in Parts(S) : t \in good
<1> SUFFICES ASSUME NEW t0 \in Parts(S), t0 \notin good PROVE FALSE
  OBVIOUS
<1> DEFINE T == {s \in SUBSET S : s \notin good}
<1>1. T \in SUBSET (SUBSET S) /\ T # {}
  BY DEF Parts
<1> HIDE DEF T
<1>2. PICK t \in T : \A u \in T : u \subseteq t => u = t
  BY <1>1, Smallest
<1>3. t \in Parts(S) /\ \A u \in Parts(t) : u # t => u \in good
  BY <1>2 DEF T, Parts
<1>4. t \in good
  BY <1>3
<1> QED
  BY <1>2, <1>4 DEF T

\* In particular what holds of {} and passes from a subset without the element
\* picked to the subset.
LEMMA PickInduction ==
    ASSUME NEW S, IsFiniteSet(S), NEW good, {} \in good,
           ASSUME NEW t \in Parts(S), t # {}, Pick(t) \in t, Pick(t) \in S,
                  t \ {Pick(t)} \in Parts(S), t \ {Pick(t)} \in good
           PROVE  t \in good
    PROVE  \A t \in Parts(S) : t \in good
<1>1. ASSUME NEW t \in Parts(S), \A u \in Parts(t) : u # t => u \in good
      PROVE  t \in good
  <2>1. CASE t = {}
    BY <2>1
  <2>2. CASE t # {}
    <3>1. /\ Pick(t) \in t /\ Pick(t) \in S
          /\ t \ {Pick(t)} \in Parts(S) /\ t \ {Pick(t)} \in Parts(t)
      BY <2>2, PickIn DEF Parts
    <3> QED
      BY <1>1, <2>2, <3>1
  <2> QED
    BY <2>1, <2>2
<1> QED
  BY <1>1, SubsetsInduction

LEMMA SumsType ==
    ASSUME NEW S, IsFiniteSet(S), NEW f \in [S -> Int], NEW g, Sums(g, f, S)
    PROVE  \A s \in Parts(S) : g[s] \in Int
<1>a. Steps(g, f, S)
  BY SumsStep
<1> DEFINE good == {s \in Parts(S) : g[s] \in Int}
<1>1. {} \in good
  BY SumsEmpty
<1>2. ASSUME NEW t \in Parts(S), t # {}, Pick(t) \in S, t \ {Pick(t)} \in good
      PROVE  t \in good
  <2>1. g[t] = f[Pick(t)] + g[t \ {Pick(t)}]
    BY <1>a, <1>2 DEF Steps
  <2> QED
    BY <1>2, <2>1
<1> HIDE DEF good
<1>3. \A t \in Parts(S) : t \in good
  BY <1>1, <1>2, PickInduction
<1> QED
  BY <1>3 DEF good


LEMMA SumsNatural ==
    ASSUME NEW S, IsFiniteSet(S), NEW f \in [S -> Nat], NEW g, Sums(g, f, S)
    PROVE  \A s \in Parts(S) : g[s] \in Nat
<1>a. Steps(g, f, S)
  BY SumsStep
<1> DEFINE good == {s \in Parts(S) : g[s] \in Nat}
<1>1. {} \in good
  BY SumsEmpty
<1>2. ASSUME NEW t \in Parts(S), t # {}, Pick(t) \in S, t \ {Pick(t)} \in good
      PROVE  t \in good
  <2>1. g[t] = f[Pick(t)] + g[t \ {Pick(t)}]
    BY <1>a, <1>2 DEF Steps
  <2> QED
    BY <1>2, <2>1
<1> HIDE DEF good
<1>3. \A t \in Parts(S) : t \in good
  BY <1>1, <1>2, PickInduction
<1> QED
  BY <1>3 DEF good


\* The order in which the elements are taken does not matter.
LEMMA SumsAnyOrder ==
    ASSUME NEW S, IsFiniteSet(S), NEW f \in [S -> Int], NEW g, Sums(g, f, S)
    PROVE  \A s \in Parts(S) : \A x \in s : g[s] = f[x] + g[s \ {x}]
<1>0. Steps(g, f, S)
  BY SumsStep
<1> DEFINE good == {s \in Parts(S) : \A x \in s : g[s] = f[x] + g[s \ {x}]}
<1>1. ASSUME NEW t \in Parts(S), \A u \in Parts(t) : u # t => u \in good,
             NEW x \in t
      PROVE  g[t] = f[x] + g[t \ {x}]
  <2> DEFINE y == Pick(t)
             r == t \ {x, y}
  <2>1. y \in t /\ g[t] = f[y] + g[t \ {y}]
    <3>1. t # {}
      OBVIOUS
    <3> QED
      BY <1>0, <3>1, PickIn DEF Steps
  <2>2. CASE x = y
    BY <2>1, <2>2
  <2>3. CASE x # y
    <3> HIDE DEF y, good
    <3>1. t \ {y} \in good /\ t \ {x} \in good
      BY <1>1, <2>1 DEF Parts
    <3>2. x \in t \ {y} /\ y \in t \ {x} /\ (t \ {y}) \ {x} = r /\ (t \ {x}) \ {y} = r
      BY <2>1, <2>3
    <3>3. g[t \ {y}] = f[x] + g[r] /\ g[t \ {x}] = f[y] + g[r]
      BY <3>1, <3>2 DEF good
    <3>4. f[x] \in Int /\ f[y] \in Int /\ r \in Parts(S)
      BY <2>1 DEF Parts
    <3>5. g[r] \in Int
      BY <3>4, SumsType
    <3> HIDE DEF r
    <3> QED
      BY <2>1, <3>3, <3>4, <3>5
  <2> QED
    BY <2>2, <2>3
<1>2. ASSUME NEW t \in Parts(S), \A u \in Parts(t) : u # t => u \in good
      PROVE  t \in good
  BY <1>1, <1>2
<1> HIDE DEF good
<1>3. \A t \in Parts(S) : t \in good
  BY <1>2, SubsetsInduction
<1> QED
  BY <1>3 DEF good

LEMMA SumsSame ==
    ASSUME NEW S, IsFiniteSet(S), NEW e, NEW f, NEW g, NEW h,
           Sums(g, e, S), Sums(h, f, S), NEW x, \A y \in S : y # x => e[y] = f[y]
    PROVE  \A s \in Parts(S) : x \notin s => g[s] = h[s]
<1>a. Steps(g, e, S)
  BY SumsStep
<1>b. Steps(h, f, S)
  BY SumsStep
<1> DEFINE good == {s \in Parts(S) : x \notin s => g[s] = h[s]}
<1>1. {} \in good
  <2>1. {} \in Parts(S) /\ g[{}] = 0
    BY SumsEmpty
  <2>2. h[{}] = 0
    BY SumsEmpty
  <2> QED
    BY <2>1, <2>2
<1>2. ASSUME NEW t \in Parts(S), t # {}, Pick(t) \in t, Pick(t) \in S, t \ {Pick(t)} \in good
      PROVE  t \in good
  <2>1. g[t] = e[Pick(t)] + g[t \ {Pick(t)}]
    BY <1>a, <1>2 DEF Steps
  <2>2. h[t] = f[Pick(t)] + h[t \ {Pick(t)}]
    BY <1>b, <1>2 DEF Steps
  <2> QED
    BY <1>2, <2>1, <2>2
<1> HIDE DEF good
<1>3. \A t \in Parts(S) : t \in good
  BY <1>1, <1>2, PickInduction
<1> QED
  BY <1>3 DEF good

LEMMA SumsAdd ==
    ASSUME NEW S, IsFiniteSet(S),
           NEW d \in [S -> Int], NEW e \in [S -> Int], NEW f \in [S -> Int],
           NEW i, NEW g, NEW h, Sums(i, d, S), Sums(g, e, S), Sums(h, f, S),
           \A x \in S : f[x] = d[x] + e[x]
    PROVE  \A s \in Parts(S) : h[s] = i[s] + g[s]
<1>a. Steps(i, d, S)
  BY SumsStep
<1>b. Steps(g, e, S)
  BY SumsStep
<1>c. Steps(h, f, S)
  BY SumsStep
<1> DEFINE good == {s \in Parts(S) : h[s] = i[s] + g[s]}
<1>1. {} \in good
  <2>1. {} \in Parts(S) /\ i[{}] = 0
    BY SumsEmpty
  <2>2. g[{}] = 0
    BY SumsEmpty
  <2>3. h[{}] = 0
    BY SumsEmpty
  <2> QED
    BY <2>1, <2>2, <2>3
<1>2. ASSUME NEW t \in Parts(S), t # {}, Pick(t) \in S, t \ {Pick(t)} \in good
      PROVE  t \in good
  <2>1. i[t] = d[Pick(t)] + i[t \ {Pick(t)}]
    BY <1>a, <1>2 DEF Steps
  <2>2. g[t] = e[Pick(t)] + g[t \ {Pick(t)}]
    BY <1>b, <1>2 DEF Steps
  <2>3. h[t] = f[Pick(t)] + h[t \ {Pick(t)}]
    BY <1>c, <1>2 DEF Steps
  <2>4. i[t \ {Pick(t)}] \in Int
    BY <1>2, SumsType
  <2>5. g[t \ {Pick(t)}] \in Int
    BY <1>2, SumsType
  <2>6. d[Pick(t)] \in Int /\ e[Pick(t)] \in Int /\ f[Pick(t)] = d[Pick(t)] + e[Pick(t)]
    BY <1>2
  <2> QED
    BY <1>2, <2>1, <2>2, <2>3, <2>4, <2>5, <2>6
<1> HIDE DEF good
<1>3. \A t \in Parts(S) : t \in good
  BY <1>1, <1>2, PickInduction
<1> QED
  BY <1>3 DEF good

-----------------------------------------------------------------------------
(* What is used of SumFunction.                                             *)

LEMMA WholePart == ASSUME NEW S PROVE S \in Parts(S) /\ \A x : S \ {x} \in Parts(S)
BY DEF Parts

LEMMA SumType ==
    ASSUME NEW S, IsFiniteSet(S), NEW f \in [S -> Int]
    PROVE  SumFunction(f) \in Int
<1>1. PICK g : Sums(g, f, S) /\ SumFunction(f) = g[S]
  BY SumIsLast
<1> QED
  BY <1>1, WholePart, SumsType

\* One value changes: the sum changes by as much.
LEMMA SumChanges ==
    ASSUME NEW S, IsFiniteSet(S), NEW e \in [S -> Int], NEW f \in [S -> Int],
           NEW x \in S, \A y \in S : y # x => e[y] = f[y]
    PROVE  SumFunction(f) = SumFunction(e) - e[x] + f[x]
<1>1. PICK g : Sums(g, e, S) /\ SumFunction(e) = g[S]
  BY SumIsLast
<1>2. PICK h : Sums(h, f, S) /\ SumFunction(f) = h[S]
  BY SumIsLast
<1>3. g[S] = e[x] + g[S \ {x}]
  BY <1>1, WholePart, SumsAnyOrder
<1>4. h[S] = f[x] + h[S \ {x}]
  BY <1>2, WholePart, SumsAnyOrder
<1>5. g[S \ {x}] \in Int
  BY <1>1, WholePart, SumsType
<1>6. g[S \ {x}] = h[S \ {x}]
  <2>1. \A s \in Parts(S) : x \notin s => g[s] = h[s]
    BY <1>1, <1>2, SumsSame
  <2> QED
    BY <2>1, WholePart
<1> QED
  BY <1>1, <1>2, <1>3, <1>4, <1>5, <1>6

\* The sum of sums.
LEMMA SumAdds ==
    ASSUME NEW S, IsFiniteSet(S), NEW d \in [S -> Int], NEW e \in [S -> Int],
           NEW f \in [S -> Int], \A x \in S : f[x] = d[x] + e[x]
    PROVE  SumFunction(f) = SumFunction(d) + SumFunction(e)
<1>1. PICK i : Sums(i, d, S) /\ SumFunction(d) = i[S]
  BY SumIsLast
<1>2. PICK g : Sums(g, e, S) /\ SumFunction(e) = g[S]
  BY SumIsLast
<1>3. PICK h : Sums(h, f, S) /\ SumFunction(f) = h[S]
  BY SumIsLast
<1>4. \A s \in Parts(S) : h[s] = i[s] + g[s]
  BY <1>1, <1>2, <1>3, SumsAdd
<1> QED
  BY <1>1, <1>2, <1>3, <1>4, WholePart

\* Larger values have a larger sum.
LEMMA SumGrows ==
    ASSUME NEW S, IsFiniteSet(S), NEW e \in [S -> Int], NEW f \in [S -> Int],
           \A x \in S : e[x] <= f[x]
    PROVE  SumFunction(e) <= SumFunction(f)
<1> DEFINE d == [x \in S |-> f[x] - e[x]]
<1>1. d \in [S -> Nat] /\ d \in [S -> Int] /\ \A x \in S : f[x] = e[x] + d[x]
  OBVIOUS
<1> HIDE DEF d
<1>2. SumFunction(f) = SumFunction(e) + SumFunction(d)
  BY <1>1, SumAdds
<1>3. SumFunction(d) \in Nat
  <2>1. PICK g : Sums(g, d, S) /\ SumFunction(d) = g[S]
    BY <1>1, SumIsLast
  <2> QED
    BY <1>1, <2>1, WholePart, SumsNatural
<1>4. SumFunction(e) \in Int
  BY SumType
<1> QED
  BY <1>2, <1>3, <1>4

LEMMA SumOfZeros ==
    ASSUME NEW S, IsFiniteSet(S), NEW f \in [S -> Int], \A x \in S : f[x] = 0
    PROVE  SumFunction(f) = 0
<1>1. \A x \in S : f[x] = f[x] + f[x]
  OBVIOUS
<1>2. SumFunction(f) = SumFunction(f) + SumFunction(f)
  BY <1>1, SumAdds
<1>3. SumFunction(f) \in Int
  BY SumType
<1>4. \A n \in Int : n = n + n => n = 0
  OBVIOUS
<1> QED
  BY <1>2, <1>3, <1>4

-----------------------------------------------------------------------------
(* The earnings of one sale.                                                *)

LEMMA NetNatural == Net \in Nat /\ Gross \in Nat
BY EarningsAssumption DEF Net

LEMMA CoveredBounds ==
    ASSUME NEW bucket \in Int, NEW amount \in Nat
    PROVE  /\ Covered(bucket, amount) \in 0 .. amount
           /\ bucket >= 0 => bucket - Covered(bucket, amount) >= 0
BY DEF Covered, Least

\* The store returns no more commission than the products it refunds.
LEMMA SellerShare ==
    ASSUME NEW amount \in 1 .. Gross, NEW products \in Breakdowns(amount)
    PROVE  amount - CommissionReversed(products) \in Nat
<1>1. Subtotal \in Nat \ {0} /\ Commission \in Nat /\ Commission <= Subtotal
  BY EarningsAssumption DEF Subtotal
<1>2. products \in Nat /\ products <= amount /\ amount \in Nat
  BY <1>1, NetNatural DEF Breakdowns, Least
<1>3. ASSUME NEW k \in Nat, NEW n \in Nat \ {0}, NEW c \in Nat, c <= n
      PROVE  (k * c) \div n \in 0 .. k
  <2>1. k * c \in Nat /\ k * n \in Nat /\ k * c <= k * n
    BY <1>3
  <2>2. (k * n) \div n = k
    BY <1>3
  <2> QED
    BY <1>3, <2>1, <2>2
<1>4. CommissionReversed(products) \in 0 .. products
  BY <1>1, <1>2, <1>3 DEF CommissionReversed
<1> QED
  BY <1>2, <1>4

LEMMA LedgerWith ==
    ASSUME NEW l \in Ledgers, NEW p \in Int, NEW a \in Int, NEW b \in BOOLEAN
    PROVE  /\ [l EXCEPT !.pending = p] \in Ledgers
           /\ [l EXCEPT !.pending = p, !.sale = b] \in Ledgers
           /\ [l EXCEPT !.pending = p, !.available = a] \in Ledgers
BY DEF Ledgers

\* l may become m when `credit' is written to it.
Follows(l, m, credit) ==
    /\ m \in Ledgers
    /\ m.pending >= 0
    /\ m.pending + m.available <= l.pending + l.available + credit
    /\ l.parentKeys \subseteq m.parentKeys

LEMMA CreditedFollows ==
    ASSUME NEW l \in Ledgers, l.pending >= 0
    PROVE  Follows(l, Credited(l), IF l.sale THEN 0 ELSE Net) /\ Credited(l).sale
<1>1. l.pending \in Int /\ l.available \in Int /\ Net \in Nat
  BY NetNatural DEF Ledgers
<1>2. CASE l.sale
  BY <1>1, <1>2 DEF Credited, Follows
<1>3. CASE ~l.sale
  <2>1. Credited(l) \in Ledgers
    <3>1. l.pending + Net \in Int
      BY <1>1
    <3> QED
      BY <1>3, <3>1, LedgerWith DEF Credited
  <2>2. /\ Credited(l).pending = l.pending + Net
        /\ Credited(l).available = l.available
        /\ Credited(l).parentKeys = l.parentKeys
        /\ Credited(l).sale
    BY <1>3 DEF Credited, Ledgers
  <2> QED
    BY <1>1, <1>3, <2>1, <2>2 DEF Follows
<1> QED
  BY <1>2, <1>3

LEMMA ReleasedFollows ==
    ASSUME NEW l \in Ledgers, l.pending >= 0
    PROVE  /\ Follows(l, EarningsReleased(l), 0)
           /\ EarningsReleased(l).sale = l.sale
           /\ EarningsReleased(l).parentKeys = l.parentKeys
           /\ EarningsReleased(l).available >= l.available
<1>1. l.pending \in Int /\ l.available \in Int
  BY DEF Ledgers
<1>2. Covered(l.pending, l.pending) = l.pending
  BY <1>1 DEF Covered, Least
<1>3. EarningsReleased(l) \in Ledgers
  <2>1. /\ l.pending - Covered(l.pending, l.pending) \in Int
        /\ l.available + Covered(l.pending, l.pending) \in Int
    BY <1>1, <1>2
  <2> QED
    BY <2>1, LedgerWith DEF EarningsReleased
<1>4. /\ EarningsReleased(l).pending = l.pending - l.pending
      /\ EarningsReleased(l).available = l.available + l.pending
      /\ EarningsReleased(l).sale = l.sale
      /\ EarningsReleased(l).parentKeys = l.parentKeys
  BY <1>2 DEF EarningsReleased, Ledgers
<1> QED
  BY <1>1, <1>3, <1>4 DEF Follows

LEMMA DebitedFollows ==
    ASSUME NEW l \in Ledgers, l.pending >= 0, NEW amount \in Nat
    PROVE  Follows(l, Debited(l, amount), 0) /\ Debited(l, amount).sale = l.sale
<1>1. l.pending \in Int /\ l.available \in Int
  BY DEF Ledgers
<1>2. Covered(l.pending, amount) \in 0 .. amount /\ l.pending - Covered(l.pending, amount) >= 0
  BY <1>1, CoveredBounds
<1>3. /\ l.pending - Covered(l.pending, amount) \in Int
      /\ l.available - (amount - Covered(l.pending, amount)) \in Int
  BY <1>1, <1>2
<1>4. Debited(l, amount) \in Ledgers
  BY <1>3 DEF Debited, Ledgers
<1>5. /\ Debited(l, amount).pending = l.pending - Covered(l.pending, amount)
      /\ Debited(l, amount).available = l.available - (amount - Covered(l.pending, amount))
      /\ Debited(l, amount).sale = l.sale
      /\ Debited(l, amount).parentKeys = l.parentKeys
  BY DEF Debited, Ledgers
<1> QED
  BY <1>1, <1>2, <1>4, <1>5 DEF Follows

LEMMA ParentFollows ==
    ASSUME NEW l \in Ledgers, l.pending >= 0
    PROVE  /\ Follows(l, DebitedByParent(l), 0)
           /\ DebitedByParent(l).sale = l.sale
           /\ DebitedByParent(l).parentKeys = {} => DebitedByParent(l).available = l.available
<1> DEFINE fromPending == Covered(l.pending, Net)
           fromAvailable == Covered(l.available, Net - fromPending)
           debt == Net - fromPending - fromAvailable
           W(key, amount) == IF key \in l.parentKeys THEN 0 ELSE amount
           newKeys == l.parentKeys \cup {k \in {"PENDING"} : fromPending > 0}
                         \cup {k \in {"AVAILABLE"} : fromAvailable > 0}
                         \cup {k \in {"DEBT"} : debt > 0}
           newPending == l.pending - W("PENDING", fromPending)
           newAvailable == l.available - W("AVAILABLE", fromAvailable) - W("DEBT", debt)
<1>1. l.pending \in Int /\ l.available \in Int /\ Net \in Nat
  BY NetNatural DEF Ledgers
<1>2. fromPending \in 0 .. Net /\ l.pending - fromPending >= 0
  BY <1>1, CoveredBounds
<1>3. fromAvailable \in 0 .. (Net - fromPending)
  <2>1. Net - fromPending \in Nat
    BY <1>1, <1>2
  <2> QED
    BY <1>1, <2>1, CoveredBounds
<1>4. debt \in Nat
  BY <1>1, <1>2, <1>3
<1>5. DebitedByParent(l) =
        [l EXCEPT !.pending = newPending, !.available = newAvailable, !.parentKeys = newKeys]
  BY DEF DebitedByParent
<1>6. newKeys \in SUBSET {"PENDING", "AVAILABLE", "DEBT"} /\ l.parentKeys \subseteq newKeys
  BY DEF Ledgers
<1>7. newKeys = {} => fromPending <= 0 /\ fromAvailable <= 0 /\ debt <= 0
  <2>1. /\ fromPending > 0 => "PENDING" \in newKeys
        /\ fromAvailable > 0 => "AVAILABLE" \in newKeys
        /\ debt > 0 => "DEBT" \in newKeys
    OBVIOUS
  <2> HIDE DEF newKeys, fromPending, fromAvailable, debt
  <2> QED
    BY <1>1, <1>2, <1>3, <1>4, <2>1
<1> HIDE DEF fromPending, fromAvailable, debt, newKeys
<1>8. /\ newPending \in Int /\ newPending >= 0 /\ newAvailable \in Int
      /\ newPending + newAvailable <= l.pending + l.available
      /\ newKeys = {} => newAvailable = l.available
  BY <1>1, <1>2, <1>3, <1>4, <1>7
<1> HIDE DEF newPending, newAvailable
<1>9. DebitedByParent(l) \in Ledgers
  BY <1>5, <1>6, <1>8 DEF Ledgers
<1>10. /\ DebitedByParent(l).pending = newPending
       /\ DebitedByParent(l).available = newAvailable
       /\ DebitedByParent(l).sale = l.sale
       /\ DebitedByParent(l).parentKeys = newKeys
  BY <1>5 DEF Ledgers
<1> QED
  BY <1>1, <1>6, <1>8, <1>9, <1>10 DEF Follows

-----------------------------------------------------------------------------
(* The sales.                                                               *)

\* What the ledger credited a sale.
Credit(s) == (IF earnings[s].sale THEN Net ELSE 0) + (IF repaired[s] THEN Net ELSE 0)

\* A repair under way is of a sale.
RepairOK == repair = NoRepair \/ repair.of \in Sales

EarnedInv ==
    \A s \in Sales :
        /\ earnings[s].pending >= 0
        /\ earnings[s].pending + earnings[s].available <= Credit(s)

SalesInv ==
    /\ earnings \in [Sales -> Ledgers]
    /\ sale \in [Sales -> SaleStates]
    /\ accredited \in [Sales -> BOOLEAN]
    /\ openIssue \in [Sales -> {"NONE", "UNPAID", "PAID"}]
    /\ releasedOnce \in [Sales -> BOOLEAN]
    /\ repaired \in [Sales -> BOOLEAN]
    /\ refunded \in [Sales -> 0 .. Gross]
    /\ listed \in [Sales -> SaleStates \cup {"NONE"}]
    /\ repair \in [of : Sales \cup {"NONE"}, release : BOOLEAN]
    /\ RepairOK
    /\ EarnedInv

LEMMA CreditIs ==
    ASSUME SalesInv, NEW s \in Sales
    PROVE  Credit(s) = Net * Credits(s) /\ Credit(s) \in Nat
<1>1. earnings[s].sale \in BOOLEAN /\ repaired[s] \in BOOLEAN
  BY DEF SalesInv, Ledgers
<1>2. Net \in Nat /\ Net * 0 = 0 /\ Net * 1 = Net /\ Net * 2 = Net + Net
  BY NetNatural
<1> QED
  BY <1>1, <1>2 DEF Credit, Credits

\* Sale s moves to other earnings, and the others stay.
Earns(s) ==
    \E m \in Ledgers :
        /\ earnings' = [earnings EXCEPT ![s] = m]
        /\ m.pending >= 0
        /\ m.pending + m.available <= Credit(s)'
        /\ earnings[s].sale => m.sale
        /\ earnings[s].parentKeys \subseteq m.parentKeys
        /\ refunded'[s] = 0 /\ m.parentKeys = {} => m.available >= earnings[s].available

LEMMA EarnsKeeps ==
    ASSUME SalesInv, NEW s \in Sales, Earns(s),
           \A z \in Sales : z # s => repaired'[z] = repaired[z]
    PROVE  earnings' \in [Sales -> Ledgers] /\ EarnedInv'
<1>1. PICK m \in Ledgers :
        /\ earnings' = [earnings EXCEPT ![s] = m]
        /\ m.pending >= 0
        /\ m.pending + m.available <= Credit(s)'
  BY DEF Earns
<1>2. earnings' \in [Sales -> Ledgers] /\ earnings'[s] = m
      /\ \A z \in Sales : z # s => earnings'[z] = earnings[z]
  BY <1>1 DEF SalesInv
<1>3. ASSUME NEW z \in Sales, z # s
      PROVE  Credit(z)' = Credit(z)
  BY <1>2, <1>3 DEF Credit
<1>4. ASSUME NEW z \in Sales
      PROVE  earnings'[z].pending >= 0
             /\ earnings'[z].pending + earnings'[z].available <= Credit(z)'
  <2>1. CASE z = s
    BY <1>1, <1>2, <2>1
  <2>2. CASE z # s
    BY <1>2, <1>3, <2>2 DEF SalesInv, EarnedInv
  <2> QED
    BY <2>1, <2>2
<1> QED
  BY <1>2, <1>4 DEF EarnedInv

\* What a handler that writes m to the ledger of s proves about it.
LEMMA WritesEarn ==
    ASSUME SalesInv, NEW s \in Sales, NEW m, NEW credit \in Nat,
           SetEarnings(s, m), Follows(earnings[s], m, credit),
           Credit(s) + credit <= Credit(s)', Credit(s)' \in Nat,
           earnings[s].sale => m.sale,
           refunded'[s] = 0 /\ m.parentKeys = {} => m.available >= earnings[s].available
    PROVE  Earns(s)
<1>1. m \in Ledgers
  BY DEF Follows
<1>2. /\ earnings[s].pending \in Int /\ earnings[s].available \in Int
      /\ earnings[s].pending + earnings[s].available <= Credit(s)
      /\ m.pending \in Int /\ m.available \in Int
  BY <1>1 DEF SalesInv, EarnedInv, Ledgers
<1>3. Credit(s) \in Nat
  BY CreditIs
<1>4. /\ m.pending + m.available <= Credit(s)' /\ m.pending >= 0
      /\ earnings[s].parentKeys \subseteq m.parentKeys
  BY <1>2, <1>3 DEF Follows
<1> QED
  BY <1>1, <1>4 DEF SetEarnings, Earns

\* Writing m changes no credit but the sale's own.
LEMMA WritesCredit ==
    ASSUME SalesInv, NEW s \in Sales, NEW m \in Ledgers, SetEarnings(s, m),
           repaired' = repaired
    PROVE  /\ Credit(s)' = (IF m.sale THEN Net ELSE 0) + (IF repaired[s] THEN Net ELSE 0)
           /\ Credit(s)' \in Nat /\ Credit(s) \in Nat
<1>1. earnings'[s] = m
  BY DEF SetEarnings, SalesInv
<1>2. m.sale \in BOOLEAN /\ repaired[s] \in BOOLEAN
  BY DEF Ledgers, SalesInv
<1> QED
  BY <1>1, <1>2, CreditIs, NetNatural DEF Credit

LEMMA SameEarns ==
    ASSUME SalesInv, NEW s \in Sales, earnings' = earnings, repaired' = repaired
    PROVE  Earns(s)
<1> DEFINE m == earnings[s]
<1>1. m \in Ledgers /\ earnings' = [earnings EXCEPT ![s] = m]
  BY DEF SalesInv
<1>2. m.pending >= 0 /\ m.pending + m.available <= Credit(s)
  BY DEF SalesInv, EarnedInv
<1>3. Credit(s)' = Credit(s)
  BY DEF Credit
<1>4. m.available >= m.available
  BY <1>1 DEF Ledgers
<1> QED
  BY <1>1, <1>2, <1>3, <1>4 DEF Earns

LEMMA ReleaseEarns ==
    ASSUME SalesInv, NEW s \in Sales, Release(s, earnings[s]), repaired' = repaired
    PROVE  Earns(s)
<1> DEFINE m == EarningsReleased(earnings[s])
<1>1. earnings[s] \in Ledgers /\ earnings[s].pending >= 0
  BY DEF SalesInv, EarnedInv
<1>2. Follows(earnings[s], m, 0) /\ m.sale = earnings[s].sale /\ m.available >= earnings[s].available
  BY <1>1, ReleasedFollows
<1>3. SetEarnings(s, m) /\ m \in Ledgers
  BY <1>2 DEF Release, Follows
<1> HIDE DEF m
<1>4. Credit(s)' = Credit(s) /\ Credit(s)' \in Nat
  BY <1>2, <1>3, WritesCredit DEF Credit
<1> QED
  BY <1>2, <1>3, <1>4, WritesEarn

LEMMA RefundedFollows ==
    ASSUME SalesInv, NEW s \in Sales, NEW amount \in 1 .. Gross,
           NEW products \in Breakdowns(amount)
    PROVE  /\ Follows(earnings[s], RefundedEarnings(s, amount, products), 0)
           /\ RefundedEarnings(s, amount, products).sale = earnings[s].sale
<1>1. earnings[s] \in Ledgers /\ earnings[s].pending >= 0
  BY DEF SalesInv, EarnedInv
<1>2. amount - CommissionReversed(products) \in Nat
  BY SellerShare
<1> QED
  BY <1>1, <1>2, DebitedFollows DEF RefundedEarnings

LEMMA RecordRefundType ==
    ASSUME SalesInv, NEW s \in Sales, NEW amount \in 1 .. Gross, RecordRefund(s, amount)
    PROVE  refunded' \in [Sales -> 0 .. Gross] /\ refunded'[s] # 0
<1>1. refunded[s] \in 0 .. Gross /\ Gross \in Nat
  BY NetNatural DEF SalesInv
<1>2. refunded[s] + amount \in 0 .. Gross /\ refunded[s] + amount # 0
  BY <1>1 DEF RecordRefund
<1>3. refunded' = [refunded EXCEPT ![s] = refunded[s] + amount]
  BY DEF RecordRefund
<1> QED
  BY <1>2, <1>3 DEF SalesInv

LEMMA RefundEarns ==
    ASSUME SalesInv, NEW s \in Sales, NEW amount \in 1 .. Gross,
           NEW products \in Breakdowns(amount), RecordRefund(s, amount), repaired' = repaired,
           \/ SetEarnings(s, RefundedEarnings(s, amount, products))
           \/ Release(s, RefundedEarnings(s, amount, products))
    PROVE  Earns(s)
<1> DEFINE r == RefundedEarnings(s, amount, products)
<1>1. Follows(earnings[s], r, 0) /\ r.sale = earnings[s].sale /\ refunded'[s] # 0
  BY RefundedFollows, RecordRefundType
<1>2. r \in Ledgers /\ r.pending >= 0
  BY <1>1 DEF Follows
<1> HIDE DEF r
<1>3. ASSUME NEW m, Follows(earnings[s], m, 0), m.sale = earnings[s].sale, SetEarnings(s, m)
      PROVE  Earns(s)
  <2>1. m \in Ledgers
    BY <1>3 DEF Follows
  <2>2. Credit(s)' = Credit(s) /\ Credit(s)' \in Nat
    BY <1>3, <2>1, WritesCredit DEF Credit
  <2>3. Credit(s) + 0 <= Credit(s)'
    BY <2>2
  <2>4. /\ earnings[s].sale => m.sale
        /\ refunded'[s] = 0 /\ m.parentKeys = {} => m.available >= earnings[s].available
    BY <1>1, <1>3
  <2>5. 0 \in Nat
    OBVIOUS
  <2> QED
    BY <1>3, <2>2, <2>3, <2>4, <2>5, WritesEarn
<1>4. CASE SetEarnings(s, r)
  BY <1>1, <1>3, <1>4
<1>5. CASE Release(s, r)
  <2> DEFINE m == EarningsReleased(r)
  <2>1. Follows(r, m, 0) /\ m.sale = r.sale
    BY <1>2, ReleasedFollows
  <2>2. SetEarnings(s, m)
    BY <1>5 DEF Release
  <2> HIDE DEF m
  <2>3. /\ earnings[s].pending \in Int /\ earnings[s].available \in Int
        /\ r.pending \in Int /\ r.available \in Int
        /\ m.pending \in Int /\ m.available \in Int
    BY <1>2, <2>1 DEF SalesInv, Ledgers, Follows
  <2>4. Follows(earnings[s], m, 0)
    BY <1>1, <2>1, <2>3 DEF Follows
  <2> QED
    BY <1>1, <1>3, <2>1, <2>2, <2>4
<1> QED
  BY <1>4, <1>5 DEF r

LEMMA SaleStepEarns ==
    ASSUME SalesInv, NEW s \in Sales, SaleStep(s), repaired' = repaired
    PROVE  Earns(s)
<1>0. earnings[s] \in Ledgers /\ earnings[s].pending >= 0 /\ earnings[s].sale \in BOOLEAN
  BY DEF SalesInv, EarnedInv, Ledgers
<1>1. CASE Accredit(s)
  <2>1. CASE earnings' = earnings
    BY <2>1, SameEarns
  <2>2. CASE SetEarnings(s, Credited(earnings[s]))
    <3> DEFINE m == Credited(earnings[s])
               credit == IF earnings[s].sale THEN 0 ELSE Net
    <3>1. Follows(earnings[s], m, credit) /\ m.sale
      BY <1>0, CreditedFollows
    <3>2. m \in Ledgers /\ credit \in Nat
      BY <3>1, NetNatural DEF Follows
    <3>3. SetEarnings(s, m)
      BY <2>2
    <3> HIDE DEF m
    <3>4. /\ Credit(s)' = Net + (IF repaired[s] THEN Net ELSE 0)
          /\ Credit(s)' \in Nat /\ Credit(s) \in Nat
      BY <3>1, <3>2, <3>3, WritesCredit
    <3>5. Credit(s) + credit <= Credit(s)'
      BY <1>0, <3>4, NetNatural DEF Credit
    <3>6. m.available >= earnings[s].available
      <4>1. earnings[s].sale => m = earnings[s]
        BY DEF m, Credited
      <4>2. ~earnings[s].sale => m.available = earnings[s].available
        BY <1>0 DEF m, Credited, Ledgers
      <4>3. earnings[s].available \in Int
        BY <1>0 DEF Ledgers
      <4> QED
        BY <4>1, <4>2, <4>3
    <3> HIDE DEF credit
    <3> QED
      BY <3>1, <3>2, <3>3, <3>4, <3>5, <3>6, WritesEarn
  <2> QED
    BY <1>1, <2>1, <2>2 DEF Accredit
<1>2. CASE CancelUnpaid(s) \/ OpenIssue(s) \/ Continue(s) \/ CloseWithoutRefund(s)
  <2>1. earnings' = earnings
    BY <1>2 DEF CancelUnpaid, OpenIssue, Continue, CloseWithoutRefund
  <2> QED
    BY <2>1, SameEarns
<1>3. CASE Complete(s) \/ CompleteDisputed(s)
  BY <1>3, ReleaseEarns DEF Complete, CompleteDisputed
<1>4. CASE RefundByParent(s)
  <2> DEFINE m == DebitedByParent(earnings[s])
  <2>1. /\ Follows(earnings[s], m, 0) /\ m.sale = earnings[s].sale
        /\ m.parentKeys = {} => m.available = earnings[s].available
    BY <1>0, ParentFollows
  <2>2. SetEarnings(s, m) /\ m \in Ledgers
    BY <1>4, <2>1 DEF RefundByParent, Follows
  <2> HIDE DEF m
  <2>3. Credit(s)' = Credit(s) /\ Credit(s)' \in Nat
    BY <2>1, <2>2, WritesCredit DEF Credit
  <2>4. m.available \in Int
    BY <2>2 DEF Ledgers
  <2> QED
    BY <2>1, <2>2, <2>3, <2>4, WritesEarn
<1>5. ASSUME NEW amount \in 1 .. Gross, NEW products \in Breakdowns(amount),
             \/ PartialRefundDisputed(s, amount, products)
             \/ FullRefundDisputed(s, amount, products)
             \/ Refund(s, amount, products)
      PROVE  Earns(s)
  BY <1>5, RefundEarns DEF PartialRefundDisputed, FullRefundDisputed, Refund
<1> QED
  BY <1>1, <1>2, <1>3, <1>4, <1>5 DEF SaleStep

LEMMA SaleStepTypes ==
    ASSUME SalesInv, NEW s \in Sales, SaleStep(s)
    PROVE  /\ sale' \in [Sales -> SaleStates]
           /\ accredited' \in [Sales -> BOOLEAN]
           /\ openIssue' \in [Sales -> {"NONE", "UNPAID", "PAID"}]
           /\ releasedOnce' \in [Sales -> BOOLEAN]
           /\ refunded' \in [Sales -> 0 .. Gross]
<1> USE DEF SalesInv, SaleStates, MoveSale
<1>1. CASE Accredit(s)
  BY <1>1 DEF Accredit
<1>2. CASE CancelUnpaid(s)
  BY <1>2 DEF CancelUnpaid
<1>3. CASE Complete(s)
  BY <1>3 DEF Complete, Release
<1>4. CASE OpenIssue(s)
  BY <1>4 DEF OpenIssue
<1>5. CASE Continue(s)
  BY <1>5 DEF Continue, CloseIssue
<1>6. CASE CompleteDisputed(s)
  BY <1>6 DEF CompleteDisputed, CloseIssue, Release
<1>7. CASE CloseWithoutRefund(s)
  BY <1>7 DEF CloseWithoutRefund, CloseIssue
<1>8. CASE RefundByParent(s)
  BY <1>8 DEF RefundByParent
<1>9. ASSUME NEW amount \in 1 .. Gross, NEW products \in Breakdowns(amount),
             \/ PartialRefundDisputed(s, amount, products)
             \/ FullRefundDisputed(s, amount, products)
             \/ Refund(s, amount, products)
      PROVE  /\ sale' \in [Sales -> SaleStates]
             /\ accredited' \in [Sales -> BOOLEAN]
             /\ openIssue' \in [Sales -> {"NONE", "UNPAID", "PAID"}]
             /\ releasedOnce' \in [Sales -> BOOLEAN]
             /\ refunded' \in [Sales -> 0 .. Gross]
  <2>1. refunded' \in [Sales -> 0 .. Gross]
    BY <1>9, RecordRefundType DEF PartialRefundDisputed, FullRefundDisputed, Refund
  <2>2. accredited' = accredited
    BY <1>9 DEF PartialRefundDisputed, FullRefundDisputed, Refund
  <2>3. openIssue' \in [Sales -> {"NONE", "UNPAID", "PAID"}]
    BY <1>9 DEF PartialRefundDisputed, FullRefundDisputed, Refund, CloseIssue
  <2>4. sale' \in [Sales -> SaleStates]
    BY <1>9 DEF PartialRefundDisputed, FullRefundDisputed, Refund
  <2>5. releasedOnce' \in [Sales -> BOOLEAN]
    BY <1>9 DEF PartialRefundDisputed, FullRefundDisputed, Refund, Release
  <2> QED
    BY <2>1, <2>2, <2>3, <2>4, <2>5
<1> QED
  BY <1>1, <1>2, <1>3, <1>4, <1>5, <1>6, <1>7, <1>8, <1>9 DEF SaleStep

LEMMA RepairFollows ==
    ASSUME SalesInv, NEW s \in Sales
    PROVE  /\ Follows(earnings[s], RepairedEarnings(s), IF repaired[s] THEN 0 ELSE Net)
           /\ RepairedEarnings(s).sale = earnings[s].sale
           /\ RepairedEarnings(s).available = earnings[s].available
<1> DEFINE l == earnings[s]
<1>1. /\ l \in Ledgers /\ l.pending >= 0 /\ l.pending \in Int /\ l.available \in Int
      /\ Net \in Nat /\ repaired[s] \in BOOLEAN
  BY NetNatural DEF SalesInv, EarnedInv, Ledgers
<1>2. CASE repaired[s]
  BY <1>1, <1>2 DEF RepairedEarnings, Follows
<1>3. CASE ~repaired[s]
  <2>1. RepairedEarnings(s) = [l EXCEPT !.pending = l.pending + Net]
    BY <1>3 DEF RepairedEarnings
  <2> HIDE DEF l
  <2>2. RepairedEarnings(s) \in Ledgers
    <3>1. l.pending + Net \in Int
      BY <1>1
    <3> QED
      BY <1>1, <2>1, <3>1, LedgerWith
  <2>3. /\ RepairedEarnings(s).pending = l.pending + Net
        /\ RepairedEarnings(s).available = l.available
        /\ RepairedEarnings(s).sale = l.sale
        /\ RepairedEarnings(s).parentKeys = l.parentKeys
    BY <1>1, <2>1 DEF Ledgers
  <2>4. Follows(l, RepairedEarnings(s), IF repaired[s] THEN 0 ELSE Net)
    BY <1>1, <1>3, <2>2, <2>3 DEF Follows
  <2> QED
    BY <2>3, <2>4 DEF l
<1> QED
  BY <1>1, <1>2, <1>3

\* The repair's entry raises the credit of its sale, once.
LEMMA RepairCredits ==
    ASSUME SalesInv, NEW s \in Sales, NEW m \in Ledgers, SetEarnings(s, m),
           m.sale = earnings[s].sale, repaired' = [repaired EXCEPT ![s] = TRUE],
           NEW credit, credit = (IF repaired[s] THEN 0 ELSE Net)
    PROVE  /\ Credit(s) + credit <= Credit(s)'
           /\ Credit(s)' \in Nat /\ credit \in Nat
<1>1. earnings'[s] = m /\ repaired'[s] = TRUE
  BY DEF SetEarnings, SalesInv
<1>2. earnings[s].sale \in BOOLEAN /\ repaired[s] \in BOOLEAN
  BY DEF SalesInv, Ledgers
<1>3. Credit(s)' = (IF earnings[s].sale THEN Net ELSE 0) + Net
  BY <1>1 DEF Credit
<1>4. Credit(s) = (IF earnings[s].sale THEN Net ELSE 0) + (IF repaired[s] THEN Net ELSE 0)
  BY DEF Credit
<1>5. CASE earnings[s].sale
  BY <1>2, <1>3, <1>4, <1>5, NetNatural
<1>6. CASE ~earnings[s].sale
  BY <1>2, <1>3, <1>4, <1>6, NetNatural
<1> QED
  BY <1>2, <1>5, <1>6

LEMMA RepairWrites ==
    ASSUME SalesInv, NEW s \in Sales, repaired' = [repaired EXCEPT ![s] = TRUE],
           NEW m, NEW credit, credit = (IF repaired[s] THEN 0 ELSE Net),
           Follows(earnings[s], m, credit), m.sale = earnings[s].sale,
           m.available >= earnings[s].available, SetEarnings(s, m)
    PROVE  Earns(s)
<1>1. m \in Ledgers
  BY DEF Follows
<1>2. /\ Credit(s) + credit <= Credit(s)'
      /\ Credit(s)' \in Nat /\ credit \in Nat
  BY <1>1, RepairCredits
<1> QED
  BY <1>2, WritesEarn

LEMMA RepairEarns ==
    ASSUME SalesInv, NEW s \in Sales, repaired' = [repaired EXCEPT ![s] = TRUE],
           SetEarnings(s, RepairedEarnings(s)) \/ Release(s, RepairedEarnings(s))
    PROVE  Earns(s)
<1> DEFINE r == RepairedEarnings(s)
           credit == IF repaired[s] THEN 0 ELSE Net
<1>1. /\ Follows(earnings[s], r, credit) /\ r.sale = earnings[s].sale
      /\ r.available = earnings[s].available
  BY RepairFollows
<1>2. /\ r \in Ledgers /\ r.pending >= 0 /\ r.pending \in Int /\ r.available \in Int
      /\ earnings[s].pending \in Int /\ earnings[s].available \in Int
      /\ credit \in Nat
  BY <1>1, NetNatural DEF Follows, SalesInv, Ledgers
<1>3. CASE SetEarnings(s, r)
  <2> HIDE DEF r
  <2>1. r.available >= earnings[s].available
    BY <1>1, <1>2
  <2> QED
    BY <1>1, <1>3, <2>1, RepairWrites
<1>4. CASE Release(s, r)
  <2> DEFINE m == EarningsReleased(r)
  <2> HIDE DEF r
  <2>1. Follows(r, m, 0) /\ m.sale = r.sale /\ m.available >= r.available
    BY <1>2, ReleasedFollows
  <2>2. SetEarnings(s, m)
    BY <1>4 DEF Release
  <2> HIDE DEF m
  <2>3. m.pending \in Int /\ m.available \in Int
    BY <2>1 DEF Ledgers, Follows
  <2>4. m.available >= earnings[s].available /\ m.sale = earnings[s].sale
    BY <1>1, <1>2, <2>1, <2>3
  <2>5. Follows(earnings[s], m, credit)
    <3> HIDE DEF credit
    <3> QED
      BY <1>1, <1>2, <2>1, <2>3 DEF Follows
  <2> QED
    BY <2>2, <2>4, <2>5, RepairWrites
<1> QED
  BY <1>3, <1>4

LEMMA ReconcileApplyEarns ==
    ASSUME SalesInv, ReconcileApply
    PROVE  \E s \in Sales :
             /\ Earns(s)
             /\ repaired' = [repaired EXCEPT ![s] = TRUE]
             /\ refunded' = refunded
<1>1. PICK s \in Sales : s = repair.of
  BY DEF ReconcileApply, SalesInv, RepairOK
<1>2. /\ repaired' = [repaired EXCEPT ![s] = TRUE]
      /\ refunded' = refunded
      /\ SetEarnings(s, RepairedEarnings(s)) \/ Release(s, RepairedEarnings(s))
  BY <1>1 DEF ReconcileApply
<1> QED
  BY <1>2, RepairEarns

LEMMA InitSales == Init => SalesInv
<1> SUFFICES ASSUME Init PROVE SalesInv
  OBVIOUS
<1>1. EmptyLedger \in Ledgers /\ EmptyLedger.pending = 0 /\ EmptyLedger.available = 0
      /\ ~EmptyLedger.sale
  BY DEF EmptyLedger, Ledgers
<1>2. Gross \in Nat /\ Net \in Nat
  BY NetNatural
<1>3. EarnedInv
  BY <1>1, <1>2 DEF Init, EarnedInv, Credit
<1>4. repair \in [of : Sales \cup {"NONE"}, release : BOOLEAN] /\ RepairOK
  BY DEF Init, NoRepair, RepairOK
<1> QED
  BY <1>1, <1>2, <1>3, <1>4 DEF Init, SalesInv, SaleStates

LEMMA NextSales ==
    ASSUME SalesInv, [Next]_vars
    PROVE  SalesInv'
<1>1. ASSUME NEW s \in Sales, SaleStep(s), UNCHANGED <<repaired, commandVars>>
      PROVE  SalesInv'
  <2>1. /\ repaired' = repaired /\ listed' = listed /\ repair' = repair
    BY <1>1 DEF commandVars
  <2>2. earnings' \in [Sales -> Ledgers] /\ EarnedInv'
    BY <1>1, <2>1, SaleStepEarns, EarnsKeeps
  <2> QED
    BY <1>1, <2>1, <2>2, SaleStepTypes DEF SalesInv, RepairOK
<1>2. CASE ReconcileApply
  <2>1. PICK s \in Sales : Earns(s) /\ repaired' = [repaired EXCEPT ![s] = TRUE]
    BY <1>2, ReconcileApplyEarns
  <2>2. \A z \in Sales : z # s => repaired'[z] = repaired[z]
    BY <2>1 DEF SalesInv
  <2>3. earnings' \in [Sales -> Ledgers] /\ EarnedInv'
    BY <2>1, <2>2, EarnsKeeps
  <2>4. repaired' \in [Sales -> BOOLEAN] /\ releasedOnce' \in [Sales -> BOOLEAN]
    <3>1. CASE repair.release
      <4>1. PICK b \in BOOLEAN :
              releasedOnce' = [releasedOnce EXCEPT ![repair.of] = releasedOnce[repair.of] \/ b]
        BY <1>2, <3>1 DEF ReconcileApply, Release
      <4> QED
        BY <2>1, <4>1 DEF SalesInv
    <3>2. CASE ~repair.release
      BY <1>2, <2>1, <3>2 DEF SalesInv, ReconcileApply
    <3> QED
      BY <3>1, <3>2
  <2>5. /\ repair' \in [of : Sales \cup {"NONE"}, release : BOOLEAN] /\ RepairOK'
    BY <1>2 DEF ReconcileApply, NoRepair, RepairOK
  <2> QED
    BY <1>2, <2>3, <2>4, <2>5 DEF SalesInv, ReconcileApply
<1>3. ASSUME UNCHANGED <<saleVars, repaired>>,
             /\ listed' \in [Sales -> SaleStates \cup {"NONE"}]
             /\ repair' \in [of : Sales \cup {"NONE"}, release : BOOLEAN]
             /\ RepairOK'
      PROVE  SalesInv'
  BY <1>3 DEF SalesInv, saleVars, EarnedInv, Credit
<1>4. CASE UNCHANGED <<saleVars, repaired, commandVars>>
  <2>1. /\ listed' \in [Sales -> SaleStates \cup {"NONE"}]
        /\ repair' \in [of : Sales \cup {"NONE"}, release : BOOLEAN]
        /\ RepairOK'
    BY <1>4 DEF SalesInv, commandVars, RepairOK
  <2> QED
    BY <1>3, <1>4, <2>1
<1>5. ASSUME ReconcileList \/ (\E s \in Sales : ReconcileRead(s)) \/ ReconcileStops
      PROVE  /\ listed' \in [Sales -> SaleStates \cup {"NONE"}]
             /\ repair' \in [of : Sales \cup {"NONE"}, release : BOOLEAN]
             /\ RepairOK'
  <2>1. CASE ReconcileList
    BY <2>1 DEF ReconcileList, SalesInv, RepairOK
  <2>2. ASSUME NEW s \in Sales, ReconcileRead(s)
        PROVE  /\ listed' \in [Sales -> SaleStates \cup {"NONE"}]
               /\ repair' \in [of : Sales \cup {"NONE"}, release : BOOLEAN]
               /\ RepairOK'
    <3>1. listed' \in [Sales -> SaleStates \cup {"NONE"}]
      BY <2>2 DEF ReconcileRead, SalesInv
    <3> DEFINE needsRelease ==
                 listed[s] = "COMPLETED" /\ earnings[s].pending <= 0 /\ ~releasedOnce[s]
    <3>2. repair' = NoRepair \/ repair' = [of |-> s, release |-> needsRelease]
      BY <2>2 DEF ReconcileRead
    <3>3. CASE repair' = NoRepair
      BY <3>1, <3>3 DEF NoRepair, RepairOK
    <3>4. CASE repair' = [of |-> s, release |-> needsRelease]
      <4>1. needsRelease \in BOOLEAN
        OBVIOUS
      <4> HIDE DEF needsRelease
      <4>2. repair' \in [of : Sales \cup {"NONE"}, release : BOOLEAN] /\ repair'.of = s
        BY <3>4, <4>1
      <4> QED
        BY <3>1, <4>2 DEF RepairOK
    <3> QED
      BY <3>2, <3>3, <3>4
  <2>3. CASE ReconcileStops
    BY <2>3 DEF ReconcileStops, NoRepair, RepairOK
  <2> QED
    BY <1>5, <2>1, <2>2, <2>3
<1>6. CASE UNCHANGED vars
  BY <1>4, <1>6 DEF vars
<1> QED
  BY <1>1, <1>2, <1>3, <1>4, <1>5, <1>6 DEF Next, vars

\* However a sale's completion, issues, refunds and repairs interleave, it
\* never owes from PENDING and never holds more than the ledger credited it.
THEOREM SalesEarnTheirCredits == Spec => []EarnedWithinCredits
<1>1. SalesInv => EarnedWithinCredits
  BY CreditIs DEF SalesInv, EarnedInv, EarnedWithinCredits
<1> QED
  BY <1>1, InitSales, NextSales, PTL DEF Spec

-----------------------------------------------------------------------------
(* The withdrawals.                                                         *)

Open == {"REQUESTED", "PROCESSING"}

\* The entries that go with each status.
KeysOf(status) ==
    {k \in {"available", "reserved"} : status # "NONE"}
        \cup {k \in {"paid-reserved", "paid"} : status = "PAID"}
        \cup {k \in {"rejected-reserved", "rejected-available"} : status = "REJECTED"}

PayoutInv ==
    /\ payout \in [Payouts -> PayoutStates \cup {"NONE"}]
    /\ asked \in [Payouts -> Amounts \cup {0}]
    /\ entries \in [Payouts -> SUBSET EntryKeys]
    /\ \A p \in Payouts :
        /\ entries[p] = KeysOf(payout[p])
        /\ payout[p] # "NONE" => asked[p] \in Amounts

\* PayoutEntries, of a status and an amount.
Taken(status, amount) == IF status \in Open \cup {"PAID"} THEN -amount ELSE 0
Aside(status, amount) == IF status \in Open THEN amount ELSE 0
Given(status, amount) == IF status = "PAID" THEN amount ELSE 0

LEMMA AmountsAreNatural == Amounts \cup {0} \subseteq Nat
<1>1. ASSUME NEW x \in Amounts PROVE x \in Nat
  BY AccountAssumption
<1> QED
  BY <1>1

LEMMA PayoutMeans ==
    ASSUME PayoutInv, NEW p \in Payouts
    PROVE  /\ PayoutEntries(p, "AVAILABLE") = Taken(payout[p], asked[p])
           /\ PayoutEntries(p, "RESERVED") = Aside(payout[p], asked[p])
           /\ PayoutEntries(p, "PAID") = Given(payout[p], asked[p])
           /\ asked[p] \in Nat
<1>1. asked[p] \in Nat /\ payout[p] \in PayoutStates \cup {"NONE"}
  <2>1. asked[p] \in Amounts \cup {0} /\ payout[p] \in PayoutStates \cup {"NONE"}
    BY DEF PayoutInv
  <2> QED
    BY <2>1, AmountsAreNatural
<1>2. entries[p] = KeysOf(payout[p])
  BY DEF PayoutInv
<1>3. \A k \in EntryKeys : Written(p, k) = IF k \in KeysOf(payout[p]) THEN asked[p] ELSE 0
  BY <1>2 DEF Written
<1> QED
  BY <1>1, <1>3 DEF PayoutEntries, KeysOf, EntryKeys, Taken, Aside, Given, Open, PayoutStates

\* The same of the next state.
LEMMA PayoutMeansNext ==
    ASSUME PayoutInv', NEW p \in Payouts
    PROVE  /\ PayoutEntries(p, "AVAILABLE")' = Taken(payout'[p], asked'[p])
           /\ PayoutEntries(p, "RESERVED")' = Aside(payout'[p], asked'[p])
           /\ PayoutEntries(p, "PAID")' = Given(payout'[p], asked'[p])
           /\ asked'[p] \in Nat
<1>1. asked'[p] \in Nat /\ payout'[p] \in PayoutStates \cup {"NONE"}
  <2>1. asked'[p] \in Amounts \cup {0} /\ payout'[p] \in PayoutStates \cup {"NONE"}
    BY DEF PayoutInv
  <2> QED
    BY <2>1, AmountsAreNatural
<1>2. entries'[p] = KeysOf(payout'[p])
  BY DEF PayoutInv
<1>3. \A k \in EntryKeys : Written(p, k)' = IF k \in KeysOf(payout'[p]) THEN asked'[p] ELSE 0
  BY <1>2 DEF Written
<1> QED
  BY <1>1, <1>3 DEF PayoutEntries, KeysOf, EntryKeys, Taken, Aside, Given, Open, PayoutStates

LEMMA KeysAreKeys == ASSUME NEW status PROVE KeysOf(status) \in SUBSET EntryKeys
BY DEF KeysOf, EntryKeys

LEMMA InitPayouts == Init => PayoutInv
BY DEF Init, PayoutInv, KeysOf, PayoutStates

LEMMA PayoutStepKeeps ==
    ASSUME PayoutInv, NEW p \in Payouts, PayoutStep(p)
    PROVE  /\ PayoutInv'
           /\ \A z \in Payouts : z # p => payout'[z] = payout[z] /\ asked'[z] = asked[z]
<1> DEFINE Kept == /\ PayoutInv'
                   /\ \A z \in Payouts : z # p => payout'[z] = payout[z] /\ asked'[z] = asked[z]
<1>1. ASSUME NEW status \in PayoutStates, NEW amount \in Amounts, NEW keys,
             payout' = [payout EXCEPT ![p] = status],
             asked' = [asked EXCEPT ![p] = amount],
             entries' = [entries EXCEPT ![p] = @ \cup keys],
             KeysOf(payout[p]) \cup keys = KeysOf(status)
      PROVE  Kept
  <2>1. /\ payout' \in [Payouts -> PayoutStates \cup {"NONE"}]
        /\ asked' \in [Payouts -> Amounts \cup {0}]
    BY <1>1 DEF PayoutInv
  <2>0. entries' \in [Payouts -> SUBSET EntryKeys] /\ entries'[p] = KeysOf(status)
        /\ \A z \in Payouts : z # p => entries'[z] = entries[z]
    <3>1. entries[p] \cup keys = KeysOf(status)
      BY <1>1 DEF PayoutInv
    <3> QED
      BY <1>1, <3>1, KeysAreKeys DEF PayoutInv
  <2>2. ASSUME NEW z \in Payouts
        PROVE  /\ entries'[z] = KeysOf(payout'[z])
               /\ payout'[z] # "NONE" => asked'[z] \in Amounts
    BY <1>1, <2>0 DEF PayoutInv
  <2>3. \A z \in Payouts : z # p => payout'[z] = payout[z] /\ asked'[z] = asked[z]
    BY <1>1
  <2> QED
    BY <2>0, <2>1, <2>2, <2>3 DEF PayoutInv
<1>2. ASSUME NEW amount \in Amounts, RequestPayout(p, amount)
      PROVE  Kept
  <2>1. KeysOf(payout[p]) \cup {"available", "reserved"} = KeysOf("REQUESTED")
    BY <1>2 DEF RequestPayout, KeysOf
  <2> QED
    BY <1>1, <1>2, <2>1 DEF RequestPayout, Enter, PayoutStates
<1>3. asked' = asked => asked' = [asked EXCEPT ![p] = asked[p]]
  BY DEF PayoutInv
<1>4. payout[p] # "NONE" => asked[p] \in Amounts
  BY DEF PayoutInv
<1>5. CASE ProcessPayout(p)
  <2>1. KeysOf(payout[p]) \cup {} = KeysOf("PROCESSING")
    BY <1>5 DEF ProcessPayout, KeysOf
  <2>2. entries' = [entries EXCEPT ![p] = @ \cup {}]
    BY <1>5 DEF ProcessPayout, PayoutInv
  <2> QED
    BY <1>1, <1>3, <1>4, <1>5, <2>1, <2>2 DEF ProcessPayout, PayoutStates
<1>6. CASE PayPayout(p)
  <2>1. KeysOf(payout[p]) \cup {"paid-reserved", "paid"} = KeysOf("PAID")
    BY <1>6 DEF PayPayout, KeysOf
  <2> QED
    BY <1>1, <1>3, <1>4, <1>6, <2>1 DEF PayPayout, Enter, PayoutStates
<1>7. CASE RejectPayout(p)
  <2>1. KeysOf(payout[p]) \cup {"rejected-reserved", "rejected-available"} = KeysOf("REJECTED")
    BY <1>7 DEF RejectPayout, KeysOf
  <2> QED
    BY <1>1, <1>3, <1>4, <1>7, <2>1 DEF RejectPayout, Enter, PayoutStates
<1> QED
  BY <1>2, <1>5, <1>6, <1>7 DEF PayoutStep

-----------------------------------------------------------------------------
(* The balances, bucket by bucket.                                          *)

LEMMA WithdrawnIs ==
    ASSUME PayoutInv
    PROVE  /\ Withdrawn("AVAILABLE") \in Int
           /\ Withdrawn("RESERVED") \in Int
           /\ Withdrawn("PAID") \in Int
           /\ Withdrawn("RESERVED") + Withdrawn("PAID") = -Withdrawn("AVAILABLE")
<1> DEFINE a == [p \in Payouts |-> PayoutEntries(p, "AVAILABLE")]
           r == [p \in Payouts |-> PayoutEntries(p, "RESERVED")]
           q == [p \in Payouts |-> PayoutEntries(p, "PAID")]
           h == [p \in Payouts |-> r[p] + q[p]]
           z == [p \in Payouts |-> h[p] + a[p]]
<1>1. ASSUME NEW p \in Payouts
      PROVE  /\ a[p] \in Int /\ r[p] \in Int /\ q[p] \in Int
             /\ r[p] + q[p] \in Int
             /\ r[p] + q[p] + a[p] = 0
  BY PayoutMeans DEF Taken, Aside, Given, Open
<1>2. a \in [Payouts -> Int] /\ r \in [Payouts -> Int] /\ q \in [Payouts -> Int]
  BY <1>1
<1>3. h \in [Payouts -> Int] /\ \A p \in Payouts : h[p] = r[p] + q[p]
  BY <1>1
<1>4. z \in [Payouts -> Int] /\ \A p \in Payouts : z[p] = h[p] + a[p]
  BY <1>1
<1>5. \A p \in Payouts : z[p] = 0
  BY <1>1
<1>6. IsFiniteSet(Payouts)
  BY AccountAssumption
<1>7. /\ Withdrawn("AVAILABLE") = SumFunction(a)
      /\ Withdrawn("RESERVED") = SumFunction(r)
      /\ Withdrawn("PAID") = SumFunction(q)
  BY DEF Withdrawn
<1> HIDE DEF a, r, q, h, z
<1>8. SumFunction(h) = SumFunction(r) + SumFunction(q)
  BY <1>2, <1>3, <1>6, SumAdds
<1>9. SumFunction(z) = SumFunction(h) + SumFunction(a)
  <2>1. h \in [Payouts -> Int] /\ a \in [Payouts -> Int]
    BY <1>2, <1>3
  <2> QED
    BY <1>4, <1>6, <2>1, SumAdds
<1>10. SumFunction(z) = 0
  BY <1>4, <1>5, <1>6, SumOfZeros
<1>11. SumFunction(a) \in Int /\ SumFunction(r) \in Int /\ SumFunction(q) \in Int
  BY <1>2, <1>6, SumType
<1> QED
  BY <1>7, <1>8, <1>9, <1>10, <1>11

\* A step of one withdrawal changes the balances by what it adds.
LEMMA WithdrawnChanges ==
    ASSUME PayoutInv, PayoutInv', NEW p \in Payouts,
           \A z \in Payouts : z # p => payout'[z] = payout[z] /\ asked'[z] = asked[z]
    PROVE  /\ Withdrawn("AVAILABLE")' = Withdrawn("AVAILABLE")
                 - Taken(payout[p], asked[p]) + Taken(payout'[p], asked'[p])
           /\ Withdrawn("RESERVED")' = Withdrawn("RESERVED")
                 - Aside(payout[p], asked[p]) + Aside(payout'[p], asked'[p])
           /\ Withdrawn("PAID")' = Withdrawn("PAID")
                 - Given(payout[p], asked[p]) + Given(payout'[p], asked'[p])
<1>1. ASSUME NEW e \in [Payouts -> Int], NEW f \in [Payouts -> Int],
             \A z \in Payouts : z # p => e[z] = f[z]
      PROVE  SumFunction(f) = SumFunction(e) - e[p] + f[p]
  BY <1>1, AccountAssumption, SumChanges
<1>2. \A z \in Payouts : /\ asked[z] \in Nat /\ asked'[z] \in Nat
                         /\ z # p => payout'[z] = payout[z] /\ asked'[z] = asked[z]
  BY PayoutMeans, PayoutMeansNext
<1>3. Withdrawn("AVAILABLE")' = Withdrawn("AVAILABLE")
        - Taken(payout[p], asked[p]) + Taken(payout'[p], asked'[p])
  <2> DEFINE e == [z \in Payouts |-> Taken(payout[z], asked[z])]
             f == [z \in Payouts |-> Taken(payout'[z], asked'[z])]
  <2>1. e \in [Payouts -> Int] /\ f \in [Payouts -> Int]
    BY <1>2 DEF Taken
  <2>2. \A z \in Payouts : z # p => e[z] = f[z]
    BY <1>2
  <2>3. e = [z \in Payouts |-> PayoutEntries(z, "AVAILABLE")]
    BY PayoutMeans
  <2>4. f = [z \in Payouts |-> PayoutEntries(z, "AVAILABLE")']
    BY PayoutMeansNext
  <2>5. Withdrawn("AVAILABLE") = SumFunction(e) /\ Withdrawn("AVAILABLE")' = SumFunction(f)
    BY <2>3, <2>4 DEF Withdrawn
  <2>6. e[p] = Taken(payout[p], asked[p]) /\ f[p] = Taken(payout'[p], asked'[p])
    OBVIOUS
  <2> HIDE DEF e, f
  <2> QED
    BY <1>1, <2>1, <2>2, <2>5, <2>6
<1>4. Withdrawn("RESERVED")' = Withdrawn("RESERVED")
        - Aside(payout[p], asked[p]) + Aside(payout'[p], asked'[p])
  <2> DEFINE e == [z \in Payouts |-> Aside(payout[z], asked[z])]
             f == [z \in Payouts |-> Aside(payout'[z], asked'[z])]
  <2>1. e \in [Payouts -> Int] /\ f \in [Payouts -> Int]
    BY <1>2 DEF Aside
  <2>2. \A z \in Payouts : z # p => e[z] = f[z]
    BY <1>2
  <2>3. e = [z \in Payouts |-> PayoutEntries(z, "RESERVED")]
    BY PayoutMeans
  <2>4. f = [z \in Payouts |-> PayoutEntries(z, "RESERVED")']
    BY PayoutMeansNext
  <2>5. Withdrawn("RESERVED") = SumFunction(e) /\ Withdrawn("RESERVED")' = SumFunction(f)
    BY <2>3, <2>4 DEF Withdrawn
  <2>6. e[p] = Aside(payout[p], asked[p]) /\ f[p] = Aside(payout'[p], asked'[p])
    OBVIOUS
  <2> HIDE DEF e, f
  <2> QED
    BY <1>1, <2>1, <2>2, <2>5, <2>6
<1>5. Withdrawn("PAID")' = Withdrawn("PAID")
        - Given(payout[p], asked[p]) + Given(payout'[p], asked'[p])
  <2> DEFINE e == [z \in Payouts |-> Given(payout[z], asked[z])]
             f == [z \in Payouts |-> Given(payout'[z], asked'[z])]
  <2>1. e \in [Payouts -> Int] /\ f \in [Payouts -> Int]
    BY <1>2 DEF Given
  <2>2. \A z \in Payouts : z # p => e[z] = f[z]
    BY <1>2
  <2>3. e = [z \in Payouts |-> PayoutEntries(z, "PAID")]
    BY PayoutMeans
  <2>4. f = [z \in Payouts |-> PayoutEntries(z, "PAID")']
    BY PayoutMeansNext
  <2>5. Withdrawn("PAID") = SumFunction(e) /\ Withdrawn("PAID")' = SumFunction(f)
    BY <2>3, <2>4 DEF Withdrawn
  <2>6. e[p] = Given(payout[p], asked[p]) /\ f[p] = Given(payout'[p], asked'[p])
    OBVIOUS
  <2> HIDE DEF e, f
  <2> QED
    BY <1>1, <2>1, <2>2, <2>5, <2>6
<1> QED
  BY <1>3, <1>4, <1>5

\* What each handler moves.
LEMMA PayoutMoves ==
    ASSUME PayoutInv, NEW p \in Payouts, PayoutStep(p)
    PROVE  \/ \E amount \in Amounts :
                /\ Available >= amount
                /\ Withdrawn("AVAILABLE")' = Withdrawn("AVAILABLE") - amount
                /\ Withdrawn("RESERVED")' = Withdrawn("RESERVED") + amount
                /\ Withdrawn("PAID")' = Withdrawn("PAID")
           \/ /\ Withdrawn("AVAILABLE")' = Withdrawn("AVAILABLE")
              /\ Withdrawn("RESERVED")' = Withdrawn("RESERVED")
              /\ Withdrawn("PAID")' = Withdrawn("PAID")
           \/ \E amount \in Amounts :
                /\ Withdrawn("AVAILABLE")' = Withdrawn("AVAILABLE")
                /\ Withdrawn("RESERVED")' = Withdrawn("RESERVED") - amount
                /\ Withdrawn("PAID")' = Withdrawn("PAID") + amount
           \/ \E amount \in Amounts :
                /\ Withdrawn("AVAILABLE")' = Withdrawn("AVAILABLE") + amount
                /\ Withdrawn("RESERVED")' = Withdrawn("RESERVED") - amount
                /\ Withdrawn("PAID")' = Withdrawn("PAID")
<1> DEFINE a == asked[p]
           taken == Taken(payout[p], a)
           aside == Aside(payout[p], a)
           given == Given(payout[p], a)
<1>1. /\ Withdrawn("AVAILABLE")' = Withdrawn("AVAILABLE") - taken + Taken(payout'[p], asked'[p])
      /\ Withdrawn("RESERVED")' = Withdrawn("RESERVED") - aside + Aside(payout'[p], asked'[p])
      /\ Withdrawn("PAID")' = Withdrawn("PAID") - given + Given(payout'[p], asked'[p])
  BY PayoutStepKeeps, WithdrawnChanges
<1>2. /\ Withdrawn("AVAILABLE") \in Int /\ Withdrawn("RESERVED") \in Int
      /\ Withdrawn("PAID") \in Int /\ Amounts \subseteq Nat
  BY WithdrawnIs, AccountAssumption
<1>3. a \in Nat /\ (payout[p] # "NONE" => a \in Amounts)
  BY PayoutMeans DEF PayoutInv
<1>4. ASSUME NEW amount \in Amounts, RequestPayout(p, amount)
      PROVE  /\ Available >= amount
             /\ Withdrawn("AVAILABLE")' = Withdrawn("AVAILABLE") - amount
             /\ Withdrawn("RESERVED")' = Withdrawn("RESERVED") + amount
             /\ Withdrawn("PAID")' = Withdrawn("PAID")
  <2>1. payout'[p] = "REQUESTED" /\ asked'[p] = amount /\ payout[p] = "NONE"
    BY <1>4 DEF RequestPayout, PayoutInv
  <2>2. /\ taken = 0 /\ aside = 0 /\ given = 0
        /\ Taken(payout'[p], asked'[p]) = -amount
        /\ Aside(payout'[p], asked'[p]) = amount
        /\ Given(payout'[p], asked'[p]) = 0
    BY <2>1 DEF Taken, Aside, Given, Open
  <2>3. Available >= amount
    BY <1>4 DEF RequestPayout
  <2> HIDE DEF taken, aside, given
  <2> QED
    BY <1>1, <1>2, <2>2, <2>3
<1>5. CASE ProcessPayout(p)
  <2>1. payout'[p] = "PROCESSING" /\ asked'[p] = a /\ payout[p] = "REQUESTED"
    BY <1>5 DEF ProcessPayout, PayoutInv
  <2>2. /\ Taken(payout'[p], asked'[p]) = taken /\ taken \in Int
        /\ Aside(payout'[p], asked'[p]) = aside /\ aside \in Int
        /\ Given(payout'[p], asked'[p]) = given /\ given \in Int
    BY <1>3, <2>1 DEF Taken, Aside, Given, Open
  <2> HIDE DEF taken, aside, given
  <2> QED
    BY <1>1, <1>2, <2>2
<1>6. CASE PayPayout(p)
  <2>1. payout'[p] = "PAID" /\ asked'[p] = a /\ payout[p] = "PROCESSING"
    BY <1>6 DEF PayPayout, PayoutInv
  <2>2. /\ taken = -a /\ aside = a /\ given = 0
        /\ Taken(payout'[p], asked'[p]) = -a
        /\ Aside(payout'[p], asked'[p]) = 0
        /\ Given(payout'[p], asked'[p]) = a
    BY <2>1 DEF Taken, Aside, Given, Open
  <2>3. a \in Amounts
    BY <1>3, <2>1
  <2> HIDE DEF taken, aside, given, a
  <2> QED
    BY <1>1, <1>2, <1>3, <2>2, <2>3
<1>7. CASE RejectPayout(p)
  <2>1. payout'[p] = "REJECTED" /\ asked'[p] = a /\ payout[p] = "PROCESSING"
    BY <1>7 DEF RejectPayout, PayoutInv
  <2>2. /\ taken = -a /\ aside = a /\ given = 0
        /\ Taken(payout'[p], asked'[p]) = 0
        /\ Aside(payout'[p], asked'[p]) = 0
        /\ Given(payout'[p], asked'[p]) = 0
    BY <2>1 DEF Taken, Aside, Given, Open
  <2>3. a \in Amounts
    BY <1>3, <2>1
  <2> HIDE DEF taken, aside, given, a
  <2> QED
    BY <1>1, <1>2, <1>3, <2>2, <2>3
<1> QED
  BY <1>4, <1>5, <1>6, <1>7 DEF PayoutStep

-----------------------------------------------------------------------------
(* The account.                                                             *)

AdjustedInv == adjusted \in [Buckets -> Adjustments \cup {0}]

\* What the sales were credited in all, and an administrator's favour.
CreditSum == SumFunction([s \in Sales |-> Credit(s)])
Favour == IF adjusted["AVAILABLE"] > 0 THEN adjusted["AVAILABLE"] ELSE 0

\* PaidWithinCredits, in terms of AVAILABLE alone.
HeldInv == 0 <= CreditSum + Withdrawn("AVAILABLE") + Favour

AccountInv == SalesInv /\ PayoutInv /\ AdjustedInv /\ HeldInv

LEMMA EarnedSums ==
    ASSUME SalesInv
    PROVE  /\ SumFunction([s \in Sales |-> earnings[s].available]) \in Int
           /\ SumFunction([s \in Sales |-> earnings[s].available]) <= CreditSum
           /\ SumFunction([s \in Sales |-> earnings[s].pending]) \in Int
           /\ CreditSum \in Int
<1> DEFINE a == [s \in Sales |-> earnings[s].available]
           q == [s \in Sales |-> earnings[s].pending]
           c == [s \in Sales |-> Credit(s)]
<1>1. ASSUME NEW s \in Sales
      PROVE  a[s] \in Int /\ q[s] \in Int /\ c[s] \in Int /\ a[s] <= c[s]
  <2>1. earnings[s].pending \in Int /\ earnings[s].available \in Int
    BY DEF SalesInv, Ledgers
  <2>2. earnings[s].pending >= 0 /\ earnings[s].pending + earnings[s].available <= Credit(s)
    BY DEF SalesInv, EarnedInv
  <2>3. Credit(s) \in Nat
    BY CreditIs
  <2> QED
    BY <2>1, <2>2, <2>3
<1>2. a \in [Sales -> Int] /\ q \in [Sales -> Int] /\ c \in [Sales -> Int]
  BY <1>1
<1>3. IsFiniteSet(Sales)
  BY AccountAssumption
<1>4. \A s \in Sales : a[s] <= c[s]
  BY <1>1
<1>5. CreditSum = SumFunction(c)
  BY DEF CreditSum
<1> HIDE DEF a, q, c
<1>6. SumFunction(a) \in Int /\ SumFunction(q) \in Int /\ SumFunction(c) \in Int
  BY <1>2, <1>3, SumType
<1>7. SumFunction(a) <= SumFunction(c)
  BY <1>2, <1>3, <1>4, SumGrows
<1> QED
  BY <1>5, <1>6, <1>7 DEF a, q

LEMMA EarnedSumsNext ==
    ASSUME SalesInv'
    PROVE  CreditSum' \in Int
<1> DEFINE c == [s \in Sales |-> Credit(s)']
<1>1. ASSUME NEW s \in Sales
      PROVE  Credit(s)' \in Int
  BY NetNatural DEF Credit, SalesInv, Ledgers
<1>2. c \in [Sales -> Int] /\ IsFiniteSet(Sales)
  BY <1>1, AccountAssumption
<1>3. CreditSum' = SumFunction(c)
  BY DEF CreditSum
<1> HIDE DEF c
<1> QED
  BY <1>2, <1>3, SumType

LEMMA EarnedNext ==
    ASSUME SalesInv'
    PROVE  SumFunction([s \in Sales |-> earnings'[s].available]) \in Int
<1> DEFINE a == [s \in Sales |-> earnings'[s].available]
<1>1. ASSUME NEW s \in Sales PROVE a[s] \in Int
  BY DEF SalesInv, Ledgers
<1>2. a \in [Sales -> Int] /\ IsFiniteSet(Sales)
  BY <1>1, AccountAssumption
<1> HIDE DEF a
<1>3. SumFunction(a) \in Int
  BY <1>2, SumType
<1> QED
  BY <1>3 DEF a

\* No step takes a credit back.
LEMMA CreditsGrow ==
    ASSUME SalesInv, SalesInv',
           \A s \in Sales : /\ earnings[s].sale => earnings'[s].sale
                            /\ repaired[s] => repaired'[s]
    PROVE  CreditSum <= CreditSum'
<1> DEFINE c == [s \in Sales |-> Credit(s)]
           d == [s \in Sales |-> Credit(s)']
<1>1. ASSUME NEW s \in Sales
      PROVE  c[s] \in Int /\ d[s] \in Int /\ c[s] <= d[s]
  <2>1. /\ earnings[s].sale \in BOOLEAN /\ repaired[s] \in BOOLEAN
        /\ earnings'[s].sale \in BOOLEAN /\ repaired'[s] \in BOOLEAN
    BY DEF SalesInv, Ledgers
  <2> DEFINE x == IF earnings[s].sale THEN Net ELSE 0
             y == IF repaired[s] THEN Net ELSE 0
             u == IF earnings'[s].sale THEN Net ELSE 0
             v == IF repaired'[s] THEN Net ELSE 0
  <2>2. x \in Int /\ y \in Int /\ u \in Int /\ v \in Int /\ x <= u /\ y <= v
    BY <2>1, NetNatural
  <2>3. c[s] = x + y /\ d[s] = u + v
    BY DEF Credit
  <2> HIDE DEF x, y, u, v
  <2> QED
    BY <2>2, <2>3
<1>2. c \in [Sales -> Int] /\ d \in [Sales -> Int] /\ \A s \in Sales : c[s] <= d[s]
  BY <1>1
<1>3. CreditSum = SumFunction(c) /\ CreditSum' = SumFunction(d)
  BY DEF CreditSum
<1>4. IsFiniteSet(Sales)
  BY AccountAssumption
<1> HIDE DEF c, d
<1> QED
  BY <1>2, <1>3, <1>4, SumGrows

\* A step of the sales or of the command.
LEMMA EarningsStep ==
    ASSUME SalesInv, SalesInv', NEW s \in Sales, Earns(s),
           repaired' = repaired \/ repaired' = [repaired EXCEPT ![s] = TRUE]
    PROVE  CreditSum <= CreditSum'
<1>1. PICK m \in Ledgers :
        earnings' = [earnings EXCEPT ![s] = m] /\ (earnings[s].sale => m.sale)
  BY DEF Earns
<1>2. ASSUME NEW z \in Sales
      PROVE  (earnings[z].sale => earnings'[z].sale) /\ (repaired[z] => repaired'[z])
  BY <1>1 DEF SalesInv
<1> QED
  BY <1>2, CreditsGrow

LEMMA AdjustedIs ==
    ASSUME AdjustedInv, NEW b \in Buckets
    PROVE  adjusted[b] \in Int
<1>1. ASSUME NEW x \in Adjustments PROVE x \in Int
  BY AccountAssumption
<1>2. adjusted[b] \in Adjustments \cup {0}
  BY DEF AdjustedInv
<1> QED
  BY <1>1, <1>2

LEMMA AdjustedIsNext ==
    ASSUME AdjustedInv', NEW b \in Buckets
    PROVE  adjusted'[b] \in Int
<1>1. ASSUME NEW x \in Adjustments PROVE x \in Int
  BY AccountAssumption
<1>2. adjusted'[b] \in Adjustments \cup {0}
  BY DEF AdjustedInv
<1> QED
  BY <1>1, <1>2

LEMMA WithdrawnSame ==
    ASSUME UNCHANGED payoutVars
    PROVE  /\ PayoutInv => PayoutInv'
           /\ Withdrawn("AVAILABLE")' = Withdrawn("AVAILABLE")
           /\ Withdrawn("RESERVED")' = Withdrawn("RESERVED")
           /\ Withdrawn("PAID")' = Withdrawn("PAID")
BY DEF payoutVars, PayoutInv, Withdrawn, PayoutEntries, Written

LEMMA WithdrawnIsNext ==
    ASSUME PayoutInv'
    PROVE  Withdrawn("AVAILABLE")' \in Int
<1> DEFINE f == [z \in Payouts |-> Taken(payout'[z], asked'[z])]
<1>1. \A z \in Payouts : /\ PayoutEntries(z, "AVAILABLE")' = Taken(payout'[z], asked'[z])
                         /\ asked'[z] \in Nat
  BY PayoutMeansNext
<1>2. f \in [Payouts -> Int] /\ IsFiniteSet(Payouts)
  BY <1>1, AccountAssumption DEF Taken
<1>3. Withdrawn("AVAILABLE")' = SumFunction(f)
  <2>1. f = [z \in Payouts |-> PayoutEntries(z, "AVAILABLE")']
    BY <1>1
  <2> QED
    BY <2>1 DEF Withdrawn
<1> HIDE DEF f
<1> QED
  BY <1>2, <1>3, SumType

LEMMA InitAccount == Init => AccountInv
<1> SUFFICES ASSUME Init PROVE AccountInv
  OBVIOUS
<1>1. SalesInv /\ PayoutInv
  BY InitSales, InitPayouts
<1>2. AdjustedInv /\ Favour = 0
  BY DEF Init, AdjustedInv, Favour, Buckets
<1>3. Withdrawn("AVAILABLE") = 0
  <2> DEFINE a == [p \in Payouts |-> PayoutEntries(p, "AVAILABLE")]
  <2>1. ASSUME NEW p \in Payouts PROVE a[p] = 0
    BY DEF Init, PayoutEntries, Written
  <2>2. a \in [Payouts -> Int] /\ \A p \in Payouts : a[p] = 0
    BY <2>1
  <2>3. Withdrawn("AVAILABLE") = SumFunction(a) /\ IsFiniteSet(Payouts)
    BY AccountAssumption DEF Withdrawn
  <2> HIDE DEF a
  <2> QED
    BY <2>2, <2>3, SumOfZeros
<1>4. CreditSum = 0
  <2> DEFINE c == [s \in Sales |-> Credit(s)]
  <2>1. ASSUME NEW s \in Sales PROVE c[s] = 0
    BY DEF Init, Credit, EmptyLedger
  <2>2. c \in [Sales -> Int] /\ \A s \in Sales : c[s] = 0
    BY <2>1
  <2>3. CreditSum = SumFunction(c) /\ IsFiniteSet(Sales)
    BY AccountAssumption DEF CreditSum
  <2> HIDE DEF c
  <2> QED
    BY <2>2, <2>3, SumOfZeros
<1> QED
  BY <1>1, <1>2, <1>3, <1>4 DEF AccountInv, HeldInv

LEMMA SalesSame ==
    ASSUME UNCHANGED <<saleVars, repaired>>
    PROVE  CreditSum' = CreditSum
BY DEF saleVars, CreditSum, Credit

LEMMA NextAccount == AccountInv /\ [Next]_vars => AccountInv'
<1> SUFFICES ASSUME AccountInv, [Next]_vars
             PROVE  AccountInv'
  OBVIOUS
<1>1. SalesInv /\ SalesInv' /\ PayoutInv /\ AdjustedInv /\ HeldInv
  BY NextSales DEF AccountInv
<1>2. CreditSum \in Int /\ Withdrawn("AVAILABLE") \in Int /\ adjusted["AVAILABLE"] \in Int
  BY <1>1, EarnedSums, WithdrawnIs, AdjustedIs DEF Buckets
<1>3. ASSUME UNCHANGED <<payoutVars, adjusted>>, CreditSum <= CreditSum', CreditSum' \in Int
      PROVE  AccountInv'
  <2>1. PayoutInv' /\ AdjustedInv' /\ Favour' = Favour
        /\ Withdrawn("AVAILABLE")' = Withdrawn("AVAILABLE")
    BY <1>1, <1>3, WithdrawnSame DEF AdjustedInv, Favour
  <2>2. Favour \in Int
    BY <1>2 DEF Favour
  <2>3. HeldInv'
    BY <1>1, <1>2, <1>3, <2>1, <2>2 DEF HeldInv
  <2> QED
    BY <1>1, <2>1, <2>3 DEF AccountInv
<1>4. CreditSum' \in Int
  BY <1>1, EarnedSumsNext
<1>5. ASSUME NEW s \in Sales, SaleStep(s),
             UNCHANGED <<repaired, payoutVars, adjusted, commandVars>>
      PROVE  AccountInv'
  BY <1>1, <1>3, <1>4, <1>5, SaleStepEarns, EarningsStep
<1>6. CASE ReconcileApply /\ UNCHANGED <<payoutVars, adjusted>>
  BY <1>1, <1>3, <1>4, <1>6, ReconcileApplyEarns, EarningsStep
<1>7. CASE UNCHANGED <<saleVars, repaired, payoutVars, adjusted>>
  <2>1. CreditSum <= CreditSum'
    BY <1>2, <1>7, SalesSame
  <2> QED
    BY <1>3, <1>4, <1>7, <2>1
<1>8. ASSUME NEW p \in Payouts, PayoutStep(p), UNCHANGED <<saleVars, repaired, adjusted>>
      PROVE  AccountInv'
  <2>1. PayoutInv'
    BY <1>1, <1>8, PayoutStepKeeps
  <2>2. CreditSum' = CreditSum /\ Favour' = Favour /\ AdjustedInv'
    BY <1>1, <1>8, SalesSame DEF Favour, AdjustedInv
  <2>3. Withdrawn("AVAILABLE")' >= Withdrawn("AVAILABLE")
          \/ \E amount \in Nat : /\ Available >= amount
                                 /\ Withdrawn("AVAILABLE")' = Withdrawn("AVAILABLE") - amount
    BY <1>1, <1>2, <1>8, PayoutMoves, AmountsAreNatural
  <2>4. /\ Withdrawn("AVAILABLE")' \in Int /\ Favour \in Int /\ Favour >= 0
        /\ Favour >= adjusted["AVAILABLE"]
    <3>1. Withdrawn("AVAILABLE")' \in Int
      BY <2>1, WithdrawnIsNext
    <3> QED
      BY <1>2, <3>1 DEF Favour
  <2>5. HeldInv'
    <3>1. CASE Withdrawn("AVAILABLE")' >= Withdrawn("AVAILABLE")
      BY <1>1, <1>2, <2>2, <2>4, <3>1 DEF HeldInv
    <3>2. ASSUME NEW amount \in Nat, Available >= amount,
                 Withdrawn("AVAILABLE")' = Withdrawn("AVAILABLE") - amount
          PROVE  HeldInv'
      <4> DEFINE earned == SumFunction([s \in Sales |-> earnings[s].available])
      <4>1. earned \in Int /\ earned <= CreditSum
        BY <1>1, EarnedSums
      <4>2. Available = earned + Withdrawn("AVAILABLE") + adjusted["AVAILABLE"]
        BY DEF Available
      <4> HIDE DEF earned
      <4>3. 0 <= CreditSum + (Withdrawn("AVAILABLE") - amount) + Favour
        BY <1>2, <2>4, <3>2, <4>1, <4>2
      <4> QED
        BY <2>2, <3>2, <4>3 DEF HeldInv
    <3> QED
      BY <2>3, <3>1, <3>2
  <2> QED
    BY <1>1, <2>1, <2>2, <2>5 DEF AccountInv
<1>9. ASSUME NEW bucket \in Buckets, NEW amount \in Adjustments, Adjust(bucket, amount),
             UNCHANGED <<saleVars, repaired, payoutVars>>
      PROVE  AccountInv'
  <2>1. AdjustedInv' /\ adjusted["AVAILABLE"] = 0
    BY <1>1, <1>9 DEF Adjust, AdjustedInv, Buckets
  <2>2. CreditSum' = CreditSum /\ PayoutInv'
        /\ Withdrawn("AVAILABLE")' = Withdrawn("AVAILABLE")
    BY <1>1, <1>9, SalesSame, WithdrawnSame
  <2>3. Favour = 0 /\ Favour' \in Nat
    <3>1. adjusted'["AVAILABLE"] \in Int
      BY <2>1, AdjustedIsNext DEF Buckets
    <3> QED
      BY <2>1, <3>1 DEF Favour
  <2>4. HeldInv'
    BY <1>1, <1>2, <2>2, <2>3 DEF HeldInv
  <2> QED
    BY <1>1, <2>1, <2>2, <2>4 DEF AccountInv
<1> QED
  BY <1>5, <1>6, <1>7, <1>8, <1>9 DEF Next, vars

\* What AccountInv consists of, preserved by every step of the account.
THEOREM AccountInvariance == Spec => []AccountInv
BY InitAccount, NextAccount, PTL DEF Spec

\* What was paid or is promised to the affiliate was credited to it first, by
\* its sales or by an administrator.
THEOREM PaidIsCredited == Spec => []PaidWithinCredits
<1>1. ASSUME AccountInv PROVE PaidWithinCredits
  <2>1. SalesInv /\ PayoutInv /\ AdjustedInv /\ HeldInv
    BY <1>1 DEF AccountInv
  <2>2. [s \in Sales |-> Net * Credits(s)] = [s \in Sales |-> Credit(s)]
    BY <2>1, CreditIs
  <2>3. CreditSum = SumFunction([s \in Sales |-> Net * Credits(s)])
    BY <2>2 DEF CreditSum
  <2>4. CreditSum \in Int /\ Withdrawn("AVAILABLE") \in Int
        /\ Withdrawn("RESERVED") + Withdrawn("PAID") = -Withdrawn("AVAILABLE")
        /\ adjusted["AVAILABLE"] \in Int
    BY <2>1, EarnedSums, WithdrawnIs, AdjustedIs DEF Buckets
  <2>5. Favour \in Int
    BY <2>4 DEF Favour
  <2>6. -Withdrawn("AVAILABLE") <= CreditSum + Favour
    BY <2>1, <2>4, <2>5 DEF HeldInv
  <2> QED
    BY <2>3, <2>4, <2>6 DEF PaidWithinCredits, Favour
<1> QED
  BY <1>1, AccountInvariance, PTL

\* The variables of the account keep their types.
THEOREM AccountTypes == Spec => []AccountTypeOK
<1>1. AccountInv => AccountTypeOK
  BY DEF AccountInv, SalesInv, PayoutInv, AdjustedInv, AccountTypeOK
<1> QED
  BY <1>1, AccountInvariance, PTL

\* Every withdrawal's entries say what its status says.
THEOREM EntriesFollowStatus == Spec => []PayoutsBalanced
<1>1. ASSUME AccountInv PROVE PayoutsBalanced
  <2>1. ASSUME NEW p \in Payouts
        PROVE  <<PayoutEntries(p, "AVAILABLE"), PayoutEntries(p, "RESERVED"), PayoutEntries(p, "PAID")>>
                 = CASE payout[p] \in {"NONE", "REJECTED"} -> <<0, 0, 0>>
                     [] payout[p] \in {"REQUESTED", "PROCESSING"} -> <<-asked[p], asked[p], 0>>
                     [] payout[p] = "PAID" -> <<-asked[p], 0, asked[p]>>
    <3>1. /\ PayoutEntries(p, "AVAILABLE") = Taken(payout[p], asked[p])
          /\ PayoutEntries(p, "RESERVED") = Aside(payout[p], asked[p])
          /\ PayoutEntries(p, "PAID") = Given(payout[p], asked[p])
          /\ payout[p] \in PayoutStates \cup {"NONE"}
      BY <1>1, PayoutMeans DEF AccountInv, PayoutInv
    <3> QED
      BY <3>1 DEF Taken, Aside, Given, Open, PayoutStates
  <2> QED
    BY <2>1 DEF PayoutsBalanced
<1> QED
  BY <1>1, AccountInvariance, PTL

-----------------------------------------------------------------------------
(* The refinement: each step is one of Wallet's, or none.                   *)

LEMMA InitWallet == Init => Account!WalletInit
<1> SUFFICES ASSUME Init PROVE Account!WalletInit
  OBVIOUS
<1> DEFINE q == [s \in Sales |-> earnings[s].pending]
           a == [s \in Sales |-> earnings[s].available]
<1>1. \A f \in [Sales -> Int] : (\A s \in Sales : f[s] = 0) => SumFunction(f) = 0
  BY AccountAssumption, SumOfZeros
<1>2. ASSUME NEW s \in Sales PROVE q[s] = 0 /\ a[s] = 0
  BY DEF Init, EmptyLedger
<1>3. q \in [Sales -> Int] /\ a \in [Sales -> Int]
  BY <1>2
<1>4. SumFunction(q) = 0 /\ SumFunction(a) = 0
  <2> HIDE DEF q, a
  <2> QED
    BY <1>1, <1>2, <1>3
<1>5. \A f \in [Payouts -> Int] : (\A p \in Payouts : f[p] = 0) => SumFunction(f) = 0
  BY AccountAssumption, SumOfZeros
<1>6. ASSUME NEW b \in {"AVAILABLE", "RESERVED", "PAID"}
      PROVE  Withdrawn(b) = 0
  <2> DEFINE f == [p \in Payouts |-> PayoutEntries(p, b)]
  <2>1. ASSUME NEW p \in Payouts PROVE f[p] = 0
    BY <1>6 DEF Init, PayoutEntries, Written
  <2>2. f \in [Payouts -> Int]
    BY <2>1
  <2>3. Withdrawn(b) = SumFunction(f)
    BY DEF Withdrawn
  <2> HIDE DEF f
  <2> QED
    BY <1>5, <2>1, <2>2, <2>3
<1>7. \A b \in Buckets : adjusted[b] = 0
  BY DEF Init
<1>8. /\ Pending = SumFunction(q) + adjusted["PENDING"]
      /\ Available = SumFunction(a) + Withdrawn("AVAILABLE") + adjusted["AVAILABLE"]
      /\ Reserved = Withdrawn("RESERVED") + adjusted["RESERVED"]
      /\ PaidOut = Withdrawn("PAID") + adjusted["PAID"]
  BY DEF Pending, Available, Reserved, PaidOut
<1>9. Pending = 0 /\ Available = 0 /\ Reserved = 0 /\ PaidOut = 0
  <2> HIDE DEF q, a
  <2> QED
    BY <1>4, <1>6, <1>7, <1>8 DEF Buckets
<1> QED
  BY <1>9 DEF Account!WalletInit

\* The balances, and those of the next state, in terms of their parts.
LEMMA BalancesAre ==
    ASSUME AccountInv, AccountInv'
    PROVE  \E q \in Int, a \in Int, u \in Int, v \in Int :
             /\ Pending = q + adjusted["PENDING"]
             /\ Available = a + Withdrawn("AVAILABLE") + adjusted["AVAILABLE"]
             /\ Reserved = Withdrawn("RESERVED") + adjusted["RESERVED"]
             /\ PaidOut = Withdrawn("PAID") + adjusted["PAID"]
             /\ Pending' = u + adjusted'["PENDING"]
             /\ Available' = v + Withdrawn("AVAILABLE")' + adjusted'["AVAILABLE"]
             /\ Reserved' = Withdrawn("RESERVED")' + adjusted'["RESERVED"]
             /\ PaidOut' = Withdrawn("PAID")' + adjusted'["PAID"]
             /\ earnings' = earnings => u = q /\ v = a
<1> DEFINE q == [s \in Sales |-> earnings[s].pending]
           a == [s \in Sales |-> earnings[s].available]
           u == [s \in Sales |-> earnings'[s].pending]
           v == [s \in Sales |-> earnings'[s].available]
<1>1. ASSUME NEW s \in Sales
      PROVE  q[s] \in Int /\ a[s] \in Int /\ u[s] \in Int /\ v[s] \in Int
  BY DEF AccountInv, SalesInv, Ledgers
<1>2. /\ q \in [Sales -> Int] /\ a \in [Sales -> Int]
      /\ u \in [Sales -> Int] /\ v \in [Sales -> Int]
  BY <1>1
<1>3. /\ Pending = SumFunction(q) + adjusted["PENDING"]
      /\ Available = SumFunction(a) + Withdrawn("AVAILABLE") + adjusted["AVAILABLE"]
      /\ Reserved = Withdrawn("RESERVED") + adjusted["RESERVED"]
      /\ PaidOut = Withdrawn("PAID") + adjusted["PAID"]
  BY DEF Pending, Available, Reserved, PaidOut
<1>4. /\ Pending' = SumFunction(u) + adjusted'["PENDING"]
      /\ Available' = SumFunction(v) + Withdrawn("AVAILABLE")' + adjusted'["AVAILABLE"]
      /\ Reserved' = Withdrawn("RESERVED")' + adjusted'["RESERVED"]
      /\ PaidOut' = Withdrawn("PAID")' + adjusted'["PAID"]
  BY DEF Pending, Available, Reserved, PaidOut
<1>5. earnings' = earnings => u = q /\ v = a
  OBVIOUS
<1>6. IsFiniteSet(Sales)
  BY AccountAssumption
<1> HIDE DEF q, a, u, v
<1>7. /\ SumFunction(q) \in Int /\ SumFunction(a) \in Int
      /\ SumFunction(u) \in Int /\ SumFunction(v) \in Int
  BY <1>2, <1>6, SumType
<1> QED
  BY <1>3, <1>4, <1>5, <1>7

LEMMA StepsOfWallet ==
    ASSUME AccountInv, AccountInv', [Next]_vars
    PROVE  [Account!WalletNext]_(Account!balances)
<1>1. SalesInv /\ PayoutInv /\ AdjustedInv /\ PayoutInv' /\ AdjustedInv'
  BY DEF AccountInv
<1>2. \A b \in Buckets : adjusted[b] \in Int /\ adjusted'[b] \in Int
  BY <1>1, AdjustedIs, AdjustedIsNext
<1>3. /\ Withdrawn("AVAILABLE") \in Int /\ Withdrawn("RESERVED") \in Int
      /\ Withdrawn("PAID") \in Int
  BY <1>1, WithdrawnIs
<1>4. PICK q \in Int, a \in Int, u \in Int, v \in Int :
             /\ Pending = q + adjusted["PENDING"]
             /\ Available = a + Withdrawn("AVAILABLE") + adjusted["AVAILABLE"]
             /\ Reserved = Withdrawn("RESERVED") + adjusted["RESERVED"]
             /\ PaidOut = Withdrawn("PAID") + adjusted["PAID"]
             /\ Pending' = u + adjusted'["PENDING"]
             /\ Available' = v + Withdrawn("AVAILABLE")' + adjusted'["AVAILABLE"]
             /\ Reserved' = Withdrawn("RESERVED")' + adjusted'["RESERVED"]
             /\ PaidOut' = Withdrawn("PAID")' + adjusted'["PAID"]
             /\ earnings' = earnings => u = q /\ v = a
  BY BalancesAre
<1>5. CASE UNCHANGED <<payoutVars, adjusted>>
  <2>1. /\ Withdrawn("RESERVED")' = Withdrawn("RESERVED")
        /\ Withdrawn("PAID")' = Withdrawn("PAID") /\ adjusted' = adjusted
    BY <1>5, WithdrawnSame
  <2>2. Reserved' = Reserved /\ PaidOut' = PaidOut
    BY <1>4, <2>1
  <2> QED
    BY <2>2 DEF Account!WalletNext, Account!SaleMoves
<1>6. ASSUME NEW p \in Payouts, PayoutStep(p), UNCHANGED <<saleVars, repaired, adjusted>>
      PROVE  [Account!WalletNext]_(Account!balances)
  <2>1. adjusted' = adjusted /\ u = q /\ v = a
    BY <1>4, <1>6 DEF saleVars
  <2>2. Pending' = Pending /\ Pending \in Int /\ Available \in Int
        /\ Reserved \in Int /\ PaidOut \in Int
    BY <1>2, <1>3, <1>4, <2>1 DEF Buckets
  <2>3. /\ adjusted["AVAILABLE"] \in Int /\ adjusted["RESERVED"] \in Int
        /\ adjusted["PAID"] \in Int
    BY <1>2 DEF Buckets
  <2>4. ASSUME NEW amount \in Amounts
        PROVE  amount \in Nat /\ amount > 0
    BY AccountAssumption
  <2>5. ASSUME NEW amount \in Amounts, Available >= amount,
               Withdrawn("AVAILABLE")' = Withdrawn("AVAILABLE") - amount,
               Withdrawn("RESERVED")' = Withdrawn("RESERVED") + amount,
               Withdrawn("PAID")' = Withdrawn("PAID")
        PROVE  Account!Withdraws
    <3>1. /\ Reserved' = Reserved + amount /\ PaidOut' = PaidOut
          /\ Available' = Available - amount
      BY <1>3, <1>4, <2>1, <2>3, <2>4, <2>5
    <3> QED
      BY <2>2, <2>4, <2>5, <3>1 DEF Account!Withdraws
  <2>6. ASSUME Withdrawn("AVAILABLE")' = Withdrawn("AVAILABLE"),
               Withdrawn("RESERVED")' = Withdrawn("RESERVED"),
               Withdrawn("PAID")' = Withdrawn("PAID")
        PROVE  Account!SaleMoves
    BY <1>4, <2>1, <2>6 DEF Account!SaleMoves
  <2>7. ASSUME NEW amount \in Amounts,
               Withdrawn("AVAILABLE")' = Withdrawn("AVAILABLE"),
               Withdrawn("RESERVED")' = Withdrawn("RESERVED") - amount,
               Withdrawn("PAID")' = Withdrawn("PAID") + amount
        PROVE  Account!PaysOut
    <3>1. /\ Reserved' = Reserved - amount /\ PaidOut' = PaidOut + amount
          /\ Available' = Available
      BY <1>3, <1>4, <2>1, <2>3, <2>4, <2>7
    <3> QED
      BY <2>2, <2>4, <3>1 DEF Account!PaysOut
  <2>8. ASSUME NEW amount \in Amounts,
               Withdrawn("AVAILABLE")' = Withdrawn("AVAILABLE") + amount,
               Withdrawn("RESERVED")' = Withdrawn("RESERVED") - amount,
               Withdrawn("PAID")' = Withdrawn("PAID")
        PROVE  Account!GivesBack
    <3>1. /\ Reserved' = Reserved - amount /\ PaidOut' = PaidOut
          /\ Available' = Available + amount
      BY <1>3, <1>4, <2>1, <2>3, <2>4, <2>8
    <3> QED
      BY <2>2, <2>4, <3>1 DEF Account!GivesBack
  <2> QED
    BY <1>1, <1>6, <2>5, <2>6, <2>7, <2>8, PayoutMoves DEF Account!WalletNext
<1>7. ASSUME NEW bucket \in Buckets, NEW amount \in Adjustments, Adjust(bucket, amount),
             UNCHANGED <<saleVars, repaired, payoutVars>>
      PROVE  [Account!WalletNext]_(Account!balances)
  <2>1. /\ Withdrawn("AVAILABLE")' = Withdrawn("AVAILABLE")
        /\ Withdrawn("RESERVED")' = Withdrawn("RESERVED")
        /\ Withdrawn("PAID")' = Withdrawn("PAID") /\ u = q /\ v = a
    BY <1>4, <1>7, WithdrawnSame DEF saleVars
  <2>2. \A b \in Buckets : b # bucket => adjusted'[b] = adjusted[b]
    BY <1>1, <1>7 DEF Adjust, AdjustedInv
  <2>3. \/ bucket # "AVAILABLE" /\ bucket # "RESERVED" /\ bucket # "PAID"
        \/ bucket # "PENDING" /\ bucket # "RESERVED" /\ bucket # "PAID"
        \/ bucket # "PENDING" /\ bucket # "AVAILABLE" /\ bucket # "PAID"
        \/ bucket # "PENDING" /\ bucket # "AVAILABLE" /\ bucket # "RESERVED"
    BY DEF Buckets
  <2>4. /\ bucket # "PENDING" => Pending' = Pending
        /\ bucket # "AVAILABLE" => Available' = Available
        /\ bucket # "RESERVED" => Reserved' = Reserved
        /\ bucket # "PAID" => PaidOut' = PaidOut
    BY <1>4, <2>1, <2>2 DEF Buckets
  <2> QED
    BY <2>3, <2>4 DEF Account!WalletNext, Account!Corrects
<1> QED
  BY <1>5, <1>6, <1>7 DEF Next, vars

\* The affiliate's account implements the abstract account: the ledger of
\* sales, withdrawals and corrections moves its four balances as Wallet says.
THEOREM AccountIsAWallet == Spec => ImplementsWallet
<1>1. AccountInv /\ AccountInv' /\ [Next]_vars => [Account!WalletNext]_(Account!balances)
  BY StepsOfWallet
<1> QED
  BY <1>1, InitWallet, AccountInvariance, PTL DEF Spec, ImplementsWallet, Account!WalletSpec

-----------------------------------------------------------------------------
(* Debts.                                                                   *)

NoRefund == \A s \in Sales : refunded[s] = 0 /\ earnings[s].parentKeys = {}

\* A sale that has no refund after a step had none before it, and its
\* AVAILABLE was not reduced.
LEMMA NoRefundBefore ==
    ASSUME SalesInv, SalesInv', NEW s \in Sales, Earns(s), NoRefund',
           \A z \in Sales : refunded'[z] = 0 => refunded[z] = 0
    PROVE  /\ NoRefund
           /\ SumFunction([z \in Sales |-> earnings[z].available])
                <= SumFunction([z \in Sales |-> earnings[z].available])'
<1>1. PICK m \in Ledgers :
        /\ earnings' = [earnings EXCEPT ![s] = m]
        /\ earnings[s].parentKeys \subseteq m.parentKeys
        /\ refunded'[s] = 0 /\ m.parentKeys = {} => m.available >= earnings[s].available
  BY DEF Earns
<1>2. earnings'[s] = m /\ \A z \in Sales : z # s => earnings'[z] = earnings[z]
  BY <1>1 DEF SalesInv
<1>3. refunded'[s] = 0 /\ m.parentKeys = {}
  BY <1>2 DEF NoRefund
<1>4. ASSUME NEW z \in Sales
      PROVE  refunded[z] = 0 /\ earnings[z].parentKeys = {}
  <2>1. refunded'[z] = 0 /\ earnings'[z].parentKeys = {}
    BY DEF NoRefund
  <2>2. CASE z = s
    BY <1>1, <1>3, <2>1, <2>2
  <2>3. CASE z # s
    BY <1>2, <2>1, <2>3
  <2> QED
    BY <2>2, <2>3
<1> DEFINE a == [z \in Sales |-> earnings[z].available]
           b == [z \in Sales |-> earnings'[z].available]
<1>5. ASSUME NEW z \in Sales
      PROVE  a[z] \in Int /\ b[z] \in Int /\ a[z] <= b[z]
  <2>1. earnings[z] \in Ledgers /\ earnings'[z] \in Ledgers
    BY DEF SalesInv
  <2>2. earnings[z].available \in Int /\ earnings'[z].available \in Int
    BY <2>1 DEF Ledgers
  <2>3. CASE z = s
    BY <1>1, <1>2, <1>3, <2>2, <2>3
  <2>4. CASE z # s
    BY <1>2, <2>2, <2>4
  <2> QED
    BY <2>2, <2>3, <2>4
<1>6. a \in [Sales -> Int] /\ b \in [Sales -> Int] /\ \A z \in Sales : a[z] <= b[z]
  BY <1>5
<1>7. SumFunction(a) <= SumFunction(b)
  <2> HIDE DEF a, b
  <2> QED
    BY <1>6, AccountAssumption, SumGrows
<1> QED
  BY <1>4, <1>7 DEF NoRefund

LEMMA RefundsStay ==
    ASSUME SalesInv, NEW s \in Sales, SaleStep(s)
    PROVE  \A z \in Sales : refunded'[z] = 0 => refunded[z] = 0
<1>1. ASSUME NEW amount \in 1 .. Gross, RecordRefund(s, amount)
      PROVE  \A z \in Sales : refunded'[z] = 0 => refunded[z] = 0
  <2>1. refunded'[s] # 0
    BY <1>1, RecordRefundType
  <2>2. \A z \in Sales : z # s => refunded'[z] = refunded[z]
    BY <1>1 DEF RecordRefund, SalesInv
  <2> QED
    BY <2>1, <2>2
<1>2. \/ refunded' = refunded
      \/ \E amount \in 1 .. Gross : RecordRefund(s, amount)
  BY DEF SaleStep, Accredit, CancelUnpaid, Complete, OpenIssue, Continue, CompleteDisputed,
         CloseWithoutRefund, RefundByParent, PartialRefundDisputed, FullRefundDisputed, Refund
<1> QED
  BY <1>1, <1>2

DebtInv == NoRefund /\ adjusted["AVAILABLE"] >= 0 => Available >= 0

LEMMA NextDebt ==
    ASSUME AccountInv, AccountInv', DebtInv, [Next]_vars
    PROVE  DebtInv'
<1> SUFFICES ASSUME NoRefund', adjusted'["AVAILABLE"] >= 0
             PROVE  Available' >= 0
  BY DEF DebtInv
<1> DEFINE earned == SumFunction([s \in Sales |-> earnings[s].available])
           earned1 == SumFunction([s \in Sales |-> earnings'[s].available])
           withdrawn == Withdrawn("AVAILABLE")
           withdrawn1 == Withdrawn("AVAILABLE")'
<1>1. SalesInv /\ SalesInv' /\ PayoutInv /\ PayoutInv' /\ AdjustedInv /\ AdjustedInv'
  BY DEF AccountInv
<1>2. /\ Available = earned + withdrawn + adjusted["AVAILABLE"]
      /\ Available' = earned1 + withdrawn1 + adjusted'["AVAILABLE"]
  BY DEF Available
<1>3. withdrawn \in Int /\ adjusted["AVAILABLE"] \in Int /\ earned \in Int
      /\ adjusted'["AVAILABLE"] \in Int
  BY <1>1, WithdrawnIs, AdjustedIs, AdjustedIsNext, EarnedSums DEF Buckets
<1>4. ASSUME NEW s \in Sales, Earns(s), UNCHANGED <<payoutVars, adjusted>>,
             \A z \in Sales : refunded'[z] = 0 => refunded[z] = 0
      PROVE  Available' >= 0
  <2>1. NoRefund /\ earned <= earned1
    BY <1>1, <1>4, NoRefundBefore
  <2>2. withdrawn1 = withdrawn /\ adjusted' = adjusted
    BY <1>4, WithdrawnSame
  <2>3. earned + withdrawn + adjusted["AVAILABLE"] >= 0
    BY <1>2, <2>1, <2>2 DEF DebtInv
  <2>4. earned1 \in Int
    BY <1>1, EarnedNext
  <2> HIDE DEF earned, earned1, withdrawn, withdrawn1
  <2> QED
    BY <1>2, <1>3, <2>1, <2>2, <2>3, <2>4
<1>5. ASSUME UNCHANGED <<saleVars, repaired>>
      PROVE  NoRefund /\ earned1 = earned
  BY <1>5 DEF saleVars, NoRefund
<1>6. CASE UNCHANGED <<saleVars, repaired, payoutVars, adjusted>>
  <2>1. NoRefund /\ earned1 = earned /\ withdrawn1 = withdrawn /\ adjusted' = adjusted
    BY <1>5, <1>6, WithdrawnSame
  <2> HIDE DEF earned, earned1, withdrawn, withdrawn1
  <2> QED
    BY <1>2, <1>3, <2>1 DEF DebtInv
<1>7. ASSUME NEW p \in Payouts, PayoutStep(p), UNCHANGED <<saleVars, repaired, adjusted>>
      PROVE  Available' >= 0
  <2>1. NoRefund /\ earned1 = earned /\ adjusted' = adjusted
    BY <1>5, <1>7
  <2>2. earned + withdrawn + adjusted["AVAILABLE"] >= 0
    BY <1>2, <2>1 DEF DebtInv
  <2>3. \/ withdrawn1 = withdrawn
        \/ \E amount \in Nat : Available >= amount /\ withdrawn1 = withdrawn - amount
        \/ \E amount \in Nat : withdrawn1 = withdrawn + amount
    BY <1>1, <1>7, PayoutMoves, AmountsAreNatural
  <2> HIDE DEF earned, earned1, withdrawn, withdrawn1
  <2> QED
    BY <1>2, <1>3, <2>1, <2>2, <2>3
<1>8. ASSUME NEW bucket \in Buckets, NEW amount \in Adjustments, Adjust(bucket, amount),
             UNCHANGED <<saleVars, repaired, payoutVars>>
      PROVE  Available' >= 0
  <2>1. NoRefund /\ earned1 = earned /\ withdrawn1 = withdrawn
    BY <1>5, <1>8, WithdrawnSame
  <2>2. adjusted["AVAILABLE"] = 0
    BY <1>8 DEF Adjust, Buckets
  <2> HIDE DEF earned, earned1, withdrawn, withdrawn1
  <2> QED
    BY <1>2, <1>3, <2>1, <2>2 DEF DebtInv
<1>9. CASE ReconcileApply /\ UNCHANGED <<payoutVars, adjusted>>
  <2>1. PICK s \in Sales : Earns(s) /\ refunded' = refunded
    BY <1>1, <1>9, ReconcileApplyEarns
  <2> QED
    BY <1>4, <1>9, <2>1
<1>10. ASSUME NEW s \in Sales, SaleStep(s),
              UNCHANGED <<repaired, payoutVars, adjusted, commandVars>>
       PROVE  Available' >= 0
  BY <1>1, <1>4, <1>10, SaleStepEarns, RefundsStay
<1> QED
  BY <1>6, <1>7, <1>8, <1>9, <1>10 DEF Next, vars

\* An affiliate owes the store only after a refund or a negative correction:
\* withdrawals asked for at once never take more than there is.
THEOREM NoDebtWithoutRefund == Spec => []DebtNeedsRefund
<1>1. Init => DebtInv
  <2> SUFFICES ASSUME Init PROVE DebtInv
    OBVIOUS
  <2>1. Available = 0
    BY InitWallet DEF Account!WalletInit
  <2> QED
    BY <2>1 DEF DebtInv
<1>2. AccountInv /\ AccountInv' /\ DebtInv /\ [Next]_vars => DebtInv'
  BY NextDebt
<1>3. DebtInv => DebtNeedsRefund
  BY DEF DebtInv, NoRefund, DebtNeedsRefund
<1> QED
  BY <1>1, <1>2, <1>3, AccountInvariance, PTL DEF Spec

=============================================================================
