------------------------------- MODULE ListFacts -------------------------------
(***************************************************************************)
(* Facts about lists that the other proofs need and the library does not   *)
(* have.  The Min and Max of FiniteSetsExt are what their names say, for   *)
(* sets of natural numbers: so a search in an array (SelectInSeq) finds    *)
(* what is there.  A walk over a list (FoldLeft) is one step after the     *)
(* other, and what every step keeps, the walk keeps (WalkIsIn, UpTo).      *)
(* A sum over a set of positions (MapThenSumSet) is the same in every      *)
(* order.                                                                  *)
(***************************************************************************)
EXTENDS Integers, FiniteSetsExt, TLAPS, WellFoundedInduction

\* The order of the natural numbers, as a relation.
Less == {ss \in Nat \X Nat : ss[1] < ss[2]}

\* The order of the natural numbers has no infinite descent.
LEMMA LessIsWellFounded == IsWellFoundedOn(Less, Nat)
  BY NatLessThanWellFounded, Zenon DEF OpToRel, Less

\* A set of naturals has a minimum.
LEMMA MinExists ==
    ASSUME NEW S \in SUBSET Nat, S # {}
    PROVE  Min(S) \in S /\ \A y \in S : Min(S) =< y
<1>1. PICK x \in S : \A y \in S : ~(<<y, x>> \in Less)
  BY WFMin, LessIsWellFounded
<1>2. ASSUME NEW y \in S PROVE x =< y
  <2>1. x \in Nat /\ y \in Nat /\ ~(<<y, x>> \in Less)
    BY <1>1
  <2>2. <<y, x>> \in Nat \X Nat /\ <<y, x>>[1] = y /\ <<y, x>>[2] = x
    BY <2>1
  <2>3. ~(y < x)
    BY <2>1, <2>2 DEF Less
  <2> QED BY <2>1, <2>3
<1> QED BY <1>2 DEF Min

\* A bounded set of naturals has a maximum.
LEMMA MaxExists ==
    ASSUME NEW n \in Nat, NEW S \in SUBSET (0 .. n), S # {}
    PROVE  Max(S) \in S /\ \A y \in S : Max(S) >= y
<1> DEFINE T == {k \in 0 .. n : n - k \in S}
<1>0. \A x \in S : x \in 0 .. n /\ n - x \in 0 .. n /\ n - (n - x) = x
  OBVIOUS
<1>1. T \in SUBSET Nat /\ T # {}
  <2>1. PICK x \in S : TRUE
    OBVIOUS
  <2>2. n - x \in T
    BY <1>0
  <2>3. \A k \in T : k \in Nat
    OBVIOUS
  <2> QED BY <2>2, <2>3
<1> HIDE DEF T
<1>2. Min(T) \in T /\ \A y \in T : Min(T) =< y
  BY <1>1, MinExists
<1>3. PICK x \in S : x = n - Min(T)
  BY <1>2 DEF T
<1>4. Min(T) \in 0 .. n
  BY <1>2 DEF T
<1>5. \A y \in S : x >= y
  <2> TAKE y \in S
  <2>1. n - y \in T
    BY <1>0 DEF T
  <2>2. Min(T) =< n - y
    BY <2>1, <1>2
  <2> QED BY <2>2, <1>3, <1>4, <1>0
<1> QED BY <1>5 DEF Max

\* Induction up to n: what holds of 0 and passes from k to k + 1 holds of n.
LEMMA UpTo ==
    ASSUME NEW n \in Nat, NEW G, 0 \in G, \A k \in 0 .. n - 1 : k \in G => k + 1 \in G
    PROVE  n \in G
<1> SUFFICES ASSUME n \notin G PROVE FALSE
  OBVIOUS
<1> DEFINE B == {k \in 0 .. n : k \notin G}
<1>1. B \in SUBSET Nat /\ B # {}
  OBVIOUS
<1> DEFINE m == Min(B)
<1>2. m \in B /\ \A y \in B : m =< y
  BY <1>1, MinExists
<1> HIDE DEF m
<1>3. m \in 1 .. n /\ m - 1 \in 0 .. n - 1
  BY <1>2
<1>4. m - 1 \in G
  BY <1>2, <1>3
<1> QED BY <1>2, <1>3, <1>4

\* The first k positions of a list: the last one, and the others.
LEMMA FirstPositions ==
    ASSUME NEW k \in Nat, k > 0
    PROVE  Max(1 .. k) = k /\ (1 .. k) \ {k} = 1 .. k - 1 /\ 1 .. k # {}
<1>1. 1 .. k \in SUBSET (0 .. k) /\ 1 .. k # {}
  OBVIOUS
<1>2. Max(1 .. k) \in 1 .. k /\ \A y \in 1 .. k : Max(1 .. k) >= y
  BY <1>1, MaxExists
<1>3. Max(1 .. k) = k
  BY <1>2
<1> QED BY <1>1, <1>3

(***************************************************************************)
(* A walk through a list, as FoldLeft defines it: the value after a set s  *)
(* of positions is the step from the value after s without its last one.   *)
(* F[<<t, k>>] is the step from t at position k.  A walk that stays in a   *)
(* set T has a value; a walk is the function that FoldLeft chooses.        *)
(***************************************************************************)
WalkExists(F, base, T, k) ==
    \E g \in [SUBSET (1 .. k) -> T] :
        \A s \in SUBSET (1 .. k) :
            g[s] = IF s = {} THEN base ELSE F[<<g[s \ {Max(s)}], Max(s)>>]

\* One position more.
LEMMA WalkExtends ==
    ASSUME NEW n \in Nat, NEW T, NEW base \in T, NEW F \in [T \X (1 .. n) -> T],
           NEW k \in 0 .. n - 1, WalkExists(F, base, T, k)
    PROVE  WalkExists(F, base, T, k + 1)
<1>1. PICK g \in [SUBSET (1 .. k) -> T] :
          \A s \in SUBSET (1 .. k) :
              g[s] = IF s = {} THEN base ELSE F[<<g[s \ {Max(s)}], Max(s)>>]
  BY DEF WalkExists
<1> DEFINE h == [s \in SUBSET (1 .. k + 1) |->
                    IF k + 1 \in s THEN F[<<g[s \ {k + 1}], k + 1>>] ELSE g[s]]
<1>2. ASSUME NEW s \in SUBSET (1 .. k + 1)
      PROVE  /\ h[s] \in T
             /\ h[s] = IF s = {} THEN base ELSE F[<<h[s \ {Max(s)}], Max(s)>>]
  <2>1. CASE k + 1 \in s
    <3>1. s \in SUBSET (0 .. k + 1) /\ k + 1 \in Nat /\ s # {}
      BY <2>1
    <3>2. Max(s) \in s /\ \A y \in s : Max(s) >= y
      BY <3>1, MaxExists
    <3>3. Max(s) = k + 1
      <4>1. Max(s) >= k + 1 /\ Max(s) \in 1 .. k + 1
        BY <3>2, <2>1
      <4> QED BY <4>1
    <3>4. s \ {k + 1} \in SUBSET (1 .. k) /\ k + 1 \notin s \ {k + 1}
      OBVIOUS
    <3>5. s \ {k + 1} \in SUBSET (1 .. k + 1)
      OBVIOUS
    <3>6. h[s \ {k + 1}] = g[s \ {k + 1}] /\ g[s \ {k + 1}] \in T
      BY <3>4, <3>5
    <3>7. h[s] = F[<<g[s \ {k + 1}], k + 1>>]
      BY <2>1
    <3>8. <<g[s \ {k + 1}], k + 1>> \in T \X (1 .. n)
      BY <3>6
    <3> HIDE DEF h
    <3>9. F[<<g[s \ {k + 1}], k + 1>>] \in T
      BY <3>8
    <3> QED BY <3>1, <3>3, <3>6, <3>7, <3>9
  <2>2. CASE k + 1 \notin s
    <3>1. s \in SUBSET (1 .. k)
      BY <2>2
    <3>2. h[s] = g[s] /\ g[s] \in T
      BY <2>2, <3>1
    <3>3. CASE s = {}
      <4>1. g[s] = base
        BY <3>3, <3>1, <1>1
      <4> HIDE DEF h
      <4> QED BY <3>2, <4>1, <3>3
    <3>4. CASE s # {}
      <4>3. s \ {Max(s)} \in SUBSET (1 .. k + 1) /\ k + 1 \notin s \ {Max(s)}
        BY <2>2
      <4>4. h[s \ {Max(s)}] = g[s \ {Max(s)}]
        BY <4>3
      <4>5. g[s] = F[<<g[s \ {Max(s)}], Max(s)>>]
        BY <1>1, <3>1, <3>4
      <4> HIDE DEF h
      <4> QED BY <3>2, <3>4, <4>4, <4>5
    <3> QED BY <3>3, <3>4
  <2> QED BY <2>1, <2>2
<1>3. h \in [SUBSET (1 .. k + 1) -> T]
  <2>1. \A s \in SUBSET (1 .. k + 1) : h[s] \in T
    BY <1>2
  <2> QED BY <2>1
<1> HIDE DEF h
<1>4. \A s \in SUBSET (1 .. k + 1) :
          h[s] = IF s = {} THEN base ELSE F[<<h[s \ {Max(s)}], Max(s)>>]
  BY <1>2
<1> QED BY <1>3, <1>4 DEF WalkExists

\* The walk that FoldLeft chooses exists.
LEMMA WalkHasValue ==
    ASSUME NEW n \in Nat, NEW T, NEW base \in T, NEW F \in [T \X (1 .. n) -> T]
    PROVE  WalkExists(F, base, T, n)
<1> DEFINE G == {k \in 0 .. n : WalkExists(F, base, T, k)}
<1>1. WalkExists(F, base, T, 0)
  <2> DEFINE g == [s \in SUBSET (1 .. 0) |-> base]
  <2>1. 1 .. 0 = {}
    OBVIOUS
  <2>2. g \in [SUBSET (1 .. 0) -> T]
    OBVIOUS
  <2>3. \A s \in SUBSET (1 .. 0) : s = {} /\ g[s] = base
    BY <2>1
  <2>4. \A s \in SUBSET (1 .. 0) :
            g[s] = IF s = {} THEN base ELSE F[<<g[s \ {Max(s)}], Max(s)>>]
    BY <2>3
  <2> HIDE DEF g
  <2> QED BY <2>2, <2>4 DEF WalkExists
<1>2. 0 \in G
  BY <1>1
<1>3. \A k \in 0 .. n - 1 : k \in G => k + 1 \in G
  <2> SUFFICES ASSUME NEW k \in 0 .. n - 1, k \in G PROVE k + 1 \in G
    OBVIOUS
  <2>1. WalkExists(F, base, T, k + 1)
    BY WalkExtends
  <2> QED BY <2>1
<1> HIDE DEF G
<1>4. n \in G
  BY <1>2, <1>3, UpTo
<1> QED BY <1>4 DEF G

\* A property of the values that every step keeps holds at the end of a walk.
LEMMA WalkKeeps ==
    ASSUME NEW n \in Nat, NEW T, NEW h, h[{}] \in T,
           \A k \in 1 .. n : h[1 .. k - 1] \in T => h[1 .. k] \in T
    PROVE  h[1 .. n] \in T
<1> DEFINE G == {k \in 0 .. n : h[1 .. k] \in T}
<1>1. 0 \in G
  <2>1. 1 .. 0 = {}
    OBVIOUS
  <2> QED BY <2>1
<1>2. \A k \in 0 .. n - 1 : k \in G => k + 1 \in G
  <2> SUFFICES ASSUME NEW k \in 0 .. n - 1, k \in G PROVE k + 1 \in G
    OBVIOUS
  <2>1. k + 1 \in 1 .. n /\ (k + 1) - 1 = k
    OBVIOUS
  <2>2. h[1 .. k + 1] \in T
    BY <2>1
  <2> QED BY <2>1, <2>2
<1> HIDE DEF G
<1>3. n \in G
  BY <1>1, <1>2, UpTo
<1> QED BY <1>3 DEF G

(***************************************************************************)
(* A sum over a set, as MapThenSumSet defines it, takes the elements in an *)
(* order it does not say.  For positive weights W of 0 .. n - 1 there is a *)
(* sum that may be taken in any order, and it is the only one.             *)
(***************************************************************************)
IsSum(W, k, g) ==
    /\ g \in [SUBSET (0 .. k - 1) -> Nat]
    /\ g[{}] = 0
    /\ \A s \in SUBSET (0 .. k - 1) : \A x \in s : g[s] = W[x] + g[s \ {x}]

\* One element more.
LEMMA SumExtends ==
    ASSUME NEW n \in Nat, NEW W \in [0 .. n - 1 -> Nat \ {0}], NEW k \in 0 .. n - 1,
           NEW g, IsSum(W, k, g)
    PROVE  \E h : IsSum(W, k + 1, h)
<1> DEFINE h == [s \in SUBSET (0 .. k) |-> IF k \in s THEN W[k] + g[s \ {k}] ELSE g[s]]
<1>0. W[k] \in Nat /\ (k + 1) - 1 = k
  OBVIOUS
<1>1. ASSUME NEW s \in SUBSET (0 .. k)
      PROVE  /\ k \in s => /\ s \ {k} \in SUBSET (0 .. k - 1)
                           /\ h[s] = W[k] + g[s \ {k}] /\ g[s \ {k}] \in Nat
             /\ k \notin s => s \in SUBSET (0 .. k - 1) /\ h[s] = g[s] /\ g[s] \in Nat
  <2>1. CASE k \in s
    <3>1. s \ {k} \in SUBSET (0 .. k - 1)
      OBVIOUS
    <3> QED BY <2>1, <3>1 DEF IsSum
  <2>2. CASE k \notin s
    <3>1. s \in SUBSET (0 .. k - 1)
      BY <2>2
    <3> QED BY <2>2, <3>1 DEF IsSum
  <2> QED BY <2>1, <2>2
<1>2. h \in [SUBSET (0 .. k) -> Nat]
  <2>1. ASSUME NEW s \in SUBSET (0 .. k) PROVE h[s] \in Nat
    <3> HIDE DEF h
    <3>1. CASE k \in s
      <4>1. h[s] = W[k] + g[s \ {k}] /\ g[s \ {k}] \in Nat
        BY <3>1, <1>1
      <4> QED BY <4>1, <1>0
    <3>2. CASE k \notin s
      BY <3>2, <1>1
    <3> QED BY <3>1, <3>2
  <2> QED BY <2>1
<1>3. h[{}] = 0
  BY DEF IsSum
<1> HIDE DEF h
<1>4. ASSUME NEW s \in SUBSET (0 .. k), NEW x \in s PROVE h[s] = W[x] + h[s \ {x}]
  <2>0. s \ {x} \in SUBSET (0 .. k) /\ x \in 0 .. k /\ W[x] \in Nat
    OBVIOUS
  <2>1. CASE k \notin s
    <3>1. k \notin s \ {x} /\ s \in SUBSET (0 .. k - 1)
      BY <2>1
    <3>2. h[s] = g[s] /\ h[s \ {x}] = g[s \ {x}]
      BY <1>1, <2>0, <2>1, <3>1
    <3> QED BY <3>1, <3>2 DEF IsSum
  <2>2. CASE k \in s /\ x = k
    <3>1. h[s] = W[k] + g[s \ {k}]
      BY <1>1, <2>2
    <3>2. h[s \ {x}] = g[s \ {k}]
      BY <1>1, <2>2, <2>0
    <3> QED BY <3>1, <3>2, <2>2
  <2>3. CASE k \in s /\ x # k
    <3>1. s \ {k} \in SUBSET (0 .. k - 1) /\ x \in s \ {k}
      BY <2>3
    <3>2. h[s] = W[k] + g[s \ {k}]
      BY <1>1, <2>3
    <3>3. g[s \ {k}] = W[x] + g[(s \ {k}) \ {x}]
      BY <3>1 DEF IsSum
    <3>4. h[s \ {x}] = W[k] + g[(s \ {x}) \ {k}] /\ g[(s \ {x}) \ {k}] \in Nat
      BY <1>1, <2>0, <2>3
    <3>5. (s \ {x}) \ {k} = (s \ {k}) \ {x}
      OBVIOUS
    <3>6. h[s \ {x}] = W[k] + g[(s \ {k}) \ {x}] /\ g[(s \ {k}) \ {x}] \in Nat
      BY <3>4, <3>5
    <3>7. h[s] = W[k] + (W[x] + g[(s \ {k}) \ {x}])
      BY <3>2, <3>3
    <3> HIDE <3>4
    <3> QED BY <3>6, <3>7, <2>0, <1>0
  <2> QED BY <2>1, <2>2, <2>3
<1>5. IsSum(W, k + 1, h)
  BY <1>0, <1>2, <1>3, <1>4 DEF IsSum
<1> QED BY <1>5

\* There is a sum.
LEMMA SumExists ==
    ASSUME NEW n \in Nat, NEW W \in [0 .. n - 1 -> Nat \ {0}]
    PROVE  \E g : IsSum(W, n, g)
<1> DEFINE G == {k \in 0 .. n : \E g : IsSum(W, k, g)}
<1>1. 0 \in G
  <2> DEFINE g == [s \in SUBSET (0 .. 0 - 1) |-> 0]
  <2>1. 0 .. 0 - 1 = {}
    OBVIOUS
  <2>2. IsSum(W, 0, g)
    BY <2>1 DEF IsSum
  <2> QED BY <2>2
<1>2. \A k \in 0 .. n - 1 : k \in G => k + 1 \in G
  <2> SUFFICES ASSUME NEW k \in 0 .. n - 1, k \in G PROVE k + 1 \in G
    OBVIOUS
  <2>1. PICK g : IsSum(W, k, g)
    OBVIOUS
  <2>2. \E h : IsSum(W, k + 1, h)
    BY <2>1, SumExtends
  <2> QED BY <2>2
<1> HIDE DEF G
<1>3. n \in G
  BY <1>1, <1>2, UpTo
<1> QED BY <1>3 DEF G

SomeOrder(W, S, h) ==
    /\ h[{}] = 0
    /\ \A s \in SUBSET S : s # {} => \E x \in s : h[s] = W[x] + h[s \ {x}]

\* A sum that takes the elements of its set in some order is this sum.
LEMMA SumIsUnique ==
    ASSUME NEW n \in Nat, NEW W \in [0 .. n - 1 -> Nat \ {0}], NEW g, IsSum(W, n, g),
           NEW S \in SUBSET (0 .. n - 1), NEW h, SomeOrder(W, S, h)
    PROVE  h[S] = g[S]
<1> SUFFICES ASSUME h[S] # g[S] PROVE FALSE
  OBVIOUS
<1> DEFINE Q == {s \in SUBSET S : h[s] # g[s]}
           B == {g[s] : s \in Q}
<1>1. \A s \in SUBSET S : s \in SUBSET (0 .. n - 1) /\ g[s] \in Nat
  BY DEF IsSum
<1>2. B \in SUBSET Nat /\ B # {}
  BY <1>1
<1> DEFINE m == Min(B)
<1>3. m \in B /\ \A y \in B : m =< y
  BY <1>2, MinExists
<1> HIDE DEF m
<1>4. PICK s \in Q : g[s] = m
  BY <1>3
<1>5. s # {}
  BY <1>4 DEF IsSum, SomeOrder
<1>6. PICK x \in s : h[s] = W[x] + h[s \ {x}]
  BY <1>4, <1>5 DEF SomeOrder
<1>7. g[s] = W[x] + g[s \ {x}] /\ W[x] \in Nat \ {0} /\ s \ {x} \in SUBSET S
  BY <1>1 DEF IsSum
<1>8. g[s \ {x}] \in Nat /\ g[s \ {x}] < m
  BY <1>1, <1>4, <1>7
<1>9. s \ {x} \notin Q
  <2> SUFFICES ASSUME s \ {x} \in Q PROVE FALSE
    OBVIOUS
  <2>1. g[s \ {x}] \in B
    OBVIOUS
  <2>2. m =< g[s \ {x}] /\ m \in Nat
    BY <2>1, <1>2, <1>3
  <2> QED BY <2>2, <1>8
<1> QED BY <1>4, <1>6, <1>7, <1>9

\* The sum grows with the set: of the first m and of the first k elements.
LEMMA SumGrows ==
    ASSUME NEW n \in Nat, NEW W \in [0 .. n - 1 -> Nat \ {0}], NEW g, IsSum(W, n, g),
           NEW k \in 0 .. n, NEW m \in 0 .. k
    PROVE  m < k => g[0 .. m - 1] < g[0 .. k - 1]
<1> DEFINE G == {j \in 0 .. k : m < j => g[0 .. m - 1] < g[0 .. j - 1]}
<1>1. 0 \in G
  OBVIOUS
<1>2. \A j \in 0 .. k - 1 : j \in G => j + 1 \in G
  <2> SUFFICES ASSUME NEW j \in 0 .. k - 1, j \in G PROVE j + 1 \in G
    OBVIOUS
  <2>1. /\ 0 .. j \in SUBSET (0 .. n - 1) /\ j \in 0 .. j /\ (0 .. j) \ {j} = 0 .. j - 1
        /\ 0 .. j - 1 \in SUBSET (0 .. n - 1) /\ (j + 1) - 1 = j
        /\ W[j] \in Nat \ {0}
    OBVIOUS
  <2>2. g[0 .. j] = W[j] + g[0 .. j - 1] /\ g[0 .. j - 1] \in Nat
    <3>1. g[0 .. j] = W[j] + g[(0 .. j) \ {j}]
      BY <2>1 DEF IsSum
    <3>2. g[0 .. j - 1] \in Nat
      BY <2>1 DEF IsSum
    <3> QED BY <2>1, <3>1, <3>2
  <2>3. CASE m = j
    BY <2>1, <2>2, <2>3
  <2>4. CASE m < j
    <3>1. 0 .. m - 1 \in SUBSET (0 .. n - 1)
      OBVIOUS
    <3>2. g[0 .. m - 1] \in Nat
      BY <3>1 DEF IsSum
    <3> QED BY <2>1, <2>2, <2>4, <3>2
  <2>5. CASE m > j
    BY <2>5
  <2> QED BY <2>3, <2>4, <2>5
<1> HIDE DEF G
<1>3. k \in G
  BY <1>1, <1>2, UpTo
<1> QED BY <1>3 DEF G

\* A walk, with what each of its steps needs to know.
IsWalkIn(F, base, T, n, g) ==
    /\ g \in [SUBSET (1 .. n) -> T]
    /\ \A s \in SUBSET (1 .. n) :
           /\ s = {} => g[s] = base
           /\ s # {} => /\ Max(s) \in 1 .. n /\ g[s \ {Max(s)}] \in T
                        /\ g[s] = F[<<g[s \ {Max(s)}], Max(s)>>]

\* A walk whose steps stay in T exists.
LEMMA WalkIsIn ==
    ASSUME NEW n \in Nat, NEW T, NEW base \in T, NEW F \in [T \X (1 .. n) -> T]
    PROVE  \E g : IsWalkIn(F, base, T, n, g)
<1>0. WalkExists(F, base, T, n)
  BY WalkHasValue
<1>1. PICK g \in [SUBSET (1 .. n) -> T] :
          \A s \in SUBSET (1 .. n) :
              g[s] = IF s = {} THEN base ELSE F[<<g[s \ {Max(s)}], Max(s)>>]
  BY <1>0 DEF WalkExists
<1>2. ASSUME NEW s \in SUBSET (1 .. n), s # {}
      PROVE  Max(s) \in 1 .. n /\ g[s \ {Max(s)}] \in T
  <2>1. s \in SUBSET (0 .. n)
    OBVIOUS
  <2>2. Max(s) \in s
    BY <1>2, <2>1, MaxExists
  <2> QED BY <2>2
<1>3. IsWalkIn(F, base, T, n, g)
  BY <1>1, <1>2 DEF IsWalkIn
<1> QED BY <1>3

\* Where a walk from T that stays in T ends.
LEMMA WalkEnds ==
    ASSUME NEW n \in Nat, NEW T, NEW h,
           \A s \in SUBSET (1 .. n) :
               /\ s = {} => h[s] \in T
               /\ s # {} /\ Max(s) \in 1 .. n /\ h[s \ {Max(s)}] \in T => h[s] \in T
    PROVE  h[1 .. n] \in T
<1>1. h[{}] \in T
  OBVIOUS
<1>2. ASSUME NEW k \in 1 .. n, h[1 .. k - 1] \in T PROVE h[1 .. k] \in T
  <2>1. k \in Nat /\ k > 0 /\ 1 .. k \in SUBSET (1 .. n)
    OBVIOUS
  <2>2. Max(1 .. k) = k /\ (1 .. k) \ {k} = 1 .. k - 1 /\ 1 .. k # {}
    BY <2>1, FirstPositions
  <2> QED BY <1>2, <2>1, <2>2
<1>3. \A k \in 1 .. n : h[1 .. k - 1] \in T => h[1 .. k] \in T
  BY <1>2
<1> HIDE <1>2
<1> QED BY <1>1, <1>3, WalkKeeps
=============================================================================
