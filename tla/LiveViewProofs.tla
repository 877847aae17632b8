---------------------------- MODULE LiveViewProofs ----------------------------
(***************************************************************************)
(* What LiveView promises of a list, for any users and any bounds.         *)
(*                                                                         *)
(* The list that is coming (Coming) is what the tab's list becomes under   *)
(* the events on their way, a fold.  Most of this module is about folds:   *)
(* what they give for a list of events with one more at either end, by     *)
(* induction on its length.  The steps are then short: a handler appends   *)
(* an event that does to the coming list what its write did to the table;  *)
(* announcing an event and applying it move it along; nothing else         *)
(* matters.                                                                *)
(***************************************************************************)
EXTENDS LiveView, ClientSocketProofs

-----------------------------------------------------------------------------
(* Induction.                                                              *)

\* Induction over the naturals, for sets: a set without 0 \in S and the step would have a least
\* missing number.
LEMMA NatInductionInSet ==
  ASSUME NEW S, 0 \in S, \A n \in Nat : n \in S => n + 1 \in S
  PROVE  Nat \subseteq S
<1>. DEFINE R == {p \in Nat \X Nat : p[1] < p[2]}
            T == Nat \ S
<1>1. IsWellFoundedOn(R, Nat)
  BY NatLessThanWellFounded DEF OpToRel
<1>2. SUFFICES ASSUME T # {} PROVE FALSE
  OBVIOUS
<1>3. PICK x \in T : \A y \in T : <<y, x>> \notin R
  <2>1. T \subseteq Nat
    OBVIOUS
  <2>. HIDE DEF R, T
  <2>. QED  BY <1>1, <1>2, <2>1, WFMin
<1>4. x \in Nat /\ x # 0 /\ x - 1 \in Nat /\ x = (x - 1) + 1
  OBVIOUS
<1>5. x - 1 \notin T
  <2>1. <<x - 1, x>> \in R
    BY <1>4
  <2>. QED  BY <1>3, <2>1
<1>. QED  BY <1>4, <1>5

\* Induction over sequences: by the element that is appended last.
LEMMA SeqInductionInSet ==
  ASSUME NEW X, NEW P, <<>> \in P,
         \A s \in Seq(X), x \in X : s \in P => Append(s, x) \in P
  PROVE  Seq(X) \subseteq P
<1>. DEFINE L == {n \in Nat : \A s \in Seq(X) : Len(s) = n => s \in P}
<1>1. 0 \in L
  OBVIOUS
<1>2. ASSUME NEW n \in Nat, n \in L PROVE n + 1 \in L
  <2>. SUFFICES ASSUME NEW s \in Seq(X), Len(s) = n + 1 PROVE s \in P
    OBVIOUS
  <2>. DEFINE t == SubSeq(s, 1, n)
  <2>1. t \in Seq(X) /\ Len(t) = n /\ s[n + 1] \in X
    OBVIOUS
  <2>2. s = Append(t, s[n + 1])
    BY <2>1
  <2>3. t \in P
    BY <1>2, <2>1
  <2>. QED  BY <2>1, <2>2, <2>3
<1>3. Nat \subseteq L
  <2>. HIDE DEF L
  <2>. QED  BY <1>1, <1>2, NatInductionInSet
<1>. QED  BY <1>3

-----------------------------------------------------------------------------
(* Folds.  FoldLeft is a recursive function on sets of indices; Steps is   *)
(* that function for a step F, which takes the index.                      *)

Steps(g, n, base, F) ==
  g = [s \in SUBSET (1 .. n) |-> IF s = {} THEN base ELSE F[<<g[s \ {Max(s)}], Max(s)>>]]

LEMMA MaxOfInterval ==
  ASSUME NEW n \in Nat, NEW s \in SUBSET (1 .. n + 1), n + 1 \in s
  PROVE  Max(s) = n + 1
<1>1. \A y \in s : n + 1 >= y
  OBVIOUS
<1>2. \A x \in s : (\A y \in s : x >= y) => x = n + 1
  <2>. SUFFICES ASSUME NEW x \in s, x >= n + 1 PROVE x = n + 1
    OBVIOUS
  <2>1. x \in 1 .. n + 1
    OBVIOUS
  <2>. QED  BY <2>1
<1>3. Max(s) \in s /\ \A y \in s : Max(s) >= y
  BY <1>1 DEF Max
<1>. QED  BY <1>2, <1>3

LEMMA MaxOfFirst ==
  ASSUME NEW k \in Nat \ {0}
  PROVE  Max(1 .. k) = k /\ (1 .. k) \ {k} = 1 .. k - 1
<1>. DEFINE n == k - 1
<1>1. n \in Nat /\ k = n + 1
  OBVIOUS
<1>2. 1 .. n + 1 \in SUBSET (1 .. n + 1) /\ n + 1 \in 1 .. n + 1
  BY <1>1
<1>3. Max(1 .. n + 1) = n + 1
  <2>. HIDE DEF n
  <2>. QED  BY <1>1, <1>2, MaxOfInterval
<1>. QED  BY <1>1, <1>3

LEMMA MaxType ==
  ASSUME NEW n \in Nat, NEW s \in SUBSET (1 .. n), s # {}
  PROVE  Max(s) \in s
<1>. DEFINE L == {m \in Nat : \A r \in SUBSET (1 .. m) : r # {} => \E x \in r : \A y \in r : x >= y}
<1>1. 0 \in L
  <2>1. \A r \in SUBSET (1 .. 0) : r = {}
    OBVIOUS
  <2>. QED  BY <2>1
<1>2. ASSUME NEW m \in Nat, m \in L PROVE m + 1 \in L
  <2>. SUFFICES ASSUME NEW r \in SUBSET (1 .. m + 1), r # {}
                PROVE  \E x \in r : \A y \in r : x >= y
    OBVIOUS
  <2>1. CASE m + 1 \in r
    BY <2>1
  <2>2. CASE m + 1 \notin r
    <3>1. r \in SUBSET (1 .. m)
      BY <2>2
    <3>. QED  BY <1>2, <3>1
  <2>. QED  BY <2>1, <2>2
<1>3. Nat \subseteq L
  <2>. HIDE DEF L
  <2>. QED  BY <1>1, <1>2, NatInductionInSet
<1>4. \E x \in s : \A y \in s : x >= y
  BY <1>3
<1>. QED  BY <1>4 DEF Max

HasSteps(S, n, base, F) == \E g \in [SUBSET (1 .. n) -> S] : Steps(g, n, base, F)

LEMMA StepsOfNothing ==
  ASSUME NEW S, NEW F, NEW base \in S
  PROVE  HasSteps(S, 0, base, F)
<1>. DEFINE g == [s \in SUBSET (1 .. 0) |-> base]
<1>1. g \in [SUBSET (1 .. 0) -> S]
  OBVIOUS
<1>2. \A s \in SUBSET (1 .. 0) : s = {}
  OBVIOUS
<1>3. Steps(g, 0, base, F)
  BY <1>2 DEF Steps
<1>. QED  BY <1>1, <1>3 DEF HasSteps

LEMMA StepsGrow ==
  ASSUME NEW S, NEW N \in Nat, NEW F \in [S \X (1 .. N) -> S], NEW base \in S,
         NEW n \in Nat, n + 1 <= N, HasSteps(S, n, base, F)
  PROVE  HasSteps(S, n + 1, base, F)
<1>1. PICK g \in [SUBSET (1 .. n) -> S] : Steps(g, n, base, F)
  BY DEF HasSteps
<1>. DEFINE h == [s \in SUBSET (1 .. n + 1) |->
                    IF n + 1 \in s THEN F[<<g[s \ {n + 1}], n + 1>>] ELSE g[s]]
            k == [s \in SUBSET (1 .. n + 1) |->
                    IF s = {} THEN base ELSE F[<<h[s \ {Max(s)}], Max(s)>>]]
<1>2. ASSUME NEW s \in SUBSET (1 .. n + 1)
      PROVE  h[s] \in S /\ h[s] = k[s]
  <2>1. CASE n + 1 \in s
    <3>1. s \ {n + 1} \in SUBSET (1 .. n) /\ n + 1 \in 1 .. N
      OBVIOUS
    <3>2. h[s \ {n + 1}] = g[s \ {n + 1}] /\ g[s \ {n + 1}] \in S
      BY <3>1
    <3>3. Max(s) = n + 1
      BY <2>1, MaxOfInterval
    <3>. QED  BY <2>1, <3>1, <3>2, <3>3
  <2>2. CASE n + 1 \notin s
    <3>1. s \in SUBSET (1 .. n) /\ h[s] = g[s]
      BY <2>2
    <3>2. g[s] = IF s = {} THEN base ELSE F[<<g[s \ {Max(s)}], Max(s)>>]
      BY <1>1, <3>1 DEF Steps
    <3>3. s \ {Max(s)} \in SUBSET (1 .. n) /\ h[s \ {Max(s)}] = g[s \ {Max(s)}]
      <4>1. \A r \in SUBSET (1 .. n) : r \in SUBSET (1 .. n + 1) /\ h[r] = g[r]
        OBVIOUS
      <4>2. s \ {Max(s)} \in SUBSET (1 .. n)
        BY <3>1
      <4>. QED  BY <4>1, <4>2
    <3>. QED  BY <3>1, <3>2, <3>3
  <2>. QED  BY <2>1, <2>2
<1>3. h \in [SUBSET (1 .. n + 1) -> S]
  BY <1>2
<1>4. h = k
  BY <1>2
<1>5. Steps(h, n + 1, base, F)
  <2>. HIDE DEF h
  <2>. QED  BY <1>4 DEF Steps
<1>. HIDE DEF h
<1>. QED  BY <1>3, <1>5 DEF HasSteps

LEMMA StepsExist ==
  ASSUME NEW S, NEW N \in Nat, NEW F \in [S \X (1 .. N) -> S], NEW base \in S
  PROVE  \E g \in [SUBSET (1 .. N) -> S] : Steps(g, N, base, F)
<1>. DEFINE P == {n \in Nat : n <= N => HasSteps(S, n, base, F)}
<1>1. 0 \in P
  BY StepsOfNothing
<1>2. ASSUME NEW n \in Nat, n \in P PROVE n + 1 \in P
  <2>. SUFFICES ASSUME n + 1 <= N PROVE HasSteps(S, n + 1, base, F)
    OBVIOUS
  <2>1. HasSteps(S, n, base, F)
    BY <1>2
  <2>. QED  BY <2>1, StepsGrow
<1>3. Nat \subseteq P
  <2>. HIDE DEF P
  <2>. QED  BY <1>1, <1>2, NatInductionInSet
<1>4. HasSteps(S, N, base, F)
  BY <1>3
<1>. QED  BY <1>4 DEF HasSteps

-----------------------------------------------------------------------------
(* The same, along a sequence: c has the value after each element.         *)

Chain(c, T, F, base, es) ==
  /\ c \in [0 .. Len(es) -> T]
  /\ c[0] = base
  /\ \A k \in 1 .. Len(es) : c[k] = F[<<c[k - 1], es[k]>>]

Folds(T, F, base, es, r) == \E c : Chain(c, T, F, base, es) /\ c[Len(es)] = r

LEMMA ChainsAgree ==
  ASSUME NEW X, NEW T, NEW F, NEW base, NEW l \in Seq(X), NEW m \in Seq(X), NEW a, NEW b,
         Chain(a, T, F, base, l), Chain(b, T, F, base, m),
         NEW n \in 0 .. Len(l), n <= Len(m), \A i \in 1 .. n : l[i] = m[i]
  PROVE  a[n] = b[n]
<1>. DEFINE P == {i \in Nat : i <= n => a[i] = b[i]}
<1>0. Len(l) \in Nat /\ Len(m) \in Nat /\ n \in Nat
  OBVIOUS
<1>1. 0 \in P
  BY DEF Chain
<1>2. ASSUME NEW i \in Nat, i \in P PROVE i + 1 \in P
  <2>. SUFFICES ASSUME i + 1 <= n PROVE a[i + 1] = b[i + 1]
    OBVIOUS
  <2>1. /\ i + 1 \in 1 .. Len(l) /\ i + 1 \in 1 .. Len(m) /\ i + 1 \in 1 .. n
        /\ (i + 1) - 1 = i
    BY <1>0
  <2>2. a[i] = b[i] /\ l[i + 1] = m[i + 1]
    BY <1>0, <1>2, <2>1
  <2>3. a[i + 1] = F[<<a[i], l[i + 1]>>]
    BY <2>1 DEF Chain
  <2>4. b[i + 1] = F[<<b[i], m[i + 1]>>]
    BY <2>1 DEF Chain
  <2>. QED  BY <2>2, <2>3, <2>4
<1>3. Nat \subseteq P
  <2>. HIDE DEF P
  <2>. QED  BY <1>1, <1>2, NatInductionInSet
<1>. QED  BY <1>0, <1>3

LEMMA FoldsUnique ==
  ASSUME NEW X, NEW T, NEW F, NEW base, NEW es \in Seq(X), NEW r, NEW s,
         Folds(T, F, base, es, r), Folds(T, F, base, es, s)
  PROVE  r = s
<1>1. PICK a : Chain(a, T, F, base, es) /\ a[Len(es)] = r
  BY DEF Folds
<1>2. PICK b : Chain(b, T, F, base, es) /\ b[Len(es)] = s
  BY DEF Folds
<1>3. Len(es) \in 0 .. Len(es) /\ Len(es) <= Len(es)
  OBVIOUS
<1>. QED  BY <1>1, <1>2, <1>3, ChainsAgree

LEMMA FoldsAppend ==
  ASSUME NEW X, NEW T, NEW F \in [T \X X -> T], NEW base, NEW es \in Seq(X), NEW x \in X, NEW r,
         Folds(T, F, base, es, r)
  PROVE  r \in T /\ Folds(T, F, base, Append(es, x), F[<<r, x>>])
<1>. DEFINE m == Append(es, x)
            n == Len(es)
<1>1. /\ Len(m) = n + 1 /\ n \in Nat /\ m[n + 1] = x
      /\ \A i \in 1 .. n : m[i] = es[i]
  OBVIOUS
<1>2. PICK a : Chain(a, T, F, base, es) /\ a[n] = r
  BY DEF Folds
<1>3. r \in T /\ F[<<r, x>>] \in T
  BY <1>1, <1>2 DEF Chain
<1>. DEFINE b == [i \in 0 .. n + 1 |-> IF i = n + 1 THEN F[<<r, x>>] ELSE a[i]]
<1>4. b \in [0 .. n + 1 -> T]
  <2>. SUFFICES ASSUME NEW i \in 0 .. n + 1, i # n + 1 PROVE a[i] \in T
    BY <1>3
  <2>1. i \in 0 .. n
    BY <1>1
  <2>. QED  BY <1>2, <2>1 DEF Chain
<1>5. b[0] = base /\ b[n + 1] = F[<<r, x>>]
  BY <1>1, <1>2 DEF Chain
<1>6. ASSUME NEW k \in 1 .. n + 1 PROVE b[k] = F[<<b[k - 1], m[k]>>]
  <2>1. CASE k = n + 1
    <3>1. n + 1 # n /\ n \in 0 .. n + 1 /\ k - 1 = n
      BY <1>1, <2>1
    <3>2. b[k - 1] = r
      BY <1>2, <3>1
    <3>. QED  BY <1>1, <1>5, <2>1, <3>2
  <2>2. CASE k # n + 1
    <3>1. k \in 1 .. n /\ b[k] = a[k] /\ b[k - 1] = a[k - 1]
      BY <1>1, <2>2
    <3>2. a[k] = F[<<a[k - 1], es[k]>>]
      BY <1>2, <3>1 DEF Chain
    <3>. QED  BY <1>1, <3>1, <3>2
  <2>. QED  BY <2>1, <2>2
<1>7. Chain(b, T, F, base, m)
  <2>. HIDE DEF b, m
  <2>. QED  BY <1>1, <1>4, <1>5, <1>6 DEF Chain
<1>. HIDE DEF b, m
<1>8. Folds(T, F, base, m, F[<<r, x>>])
  BY <1>1, <1>5, <1>7 DEF Folds
<1>. QED  BY <1>3, <1>8 DEF m

LEMMA FoldsCons ==
  ASSUME NEW X, NEW T, NEW F \in [T \X X -> T], NEW base \in T, NEW es \in Seq(X), es # <<>>, NEW r,
         Folds(T, F, base, es, r)
  PROVE  Folds(T, F, F[<<base, Head(es)>>], Tail(es), r)
<1>. DEFINE m == Tail(es)
            n == Len(m)
<1>1. /\ n \in Nat /\ Len(es) = n + 1 /\ Head(es) = es[1]
      /\ \A i \in 1 .. n : m[i] = es[i + 1]
  OBVIOUS
<1>2. PICK a : Chain(a, T, F, base, es) /\ a[Len(es)] = r
  BY DEF Folds
<1>. DEFINE b == [i \in 0 .. n |-> a[i + 1]]
<1>. HIDE DEF m
<1>3. b \in [0 .. n -> T]
  BY <1>1, <1>2 DEF Chain
<1>4. b[0] = F[<<base, Head(es)>>]
  BY <1>1, <1>2 DEF Chain
<1>5. ASSUME NEW k \in 1 .. n PROVE b[k] = F[<<b[k - 1], m[k]>>]
  <2>1. k + 1 \in 1 .. Len(es) /\ (k + 1) - 1 = k /\ b[k] = a[k + 1] /\ b[k - 1] = a[k]
    BY <1>1
  <2>2. a[k + 1] = F[<<a[k], es[k + 1]>>]
    BY <1>2, <2>1 DEF Chain
  <2>. QED  BY <1>1, <2>1, <2>2
<1>6. b[n] = r
  BY <1>1, <1>2
<1>7. Chain(b, T, F, F[<<base, Head(es)>>], m)
  <2>. HIDE DEF b
  <2>. QED  BY <1>3, <1>4, <1>5 DEF Chain
<1>. HIDE DEF b
<1>. QED  BY <1>6, <1>7 DEF Folds, m

\* FoldLeft is one of these, for a step that is a function.
Iterates(g, F, base, es) ==
  g = [s \in SUBSET DOMAIN es |-> IF s = {} THEN base ELSE F[<<g[s \ {Max(s)}], es[Max(s)]>>]]

LEMMA IterationExists ==
  ASSUME NEW X, NEW T, NEW F \in [T \X X -> T], NEW base \in T, NEW es \in Seq(X)
  PROVE  \E g \in [SUBSET DOMAIN es -> T] : Iterates(g, F, base, es)
<1>. DEFINE n == Len(es)
            E == [p \in T \X (1 .. n) |-> F[<<p[1], es[p[2]]>>]]
<1>1. n \in Nat /\ DOMAIN es = 1 .. n
  OBVIOUS
<1>2. E \in [T \X (1 .. n) -> T]
  <2>. SUFFICES ASSUME NEW t \in T, NEW i \in 1 .. n PROVE F[<<t, es[i]>>] \in T
    OBVIOUS
  <2>1. es[i] \in X
    OBVIOUS
  <2>. QED  BY <2>1
<1>3. PICK g \in [SUBSET (1 .. n) -> T] : Steps(g, n, base, E)
  <2>. HIDE DEF E, n
  <2>. QED  BY <1>1, <1>2, StepsExist
<1>4. ASSUME NEW s \in SUBSET (1 .. n), s # {}
      PROVE  E[<<g[s \ {Max(s)}], Max(s)>>] = F[<<g[s \ {Max(s)}], es[Max(s)]>>]
  <2>1. Max(s) \in 1 .. n /\ s \ {Max(s)} \in SUBSET (1 .. n)
    BY <1>1, <1>4, MaxType
  <2>. QED  BY <2>1
<1>5. g = [s \in SUBSET (1 .. n) |->
             IF s = {} THEN base ELSE F[<<g[s \ {Max(s)}], es[Max(s)]>>]]
  <2>. HIDE DEF E
  <2>. QED  BY <1>3, <1>4 DEF Steps
<1>. QED  BY <1>1, <1>5 DEF Iterates

LEMMA IterationFolds ==
  ASSUME NEW X, NEW T, NEW F \in [T \X X -> T], NEW base \in T, NEW es \in Seq(X), NEW G,
         G[{}] = base,
         \A s \in SUBSET DOMAIN es :
           s # {} /\ G[s \ {Max(s)}] \in T => G[s] = F[<<G[s \ {Max(s)}], es[Max(s)]>>]
  PROVE  Folds(T, F, base, es, G[DOMAIN es])
<1>. DEFINE n == Len(es)
            c == [k \in 0 .. n |-> G[1 .. k]]
            P == {i \in Nat : i <= n => c[i] \in T}
<1>1. n \in Nat /\ DOMAIN es = 1 .. n /\ 1 .. 0 = {}
  OBVIOUS
<1>2. c[0] = base /\ c[n] = G[DOMAIN es]
  BY <1>1
<1>3. ASSUME NEW k \in 1 .. n, c[k - 1] \in T PROVE c[k] = F[<<c[k - 1], es[k]>>]
  <2>1. 1 .. k \in SUBSET DOMAIN es /\ 1 .. k # {} /\ k - 1 \in 0 .. n /\ k \in 0 .. n
    <3>1. 1 \in 1 .. k /\ \A i \in 1 .. k : i \in 1 .. n
      BY <1>1
    <3>2. 1 .. k \in SUBSET DOMAIN es /\ 1 .. k # {}
      BY <1>1, <3>1
    <3>3. k - 1 \in 0 .. n /\ k \in 0 .. n
      BY <1>1
    <3>. QED  BY <3>2, <3>3
  <2>2. Max(1 .. k) = k /\ (1 .. k) \ {k} = 1 .. k - 1
    <3>1. k \in Nat \ {0}
      BY <1>1
    <3>. QED  BY <3>1, MaxOfFirst
  <2>3. c[k] = G[1 .. k] /\ c[k - 1] = G[1 .. k - 1]
    BY <2>1
  <2>4. G[1 .. k - 1] \in T
    BY <1>3, <2>3
  <2>. HIDE DEF c
  <2>. QED  BY <2>1, <2>2, <2>3, <2>4
<1>. HIDE DEF c
<1>4. 0 \in P
  BY <1>1, <1>2
<1>5. ASSUME NEW i \in Nat, i \in P PROVE i + 1 \in P
  <2>. SUFFICES ASSUME i + 1 <= n PROVE c[i + 1] \in T
    OBVIOUS
  <2>1. i + 1 \in 1 .. n /\ es[i + 1] \in X /\ (i + 1) - 1 = i
    BY <1>1
  <2>2. c[i] \in T
    BY <1>1, <1>5
  <2>3. c[i + 1] = F[<<c[i], es[i + 1]>>]
    <3>. HIDE DEF n
    <3>. QED  BY <1>3, <2>1, <2>2
  <2>. QED  BY <2>1, <2>2, <2>3
<1>6. Nat \subseteq P
  <2>. HIDE DEF P
  <2>. QED  BY <1>4, <1>5, NatInductionInSet
<1>7. \A k \in 0 .. n : c[k] \in T
  BY <1>1, <1>6
<1>8. \A k \in 1 .. n : c[k] = F[<<c[k - 1], es[k]>>]
  <2>. SUFFICES ASSUME NEW k \in 1 .. n PROVE c[k - 1] \in T
    BY <1>3
  <2>1. k - 1 \in 0 .. n
    BY <1>1
  <2>. QED  BY <1>7, <2>1
<1>9. c \in [0 .. n -> T]
  BY <1>7 DEF c
<1>. QED  BY <1>2, <1>8, <1>9 DEF Folds, Chain

-----------------------------------------------------------------------------
(* The members of a set in a sequence.                                     *)

KeepStep(X, S) == [p \in Seq(X) \X X |-> IF p[2] \in S THEN Append(p[1], p[2]) ELSE p[1]]

LEMMA KeepStepType ==
  ASSUME NEW X, NEW S
  PROVE  KeepStep(X, S) \in [Seq(X) \X X -> Seq(X)]
BY DEF KeepStep

LEMMA OnlyFolds ==
  ASSUME NEW X, NEW S, NEW l \in Seq(X)
  PROVE  Folds(Seq(X), KeepStep(X, S), <<>>, l, Only(l, S))
<1>. DEFINE F == KeepStep(X, S)
            Is(iter) == iter = [s \in SUBSET DOMAIN l |->
                                  IF s = {} THEN <<>>
                                  ELSE IF l[Max(s)] \in S
                                       THEN Append(iter[s \ {Max(s)}], l[Max(s)])
                                       ELSE iter[s \ {Max(s)}]]
            G == CHOOSE iter : Is(iter)
<1>1. <<>> \in Seq(X) /\ F \in [Seq(X) \X X -> Seq(X)]
  <2>1. <<>> \in Seq(X)
    OBVIOUS
  <2>2. F \in [Seq(X) \X X -> Seq(X)]
    BY KeepStepType, Zenon
  <2>. QED  BY <2>1, <2>2
<1>2. ASSUME NEW s \in SUBSET DOMAIN l, s # {}, NEW t \in Seq(X)
      PROVE  F[<<t, l[Max(s)]>>] = IF l[Max(s)] \in S THEN Append(t, l[Max(s)]) ELSE t
  <2>1. Len(l) \in Nat /\ DOMAIN l = 1 .. Len(l)
    OBVIOUS
  <2>2. Max(s) \in 1 .. Len(l)
    BY <1>2, <2>1, MaxType
  <2>3. l[Max(s)] \in X
    BY <2>2
  <2>. QED  BY <2>3 DEF KeepStep
<1>. HIDE DEF F
<1>3. PICK g \in [SUBSET DOMAIN l -> Seq(X)] : Iterates(g, F, <<>>, l)
  BY <1>1, IterationExists
<1>4. Is(g)
  <2>1. ASSUME NEW s \in SUBSET DOMAIN l
        PROVE  g[s \ {Max(s)}] \in Seq(X)
    OBVIOUS
  <2>. QED  BY <1>2, <1>3, <2>1 DEF Iterates
<1>5. Is(G)
  BY <1>4
<1>6. Only(l, S) = G[DOMAIN l]
  BY DEF Only, FoldLeft, MapThenFoldSet
<1>. HIDE DEF G
<1>7. G[{}] = <<>>
  BY <1>5
<1>8. ASSUME NEW s \in SUBSET DOMAIN l, s # {}, G[s \ {Max(s)}] \in Seq(X)
      PROVE  G[s] = F[<<G[s \ {Max(s)}], l[Max(s)]>>]
  BY <1>2, <1>5, <1>8
<1>9. Folds(Seq(X), F, <<>>, l, G[DOMAIN l])
  BY <1>1, <1>7, <1>8, IterationFolds
<1>. QED  BY <1>6, <1>9 DEF F

LEMMA OnlyNothing ==
  ASSUME NEW S
  PROVE  Only(<<>>, S) = <<>>
<1>1. <<>> \in Seq({}) /\ Len(<<>>) = 0
  OBVIOUS
<1>2. Folds(Seq({}), KeepStep({}, S), <<>>, <<>>, Only(<<>>, S))
  BY <1>1, OnlyFolds
<1>. QED  BY <1>1, <1>2 DEF Folds, Chain

LEMMA OnlyAppend ==
  ASSUME NEW X, NEW S, NEW l \in Seq(X), NEW x \in X
  PROVE  /\ Only(l, S) \in Seq(X)
         /\ Only(Append(l, x), S) = IF x \in S THEN Append(Only(l, S), x) ELSE Only(l, S)
<1>. DEFINE F == KeepStep(X, S)
            m == Append(l, x)
            r == Only(l, S)
<1>1. m \in Seq(X) /\ F \in [Seq(X) \X X -> Seq(X)]
  <2>1. m \in Seq(X)
    OBVIOUS
  <2>2. F \in [Seq(X) \X X -> Seq(X)]
    BY KeepStepType, Zenon
  <2>. QED  BY <2>1, <2>2
<1>2. Folds(Seq(X), F, <<>>, l, r) /\ Folds(Seq(X), F, <<>>, m, Only(m, S))
  <2>. HIDE DEF m
  <2>. QED  BY <1>1, OnlyFolds
<1>3. r \in Seq(X) /\ Folds(Seq(X), F, <<>>, m, F[<<r, x>>])
  <2>. HIDE DEF F, r
  <2>. QED  BY <1>1, <1>2, FoldsAppend
<1>4. Only(m, S) = F[<<r, x>>]
  <2>. HIDE DEF F, r, m
  <2>. QED  BY <1>1, <1>2, <1>3, FoldsUnique
<1>5. F[<<r, x>>] = IF x \in S THEN Append(r, x) ELSE r
  <2>. HIDE DEF r
  <2>. QED  BY <1>3 DEF KeepStep
<1>. QED  BY <1>3, <1>4, <1>5

LEMMA OnlyType ==
  ASSUME NEW X, NEW S, NEW l \in Seq(X)
  PROVE  Only(l, S) \in Seq(X)
<1>1. Folds(Seq(X), KeepStep(X, S), <<>>, l, Only(l, S))
  BY OnlyFolds
<1>. QED  BY <1>1 DEF Folds, Chain

LEMMA OnlyMembers ==
  ASSUME NEW X, NEW S, NEW l \in Seq(X)
  PROVE  \A i \in DOMAIN Only(l, S) : Only(l, S)[i] \in S /\ \E j \in DOMAIN l : Only(l, S)[i] = l[j]
<1>. DEFINE Q(m) == \A i \in DOMAIN Only(m, S) : Only(m, S)[i] \in S /\ \E j \in DOMAIN m : Only(m, S)[i] = m[j]
            P == {m \in Seq(X) : Q(m)}
<1>1. <<>> \in P
  BY OnlyNothing
<1>2. ASSUME NEW m \in Seq(X), NEW x \in X, m \in P PROVE Append(m, x) \in P
  <2>. DEFINE n == Append(m, x)
              o == Only(m, S)
  <2>1. n \in Seq(X) /\ n[Len(m) + 1] = x /\ Len(m) + 1 \in DOMAIN n
        /\ \A j \in DOMAIN m : j \in DOMAIN n /\ n[j] = m[j]
    OBVIOUS
  <2>2. o \in Seq(X) /\ Only(n, S) = IF x \in S THEN Append(o, x) ELSE o
    BY OnlyAppend
  <2>3. ASSUME NEW i \in DOMAIN o
        PROVE  o[i] \in S /\ \E j \in DOMAIN n : o[i] = n[j]
    BY <1>2, <2>1
  <2>4. CASE x \in S
    <3>1. Only(n, S) = Append(o, x)
      BY <2>2, <2>4
    <3>. HIDE DEF n, o
    <3>2. ASSUME NEW i \in DOMAIN Append(o, x)
          PROVE  Append(o, x)[i] \in S /\ \E j \in DOMAIN n : Append(o, x)[i] = n[j]
      <4>1. CASE i = Len(o) + 1
        <5>1. Append(o, x)[i] = x
          BY <2>2, <4>1
        <5>. QED  BY <2>1, <2>4, <5>1
      <4>2. CASE i # Len(o) + 1
        <5>1. i \in DOMAIN o /\ Append(o, x)[i] = o[i]
          BY <2>2, <4>2
        <5>. QED  BY <2>3, <5>1
      <4>. QED  BY <4>1, <4>2
    <3>3. Q(n)
      BY <3>1, <3>2
    <3>. QED  BY <2>1, <3>3 DEF n
  <2>5. CASE x \notin S
    <3>1. Only(n, S) = o
      BY <2>2, <2>5
    <3>. HIDE DEF n, o
    <3>2. Q(n)
      BY <2>3, <3>1
    <3>. QED  BY <2>1, <3>2 DEF n
  <2>. QED  BY <2>4, <2>5
<1>3. Seq(X) \subseteq P
  <2>. HIDE DEF P
  <2>. QED  BY <1>1, <1>2, SeqInductionInSet
<1>. QED  BY <1>3

\* What is in the set is kept.
LEMMA OnlyAll ==
  ASSUME NEW X, NEW S, NEW l \in Seq(X), \A i \in DOMAIN l : l[i] \in S
  PROVE  Only(l, S) = l
<1>. DEFINE P == {m \in Seq(X) : (\A i \in DOMAIN m : m[i] \in S) => Only(m, S) = m}
<1>1. <<>> \in P
  BY OnlyNothing
<1>2. ASSUME NEW m \in Seq(X), NEW x \in X, m \in P PROVE Append(m, x) \in P
  <2>. DEFINE n == Append(m, x)
  <2>0. n \in Seq(X)
    OBVIOUS
  <2>. SUFFICES ASSUME \A i \in DOMAIN n : n[i] \in S PROVE Only(n, S) = n
    BY <2>0
  <2>1. x \in S /\ \A i \in DOMAIN m : m[i] \in S
    <3>1. n[Len(m) + 1] = x /\ Len(m) + 1 \in DOMAIN n
          /\ \A j \in DOMAIN m : j \in DOMAIN n /\ n[j] = m[j]
      OBVIOUS
    <3>. HIDE DEF n
    <3>. QED  BY <3>1
  <2>2. Only(m, S) = m
    BY <1>2, <2>1
  <2>. QED  BY <2>1, <2>2, OnlyAppend
<1>3. Seq(X) \subseteq P
  <2>. HIDE DEF P
  <2>. QED  BY <1>1, <1>2, SeqInductionInSet
<1>. QED  BY <1>3

\* Concatenation, as an operator that the provers leave as it is.
Before(u, v) == u \o v

LEMMA BeforeAppend ==
  ASSUME NEW X, NEW u \in Seq(X), NEW v \in Seq(X), NEW x \in X
  PROVE  Append(Before(u, v), x) = Before(u, Append(v, x))
<1>. DEFINE a == Append(u \o v, x)
            b == u \o Append(v, x)
<1>1. a \in Seq(X) /\ b \in Seq(X) /\ Len(a) = Len(b)
  OBVIOUS
<1>2. ASSUME NEW i \in 1 .. Len(a) PROVE a[i] = b[i]
  <2>1. CASE i <= Len(u)
    BY <2>1
  <2>2. CASE i > Len(u)
    BY <2>2
  <2>. QED  BY <2>1, <2>2
<1>. HIDE DEF a, b
<1>3. a = b
  BY <1>1, <1>2
<1>. QED  BY <1>3 DEF a, b, Before

LEMMA OnlyCons ==
  ASSUME NEW X, NEW S, NEW l \in Seq(X), l # <<>>
  PROVE  Only(l, S) = (IF Head(l) \in S THEN <<Head(l)>> ELSE <<>>) \o Only(Tail(l), S)
<1>. DEFINE h(m) == IF Head(m) \in S THEN <<Head(m)>> ELSE <<>>
            P == {m \in Seq(X) : m # <<>> => Only(m, S) = h(m) \o Only(Tail(m), S)}
<1>1. <<>> \in P
  OBVIOUS
<1>2. ASSUME NEW m \in Seq(X), NEW x \in X, m \in P PROVE Append(m, x) \in P
  <2>. DEFINE n == Append(m, x)
  <2>1. n \in Seq(X) /\ Only(m, S) \in Seq(X)
        /\ Only(n, S) = IF x \in S THEN Append(Only(m, S), x) ELSE Only(m, S)
    BY OnlyAppend
  <2>2. CASE m = <<>>
    <3>1. Head(n) = x /\ Tail(n) = <<>>
      BY <2>2
    <3>2. Only(m, S) = <<>> /\ Only(Tail(n), S) = <<>>
      BY <2>2, <3>1, OnlyNothing
    <3>3. Only(n, S) = h(n) \o Only(Tail(n), S)
      <4>1. <<>> \o <<>> = <<>> /\ <<x>> \o <<>> = Append(<<>>, x)
        OBVIOUS
      <4>. HIDE DEF n
      <4>. QED  BY <2>1, <3>1, <3>2, <4>1
    <3>. QED  BY <2>1, <3>3
  <2>3. CASE m # <<>>
    <3>1. Head(n) = Head(m) /\ Tail(n) = Append(Tail(m), x) /\ Tail(m) \in Seq(X)
      BY <2>3
    <3>2. /\ Only(Tail(m), S) \in Seq(X)
          /\ Only(Tail(n), S) = IF x \in S THEN Append(Only(Tail(m), S), x)
                                           ELSE Only(Tail(m), S)
      <4>. DEFINE t == Tail(m)
      <4>1. t \in Seq(X) /\ Tail(n) = Append(t, x)
        BY <3>1
      <4>. HIDE DEF t, n
      <4>2. Only(t, S) \in Seq(X) /\ Only(Append(t, x), S) = IF x \in S THEN Append(Only(t, S), x) ELSE Only(t, S)
        BY <4>1, OnlyAppend
      <4>. QED  BY <4>1, <4>2 DEF t
    <3>3. Only(m, S) = h(m) \o Only(Tail(m), S) /\ h(n) = h(m) /\ h(m) \in Seq(X)
      BY <1>2, <2>3, <3>1
    <3>4. Only(n, S) = h(n) \o Only(Tail(n), S)
      <4>. DEFINE a == h(m)
                  b == Only(Tail(m), S)
      <4>1. a \in Seq(X) /\ b \in Seq(X) /\ Only(m, S) = a \o b /\ h(n) = a
        BY <3>2, <3>3
      <4>. HIDE DEF n, h, a
      <4>2. CASE x \in S
        <5>1. Only(n, S) = Append(a \o b, x) /\ Only(Tail(n), S) = Append(b, x)
          BY <2>1, <3>2, <4>1, <4>2
        <5>2. Append(Before(a, b), x) = Before(a, Append(b, x))
          <6>1. a \in Seq(X) /\ b \in Seq(X)
            BY <4>1
          <6>. HIDE DEF b, P
          <6>. QED  BY <6>1, BeforeAppend
        <5>. HIDE DEF b
        <5>3. Append(a \o b, x) = a \o Append(b, x)
          BY <5>2 DEF Before
        <5>. QED  BY <4>1, <5>1, <5>3
      <4>3. CASE x \notin S
        <5>1. Only(n, S) = a \o b /\ Only(Tail(n), S) = b
          BY <2>1, <3>2, <4>1, <4>3
        <5>. QED  BY <4>1, <5>1
      <4>. QED  BY <4>2, <4>3
    <3>. QED  BY <2>1, <3>4
  <2>. QED  BY <2>2, <2>3
<1>3. Seq(X) \subseteq P
  <2>. HIDE DEF P
  <2>. QED  BY <1>1, <1>2, SeqInductionInSet
<1>. QED  BY <1>3

-----------------------------------------------------------------------------
(* Lists of entries.                                                       *)

Unique(l) == \A i, j \in DOMAIN l : l[i].user = l[j].user => i = j

LEMMA EntryOthers ==
  ASSUME NEW x \in Entry, NEW e \in Entry
  PROVE  x \in [user : Users \ {e.user}, helped : BOOLEAN] <=> x.user # e.user
BY DEF Entry

LEMMA WithoutType ==
  ASSUME NEW l \in Seq(Entry), NEW e
  PROVE  Without(l, e) \in Seq(Entry)
BY OnlyType DEF Without

LEMMA WithoutMembers ==
  ASSUME NEW l \in Seq(Entry), NEW e \in Entry
  PROVE  \A i \in DOMAIN Without(l, e) :
           Without(l, e)[i].user # e.user /\ \E j \in DOMAIN l : Without(l, e)[i] = l[j]
<1>. DEFINE S == [user : Users \ {e.user}, helped : BOOLEAN]
<1>. SUFFICES ASSUME NEW i \in DOMAIN Only(l, S)
              PROVE  Only(l, S)[i].user # e.user /\ \E j \in DOMAIN l : Only(l, S)[i] = l[j]
  BY DEF Without
<1>1. Only(l, S)[i] \in S /\ \E j \in DOMAIN l : Only(l, S)[i] = l[j]
  <2>. HIDE DEF S
  <2>. QED  BY OnlyMembers
<1>. QED  BY <1>1

\* Who is not in a list is not removed from it, and only then.
LEMMA WithoutAbsent ==
  ASSUME NEW l \in Seq(Entry), NEW e \in Entry
  PROVE  Without(l, e) = l <=> \A i \in DOMAIN l : l[i].user # e.user
<1>1. ASSUME Without(l, e) = l PROVE \A i \in DOMAIN l : l[i].user # e.user
  BY <1>1, WithoutMembers
<1>2. ASSUME \A i \in DOMAIN l : l[i].user # e.user PROVE Without(l, e) = l
  <2>. DEFINE S == [user : Users \ {e.user}, helped : BOOLEAN]
  <2>1. \A i \in DOMAIN l : l[i] \in S
    BY <1>2, EntryOthers
  <2>2. Only(l, S) = l
    <3>. HIDE DEF S
    <3>. QED  BY <2>1, OnlyAll
  <2>. QED  BY <2>2 DEF Without
<1>. QED  BY <1>1, <1>2

LEMMA UniqueAppend ==
  ASSUME NEW l \in Seq(Entry), NEW x \in Entry
  PROVE  Unique(Append(l, x)) <=> Unique(l) /\ \A i \in DOMAIN l : l[i].user # x.user
<1>. DEFINE m == Append(l, x)
<1>1. /\ DOMAIN m = DOMAIN l \cup {Len(l) + 1} /\ Len(l) + 1 \notin DOMAIN l
      /\ m[Len(l) + 1] = x /\ \A i \in DOMAIN l : m[i] = l[i]
  OBVIOUS
<1>. HIDE DEF m
<1>2. Unique(m) <=> Unique(l) /\ \A i \in DOMAIN l : l[i].user # x.user
  BY <1>1 DEF Unique
<1>. QED  BY <1>2 DEF m

LEMMA WithoutUnique ==
  ASSUME NEW l \in Seq(Entry), NEW e \in Entry, Unique(l)
  PROVE  Unique(Without(l, e))
<1>. DEFINE S == [user : Users \ {e.user}, helped : BOOLEAN]
            P == {m \in Seq(Entry) : Unique(m) => Unique(Only(m, S))}
<1>. HIDE DEF S
<1>1. <<>> \in P
  BY OnlyNothing
<1>2. ASSUME NEW m \in Seq(Entry), NEW x \in Entry, m \in P PROVE Append(m, x) \in P
  <2>0. Append(m, x) \in Seq(Entry)
    OBVIOUS
  <2>. SUFFICES ASSUME Unique(Append(m, x)) PROVE Unique(Only(Append(m, x), S))
    BY <2>0
  <2>1. Unique(m) /\ \A i \in DOMAIN m : m[i].user # x.user
    BY UniqueAppend
  <2>. DEFINE o == Only(m, S)
  <2>2. Unique(o) /\ o \in Seq(Entry) /\ Only(Append(m, x), S) = IF x \in S THEN Append(o, x) ELSE o
    BY <1>2, <2>1, OnlyAppend
  <2>3. \A i \in DOMAIN o : \E j \in DOMAIN m : o[i] = m[j]
    BY OnlyMembers
  <2>4. \A i \in DOMAIN o : o[i].user # x.user
    BY <2>1, <2>3
  <2>. HIDE DEF o
  <2>. QED  BY <2>2, <2>4, UniqueAppend
<1>3. Seq(Entry) \subseteq P
  <2>. HIDE DEF P
  <2>. QED  BY <1>1, <1>2, SeqInductionInSet
<1>4. Unique(Only(l, S))
  BY <1>3
<1>. QED  BY <1>4 DEF Without, S

\* What is removed depends on the users alone.
LEMMA NamesWithout ==
  ASSUME NEW l \in Seq(Entry), NEW e \in Entry
  PROVE  Names(Without(l, e)) = Only(Names(l), Users \ {e.user})
<1>. DEFINE S == [user : Users \ {e.user}, helped : BOOLEAN]
            U == Users \ {e.user}
            P == {m \in Seq(Entry) : Names(Only(m, S)) = Only(Names(m), U)}
<1>1. <<>> \in P
  <2>1. Names(<<>>) = <<>>
    BY DEF Names
  <2>. QED  BY <2>1, OnlyNothing
<1>2. ASSUME NEW m \in Seq(Entry), NEW x \in Entry, m \in P PROVE Append(m, x) \in P
  <2>. DEFINE o == Only(m, S)
  <2>1. \A t \in Seq(Entry) : Names(Append(t, x)) = Append(Names(t), x.user) /\ Names(t) \in Seq(Users)
    <3>. SUFFICES ASSUME NEW t \in Seq(Entry)
                  PROVE  Names(Append(t, x)) = Append(Names(t), x.user) /\ Names(t) \in Seq(Users)
      OBVIOUS
    <3>1. \A i \in DOMAIN t : t[i].user \in Users
      <4>1. \A i \in DOMAIN t : t[i] \in Entry
        OBVIOUS
      <4>. QED  BY <4>1 DEF Entry
    <3>2. x.user \in Users
      BY DEF Entry
    <3>. DEFINE n == Len(t)  q == Append(t, x)  a == Names(t)  b == Names(q)  c == Append(a, x.user)
    <3>3. /\ n \in Nat /\ DOMAIN t = 1 .. n /\ DOMAIN q = 1 .. n + 1 /\ q[n + 1] = x
          /\ \A i \in 1 .. n : q[i] = t[i]
      OBVIOUS
    <3>. HIDE DEF n, q
    <3>4. a = [i \in 1 .. n |-> t[i].user] /\ b = [i \in 1 .. n + 1 |-> q[i].user]
      BY <3>3 DEF Names
    <3>5. a \in Seq(Users) /\ Len(a) = n
      <4>1. \A i \in 1 .. n : t[i].user \in Users
        BY <3>1, <3>3
      <4>. HIDE DEF a
      <4>. QED  BY <3>3, <3>4, <4>1
    <3>6. c = [i \in 1 .. n + 1 |-> IF i = n + 1 THEN x.user ELSE a[i]]
      <4>. HIDE DEF a
      <4>1. Len(c) = n + 1 /\ c \in Seq(Users)
        BY <3>2, <3>5
      <4>2. \A i \in 1 .. n + 1 : c[i] = IF i = n + 1 THEN x.user ELSE a[i]
        BY <3>2, <3>3, <3>5
      <4>. HIDE DEF c
      <4>. QED  BY <4>1, <4>2
    <3>7. \A i \in 1 .. n + 1 : q[i].user = IF i = n + 1 THEN x.user ELSE a[i]
      <4>1. \A i \in 1 .. n : a[i] = t[i].user
        BY <3>4
      <4>2. \A i \in 1 .. n + 1 : i = n + 1 \/ i \in 1 .. n
        BY <3>3
      <4>. HIDE DEF a
      <4>. QED  BY <3>3, <4>1, <4>2
    <3>. HIDE DEF a, b, c
    <3>8. b = c
      BY <3>4, <3>6, <3>7
    <3>. QED  BY <3>5, <3>8 DEF a, b, c, q
  <2>2. x \in S <=> x.user \in U
    BY EntryOthers DEF Entry
  <2>3. x.user \in Users
    BY DEF Entry
  <2>. HIDE DEF S, U
  <2>4. o \in Seq(Entry) /\ Only(Append(m, x), S) = IF x \in S THEN Append(o, x) ELSE o
    BY OnlyAppend
  <2>5. Only(Append(Names(m), x.user), U) =
          IF x.user \in U THEN Append(Only(Names(m), U), x.user) ELSE Only(Names(m), U)
    <3>. DEFINE k == Names(m)
                y == x.user
    <3>1. k \in Seq(Users) /\ y \in Users
      BY <2>1, <2>3
    <3>. HIDE DEF k, y
    <3>2. Only(Append(k, y), U) = IF y \in U THEN Append(Only(k, U), y) ELSE Only(k, U)
      BY <3>1, OnlyAppend
    <3>. QED  BY <3>2 DEF k, y
  <2>6. Names(o) = Only(Names(m), U)
    BY <1>2
  <2>. HIDE DEF o
  <2>7. Names(Only(Append(m, x), S)) = Only(Names(Append(m, x)), U)
    BY <2>1, <2>2, <2>4, <2>5, <2>6
  <2>. QED  BY <2>7
<1>3. Seq(Entry) \subseteq P
  <2>. HIDE DEF P
  <2>. QED  BY <1>1, <1>2, SeqInductionInSet
<1>4. Names(Only(l, S)) = Only(Names(l), U)
  BY <1>3
<1>. QED  BY <1>4 DEF Without

LEMMA WithoutSameNames ==
  ASSUME NEW l \in Seq(Entry), NEW m \in Seq(Entry), NEW e \in Entry, Names(l) = Names(m)
  PROVE  Names(Without(l, e)) = Names(Without(m, e))
<1>1. Names(Without(l, e)) = Only(Names(l), Users \ {e.user})
  BY NamesWithout
<1>2. Names(Without(m, e)) = Only(Names(m), Users \ {e.user})
  BY NamesWithout
<1>. QED  BY <1>1, <1>2

-----------------------------------------------------------------------------
(* The list after some events.                                             *)

After(l, es) == FoldLeft(Apply, l, es)

LEMMA ApplyType ==
  ASSUME NEW l \in Seq(Entry), NEW e \in Event
  PROVE  Apply(l, e) \in Seq(Entry)
<1>1. e.path \in {"joinQueue", "leaveQueue", "updateQueueEntry"} /\ e.entry \in Entry
  BY DEF Event
<1>2. CASE e.path = "joinQueue"
  BY <1>1, <1>2 DEF Apply
<1>3. CASE e.path = "leaveQueue"
  BY <1>1, <1>3, WithoutType DEF Apply
<1>4. CASE e.path = "updateQueueEntry"
  <2>. DEFINE m == [i \in DOMAIN l |-> IF l[i].user = e.entry.user THEN e.entry ELSE l[i]]
  <2>1. m \in Seq(Entry)
    <3>1. Len(l) \in Nat /\ DOMAIN l = 1 .. Len(l) /\ \A i \in DOMAIN l : l[i] \in Entry
      OBVIOUS
    <3>2. m \in [1 .. Len(l) -> Entry]
      BY <1>1, <3>1
    <3>. QED  BY <3>1, <3>2
  <2>. QED  BY <1>4, <2>1 DEF Apply
<1>. QED  BY <1>1, <1>2, <1>3, <1>4

ApplyStep == [p \in Seq(Entry) \X Event |-> Apply(p[1], p[2])]

LEMMA ApplyStepType == ApplyStep \in [Seq(Entry) \X Event -> Seq(Entry)]
BY ApplyType DEF ApplyStep

LEMMA AfterFolds ==
  ASSUME NEW l \in Seq(Entry), NEW es \in Seq(Event)
  PROVE  Folds(Seq(Entry), ApplyStep, l, es, After(l, es))
<1>. DEFINE T == Seq(Entry)
            Is(iter) == iter = [s \in SUBSET DOMAIN es |->
                                  IF s = {} THEN l ELSE Apply(iter[s \ {Max(s)}], es[Max(s)])]
            G == CHOOSE iter : Is(iter)
<1>1. l \in T /\ ApplyStep \in [T \X Event -> T]
  BY ApplyStepType
<1>2. ASSUME NEW s \in SUBSET DOMAIN es, s # {}, NEW t \in T
      PROVE  ApplyStep[<<t, es[Max(s)]>>] = Apply(t, es[Max(s)])
  <2>1. Len(es) \in Nat /\ DOMAIN es = 1 .. Len(es)
    OBVIOUS
  <2>2. Max(s) \in 1 .. Len(es)
    BY <1>2, <2>1, MaxType
  <2>3. es[Max(s)] \in Event
    BY <2>2
  <2>. QED  BY <2>3 DEF ApplyStep
<1>3. PICK g \in [SUBSET DOMAIN es -> T] : Iterates(g, ApplyStep, l, es)
  <2>. HIDE DEF T
  <2>. QED  BY <1>1, IterationExists
<1>4. Is(g)
  <2>1. ASSUME NEW s \in SUBSET DOMAIN es
        PROVE  g[s \ {Max(s)}] \in T
    OBVIOUS
  <2>. HIDE DEF T
  <2>. QED  BY <1>2, <1>3, <2>1 DEF Iterates
<1>5. Is(G)
  BY <1>4
<1>6. After(l, es) = G[DOMAIN es]
  BY DEF After, FoldLeft, MapThenFoldSet
<1>. HIDE DEF G, T
<1>7. G[{}] = l
  BY <1>5
<1>8. ASSUME NEW s \in SUBSET DOMAIN es, s # {}, G[s \ {Max(s)}] \in T
      PROVE  G[s] = ApplyStep[<<G[s \ {Max(s)}], es[Max(s)]>>]
  BY <1>2, <1>5, <1>8
<1>9. Folds(T, ApplyStep, l, es, G[DOMAIN es])
  BY <1>1, <1>7, <1>8, IterationFolds
<1>. QED  BY <1>6, <1>9 DEF T

LEMMA AfterType ==
  ASSUME NEW l \in Seq(Entry), NEW es \in Seq(Event)
  PROVE  After(l, es) \in Seq(Entry)
<1>1. Folds(Seq(Entry), ApplyStep, l, es, After(l, es))
  BY AfterFolds
<1>. QED  BY <1>1 DEF Folds, Chain

LEMMA AfterNothing ==
  ASSUME NEW l \in Seq(Entry)
  PROVE  After(l, <<>>) = l
<1>1. <<>> \in Seq(Event) /\ Len(<<>>) = 0
  OBVIOUS
<1>2. Folds(Seq(Entry), ApplyStep, l, <<>>, After(l, <<>>))
  BY <1>1, AfterFolds
<1>. QED  BY <1>1, <1>2 DEF Folds, Chain

LEMMA AfterAppend ==
  ASSUME NEW l \in Seq(Entry), NEW es \in Seq(Event), NEW e \in Event
  PROVE  After(l, Append(es, e)) = Apply(After(l, es), e)
<1>. DEFINE T == Seq(Entry)
            F == ApplyStep
            m == Append(es, e)
            r == After(l, es)
<1>1. m \in Seq(Event) /\ F \in [T \X Event -> T]
  BY ApplyStepType
<1>2. Folds(T, F, l, es, r) /\ Folds(T, F, l, m, After(l, m))
  <2>. HIDE DEF m
  <2>. QED  BY <1>1, AfterFolds
<1>3. r \in T /\ Folds(T, F, l, m, F[<<r, e>>])
  <2>. HIDE DEF F, r, T
  <2>. QED  BY <1>1, <1>2, FoldsAppend
<1>4. After(l, m) = F[<<r, e>>]
  <2>. HIDE DEF F, r, m, T
  <2>. QED  BY <1>1, <1>2, <1>3, FoldsUnique
<1>. QED  BY <1>3, <1>4 DEF ApplyStep

LEMMA AfterCons ==
  ASSUME NEW l \in Seq(Entry), NEW es \in Seq(Event), es # <<>>
  PROVE  After(l, es) = After(Apply(l, Head(es)), Tail(es))
<1>. DEFINE T == Seq(Entry)
            F == ApplyStep
            k == Apply(l, Head(es))
            t == Tail(es)
            r == After(l, es)
<1>1. Head(es) \in Event /\ t \in Seq(Event) /\ F \in [T \X Event -> T]
  BY ApplyStepType
<1>2. k = F[<<l, Head(es)>>] /\ k \in T
  BY <1>1, ApplyType DEF ApplyStep
<1>3. Folds(T, F, l, es, r)
  BY AfterFolds
<1>4. Folds(T, F, k, t, r)
  <2>1. l \in T
    OBVIOUS
  <2>. HIDE DEF F, r, T
  <2>2. Folds(T, F, F[<<l, Head(es)>>], Tail(es), r)
    BY <1>1, <1>3, <2>1, FoldsCons
  <2>. QED  BY <1>2, <2>2
<1>5. Folds(T, F, k, t, After(k, t))
  <2>. HIDE DEF k, t
  <2>. QED  BY <1>1, <1>2, AfterFolds
<1>6. r = After(k, t)
  <2>. HIDE DEF F, r, T, k, t
  <2>. QED  BY <1>1, <1>4, <1>5, FoldsUnique
<1>. QED  BY <1>6

-----------------------------------------------------------------------------
(* The tab of LiveView is a tab of ClientSocket.                           *)

\* Every step is one of the tab, or leaves what ClientSocket describes alone: what is proved
\* of ClientSocket holds here.
LEMMA LiveTab == LiveSpec => Spec
<1>1. LiveInit => Init
  BY DEF LiveInit
<1>2. [LiveNext]_liveVars => [Next]_vars
  <2>. SUFFICES ASSUME [LiveNext]_liveVars PROVE [Next]_vars
    OBVIOUS
  <2>1. CASE JoinQueue \/ LeaveQueue \/ DeleteFails \/ UpdateQueueEntry \/ PurgeQueue
    BY <2>1 DEF JoinQueue, LeaveQueue, DeleteFails, UpdateQueueEntry, PurgeQueue, Write
  <2>2. CASE Cleanup \/ Announce \/ HandlerFails \/ ReadSnapshot \/ HandleEvent
    BY <2>2 DEF Cleanup, Announce, HandlerFails, ReadSnapshot, HandleEvent
  <2>3. CASE ReceiveNext
    BY <2>3 DEF ReceiveNext, Next
  <2>4. CASE \E i \in DOMAIN loads : Fulfilled(i) \/ Rejected(i)
    BY <2>4 DEF Fulfilled, Rejected, Next
  <2>5. CASE Loading
    BY <2>5 DEF Loading, Next
  <2>6. CASE LoseConnection
    BY <2>6 DEF LoseConnection, Next
  <2>7. CASE Elsewhere
    BY <2>7 DEF Elsewhere, Next
  <2>8. CASE UNCHANGED liveVars
    BY <2>8 DEF liveVars
  <2>. QED  BY <2>1, <2>2, <2>3, <2>4, <2>5, <2>6, <2>7, <2>8 DEF LiveNext
<1>. QED  BY <1>1, <1>2, PTL DEF LiveSpec, Spec

-----------------------------------------------------------------------------
(* Types.                                                                  *)

Answers == [read : BOOLEAN, rows : Seq(Entry)]
LiveInv == LiveTypeOK /\ loads \in Seq(Answers)

\* What a handler may write and announce
Writable(rows, es) == rows \in Seq(Entry) /\ Unique(rows) /\ es \in Seq(Event)

LEMMA RangeIndex ==
  ASSUME NEW X, NEW l \in Seq(X), NEW x \in Range(l)
  PROVE  x \in X /\ \E i \in DOMAIN l : l[i] = x
BY DEF Range

LEMMA AnnouncedType ==
  ASSUME NEW e \in Entry
  PROVE  Joined(e) \in Event /\ Left(e) \in Event /\ Updated(e) \in Event /\ Purged(e) \in Event
BY DEF Joined, Left, Updated, Purged, Event

LEMMA RemovedType ==
  ASSUME NEW X, NEW s \in Seq(X), NEW i \in DOMAIN s
  PROVE  RemoveAt(s, i) \in Seq(X) /\ Len(RemoveAt(s, i)) = Len(s) - 1
<1>. DEFINE u == SubSeq(s, 1, i - 1)
            v == SubSeq(s, i + 1, Len(s))
<1>1. u \in Seq(X) /\ Len(u) = i - 1
  OBVIOUS
<1>2. v \in Seq(X) /\ Len(v) = Len(s) - i
  OBVIOUS
<1>3. i \in Nat /\ Len(s) \in Nat
  OBVIOUS
<1>. HIDE DEF u, v
<1>4. u \o v \in Seq(X) /\ Len(u \o v) = Len(s) - 1
  BY <1>1, <1>2, <1>3
<1>. QED  BY <1>4 DEF RemoveAt, u, v

LEMMA JoinWrites ==
  ASSUME NEW u \in Users, table \in Seq(Entry), Unique(table),
         Without(table, [user |-> u, helped |-> FALSE]) = table
  PROVE  LET e == [user |-> u, helped |-> FALSE]
         IN e \in Entry /\ Writable(Append(table, e), <<Joined(e)>>)
<1>. DEFINE e == [user |-> u, helped |-> FALSE]
<1>1. e \in Entry
  BY DEF Entry
<1>. HIDE DEF e
<1>2. Unique(Append(table, e))
  <2>1. \A i \in DOMAIN table : table[i].user # e.user
    BY <1>1, WithoutAbsent DEF e
  <2>. QED  BY <1>1, <2>1, UniqueAppend
<1>3. Writable(Append(table, e), <<Joined(e)>>)
  BY <1>1, <1>2, AnnouncedType DEF Writable
<1>. QED  BY <1>1, <1>3 DEF e

LEMMA LeaveWrites ==
  ASSUME table \in Seq(Entry), Unique(table), NEW e \in Range(table)
  PROVE  e \in Entry /\ Writable(Without(table, e), <<Left(e)>>) /\ Writable(table, <<Left(e)>>)
<1>1. e \in Entry
  BY RangeIndex
<1>2. Without(table, e) \in Seq(Entry) /\ Unique(Without(table, e)) /\ Left(e) \in Event
  BY <1>1, WithoutType, WithoutUnique, AnnouncedType
<1>. QED  BY <1>1, <1>2 DEF Writable

LEMMA UpdateWrites ==
  ASSUME table \in Seq(Entry), Unique(table), NEW i \in DOMAIN table
  PROVE  LET e == [table[i] EXCEPT !.helped = ~@]
         IN /\ e \in Entry /\ e.user = table[i].user
            /\ Writable([table EXCEPT ![i] = e], <<Updated(e)>>)
<1>. DEFINE e == [table[i] EXCEPT !.helped = ~@]
            m == [table EXCEPT ![i] = e]
<1>1. table[i] \in Entry
  OBVIOUS
<1>2. e \in Entry /\ e.user = table[i].user
  BY <1>1 DEF Entry
<1>. HIDE DEF e
<1>3. m \in Seq(Entry) /\ DOMAIN m = DOMAIN table /\ \A j \in DOMAIN m : m[j].user = table[j].user
  BY <1>2
<1>4. Writable(m, <<Updated(e)>>)
  BY <1>2, <1>3, AnnouncedType DEF Writable, Unique
<1>. QED  BY <1>2, <1>4 DEF e

LEMMA PurgeWrites ==
  ASSUME table \in Seq(Entry)
  PROVE  Writable(<<>>, [i \in DOMAIN table |-> Purged(table[i])])
<1>. DEFINE p == [i \in DOMAIN table |-> Purged(table[i])]
<1>1. p \in Seq(Event)
  <2>1. Len(table) \in Nat /\ DOMAIN table = 1 .. Len(table)
        /\ \A i \in DOMAIN table : Purged(table[i]) \in Event
    BY AnnouncedType
  <2>2. p \in [1 .. Len(table) -> Event]
    BY <2>1
  <2>. QED  BY <2>1, <2>2
<1>2. <<>> \in Seq(Entry) /\ Unique(<<>>)
  BY DEF Unique
<1>. QED  BY <1>1, <1>2 DEF Writable

\* Every change of the queue is a write of these.
LEMMA ChangesWrite ==
  ASSUME LiveInv,
         JoinQueue \/ LeaveQueue \/ DeleteFails \/ UpdateQueueEntry \/ PurgeQueue
  PROVE  \E rows, es : Writable(rows, es) /\ Write(rows, es)
<1>. USE DEF LiveInv, LiveTypeOK
<1>0. table \in Seq(Entry) /\ Unique(table)
  BY DEF Unique
<1>1. CASE JoinQueue
  BY <1>0, <1>1, JoinWrites DEF JoinQueue
<1>2. CASE LeaveQueue \/ DeleteFails
  BY <1>0, <1>2, LeaveWrites DEF LeaveQueue, DeleteFails
<1>3. CASE UpdateQueueEntry
  BY <1>0, <1>3, UpdateWrites DEF UpdateQueueEntry
<1>4. CASE PurgeQueue
  BY <1>0, <1>4, PurgeWrites DEF PurgeQueue
<1>. QED  BY <1>1, <1>2, <1>3, <1>4

LEMMA LiveTypeStep ==
  ASSUME LiveInv, TypeOK', [LiveNext]_liveVars
  PROVE  LiveInv'
<1>. USE DEF LiveInv, LiveTypeOK, LiveViewAssumption
<1>0. /\ loads \in Seq(Answers) /\ Len(loads) = gets /\ gets \in Nat
      /\ down \in Seq(Event) /\ todo \in Seq(Event) /\ list \in Seq(Entry)
      /\ changes \in 0 .. MaxChanges /\ loadCount \in 0 .. MaxLoads
      /\ MaxChanges \in Nat /\ MaxLoads \in Nat
  BY LiveViewAssumption, ClientSocketAssumption DEF TypeOK
<1>1. CASE JoinQueue \/ LeaveQueue \/ DeleteFails \/ UpdateQueueEntry \/ PurgeQueue
  <2>1. PICK rows, es : Writable(rows, es) /\ Write(rows, es)
    BY <1>1, ChangesWrite
  <2>2. changes' \in 0 .. MaxChanges
    BY <1>0, <2>1 DEF Write
  <2>3. table' \in Seq(Entry) /\ todo' \in Seq(Event)
        /\ \A i, j \in DOMAIN table' : table'[i].user = table'[j].user => i = j
    BY <2>1 DEF Write, Writable, Unique
  <2>. QED  BY <2>1, <2>2, <2>3 DEF Write, vars, view, store
<1>2. CASE Cleanup
  <2>1. changes' \in 0 .. MaxChanges
    BY <1>0, <1>2 DEF Cleanup
  <2>. QED  BY <1>2, <2>1 DEF Cleanup, vars, view, store
<1>3. CASE Announce
  <2>1. todo' \in Seq(Event) /\ Head(todo) \in Event
    BY <1>0, <1>3 DEF Announce
  <2>2. down' \in Seq(Event)
    BY <1>0, <1>3, <2>1 DEF Announce
  <2>. QED  BY <1>3, <2>1, <2>2 DEF Announce, vars, view, store
<1>4. CASE HandlerFails
  BY <1>4 DEF HandlerFails, vars, view, store
<1>5. CASE ReadSnapshot
  <2>1. PICK i \in DOMAIN loads : loads' = [loads EXCEPT ![i] = [read |-> TRUE, rows |-> table]]
    BY <1>5 DEF ReadSnapshot
  <2>2. [read |-> TRUE, rows |-> table] \in Answers
    BY DEF Answers
  <2>3. loads' \in Seq(Answers) /\ Len(loads') = Len(loads)
    BY <1>0, <2>1, <2>2
  <2>. QED  BY <1>5, <2>3 DEF ReadSnapshot, vars, queue, view, store
<1>6. CASE ReceiveNext
  BY <1>6 DEF ReceiveNext, Receive, queue, view, store
<1>7. CASE HandleEvent
  <2>1. down' \in Seq(Event) /\ Head(down) \in Event
    BY <1>0, <1>7 DEF HandleEvent
  <2>2. list' \in Seq(Entry) /\ (list' # <<>> => loaded)
    BY <1>0, <1>7, <2>1, ApplyType DEF HandleEvent
  <2>. QED  BY <1>7, <2>1, <2>2 DEF HandleEvent, vars, queue, store
<1>8. ASSUME NEW i \in DOMAIN loads, Fulfilled(i) \/ Rejected(i) PROVE LiveInv'
  <2>1. loads' = RemoveAt(loads, i) /\ gets' = gets - 1
    BY <1>8 DEF Fulfilled, Rejected, Response
  <2>2. loads' \in Seq(Answers) /\ Len(loads') = gets'
    BY <1>0, <2>1, RemovedType
  <2>3. list' \in Seq(Entry) /\ loaded' \in BOOLEAN /\ (list' # <<>> => loaded')
    <3>1. loads[i].rows \in Seq(Entry)
      <4>1. loads[i] \in Answers
        BY <1>0
      <4>. QED  BY <4>1 DEF Answers
    <3>. QED  BY <1>0, <1>8, <3>1 DEF Fulfilled, Rejected, view
  <2>. QED  BY <1>8, <2>2, <2>3 DEF Fulfilled, Rejected, queue
<1>9. CASE Loading
  <2>1. loadCount' \in 0 .. MaxLoads
    BY <1>0, <1>9 DEF Loading
  <2>2. loads' \in Seq(Answers) /\ Len(loads') = gets'
    <3>1. Sent \in Answers
      BY DEF Sent, Answers
    <3>2. gets' = gets \/ gets' = gets + 1
      BY <1>9 DEF Loading, RenderApp, ReloadAfterDelay, OnOpen, LoadQueues
    <3>3. CASE gets' = gets
      BY <1>0, <1>9, <3>3 DEF Loading
    <3>4. CASE gets' = gets + 1
      <4>1. loads' = Append(loads, Sent)
        BY <1>0, <1>9, <3>4 DEF Loading
      <4>2. loads' \in Seq(Answers) /\ Len(loads') = Len(loads) + 1
        BY <1>0, <3>1, <4>1
      <4>. QED  BY <1>0, <3>4, <4>2
    <3>. QED  BY <3>2, <3>3, <3>4
  <2>. QED  BY <1>9, <2>1, <2>2 DEF Loading, queue, view
<1>10. CASE LoseConnection
  BY <1>10 DEF LoseConnection, Break, queue, view
<1>11. CASE Elsewhere
  <2>1. gets' = gets
    BY <1>11 DEF Elsewhere, Navigate, RunEffects, Connect, OnClose, store
  <2>. QED  BY <1>11, <2>1 DEF Elsewhere, queue, view
<1>12. CASE UNCHANGED liveVars
  BY <1>12 DEF liveVars, vars, store, queue, view
<1>. QED  BY <1>1, <1>2, <1>3, <1>4, <1>5, <1>6, <1>7, <1>8, <1>9, <1>10, <1>11, <1>12 DEF LiveNext

LEMMA LiveInvCorrect == LiveSpec => []LiveInv
<1>1. LiveInit /\ TypeOK => LiveInv
  <2>. SUFFICES ASSUME LiveInit, TypeOK PROVE LiveInv
    OBVIOUS
  <2>. USE LiveViewAssumption DEF LiveInit
  <2>1. table \in Seq(Entry) /\ Unique(table)
    <3>1. CASE table = <<>>
      BY <3>1 DEF Unique
    <3>2. ASSUME NEW u \in Users, table = <<[user |-> u, helped |-> FALSE]>>
          PROVE  table \in Seq(Entry) /\ Unique(table)
      <4>1. [user |-> u, helped |-> FALSE] \in Entry
        BY DEF Entry
      <4>. QED  BY <3>2, <4>1 DEF Unique
    <3>. QED  BY <3>1, <3>2
  <2>2. Sent \in Answers
    BY DEF Sent, Answers
  <2>3. loads \in Seq(Answers) /\ Len(loads) = 2 /\ gets = 2
    <3>1. loads = <<Sent, Sent>> /\ gets = 2
      BY DEF Init
    <3>. HIDE DEF LiveInit
    <3>. QED  BY <2>2, <3>1
  <2>4. \A i, j \in DOMAIN table : table[i].user = table[j].user => i = j
    BY <2>1 DEF Unique
  <2>5. changes \in 0 .. MaxChanges /\ loadCount \in 0 .. MaxLoads
    OBVIOUS
  <2>6. list = <<>> /\ todo = <<>> /\ down = <<>> /\ loaded = FALSE
    OBVIOUS
  <2>. HIDE DEF LiveInit
  <2>7. LiveTypeOK
    <3>1. list \in Seq(Entry) /\ todo \in Seq(Event) /\ down \in Seq(Event)
      BY <2>6
    <3>2. Len(loads) = gets
      BY <2>3
    <3>3. loaded \in BOOLEAN /\ (list # <<>> => loaded)
      BY <2>6
    <3>. QED  BY <2>1, <2>4, <2>5, <3>1, <3>2, <3>3 DEF LiveTypeOK
  <2>. QED  BY <2>3, <2>7 DEF LiveInv
<1>2. LiveInv /\ TypeOK' /\ [LiveNext]_liveVars => LiveInv'
  BY LiveTypeStep
<1>. QED  BY <1>1, <1>2, LiveTab, TypeCorrect, PTL DEF LiveSpec

\* Types: among them, that no user is twice in the table, in any order of joins, leaves,
\* updates and purges, and that the answers to come are those of the GETs in flight.
THEOREM LiveTypeCorrect == LiveSpec => []LiveTypeOK
BY LiveInvCorrect, PTL DEF LiveInv

-----------------------------------------------------------------------------
(* What is coming.                                                         *)

LEMMA AfterBefore ==
  ASSUME NEW l \in Seq(Entry), NEW es \in Seq(Event), NEW fs \in Seq(Event)
  PROVE  After(l, Before(es, fs)) = After(After(l, es), fs)
<1>. DEFINE P == {gs \in Seq(Event) : /\ Before(es, gs) \in Seq(Event)
                                      /\ After(l, Before(es, gs)) = After(After(l, es), gs)}
<1>0. After(l, es) \in Seq(Entry)
  BY AfterType
<1>1. <<>> \in P
  <2>1. <<>> \in Seq(Event)
    OBVIOUS
  <2>2. Before(es, <<>>) = es
    BY DEF Before
  <2>. QED  BY <1>0, <2>1, <2>2, AfterNothing
<1>2. ASSUME NEW gs \in Seq(Event), NEW e \in Event, gs \in P PROVE Append(gs, e) \in P
  <2>1. Before(es, gs) \in Seq(Event) /\ After(l, Before(es, gs)) = After(After(l, es), gs)
    BY <1>2
  <2>2. Append(gs, e) \in Seq(Event)
    OBVIOUS
  <2>3. Before(es, Append(gs, e)) = Append(Before(es, gs), e)
    <3>. HIDE DEF P
    <3>. QED  BY BeforeAppend
  <2>4. Append(Before(es, gs), e) \in Seq(Event)
    BY <2>1
  <2>5. After(l, Append(Before(es, gs), e)) = Apply(After(l, Before(es, gs)), e)
    BY <2>1, AfterAppend
  <2>6. After(After(l, es), Append(gs, e)) = Apply(After(After(l, es), gs), e)
    BY <1>0, AfterAppend
  <2>7. After(l, Before(es, Append(gs, e))) = After(After(l, es), Append(gs, e))
    BY <2>1, <2>3, <2>5, <2>6
  <2>8. Before(es, Append(gs, e)) \in Seq(Event)
    BY <2>3, <2>4
  <2>. QED  BY <2>2, <2>7, <2>8
<1>3. Seq(Event) \subseteq P
  <2>. HIDE DEF P
  <2>. QED  BY <1>1, <1>2, SeqInductionInSet
<1>. QED  BY <1>3

\* Of es, what a tab in room r hears
HeardIn(r, es) == CASE r = Shown -> es [] r = Lobby -> Only(es, Public) [] OTHER -> <<>>

ComingTo(l, ds, r, es) == After(After(l, ds), HeardIn(r, es))

LEMMA HeardType ==
  ASSUME NEW r, NEW es \in Seq(Event)
  PROVE  HeardIn(r, es) \in Seq(Event)
<1>1. Only(es, Public) \in Seq(Event) /\ <<>> \in Seq(Event)
  BY OnlyType
<1>. QED  BY <1>1 DEF HeardIn

LEMMA LobbyIsNotShown == Lobby # Shown
BY ClientSocketAssumption, LiveViewAssumption

LEMMA HeardNothing ==
  ASSUME NEW r
  PROVE  HeardIn(r, <<>>) = <<>>
BY OnlyNothing DEF HeardIn

LEMMA ComingIs ==
  ASSUME NEW l \in Seq(Entry), NEW ds \in Seq(Event), NEW r, NEW es \in Seq(Event)
  PROVE  /\ FoldLeft(Apply, l, ds \o HeardIn(r, es)) = ComingTo(l, ds, r, es)
         /\ ComingTo(l, ds, r, es) \in Seq(Entry)
<1>. DEFINE hs == HeardIn(r, es)
<1>1. hs \in Seq(Event)
  BY HeardType
<1>. HIDE DEF hs
<1>2. After(l, Before(ds, hs)) = After(After(l, ds), hs)
  BY <1>1, AfterBefore
<1>3. After(After(l, ds), hs) \in Seq(Entry)
  BY <1>1, AfterType
<1>4. FoldLeft(Apply, l, ds \o hs) = After(l, Before(ds, hs))
  BY DEF After, Before
<1>. QED  BY <1>2, <1>3, <1>4 DEF ComingTo, hs

\* The next event to be announced, when r hears it and when it does not
LEMMA HeardNext ==
  ASSUME NEW l \in Seq(Entry), NEW r, NEW es \in Seq(Event), es # <<>>
  PROVE  /\ r = Shown \/ (r = Lobby /\ Head(es).lobby)
              => After(l, HeardIn(r, es)) = After(Apply(l, Head(es)), HeardIn(r, Tail(es)))
         /\ ~(r = Shown \/ (r = Lobby /\ Head(es).lobby))
              => HeardIn(r, es) = HeardIn(r, Tail(es))
<1>1. Head(es) \in Event /\ Tail(es) \in Seq(Event)
  OBVIOUS
<1>2. ASSUME r = Shown
      PROVE  After(l, HeardIn(r, es)) = After(Apply(l, Head(es)), HeardIn(r, Tail(es)))
  <2>1. HeardIn(r, es) = es /\ HeardIn(r, Tail(es)) = Tail(es)
    BY <1>2, LobbyIsNotShown DEF HeardIn
  <2>. QED  BY <2>1, AfterCons
<1>3. CASE r = Lobby
  <2>. DEFINE h == Head(es)
              os == Only(Tail(es), Public)
              hs == Only(es, Public)
  <2>1. HeardIn(r, es) = hs /\ HeardIn(r, Tail(es)) = os
    BY <1>3, LobbyIsNotShown DEF HeardIn
  <2>2. hs = (IF h \in Public THEN <<h>> ELSE <<>>) \o os
    BY OnlyCons
  <2>3. os \in Seq(Event) /\ h \in Event /\ (h \in Public <=> h.lobby)
    <3>1. os \in Seq(Event)
      <4>. DEFINE t == Tail(es)
      <4>1. t \in Seq(Event)
        BY <1>1
      <4>. HIDE DEF t
      <4>2. Only(t, Public) \in Seq(Event)
        BY <4>1, OnlyType
      <4>. QED  BY <4>2 DEF t
    <3>. QED  BY <1>1, <3>1 DEF Public
  <2>. HIDE DEF h, os, hs
  <2>4. ASSUME h.lobby PROVE After(l, hs) = After(Apply(l, h), os)
    <3>1. hs = <<h>> \o os
      BY <2>2, <2>3, <2>4
    <3>2. hs \in Seq(Event) /\ hs # <<>> /\ Head(hs) = h /\ Tail(hs) = os
      BY <2>3, <3>1
    <3>. QED  BY <3>2, AfterCons
  <2>5. ASSUME ~h.lobby PROVE hs = os
    <3>1. hs = <<>> \o os
      BY <2>2, <2>3, <2>5
    <3>. QED  BY <2>3, <3>1
  <2>. QED  BY <1>3, <2>1, <2>4, <2>5, LobbyIsNotShown DEF h
<1>4. ASSUME r # Shown, r # Lobby
      PROVE  HeardIn(r, es) = HeardIn(r, Tail(es))
  BY <1>4 DEF HeardIn
<1>. QED  BY <1>2, <1>3, <1>4, LobbyIsNotShown

-----------------------------------------------------------------------------
(* Names.                                                                  *)

LEMMA NamesAppend ==
  ASSUME NEW l \in Seq(Entry), NEW e \in Entry
  PROVE  Names(l) \in Seq(Users) /\ Names(Append(l, e)) = Append(Names(l), e.user)
<1>1. \A i \in DOMAIN l : l[i].user \in Users
  <2>1. \A i \in DOMAIN l : l[i] \in Entry
    OBVIOUS
  <2>. QED  BY <2>1 DEF Entry
<1>2. e.user \in Users
  BY DEF Entry
<1>. QED  BY <1>1, <1>2 DEF Names

\* An update says nothing new of who queues.
LEMMA NamesUpdated ==
  ASSUME NEW l \in Seq(Entry), NEW e \in Entry
  PROVE  Names(Apply(l, Updated(e))) = Names(l)
<1>. DEFINE m == [i \in DOMAIN l |-> IF l[i].user = e.user THEN e ELSE l[i]]
<1>1. Apply(l, Updated(e)) = m
  BY DEF Apply, Updated
<1>2. DOMAIN m = DOMAIN l /\ \A i \in DOMAIN l : m[i].user = l[i].user
  OBVIOUS
<1>. HIDE DEF m
<1>3. Names(m) = Names(l)
  BY <1>2 DEF Names
<1>. QED  BY <1>1, <1>3

\* Whoever is purged is gone, and nobody comes.
Purges(l) == [i \in DOMAIN l |-> Purged(l[i])]

LEMMA PurgesAppend ==
  ASSUME NEW l \in Seq(Entry), NEW e \in Entry
  PROVE  Purges(l) \in Seq(Event) /\ Purges(Append(l, e)) = Append(Purges(l), Purged(e))
<1>. DEFINE m == Append(l, e)
<1>1. /\ DOMAIN m = 1 .. Len(l) + 1 /\ m[Len(l) + 1] = e
      /\ DOMAIN l = 1 .. Len(l) /\ \A i \in DOMAIN l : m[i] = l[i] /\ l[i] \in Entry
      /\ Len(l) \in Nat
  OBVIOUS
<1>2. \A x \in Entry : Purged(x) \in Event
  BY AnnouncedType
<1>3. Purges(l) \in Seq(Event) /\ Len(Purges(l)) = Len(l)
  <2>1. Purges(l) \in [1 .. Len(l) -> Event]
    BY <1>1, <1>2 DEF Purges
  <2>. QED  BY <1>1, <2>1
<1>4. Purges(m) \in Seq(Event) /\ Len(Purges(m)) = Len(l) + 1
      /\ \A i \in 1 .. Len(l) + 1 : Purges(m)[i] = Purged(m[i])
  <2>1. Purges(m) \in [1 .. Len(l) + 1 -> Event]
    BY <1>1, <1>2 DEF Purges
  <2>2. \A i \in 1 .. Len(l) + 1 : Purges(m)[i] = Purged(m[i])
    BY <1>1 DEF Purges
  <2>. QED  BY <1>1, <2>1, <2>2
<1>5. \A i \in 1 .. Len(l) : Purges(m)[i] = Purges(l)[i]
  BY <1>1, <1>4 DEF Purges
<1>6. Purges(m)[Len(l) + 1] = Purged(e)
  BY <1>1, <1>4
<1>. DEFINE p == Purges(l)
            q == Purges(m)
            y == Purged(e)
<1>7. y \in Event
  BY <1>2
<1>. HIDE DEF m, p, q, y
<1>8. q = Append(p, y)
  <2>1. q \in Seq(Event) /\ p \in Seq(Event) /\ Len(q) = Len(p) + 1
    BY <1>3, <1>4 DEF p, q
  <2>2. \A i \in 1 .. Len(p) : q[i] = p[i]
    BY <1>3, <1>5 DEF p, q
  <2>3. q[Len(p) + 1] = y
    BY <1>3, <1>6 DEF p, q, y
  <2>. QED  BY <1>7, <2>1, <2>2, <2>3
<1>. QED  BY <1>3, <1>8 DEF m, p, q, y

LEMMA PurgedGone ==
  ASSUME NEW l \in Seq(Entry), NEW t \in Seq(Entry)
  PROVE  \A i \in DOMAIN After(l, Purges(t)) :
           /\ \E j \in DOMAIN l : After(l, Purges(t))[i] = l[j]
           /\ \A j \in DOMAIN t : After(l, Purges(t))[i].user # t[j].user
<1>. DEFINE Gone(s) == \A i \in DOMAIN After(l, Purges(s)) :
                         /\ \E j \in DOMAIN l : After(l, Purges(s))[i] = l[j]
                         /\ \A j \in DOMAIN s : After(l, Purges(s))[i].user # s[j].user
            P == {s \in Seq(Entry) : Gone(s)}
<1>1. <<>> \in P
  <2>1. Purges(<<>>) = <<>>
    BY DEF Purges
  <2>. QED  BY <2>1, AfterNothing
<1>2. ASSUME NEW s \in Seq(Entry), NEW e \in Entry, s \in P PROVE Append(s, e) \in P
  <2>. DEFINE a == After(l, Purges(s))
              b == After(l, Purges(Append(s, e)))
              m == Append(s, e)
  <2>0. m \in Seq(Entry) /\ DOMAIN m = DOMAIN s \cup {Len(s) + 1} /\ m[Len(s) + 1] = e
        /\ \A j \in DOMAIN s : m[j] = s[j]
    OBVIOUS
  <2>1. a \in Seq(Entry) /\ b = Apply(a, Purged(e))
    <3>. DEFINE p == Purges(s)
    <3>1. p \in Seq(Event) /\ Purges(m) = Append(p, Purged(e)) /\ Purged(e) \in Event
      BY PurgesAppend, AnnouncedType
    <3>. HIDE DEF p
    <3>2. After(l, p) \in Seq(Entry) /\ After(l, Append(p, Purged(e))) = Apply(After(l, p), Purged(e))
      BY <3>1, AfterType, AfterAppend
    <3>. QED  BY <3>1, <3>2 DEF p
  <2>2. b = Without(a, e)
    <3>1. Purged(e).path = "leaveQueue" /\ Purged(e).entry = e
      BY DEF Purged, Left
    <3>. QED  BY <2>1, <3>1 DEF Apply
  <2>3. Gone(s)
    BY <1>2
  <2>4. \A i \in DOMAIN a : /\ \E j \in DOMAIN l : a[i] = l[j]
                            /\ \A j \in DOMAIN s : a[i].user # s[j].user
    BY <2>3
  <2>. HIDE DEF a, b
  <2>5. \A i \in DOMAIN b : b[i].user # e.user /\ \E j \in DOMAIN a : b[i] = a[j]
    BY <2>1, <2>2, WithoutMembers
  <2>. HIDE DEF m
  <2>6. \A i \in DOMAIN b : /\ \E j \in DOMAIN l : b[i] = l[j]
                            /\ \A j \in DOMAIN m : b[i].user # m[j].user
    BY <2>0, <2>4, <2>5
  <2>. QED  BY <2>0, <2>6 DEF m, b
<1>3. Seq(Entry) \subseteq P
  <2>. HIDE DEF P
  <2>. QED  BY <1>1, <1>2, SeqInductionInSet
<1>. QED  BY <1>3

LEMMA AllPurged ==
  ASSUME NEW l \in Seq(Entry), NEW t \in Seq(Entry), Names(l) = Names(t)
  PROVE  After(l, Purges(t)) = <<>>
<1>. DEFINE a == After(l, Purges(t))
<1>1. a \in Seq(Entry)
  <2>1. Purges(t) \in Seq(Event)
    <3>1. [i \in DOMAIN t |-> Purged(t[i])] \in Seq(Event)
      <4>1. Len(t) \in Nat /\ DOMAIN t = 1 .. Len(t)
            /\ \A i \in DOMAIN t : Purged(t[i]) \in Event
        BY AnnouncedType
      <4>. QED  BY <4>1
    <3>. QED  BY <3>1 DEF Purges
  <2>. QED  BY <2>1, AfterType
<1>2. \A i \in DOMAIN a : /\ \E j \in DOMAIN l : a[i] = l[j]
                          /\ \A j \in DOMAIN t : a[i].user # t[j].user
  BY PurgedGone
<1>3. DOMAIN l = DOMAIN t /\ \A j \in DOMAIN l : l[j].user = t[j].user
  BY DEF Names
<1>. HIDE DEF a
<1>4. \A i \in DOMAIN a : FALSE
  BY <1>2, <1>3
<1>5. a = <<>>
  <2>1. Len(a) \in Nat /\ (Len(a) # 0 => 1 \in DOMAIN a) /\ (Len(a) = 0 => a = <<>>)
    BY <1>1
  <2>. QED  BY <1>4, <2>1
<1>. QED  BY <1>5 DEF a

-----------------------------------------------------------------------------
(* Steps.                                                                  *)

NowComing == ComingTo(list, down, room, todo)

LEMMA ComingNow ==
  LiveInv => Coming = NowComing /\ Coming \in Seq(Entry)
<1>. SUFFICES ASSUME LiveInv PROVE Coming = NowComing /\ Coming \in Seq(Entry)
  OBVIOUS
<1>1. list \in Seq(Entry) /\ down \in Seq(Event) /\ todo \in Seq(Event)
  BY DEF LiveInv, LiveTypeOK
<1>2. Heard = HeardIn(room, todo)
  BY LobbyIsNotShown DEF Heard, HeardIn
<1>. QED  BY <1>1, <1>2, ComingIs DEF Coming, NowComing

LEMMA ComingNext ==
  LiveInv' => Coming' = NowComing' /\ Coming' \in Seq(Entry)
<1>. SUFFICES ASSUME LiveInv' PROVE Coming' = NowComing' /\ Coming' \in Seq(Entry)
  OBVIOUS
<1>1. list' \in Seq(Entry) /\ down' \in Seq(Event) /\ todo' \in Seq(Event)
  BY DEF LiveInv, LiveTypeOK
<1>2. Heard' = HeardIn(room', todo')
  BY LobbyIsNotShown DEF Heard, HeardIn
<1>. QED  BY <1>1, <1>2, ComingIs DEF Coming, NowComing

\* What a write adds to what is coming
LEMMA WriteComing ==
  ASSUME LiveInv, LiveInv', NEW rows, NEW es \in Seq(Event), Write(rows, es)
  PROVE  /\ Coming \in Seq(Entry)
         /\ Coming' = After(Coming, HeardIn(room, es))
         /\ table' = rows /\ loaded' = loaded
<1>1. /\ todo = <<>> /\ todo' = es /\ table' = rows /\ list' = list /\ down' = down
      /\ room' = room /\ loaded' = loaded
  BY DEF Write, vars, server, view
<1>2. Coming = After(After(list, down), <<>>) /\ Coming \in Seq(Entry)
  BY <1>1, ComingNow, HeardNothing DEF NowComing, ComingTo
<1>3. Coming = After(list, down)
  <2>1. After(list, down) \in Seq(Entry)
    BY AfterType DEF LiveInv, LiveTypeOK
  <2>. QED  BY <1>2, <2>1, AfterNothing
<1>4. Coming' = After(After(list, down), HeardIn(room, es))
  BY <1>1, ComingNext DEF NowComing, ComingTo
<1>. QED  BY <1>1, <1>2, <1>3, <1>4

\* One event that is written and heard, or not
LEMMA HeardOne ==
  ASSUME NEW l \in Seq(Entry), NEW r, NEW e \in Event
  PROVE  /\ r = Shown \/ (r = Lobby /\ e.lobby) => After(l, HeardIn(r, <<e>>)) = Apply(l, e)
         /\ ~(r = Shown \/ (r = Lobby /\ e.lobby)) => After(l, HeardIn(r, <<e>>)) = l
<1>. DEFINE es == <<e>>
<1>1. es \in Seq(Event) /\ es # <<>> /\ Head(es) = e /\ Tail(es) = <<>>
  OBVIOUS
<1>. HIDE DEF es
<1>2. HeardIn(r, Tail(es)) = <<>>
  BY <1>1, HeardNothing
<1>3. Apply(l, e) \in Seq(Entry)
  BY ApplyType
<1>4. After(l, <<>>) = l /\ After(Apply(l, e), <<>>) = Apply(l, e)
  BY <1>3, AfterNothing
<1>5. /\ r = Shown \/ (r = Lobby /\ e.lobby) => After(l, HeardIn(r, es)) = Apply(l, e)
      /\ ~(r = Shown \/ (r = Lobby /\ e.lobby)) => After(l, HeardIn(r, es)) = l
  BY <1>1, <1>2, <1>4, HeardNext
<1>. QED  BY <1>5 DEF es

LEMMA JoinComing ==
  ASSUME LiveInv, LiveInv', JoinQueue, ~Away
  PROVE  \E e \in Entry : /\ table' = Append(table, e) /\ Coming' = Append(Coming, e)
                          /\ loaded' = loaded
<1>1. PICK u \in Users : LET e == [user |-> u, helped |-> FALSE]
                         IN Without(table, e) = table /\ Write(Append(table, e), <<Joined(e)>>)
  BY DEF JoinQueue
<1>. DEFINE e == [user |-> u, helped |-> FALSE]
<1>2. e \in Entry /\ Joined(e) \in Event
  <2>1. e \in Entry
    BY DEF Entry
  <2>. QED  BY <2>1, AnnouncedType
<1>3. Write(Append(table, e), <<Joined(e)>>)
  BY <1>1
<1>. HIDE DEF e
<1>4. <<Joined(e)>> \in Seq(Event)
  BY <1>2
<1>5. Coming \in Seq(Entry) /\ Coming' = After(Coming, HeardIn(room, <<Joined(e)>>))
      /\ table' = Append(table, e) /\ loaded' = loaded
  BY <1>3, <1>4, WriteComing
<1>6. room \in {Shown, Lobby}
  <2>1. table \in Seq(Entry)
    BY DEF LiveInv, LiveTypeOK
  <2>2. Append(table, e) # table
    BY <1>2, <2>1
  <2>. QED  BY <1>5, <2>2 DEF Away
<1>7. Coming' = Apply(Coming, Joined(e))
  BY <1>2, <1>5, <1>6, HeardOne DEF Joined
<1>8. Apply(Coming, Joined(e)) = Append(Coming, e)
  BY DEF Apply, Joined
<1>. QED  BY <1>2, <1>5, <1>7, <1>8

LEMMA LeaveComing ==
  ASSUME LiveInv, LiveInv', LeaveQueue, ~Away
  PROVE  \E e \in Entry : /\ table' = Without(table, e) /\ Coming' = Without(Coming, e)
                          /\ loaded' = loaded
<1>1. PICK e \in Range(table) : Write(Without(table, e), <<Left(e)>>)
  BY DEF LeaveQueue
<1>2. table \in Seq(Entry)
  BY DEF LiveInv, LiveTypeOK
<1>3. PICK i \in DOMAIN table : e = table[i]
  BY <1>2, RangeIndex
<1>4. e \in Entry /\ Left(e) \in Event
  <2>1. e \in Entry
    BY <1>2, RangeIndex
  <2>. QED  BY <2>1, AnnouncedType
<1>5. <<Left(e)>> \in Seq(Event)
  BY <1>4
<1>6. Coming \in Seq(Entry) /\ Coming' = After(Coming, HeardIn(room, <<Left(e)>>))
      /\ table' = Without(table, e) /\ loaded' = loaded
  BY <1>1, <1>5, WriteComing
<1>7. room \in {Shown, Lobby}
  <2>1. Without(table, e) # table
    BY <1>2, <1>3, <1>4, WithoutAbsent
  <2>. QED  BY <1>6, <2>1 DEF Away
<1>8. Coming' = Apply(Coming, Left(e))
  BY <1>4, <1>6, <1>7, HeardOne DEF Left
<1>9. Apply(Coming, Left(e)) = Without(Coming, e)
  BY DEF Apply, Left
<1>. QED  BY <1>4, <1>6, <1>8, <1>9

LEMMA UpdateComing ==
  ASSUME LiveInv, LiveInv', UpdateQueueEntry
  PROVE  \E i \in DOMAIN table, e \in Entry :
           /\ e.user = table[i].user /\ table' = [table EXCEPT ![i] = e]
           /\ Coming' = IF room = Shown THEN Apply(Coming, Updated(e)) ELSE Coming
           /\ loaded' = loaded
<1>1. table \in Seq(Entry) /\ Unique(table)
  BY DEF LiveInv, LiveTypeOK, Unique
<1>2. PICK i \in DOMAIN table : LET e == [table[i] EXCEPT !.helped = ~@]
                                IN Write([table EXCEPT ![i] = e], <<Updated(e)>>)
  BY DEF UpdateQueueEntry
<1>. DEFINE e == [table[i] EXCEPT !.helped = ~@]
<1>3. e \in Entry /\ e.user = table[i].user
  BY <1>1, UpdateWrites
<1>4. Write([table EXCEPT ![i] = e], <<Updated(e)>>)
  BY <1>2
<1>. HIDE DEF e
<1>5. Updated(e) \in Event
  BY <1>3, AnnouncedType
<1>6. <<Updated(e)>> \in Seq(Event)
  BY <1>5
<1>7. Coming \in Seq(Entry) /\ Coming' = After(Coming, HeardIn(room, <<Updated(e)>>))
      /\ table' = [table EXCEPT ![i] = e] /\ loaded' = loaded
  BY <1>4, <1>6, WriteComing
<1>8. Updated(e).lobby = FALSE
  BY DEF Updated
<1>9. Coming' = IF room = Shown THEN Apply(Coming, Updated(e)) ELSE Coming
  BY <1>5, <1>7, <1>8, HeardOne
<1>. QED  BY <1>3, <1>7, <1>9

LEMMA PurgeComing ==
  ASSUME LiveInv, LiveInv', PurgeQueue, room = Shown, Names(Coming) = Names(table)
  PROVE  table' = <<>> /\ Coming' = <<>> /\ loaded' = loaded
<1>1. table \in Seq(Entry)
  BY DEF LiveInv, LiveTypeOK
<1>2. Write(<<>>, Purges(table))
  BY DEF PurgeQueue, Purges
<1>3. Purges(table) \in Seq(Event)
  BY <1>1, PurgeWrites DEF Writable, Purges
<1>4. Coming \in Seq(Entry) /\ Coming' = After(Coming, HeardIn(room, Purges(table)))
      /\ table' = <<>> /\ loaded' = loaded
  BY <1>2, <1>3, WriteComing
<1>5. HeardIn(room, Purges(table)) = Purges(table)
  BY LobbyIsNotShown DEF HeardIn
<1>6. After(Coming, Purges(table)) = <<>>
  BY <1>1, <1>4, AllPurged
<1>. QED  BY <1>4, <1>5, <1>6

\* An event on its way is no news: it is heard sooner or later, in the order of the writes.
LEMMA AnnounceComing ==
  ASSUME LiveInv, LiveInv', Announce
  PROVE  Coming' = Coming
<1>. DEFINE a == After(list, down)
<1>1. list \in Seq(Entry) /\ down \in Seq(Event) /\ todo \in Seq(Event) /\ todo # <<>>
  BY DEF LiveInv, LiveTypeOK, Announce
<1>2. list' = list /\ room' = room /\ todo' = Tail(todo)
      /\ down' = IF Hears(Head(todo)) THEN Append(down, Head(todo)) ELSE down
  BY DEF Announce, vars, server, view
<1>3. Head(todo) \in Event /\ a \in Seq(Entry)
  BY <1>1, AfterType
<1>4. Coming = After(a, HeardIn(room, todo))
  BY ComingNow DEF NowComing, ComingTo
<1>5. Coming' = After(After(list, down'), HeardIn(room, Tail(todo)))
  BY <1>2, ComingNext DEF NowComing, ComingTo
<1>6. CASE Hears(Head(todo))
  <2>1. After(list, down') = Apply(a, Head(todo))
    BY <1>1, <1>2, <1>3, <1>6, AfterAppend
  <2>. HIDE DEF a
  <2>2. After(a, HeardIn(room, todo)) = After(Apply(a, Head(todo)), HeardIn(room, Tail(todo)))
    BY <1>1, <1>3, <1>6, HeardNext DEF Hears
  <2>. QED  BY <1>4, <1>5, <2>1, <2>2
<1>7. CASE ~Hears(Head(todo))
  <2>1. HeardIn(room, todo) = HeardIn(room, Tail(todo))
    BY <1>1, <1>7, HeardNext DEF Hears
  <2>. QED  BY <1>2, <1>4, <1>5, <1>7, <2>1
<1>. QED  BY <1>6, <1>7

\* An event that arrives is applied, by a tab that listens and has loaded the queues.
LEMMA HandleComing ==
  ASSUME LiveInv, LiveInv', HandleEvent, loaded, listening
  PROVE  Coming' = Coming /\ loaded'
<1>1. list \in Seq(Entry) /\ down \in Seq(Event) /\ down # <<>>
  BY DEF LiveInv, LiveTypeOK, HandleEvent
<1>2. list' = Apply(list, Head(down)) /\ down' = Tail(down) /\ room' = room /\ todo' = todo
      /\ loaded' = loaded
  BY DEF HandleEvent, vars, server, queue
<1>3. After(list, down) = After(list', down')
  BY <1>1, <1>2, AfterCons
<1>. QED  BY <1>2, <1>3, ComingNow, ComingNext DEF NowComing, ComingTo

\* An answer that nothing has overlapped is the table.
LEMMA FulfilledComing ==
  ASSUME LiveInv, LiveInv', NEW i \in DOMAIN loads, Fulfilled(i), ~Overtaken
  PROVE  Coming' = table /\ table' = table /\ loaded'
<1>1. loads[i].rows = table /\ down = <<>> /\ todo = <<>>
  BY DEF Overtaken
<1>2. table \in Seq(Entry)
  BY DEF LiveInv, LiveTypeOK
<1>3. list' = table /\ down' = <<>> /\ todo' = <<>> /\ table' = table /\ loaded'
  BY <1>1 DEF Fulfilled, queue
<1>4. After(table, <<>>) = table
  BY <1>2, AfterNothing
<1>5. Coming' = After(After(list', down'), HeardIn(room', todo'))
  BY ComingNext DEF NowComing, ComingTo
<1>6. HeardIn(room', todo') = <<>>
  BY <1>3, HeardNothing
<1>. QED  BY <1>3, <1>4, <1>5, <1>6

\* What leaves the queue, the list, the events and the room alone
LEMMA NothingComing ==
  ASSUME LiveInv, LiveInv', UNCHANGED <<list, down, todo>>,
         room' = room \/ todo = <<>>
  PROVE  Coming' = Coming
<1>1. HeardIn(room', todo') = HeardIn(room, todo)
  BY HeardNothing
<1>. QED  BY <1>1, ComingNow, ComingNext DEF NowComing, ComingTo

\* Every other step a tab is told of keeps what is coming, or has it from the table.
LEMMA OtherComing ==
  ASSUME LiveInv, LiveInv', HearsItsRoom, loaded, [LiveNext]_liveVars,
         ~(JoinQueue \/ LeaveQueue \/ UpdateQueueEntry \/ PurgeQueue),
         ~(Untold \/ Deaf \/ Overtaken \/ LoseConnection)
  PROVE  loaded' /\ table' = table /\ (Coming' = Coming \/ Coming' = table)
<1>1. CASE Announce
  BY <1>1, AnnounceComing DEF Announce, view
<1>2. CASE ReadSnapshot
  <2>1. UNCHANGED <<list, down, todo, room, loaded, table>>
    BY <1>2 DEF ReadSnapshot, vars, server, queue, view
  <2>. QED  BY <2>1, NothingComing
<1>3. CASE ReceiveNext
  <2>1. UNCHANGED <<list, down, todo, loaded, table>> /\ todo = <<>>
    BY <1>3 DEF ReceiveNext, queue, view
  <2>. QED  BY <2>1, NothingComing
<1>4. CASE HandleEvent
  <2>1. listening
    BY <1>4 DEF Deaf, HearsItsRoom
  <2>2. table' = table
    BY <1>4 DEF HandleEvent, queue
  <2>. QED  BY <1>4, <2>1, <2>2, HandleComing
<1>5. ASSUME NEW i \in DOMAIN loads, Fulfilled(i)
      PROVE  loaded' /\ table' = table /\ Coming' = table
  BY <1>5, FulfilledComing
<1>6. ASSUME NEW i \in DOMAIN loads, Rejected(i)
      PROVE  loaded' /\ table' = table /\ Coming' = Coming
  <2>1. UNCHANGED <<list, down, todo, room, loaded, table>>
    BY <1>6 DEF Rejected, Response, server, queue, view
  <2>. QED  BY <2>1, NothingComing
<1>7. CASE Loading
  <2>1. UNCHANGED <<list, down, todo, loaded, table>>
    BY <1>7 DEF Loading, queue, view
  <2>2. room' = room
    BY <1>7 DEF Loading, RenderApp, ReloadAfterDelay, OnOpen, LoadQueues, server
  <2>. QED  BY <2>1, <2>2, NothingComing
<1>8. CASE Elsewhere
  <2>1. UNCHANGED <<list, down, todo, loaded, table>>
    BY <1>8 DEF Elsewhere, queue, view
  <2>2. room' = room
    BY <1>8 DEF Elsewhere, Navigate, RunEffects, Connect, OnClose, server
  <2>. QED  BY <2>1, <2>2, NothingComing
<1>9. CASE UNCHANGED liveVars
  <2>1. UNCHANGED <<list, down, todo, room, loaded, table>>
    BY <1>9 DEF liveVars, vars, server, queue, view
  <2>. QED  BY <2>1, NothingComing
<1>. QED  BY <1>1, <1>2, <1>3, <1>4, <1>5, <1>6, <1>7, <1>8, <1>9 DEF LiveNext, Untold

-----------------------------------------------------------------------------
(* The list is right.                                                      *)

LEMMA RightStep ==
  ASSUME LiveInv, LiveInv', HearsItsRoom, [LiveNext]_liveVars, Right,
         ~(Untold \/ Away \/ Deaf \/ Overtaken \/ LoseConnection)
  PROVE  Right'
<1>1. /\ loaded /\ Names(Coming) = Names(table)
      /\ Coming \in Seq(Entry) /\ table \in Seq(Entry)
  BY ComingNow DEF Right, LiveInv, LiveTypeOK
<1>2. CASE JoinQueue
  <2>1. PICK e \in Entry : /\ table' = Append(table, e) /\ Coming' = Append(Coming, e)
                           /\ loaded' = loaded
    BY <1>2, JoinComing
  <2>2. Names(Append(table, e)) = Names(Append(Coming, e))
    BY <1>1, NamesAppend
  <2>. QED  BY <1>1, <2>1, <2>2 DEF Right
<1>3. CASE LeaveQueue
  <2>1. PICK e \in Entry : /\ table' = Without(table, e) /\ Coming' = Without(Coming, e)
                           /\ loaded' = loaded
    BY <1>3, LeaveComing
  <2>. QED  BY <1>1, <2>1, WithoutSameNames DEF Right
<1>4. CASE UpdateQueueEntry
  <2>1. PICK i \in DOMAIN table, e \in Entry :
          /\ e.user = table[i].user /\ table' = [table EXCEPT ![i] = e]
          /\ Coming' = IF room = Shown THEN Apply(Coming, Updated(e)) ELSE Coming
          /\ loaded' = loaded
    BY <1>4, UpdateComing
  <2>2. Names(Coming') = Names(Coming)
    BY <1>1, <2>1, NamesUpdated
  <2>3. Names(table') = Names(table)
    <3>. DEFINE m == [table EXCEPT ![i] = e]
    <3>1. DOMAIN m = DOMAIN table /\ \A j \in DOMAIN table : m[j].user = table[j].user
      BY <2>1
    <3>. HIDE DEF m
    <3>2. Names(m) = Names(table)
      BY <3>1 DEF Names
    <3>. QED  BY <2>1, <3>2 DEF m
  <2>. QED  BY <1>1, <2>1, <2>2, <2>3 DEF Right
<1>5. CASE PurgeQueue
  <2>1. room = Shown
    BY <1>5 DEF Untold
  <2>. QED  BY <1>1, <1>5, <2>1, PurgeComing DEF Right
<1>6. CASE ~(JoinQueue \/ LeaveQueue \/ UpdateQueueEntry \/ PurgeQueue)
  <2>1. loaded' /\ table' = table /\ (Coming' = Coming \/ Coming' = table)
    BY <1>1, <1>6, OtherComing
  <2>. QED  BY <1>1, <2>1 DEF Right
<1>. QED  BY <1>2, <1>3, <1>4, <1>5, <1>6

LEMMA ExactStep ==
  ASSUME LiveInv, LiveInv', HearsItsRoom, [LiveNext]_liveVars, Exact,
         ~(Untold \/ Away \/ Deaf \/ Overtaken \/ LoseConnection),
         ~(UpdateQueueEntry /\ room # Shown)
  PROVE  Exact'
<1>1. loaded /\ Coming = table /\ table \in Seq(Entry) /\ Unique(table)
  BY DEF Exact, LiveInv, LiveTypeOK, Unique
<1>2. CASE JoinQueue
  BY <1>1, <1>2, JoinComing DEF Exact
<1>3. CASE LeaveQueue
  BY <1>1, <1>3, LeaveComing DEF Exact
<1>4. CASE UpdateQueueEntry
  <2>1. PICK i \in DOMAIN table, e \in Entry :
          /\ e.user = table[i].user /\ table' = [table EXCEPT ![i] = e]
          /\ Coming' = IF room = Shown THEN Apply(Coming, Updated(e)) ELSE Coming
          /\ loaded' = loaded
    BY <1>4, UpdateComing
  <2>2. Coming' = Apply(table, Updated(e))
    BY <1>1, <1>4, <2>1
  <2>3. Apply(table, Updated(e)) = [j \in DOMAIN table |-> IF table[j].user = e.user THEN e ELSE table[j]]
    BY DEF Apply, Updated
  <2>4. \A j \in DOMAIN table : table[j].user = e.user <=> j = i
    BY <1>1, <2>1 DEF Unique
  <2>5. Apply(table, Updated(e)) = [table EXCEPT ![i] = e]
    BY <2>3, <2>4
  <2>. QED  BY <1>1, <2>1, <2>2, <2>5 DEF Exact
<1>5. CASE PurgeQueue
  <2>1. room = Shown
    BY <1>5 DEF Untold
  <2>. QED  BY <1>1, <1>5, <2>1, PurgeComing DEF Exact
<1>6. CASE ~(JoinQueue \/ LeaveQueue \/ UpdateQueueEntry \/ PurgeQueue)
  <2>1. loaded' /\ table' = table /\ (Coming' = Coming \/ Coming' = table)
    BY <1>1, <1>6, OtherComing
  <2>. QED  BY <1>1, <2>1 DEF Exact
<1>. QED  BY <1>2, <1>3, <1>4, <1>5, <1>6

\* A list that is right stays right for any users, joins, leaves, updates and purges, in any
\* number, while the tab changes pages, reloads and reconnects: only a change it is not told
\* of and a load that overlaps a change can make it wrong.
THEOREM StaysRightCorrect == LiveSpec => StaysRight
<1>1. LiveInv /\ LiveInv' /\ HearsItsRoom /\ [LiveNext]_liveVars
        => [Right => Right' \/ Untold \/ Away \/ Deaf \/ Overtaken \/ LoseConnection]_liveVars
  BY RightStep
<1>. QED  BY <1>1, LiveInvCorrect, LiveTab, HearsItsRoomCorrect, PTL DEF LiveSpec, StaysRight

\* In the room of the queue the same holds of the entries: what was read from the table and
\* all events since then make the table of now.
THEOREM StaysExactCorrect == LiveSpec => StaysExact
<1>1. LiveInv /\ LiveInv' /\ HearsItsRoom /\ [LiveNext]_liveVars
        => [Exact => Exact' \/ Untold \/ Away \/ Deaf \/ Overtaken \/ LoseConnection
                            \/ (UpdateQueueEntry /\ room # Shown)]_liveVars
  BY ExactStep
<1>. QED  BY <1>1, LiveInvCorrect, LiveTab, HearsItsRoomCorrect, PTL DEF LiveSpec, StaysExact

=============================================================================
