----------------------------- MODULE FiltersProofs -----------------------------
(***************************************************************************)
(* What Keep, Flat and Total do to a sequence that grows or is mapped, for *)
(* every sequence.                                                         *)
(* The provers have no induction over data: where one is needed, the least *)
(* place at which the claim fails is shown not to exist (LeastElement).    *)
(***************************************************************************)
EXTENDS Filters, TLAPS, NaturalsInduction, WellFoundedInduction

(* Numbers are well-ordered: the induction of this development.            *)
LEMMA LeastElement ==
  ASSUME NEW T \in SUBSET Nat, T # {}
  PROVE  \E x \in T : \A y \in T : x <= y
<1> DEFINE Less == {p \in Nat \X Nat : p[1] < p[2]}
<1>1. IsWellFoundedOn(Less, Nat)
  <2>1. IsWellFoundedOn(OpToRel(<, Nat), Nat)
    BY NatLessThanWellFounded
  <2>2. OpToRel(<, Nat) = Less
    BY DEF OpToRel
  <2> QED BY <2>1, <2>2
<1>2. PICK x \in T : \A y \in T : <<y, x>> \notin Less
  <2> HIDE DEF Less
  <2> QED BY <1>1, WFMin
<1>3. ASSUME NEW y \in T PROVE x <= y
  <2>1. ~(y < x)
    BY <1>2
  <2> QED BY <2>1
<1> QED BY <1>3

(* A function defined by recursion on 0..n exists: step[k] is what it does *)
(* with its value at k - 1.                                                *)
Recurses(step, n, V) == step \in [1..n -> [V -> V]]

Iterates(f, n, V, base, step) ==
  /\ f \in [0..n -> V] /\ f[0] = base
  /\ \A k \in 1..n : f[k] = step[k][f[k - 1]]

LEMMA Recursion ==
  ASSUME NEW V, NEW base \in V, NEW n \in Nat, NEW step, Recurses(step, n, V)
  PROVE  \E f : Iterates(f, n, V, base, step)
<1> USE DEF Recurses, Iterates
<1> DEFINE Good(m, f) == Iterates(f, m, V, base, step)
<1> DEFINE Bad == {m \in 0..n : ~ \E f : Good(m, f)}
<1>1. Bad = {}
  <2> SUFFICES ASSUME Bad # {} PROVE FALSE
    OBVIOUS
  <2>1. PICK m \in Bad : \A x \in Bad : m <= x
    <3>1. Bad \in SUBSET Nat
      OBVIOUS
    <3> HIDE DEF Bad
    <3> QED BY <3>1, LeastElement
  <2>2. m # 0
    <3>1. Good(0, [k \in 0..0 |-> base])
      OBVIOUS
    <3> HIDE DEF Good
    <3> QED BY <2>1, <3>1
  <2>3. m - 1 \in 0..n /\ m - 1 \notin Bad
    <3>1. m \in 0..n
      OBVIOUS
    <3>2. m - 1 \in 0..n /\ ~ (m <= m - 1)
      BY <2>2, <3>1
    <3> HIDE DEF Bad
    <3> QED BY <2>1, <3>2
  <2>4. PICK f : Good(m - 1, f)
    <3> HIDE DEF Good
    <3> QED BY <2>3
  <2> DEFINE g == [k \in 0..m |-> IF k = m THEN step[m][f[m - 1]] ELSE f[k]]
  <2>5. step[m] \in [V -> V] /\ f[m - 1] \in V
    BY <2>1, <2>2, <2>4
  <2>6. g \in [0..m -> V]
    BY <2>1, <2>4, <2>5
  <2>7. g[0] = base
    BY <2>1, <2>2, <2>4
  <2>8. \A k \in 1..m : g[k] = step[k][g[k - 1]]
    BY <2>1, <2>2, <2>4
  <2>9. Good(m, g)
    <3> HIDE DEF g
    <3> QED BY <2>6, <2>7, <2>8
  <2> HIDE DEF Good, g
  <2> QED BY <2>1, <2>9
<1> QED
  <2> HIDE DEF Good
  <2>1. \E f : Good(n, f)
    BY <1>1
  <2> QED BY <2>1 DEF Good

(* The recursion of Keep.                                                  *)
Filters(f, s, S) ==
  f = [n \in 0..Len(s) |->
         IF n = 0 THEN <<>>
         ELSE IF s[n] \in S THEN Append(f[n - 1], s[n]) ELSE f[n - 1]]

LEMMA FiltersExists ==
  ASSUME NEW R, NEW s \in Seq(R), NEW S
  PROVE  \E f \in [0..Len(s) -> Seq(R)] : Filters(f, s, S)
<1>1. PICK n : n = Len(s)
  OBVIOUS
<1>2. PICK V : V = Seq(R)
  OBVIOUS
<1>3. PICK base : base = <<>>
  OBVIOUS
<1>4. PICK step : step = [k \in 1..n |-> [v \in V |-> IF s[k] \in S THEN Append(v, s[k]) ELSE v]]
  OBVIOUS
<1>5. n \in Nat /\ base \in V /\ step \in [1..n -> [V -> V]]
  <2>1. n \in Nat /\ base \in V /\ \A k \in 1..n : s[k] \in R
    BY <1>1, <1>2, <1>3
  <2>2. \A v \in V, x \in R : Append(v, x) \in V
    BY <1>2
  <2>3. \A k \in 1..n :
          [v \in V |-> IF s[k] \in S THEN Append(v, s[k]) ELSE v] \in [V -> V]
    BY <2>1, <2>2
  <2> QED BY <1>4, <2>1, <2>3
<1>6. PICK f \in [0..n -> V] : f[0] = base /\ \A k \in 1..n : f[k] = step[k][f[k - 1]]
  <2>1. n \in Nat
    BY <1>5
  <2>2. base \in V
    BY <1>5
  <2>3. Recurses(step, n, V)
    BY <1>5 DEF Recurses
  <2>4. \E f : Iterates(f, n, V, base, step)
    BY <2>1, <2>2, <2>3, Recursion
  <2> QED BY <2>4 DEF Iterates
<1>7. \A k \in 1..n : k - 1 \in 0..n
  BY <1>5
<1>8. \A k \in 1..n : step[k][f[k - 1]] = IF s[k] \in S THEN Append(f[k - 1], s[k]) ELSE f[k - 1]
  BY <1>4, <1>6, <1>7
<1>9. f = [k \in 0..n |-> IF k = 0 THEN <<>>
                          ELSE IF s[k] \in S THEN Append(f[k - 1], s[k]) ELSE f[k - 1]]
  <2>1. \A k \in 0..n : k # 0 => k \in 1..n
    BY <1>5
  <2> QED BY <1>3, <1>6, <1>8, <2>1
<1> QED BY <1>1, <1>2, <1>6, <1>9 DEF Filters

LEMMA KeepIs ==
  ASSUME NEW R, NEW s \in Seq(R), NEW S
  PROVE  \E f : Filters(f, s, S) /\ Keep(s, S) = f[Len(s)]
<1> DEFINE f == CHOOSE f : Filters(f, s, S)
<1>1. Filters(f, s, S)
  BY FiltersExists
<1>2. Keep(s, S) = f[Len(s)]
  BY DEF Keep, Filters
<1> QED BY <1>1, <1>2

(* What is kept of a sequence that grows.                                  *)
LEMMA KeepEmpty ==
  ASSUME NEW S
  PROVE  Keep(<<>>, S) = <<>>
<1>1. PICK s : s = <<>>
  OBVIOUS
<1>2. s \in Seq({}) /\ Len(s) = 0
  BY <1>1
<1>3. PICK f : Filters(f, s, S) /\ Keep(s, S) = f[Len(s)]
  BY <1>2, KeepIs
<1>4. f[0] = <<>>
  BY <1>2, <1>3 DEF Filters
<1> QED BY <1>1, <1>2, <1>3, <1>4

LEMMA FiltersAgree ==
  ASSUME NEW R, NEW s \in Seq(R), NEW x \in R, NEW S, NEW f, NEW g,
         Filters(f, s, S), Filters(g, Append(s, x), S)
  PROVE  \A n \in 0..Len(s) : g[n] = f[n]
<1> DEFINE Bad == {n \in 0..Len(s) : g[n] # f[n]}
<1>1. Len(s) \in Nat
  OBVIOUS
<1>2. PICK t : t = Append(s, x)
  OBVIOUS
<1>3. Len(t) = Len(s) + 1 /\ \A n \in 1..Len(s) : t[n] = s[n]
  BY <1>2
<1>4. Bad = {}
  <2> SUFFICES ASSUME Bad # {} PROVE FALSE
    OBVIOUS
  <2>1. PICK m \in Bad : \A n \in Bad : m <= n
    <3>1. Bad \in SUBSET Nat
      BY <1>1
    <3> HIDE DEF Bad
    <3> QED BY <3>1, LeastElement
  <2>2. m \in 0..Len(s) /\ g[m] # f[m]
    OBVIOUS
  <2>3. m # 0
    BY <1>1, <1>2, <1>3, <2>2 DEF Filters
  <2>4. m - 1 \in 0..Len(s) /\ ~ (m <= m - 1) /\ m \in 1..Len(s)
    BY <1>1, <2>2, <2>3
  <2>5. g[m - 1] = f[m - 1]
    BY <2>1, <2>4
  <2>6. f[m] = IF s[m] \in S THEN Append(f[m - 1], s[m]) ELSE f[m - 1]
    BY <2>2, <2>3 DEF Filters
  <2>7. m \in 0..Len(t)
    BY <1>1, <1>3, <2>2
  <2>8. g[m] = IF t[m] \in S THEN Append(g[m - 1], t[m]) ELSE g[m - 1]
    BY <1>2, <2>3, <2>7 DEF Filters
  <2> QED BY <1>3, <2>2, <2>4, <2>5, <2>6, <2>8
<1> QED BY <1>4

LEMMA KeepAppend ==
  ASSUME NEW R, NEW s \in Seq(R), NEW x \in R, NEW S
  PROVE  Keep(Append(s, x), S) = IF x \in S THEN Append(Keep(s, S), x) ELSE Keep(s, S)
<1>1. PICK t : t = Append(s, x)
  OBVIOUS
<1>2. t \in Seq(R) /\ Len(t) = Len(s) + 1 /\ t[Len(t)] = x /\ Len(s) \in Nat
  BY <1>1
<1>3. PICK f : Filters(f, s, S) /\ Keep(s, S) = f[Len(s)]
  BY KeepIs
<1>4. PICK g : Filters(g, t, S) /\ Keep(t, S) = g[Len(t)]
  BY <1>2, KeepIs
<1>5. g[Len(s)] = f[Len(s)]
  BY <1>1, <1>2, <1>3, <1>4, FiltersAgree
<1>6. g[Len(t)] = IF t[Len(t)] \in S THEN Append(g[Len(t) - 1], t[Len(t)]) ELSE g[Len(t) - 1]
  <2>1. Len(t) \in 0..Len(t) /\ Len(t) # 0
    BY <1>2
  <2> QED BY <1>4, <2>1 DEF Filters
<1>7. Len(t) - 1 = Len(s)
  BY <1>2
<1> QED BY <1>1, <1>2, <1>3, <1>4, <1>5, <1>6, <1>7

(* What is kept is a subsequence, and nothing in S is left out.            *)
Subsequence(k, s, S, p) ==
  /\ p \in [1..Len(k) -> 1..Len(s)]
  /\ \A i \in 1..Len(k) : k[i] = s[p[i]] /\ k[i] \in S
  /\ \A i, j \in 1..Len(k) : i < j => p[i] < p[j]
  /\ \A m \in 1..Len(s) : s[m] \in S => \E i \in 1..Len(k) : p[i] = m

LEMMA KeepSays ==
  ASSUME NEW R, NEW s \in Seq(R), NEW S
  PROVE  /\ Keep(s, S) \in Seq(R)
         /\ \E p : Subsequence(Keep(s, S), s, S, p)
<1>1. PICK f : Filters(f, s, S) /\ Keep(s, S) = f[Len(s)]
  BY KeepIs
<1> DEFINE pre(n) == SubSeq(s, 1, n)
<1> DEFINE Good(n) == f[n] \in Seq(R) /\ \E p : Subsequence(f[n], pre(n), S, p)
<1> DEFINE Bad == {n \in 0..Len(s) : ~ Good(n)}
<1>2. Len(s) \in Nat
  OBVIOUS
<1>3. Bad = {}
  <2> SUFFICES ASSUME Bad # {} PROVE FALSE
    OBVIOUS
  <2>1. PICK n \in Bad : \A m \in Bad : n <= m
    <3>1. Bad \in SUBSET Nat
      BY <1>2
    <3> HIDE DEF Bad
    <3> QED BY <3>1, LeastElement
  <2>2. n \in 0..Len(s) /\ ~ Good(n)
    OBVIOUS
  <2>3. CASE n = 0
    <3>1. PICK e : e = <<>>
      OBVIOUS
    <3>2. f[n] = e /\ pre(n) = e /\ e \in Seq(R)
      BY <1>1, <1>2, <2>3, <3>1 DEF Filters
    <3>4. Subsequence(e, e, S, e)
      BY <3>1 DEF Subsequence
    <3> HIDE DEF pre
    <3>3. Good(n)
      BY <3>2, <3>4
    <3> HIDE DEF Good
    <3> QED BY <2>2, <3>3
  <2>4. CASE n # 0
    <3>1. n - 1 \in 0..Len(s) /\ n \in 1..Len(s) /\ ~ (n <= n - 1)
      BY <1>2, <2>2, <2>4
    <3>2. Good(n - 1)
      <4> HIDE DEF Good
      <4> QED BY <2>1, <3>1
    <3>3. PICK u : u = f[n - 1]
      OBVIOUS
    <3>4. PICK w : w = pre(n - 1)
      OBVIOUS
    <3>5. PICK p : u \in Seq(R) /\ Subsequence(u, w, S, p)
      BY <3>2, <3>3, <3>4
    <3>6. f[n] = IF s[n] \in S THEN Append(u, s[n]) ELSE u
      BY <1>1, <2>2, <2>4, <3>3 DEF Filters
    <3>7. PICK x : x = s[n]
      OBVIOUS
    <3>8. x \in R /\ w \in Seq(R) /\ Len(w) = n - 1 /\ pre(n) = Append(w, x)
      BY <1>2, <3>1, <3>4, <3>7
    <3>9. PICK v : v = Append(w, x)
      OBVIOUS
    <3>10. Len(v) = n /\ v[n] = x /\ \A i \in 1..(n - 1) : v[i] = w[i]
      BY <3>1, <3>8, <3>9
    <3>13. /\ p \in [1..Len(u) -> 1..(n - 1)]
           /\ \A i \in 1..Len(u) : u[i] = w[p[i]] /\ u[i] \in S
           /\ \A i, j \in 1..Len(u) : i < j => p[i] < p[j]
           /\ \A m \in 1..(n - 1) : w[m] \in S => \E i \in 1..Len(u) : p[i] = m
      BY <3>5, <3>8 DEF Subsequence
    <3>0. n \in Nat /\ n >= 1 /\ Len(v) = n
      BY <1>2, <3>1, <3>10
    <3>11. CASE x \notin S
      <4>1. f[n] = u
        BY <3>6, <3>7, <3>11
      <4>2. Subsequence(u, v, S, p)
        <5>1. p \in [1..Len(u) -> 1..Len(v)]
          BY <3>0, <3>13
        <5>2. \A i \in 1..Len(u) : u[i] = v[p[i]] /\ u[i] \in S
          BY <3>10, <3>13
        <5>3. \A m \in 1..Len(v) : v[m] \in S => \E i \in 1..Len(u) : p[i] = m
          <6> TAKE m \in 1..Len(v)
          <6> HAVE v[m] \in S
          <6>1. m # n
            BY <3>10, <3>11
          <6>2. m \in 1..(n - 1)
            BY <3>0, <3>10, <6>1
          <6> QED BY <3>10, <3>13, <6>2
        <5> QED BY <3>13, <5>1, <5>2, <5>3 DEF Subsequence
      <4> QED BY <2>2, <3>5, <3>8, <3>9, <4>1, <4>2
    <3>12. CASE x \in S
      <4>1. PICK k : k = Append(u, x)
        OBVIOUS
      <4>2. /\ f[n] = k /\ k \in Seq(R) /\ Len(u) \in Nat /\ Len(k) = Len(u) + 1
            /\ k[Len(u) + 1] = x /\ \A i \in 1..Len(u) : k[i] = u[i]
        BY <3>5, <3>6, <3>7, <3>8, <3>12, <4>1
      <4> DEFINE q == [i \in 1..(Len(u) + 1) |-> IF i = Len(u) + 1 THEN n ELSE p[i]]
      <4>3. \A i \in 1..(Len(u) + 1) : i = Len(u) + 1 \/ i \in 1..Len(u)
        BY <4>2
      <4>4. \A i \in 1..Len(u) : q[i] = p[i] /\ p[i] \in 1..(n - 1) /\ i \in 1..(Len(u) + 1)
        <5>1. \A i \in 1..Len(u) : i \in 1..(Len(u) + 1) /\ i # Len(u) + 1
          BY <4>2
        <5> QED BY <3>13, <5>1
      <4>6. q[Len(u) + 1] = n /\ DOMAIN q = 1..(Len(u) + 1)
        BY <4>2
      <4>11. q = [i \in 1..(Len(u) + 1) |-> q[i]]
        OBVIOUS
      <4> HIDE DEF q
      <4>5. q \in [1..Len(k) -> 1..Len(v)]
        <5>1. \A i \in 1..(Len(u) + 1) : q[i] \in 1..n
          BY <3>0, <4>3, <4>4, <4>6
        <5> QED BY <3>0, <4>2, <4>11, <5>1
      <4>7. \A i \in 1..Len(k) : k[i] = v[q[i]] /\ k[i] \in S
        <5> TAKE i \in 1..Len(k)
        <5>1. CASE i = Len(u) + 1
          BY <3>10, <3>12, <4>2, <4>6, <5>1
        <5>2. CASE i \in 1..Len(u)
          <6>1. k[i] = u[i] /\ q[i] = p[i] /\ p[i] \in 1..(n - 1)
            BY <4>2, <4>4, <5>2
          <6>2. u[i] = w[p[i]] /\ u[i] \in S
            BY <3>13, <5>2
          <6> QED BY <3>10, <6>1, <6>2
        <5> QED BY <4>2, <4>3, <5>1, <5>2
      <4>8. \A i, j \in 1..Len(k) : i < j => q[i] < q[j]
        <5> TAKE i, j \in 1..Len(k)
        <5> HAVE i < j
        <5>1. i \in 1..Len(u)
          BY <4>2
        <5>2. q[i] = p[i] /\ p[i] \in 1..(n - 1)
          BY <4>4, <5>1
        <5>3. CASE j = Len(u) + 1
          BY <3>0, <4>6, <5>2, <5>3
        <5>4. CASE j \in 1..Len(u)
          <6>1. q[j] = p[j]
            BY <4>4, <5>4
          <6>2. p[i] < p[j]
            BY <3>13, <5>1, <5>4
          <6> QED BY <5>2, <6>1, <6>2
        <5> QED BY <4>2, <4>3, <5>3, <5>4
      <4>9. \A m \in 1..Len(v) : v[m] \in S => \E i \in 1..Len(k) : q[i] = m
        <5> TAKE m \in 1..Len(v)
        <5> HAVE v[m] \in S
        <5>1. CASE m = n
          BY <4>2, <4>6, <5>1
        <5>2. CASE m # n
          <6>3. m \in 1..(n - 1)
            BY <3>0, <5>2
          <6>1. w[m] \in S
            BY <3>10, <6>3
          <6>2. PICK i \in 1..Len(u) : p[i] = m
            BY <3>13, <6>1, <6>3
          <6> QED BY <4>2, <4>4, <6>2
        <5> QED BY <5>1, <5>2
      <4>10. Subsequence(k, v, S, q)
        BY <4>5, <4>7, <4>8, <4>9 DEF Subsequence
      <4> QED BY <2>2, <3>8, <3>9, <4>2, <4>10
    <3> QED BY <3>11, <3>12
  <2> QED BY <2>3, <2>4
<1>4. Good(Len(s))
  <2> HIDE DEF Good
  <2> QED BY <1>2, <1>3
<1>5. pre(Len(s)) = s
  OBVIOUS
<1> QED BY <1>1, <1>4, <1>5

(* As far as an element is from the end of what was kept, so far is it, at *)
(* least, from the end of the whole.                                       *)
LEMMA SubsequenceGap ==
  ASSUME NEW R, NEW k \in Seq(R), NEW s \in Seq(R), NEW S, NEW p, Subsequence(k, s, S, p)
  PROVE  \A i \in 1..Len(k) : Len(k) - i <= Len(s) - p[i]
<1> DEFINE Bad == {d \in 0..Len(k) : d < Len(k) /\ ~ (d <= Len(s) - p[Len(k) - d])}
<1>1. Len(k) \in Nat /\ Len(s) \in Nat
  OBVIOUS
<1>2. \A i \in 1..Len(k) : p[i] \in 1..Len(s)
  BY DEF Subsequence
<1>3. Bad = {}
  <2> SUFFICES ASSUME Bad # {} PROVE FALSE
    OBVIOUS
  <2>1. PICK d \in Bad : \A x \in Bad : d <= x
    <3>1. Bad \in SUBSET Nat
      BY <1>1
    <3> HIDE DEF Bad
    <3> QED BY <3>1, LeastElement
  <2>2. PICK i : i = Len(k) - d
    OBVIOUS
  <2>3. d \in Nat /\ d < Len(k) /\ ~ (d <= Len(s) - p[i]) /\ i \in 1..Len(k)
    BY <1>1, <2>2
  <2>4. d # 0
    BY <1>1, <1>2, <2>3
  <2>5. d - 1 \in 0..Len(k) /\ d - 1 < Len(k) /\ ~ (d <= d - 1)
    BY <1>1, <2>3, <2>4
  <2>6. d - 1 <= Len(s) - p[Len(k) - (d - 1)]
    BY <2>1, <2>5
  <2>7. Len(k) - (d - 1) = i + 1 /\ i + 1 \in 1..Len(k) /\ i < i + 1
    BY <1>1, <2>2, <2>3, <2>4
  <2>8. p[i] < p[i + 1]
    BY <2>3, <2>7 DEF Subsequence
  <2> QED BY <1>1, <1>2, <2>3, <2>6, <2>7, <2>8
<1> SUFFICES ASSUME NEW i \in 1..Len(k) PROVE Len(k) - i <= Len(s) - p[i]
  OBVIOUS
<1>4. PICK d : d = Len(k) - i
  OBVIOUS
<1>5. d \in 0..Len(k) /\ d < Len(k) /\ Len(k) - d = i
  BY <1>1, <1>4
<1>6. d \notin Bad
  BY <1>3
<1> QED BY <1>4, <1>5, <1>6

(* Induction up to n, of a set.                                            *)
LEMMA UpTo ==
  ASSUME NEW n \in Nat, NEW G, 0 \in G, \A k \in 1..n : k - 1 \in G => k \in G
  PROVE  \A k \in 0..n : k \in G
<1> DEFINE Bad == {k \in 0..n : k \notin G}
<1>1. Bad = {}
  <2> SUFFICES ASSUME Bad # {} PROVE FALSE
    OBVIOUS
  <2>1. PICK m \in Bad : \A k \in Bad : m <= k
    <3>1. Bad \in SUBSET Nat
      OBVIOUS
    <3> HIDE DEF Bad
    <3> QED BY <3>1, LeastElement
  <2>2. m \in 0..n /\ m \notin G /\ m # 0
    OBVIOUS
  <2>3. m \in 1..n /\ m - 1 \in 0..n /\ ~ (m <= m - 1)
    BY <2>2
  <2>4. m - 1 \in G
    BY <2>1, <2>3
  <2> QED BY <2>2, <2>3, <2>4
<1> QED BY <1>1

(* Whether an element is kept goes by the element alone.                   *)
LEMMA KeepSame ==
  ASSUME NEW R, NEW s \in Seq(R), NEW S, NEW T, \A i \in DOMAIN s : s[i] \in S <=> s[i] \in T
  PROVE  Keep(s, S) = Keep(s, T)
<1>1. PICK n \in Nat : n = Len(s) /\ DOMAIN s = 1..n
  OBVIOUS
<1>2. PICK f : Filters(f, s, S) /\ Keep(s, S) = f[Len(s)]
  BY KeepIs
<1>3. PICK g : Filters(g, s, T) /\ Keep(s, T) = g[Len(s)]
  BY KeepIs
<1>4. \A k \in 0..n : f[k] = IF k = 0 THEN <<>>
                            ELSE IF s[k] \in S THEN Append(f[k - 1], s[k]) ELSE f[k - 1]
  BY <1>1, <1>2 DEF Filters
<1>5. \A k \in 0..n : g[k] = IF k = 0 THEN <<>>
                            ELSE IF s[k] \in T THEN Append(g[k - 1], s[k]) ELSE g[k - 1]
  BY <1>1, <1>3 DEF Filters
<1> DEFINE G == {k \in 0..n : f[k] = g[k]}
<1>6. 0 \in G
  BY <1>4, <1>5
<1>7. ASSUME NEW k \in 1..n, k - 1 \in G PROVE k \in G
  <2>1. k \in 0..n /\ k # 0 /\ f[k - 1] = g[k - 1] /\ k \in DOMAIN s
    BY <1>1, <1>7
  <2>2. s[k] \in S <=> s[k] \in T
    BY <2>1
  <2> QED BY <1>4, <1>5, <2>1, <2>2
<1>8. n \in G
  <2> HIDE DEF G
  <2>1. \A k \in 0..n : k \in G
    BY <1>6, <1>7, UpTo
  <2> QED BY <2>1
<1> QED BY <1>1, <1>2, <1>3, <1>8

LEMMA KeepNone ==
  ASSUME NEW R, NEW s \in Seq(R), NEW S, \A i \in DOMAIN s : s[i] \notin S
  PROVE  Keep(s, S) = <<>>
<1>1. PICK k : k = Keep(s, S)
  OBVIOUS
<1>2. k \in Seq(R) /\ \E p : Subsequence(k, s, S, p)
  BY <1>1, KeepSays
<1>3. PICK p : Subsequence(k, s, S, p)
  BY <1>2
<1>4. \A i \in 1..Len(k) : p[i] \in DOMAIN s /\ k[i] = s[p[i]] /\ k[i] \in S
  BY <1>3 DEF Subsequence
<1>5. Len(k) \in Nat /\ ~ (Len(k) >= 1)
  BY <1>2, <1>4
<1> QED BY <1>1, <1>2, <1>5

(* What is kept of two sequences, one after the other.                     *)
LEMMA KeepConcat ==
  ASSUME NEW R, NEW s \in Seq(R), NEW t \in Seq(R), NEW S
  PROVE  Keep(s \o t, S) = Keep(s, S) \o Keep(t, S)
<1>1. PICK n \in Nat : n = Len(t) /\ DOMAIN t = 1..n
  OBVIOUS
<1> DEFINE pre(k) == SubSeq(t, 1, k)
<1> DEFINE G == {k \in 0..n : Keep(s \o pre(k), S) = Keep(s, S) \o Keep(pre(k), S)}
<1>2. 0 \in G
  <2>1. PICK e : e = <<>>
    OBVIOUS
  <2>2. pre(0) = e /\ s \o e = s
    BY <2>1
  <2>3. Keep(e, S) = e /\ Keep(s, S) \in Seq(R)
    BY <2>1, KeepEmpty, KeepSays
  <2>4. Keep(s, S) \o e = Keep(s, S)
    BY <2>1, <2>3
  <2> HIDE DEF pre
  <2>5. Keep(s \o pre(0), S) = Keep(s, S) \o Keep(pre(0), S)
    BY <2>2, <2>3, <2>4
  <2> QED BY <2>5
<1>3. ASSUME NEW k \in 1..n, k - 1 \in G PROVE k \in G
  <2>1. PICK w : w = pre(k - 1)
    OBVIOUS
  <2>2. PICK x : x = t[k]
    OBVIOUS
  <2>3. w \in Seq(R) /\ x \in R
    BY <1>1, <2>1, <2>2
  <2>4. pre(k) = Append(w, x)
    BY <1>1, <2>1, <2>2
  <2>5. s \o Append(w, x) = Append(s \o w, x) /\ s \o w \in Seq(R)
    BY <2>3
  <2>6. Keep(s \o w, S) = Keep(s, S) \o Keep(w, S)
    BY <1>3, <2>1
  <2>7. Keep(s, S) \in Seq(R) /\ Keep(w, S) \in Seq(R)
    BY <2>3, KeepSays
  <2>8. Keep(Append(s \o w, x), S) = IF x \in S THEN Append(Keep(s \o w, S), x) ELSE Keep(s \o w, S)
    BY <2>3, <2>5, KeepAppend
  <2>9. Keep(Append(w, x), S) = IF x \in S THEN Append(Keep(w, S), x) ELSE Keep(w, S)
    BY <2>3, KeepAppend
  <2>10. Keep(s, S) \o Append(Keep(w, S), x) = Append(Keep(s, S) \o Keep(w, S), x)
    <3>1. PICK a \in Seq(R), b \in Seq(R) : a = Keep(s, S) /\ b = Keep(w, S)
      BY <2>7
    <3>2. a \o Append(b, x) = Append(a \o b, x)
      BY <2>3
    <3> QED BY <3>1, <3>2
  <2> HIDE DEF pre
  <2>11. Keep(s \o pre(k), S) = Keep(s, S) \o Keep(pre(k), S)
    BY <2>4, <2>5, <2>6, <2>8, <2>9, <2>10
  <2> QED BY <2>11
<1>4. n \in G
  <2> HIDE DEF G
  <2>1. \A k \in 0..n : k \in G
    BY <1>2, <1>3, UpTo
  <2> QED BY <2>1
<1>5. pre(n) = t
  BY <1>1
<1> QED BY <1>4, <1>5

LEMMA KeepAll ==
  ASSUME NEW R, NEW s \in Seq(R), NEW S, R \subseteq S
  PROVE  Keep(s, S) = s
<1>1. PICK n \in Nat : n = Len(s) /\ DOMAIN s = 1..n
  OBVIOUS
<1> DEFINE pre(k) == SubSeq(s, 1, k)
<1> DEFINE G == {k \in 0..n : Keep(pre(k), S) = pre(k)}
<1>2. 0 \in G
  <2>1. pre(0) = <<>>
    OBVIOUS
  <2> HIDE DEF pre
  <2>2. Keep(pre(0), S) = pre(0)
    BY <2>1, KeepEmpty
  <2> QED BY <2>2
<1>3. ASSUME NEW k \in 1..n, k - 1 \in G PROVE k \in G
  <2>1. PICK w : w = pre(k - 1)
    OBVIOUS
  <2>2. PICK x : x = s[k]
    OBVIOUS
  <2>3. w \in Seq(R) /\ x \in R /\ pre(k) = Append(w, x)
    BY <1>1, <2>1, <2>2
  <2>4. Keep(w, S) = w
    BY <1>3, <2>1
  <2> HIDE DEF pre
  <2>5. Keep(pre(k), S) = pre(k)
    BY <2>3, <2>4, KeepAppend
  <2> QED BY <2>5
<1>4. n \in G
  <2> HIDE DEF G
  <2>1. \A k \in 0..n : k \in G
    BY <1>2, <1>3, UpTo
  <2> QED BY <2>1
<1>5. pre(n) = s
  BY <1>1
<1> QED BY <1>4, <1>5

(* What is kept of what was kept.                                          *)
LEMMA KeepKeep ==
  ASSUME NEW R, NEW s \in Seq(R), NEW S, NEW T
  PROVE  Keep(Keep(s, S), T) = Keep(s, S \cap T)
<1>1. PICK n \in Nat : n = Len(s) /\ DOMAIN s = 1..n
  OBVIOUS
<1> DEFINE pre(k) == SubSeq(s, 1, k)
<1> DEFINE G == {k \in 0..n : Keep(Keep(pre(k), S), T) = Keep(pre(k), S \cap T)}
<1>2. 0 \in G
  <2>1. PICK e : e = <<>>
    OBVIOUS
  <2>2. pre(0) = e
    BY <2>1
  <2>3. Keep(e, S) = e /\ Keep(e, T) = e /\ Keep(e, S \cap T) = e
    BY <2>1, KeepEmpty
  <2> HIDE DEF pre
  <2>4. Keep(Keep(pre(0), S), T) = Keep(pre(0), S \cap T)
    BY <2>2, <2>3
  <2> QED BY <2>4
<1>3. ASSUME NEW k \in 1..n, k - 1 \in G PROVE k \in G
  <2>1. PICK w : w = pre(k - 1)
    OBVIOUS
  <2>2. PICK x : x = s[k]
    OBVIOUS
  <2>3. w \in Seq(R) /\ x \in R
    BY <1>1, <2>1, <2>2
  <2>4. pre(k) = Append(w, x)
    BY <1>1, <2>1, <2>2
  <2>5. PICK v : v = Keep(w, S)
    OBVIOUS
  <2>6. v \in Seq(R) /\ Keep(v, T) = Keep(w, S \cap T)
    <3>1. v \in Seq(R)
      BY <2>3, <2>5, KeepSays
    <3>2. Keep(Keep(w, S), T) = Keep(w, S \cap T)
      BY <1>3, <2>1
    <3> QED BY <2>5, <3>1, <3>2
  <2>7. Keep(Append(w, x), S) = IF x \in S THEN Append(v, x) ELSE v
    BY <2>3, <2>5, KeepAppend
  <2>8. Keep(Append(v, x), T) = IF x \in T THEN Append(Keep(v, T), x) ELSE Keep(v, T)
    BY <2>3, <2>6, KeepAppend
  <2>9. Keep(Append(w, x), S \cap T)
          = IF x \in S \cap T THEN Append(Keep(v, T), x) ELSE Keep(v, T)
    <3>1. PICK U : U = S \cap T
      OBVIOUS
    <3>2. Keep(Append(w, x), U) = IF x \in U THEN Append(Keep(w, U), x) ELSE Keep(w, U)
      BY <2>3, KeepAppend
    <3>3. Keep(w, U) = Keep(v, T)
      BY <2>6, <3>1
    <3>4. Keep(Append(w, x), U) = IF x \in U THEN Append(Keep(v, T), x) ELSE Keep(v, T)
      BY <3>2, <3>3
    <3> QED BY <3>1, <3>4
  <2> HIDE DEF pre
  <2>10. Keep(Keep(pre(k), S), T) = Keep(pre(k), S \cap T)
    <3>1. CASE x \in S
      BY <2>4, <2>7, <2>8, <2>9, <3>1
    <3>2. CASE x \notin S
      BY <2>4, <2>7, <2>9, <3>2
    <3> QED BY <3>1, <3>2
  <2> QED BY <2>10
<1>4. n \in G
  <2> HIDE DEF G
  <2>1. \A k \in 0..n : k \in G
    BY <1>2, <1>3, UpTo
  <2> QED BY <2>1
<1>5. pre(n) = s
  BY <1>1
<1> QED BY <1>4, <1>5

(* Two sequences of which the same places are kept.                        *)
LEMMA KeepMatches ==
  ASSUME NEW R, NEW s \in Seq(R), NEW S, NEW Q, NEW t \in Seq(Q), NEW T,
         Len(s) = Len(t), \A i \in DOMAIN s : s[i] \in S <=> t[i] \in T
  PROVE  Len(Keep(s, S)) = Len(Keep(t, T))
<1>1. PICK n \in Nat : n = Len(s) /\ DOMAIN s = 1..n /\ n = Len(t) /\ DOMAIN t = 1..n
  OBVIOUS
<1> DEFINE one(k) == SubSeq(s, 1, k)
<1> DEFINE two(k) == SubSeq(t, 1, k)
<1> DEFINE G == {k \in 0..n : Len(Keep(one(k), S)) = Len(Keep(two(k), T))}
<1>2. 0 \in G
  <2>1. PICK e : e = <<>>
    OBVIOUS
  <2>2. one(0) = e /\ two(0) = e
    BY <2>1
  <2>3. Keep(e, S) = e /\ Keep(e, T) = e
    BY <2>1, KeepEmpty
  <2> HIDE DEF one, two
  <2>4. Len(Keep(one(0), S)) = Len(Keep(two(0), T))
    BY <2>2, <2>3
  <2> QED BY <2>4
<1>3. ASSUME NEW k \in 1..n, k - 1 \in G PROVE k \in G
  <2>1. PICK v : v = one(k - 1)
    OBVIOUS
  <2>2. PICK w : w = two(k - 1)
    OBVIOUS
  <2>3. PICK x : x = s[k]
    OBVIOUS
  <2>4. PICK y : y = t[k]
    OBVIOUS
  <2>5. v \in Seq(R) /\ x \in R /\ one(k) = Append(v, x)
    BY <1>1, <2>1, <2>3
  <2>6. w \in Seq(Q) /\ y \in Q /\ two(k) = Append(w, y)
    BY <1>1, <2>2, <2>4
  <2>7. Keep(Append(v, x), S) = IF x \in S THEN Append(Keep(v, S), x) ELSE Keep(v, S)
    BY <2>5, KeepAppend
  <2>8. Keep(Append(w, y), T) = IF y \in T THEN Append(Keep(w, T), y) ELSE Keep(w, T)
    BY <2>6, KeepAppend
  <2>9. Keep(v, S) \in Seq(R)
    BY <2>5, KeepSays
  <2>10. Keep(w, T) \in Seq(Q)
    BY <2>6, KeepSays
  <2>11. x \in S <=> y \in T
    BY <1>1, <2>3, <2>4
  <2>12. PICK a \in Seq(R) : a = Keep(v, S)
    BY <2>9
  <2>13. PICK b \in Seq(Q) : b = Keep(w, T)
    BY <2>10
  <2>14. Len(a) = Len(b)
    BY <1>3, <2>1, <2>2, <2>12, <2>13
  <2>15. Len(Append(a, x)) = Len(a) + 1 /\ Len(Append(b, y)) = Len(b) + 1
    BY <2>5, <2>6
  <2> HIDE DEF one, two
  <2>16. Len(Keep(one(k), S)) = Len(Keep(two(k), T))
    <3>1. CASE x \in S
      BY <2>5, <2>6, <2>7, <2>8, <2>11, <2>12, <2>13, <2>14, <2>15, <3>1
    <3>2. CASE x \notin S
      BY <2>5, <2>6, <2>7, <2>8, <2>11, <2>12, <2>13, <2>14, <3>2
    <3> QED BY <3>1, <3>2
  <2> QED BY <2>16
<1>4. n \in G
  <2> HIDE DEF G
  <2>1. \A k \in 0..n : k \in G
    BY <1>2, <1>3, UpTo
  <2> QED BY <2>1
<1>5. one(n) = s /\ two(n) = t
  BY <1>1
<1> HIDE DEF one, two
<1> QED BY <1>4, <1>5

(* What is kept is no longer, and has nothing twice that was there once.   *)
LEMMA KeepShorter ==
  ASSUME NEW R, NEW s \in Seq(R), NEW S
  PROVE  Len(Keep(s, S)) \in Nat /\ Len(Keep(s, S)) <= Len(s)
<1>1. PICK k : k = Keep(s, S)
  OBVIOUS
<1>2. k \in Seq(R) /\ \E p : Subsequence(k, s, S, p)
  BY <1>1, KeepSays
<1>3. PICK p : Subsequence(k, s, S, p)
  BY <1>2
<1>4. \A i \in 1..Len(k) : Len(k) - i <= Len(s) - p[i]
  BY <1>2, <1>3, SubsequenceGap
<1>5. CASE Len(k) = 0
  BY <1>1, <1>2, <1>5
<1>6. CASE Len(k) # 0
  <2>1. 1 \in 1..Len(k) /\ Len(k) \in Nat /\ Len(s) \in Nat
    BY <1>2, <1>6
  <2>2. p[1] \in 1..Len(s)
    BY <1>3, <2>1 DEF Subsequence
  <2>3. Len(k) - 1 <= Len(s) - p[1]
    BY <1>4, <2>1
  <2>4. Len(k) <= Len(s)
    BY <2>1, <2>2, <2>3
  <2> QED BY <1>1, <2>1, <2>4
<1> QED BY <1>5, <1>6

IsDistinct(s) == \A i, j \in 1..Len(s) : s[i] = s[j] => i = j

LEMMA KeepDistinct ==
  ASSUME NEW R, NEW s \in Seq(R), NEW S, IsDistinct(s)
  PROVE  IsDistinct(Keep(s, S))
<1>1. PICK k : k = Keep(s, S)
  OBVIOUS
<1>2. k \in Seq(R) /\ \E p : Subsequence(k, s, S, p)
  BY <1>1, KeepSays
<1>3. PICK p : Subsequence(k, s, S, p)
  BY <1>2
<1>4. Len(k) \in Nat /\ Len(s) \in Nat
  BY <1>2
<1>5. ASSUME NEW i \in 1..Len(k), NEW j \in 1..Len(k), k[i] = k[j], i # j PROVE FALSE
  <2>1. p[i] \in 1..Len(s) /\ p[j] \in 1..Len(s) /\ k[i] = s[p[i]] /\ k[j] = s[p[j]]
    BY <1>3 DEF Subsequence
  <2>2. p[i] = p[j]
    BY <1>5, <2>1 DEF IsDistinct
  <2>3. i < j \/ j < i
    BY <1>4, <1>5
  <2>4. p[i] < p[j] \/ p[j] < p[i]
    BY <1>3, <2>3 DEF Subsequence
  <2> QED BY <1>4, <2>1, <2>2, <2>4
<1> QED BY <1>1, <1>5 DEF IsDistinct

(* The recursion of Flat.                                                  *)
Joins(f, seqs) ==
  f = [n \in 0..Len(seqs) |-> IF n = 0 THEN <<>> ELSE f[n - 1] \o seqs[n]]

LEMMA FlatIs ==
  ASSUME NEW R, NEW seqs \in Seq(Seq(R))
  PROVE  \E f : Joins(f, seqs) /\ Flat(seqs) = f[Len(seqs)]
<1>1. PICK n \in Nat : n = Len(seqs)
  OBVIOUS
<1>2. PICK V : V = Seq(R)
  OBVIOUS
<1>3. PICK base \in V : base = <<>>
  <2>1. PICK e : e = <<>>
    OBVIOUS
  <2>2. e \in Seq(R)
    BY <2>1
  <2> QED BY <1>2, <2>1, <2>2
<1>4. PICK step : step = [k \in 1..n |-> [v \in V |-> v \o seqs[k]]]
  OBVIOUS
<1>5. step \in [1..n -> [V -> V]]
  <2>1. \A k \in 1..n : seqs[k] \in V
    BY <1>1, <1>2
  <2>2. \A v, w \in V : v \o w \in V
    BY <1>2
  <2>3. \A k \in 1..n : [v \in V |-> v \o seqs[k]] \in [V -> V]
    BY <2>1, <2>2
  <2> QED BY <1>4, <2>3
<1>6. PICK f \in [0..n -> V] : f[0] = base /\ \A k \in 1..n : f[k] = step[k][f[k - 1]]
  <2>1. Recurses(step, n, V)
    BY <1>5 DEF Recurses
  <2>2. \E f : Iterates(f, n, V, base, step)
    BY <1>3, <2>1, Recursion
  <2> QED BY <2>2 DEF Iterates
<1>7. \A k \in 1..n : k - 1 \in 0..n /\ f[k] = f[k - 1] \o seqs[k]
  <2>1. \A k \in 1..n : k - 1 \in 0..n
    OBVIOUS
  <2> QED BY <1>4, <1>6, <2>1
<1>8. f = [k \in 0..n |-> IF k = 0 THEN <<>> ELSE f[k - 1] \o seqs[k]]
  <2>1. \A k \in 0..n : k # 0 => k \in 1..n
    OBVIOUS
  <2> QED BY <1>3, <1>6, <1>7, <2>1
<1> DEFINE g == CHOOSE g : Joins(g, seqs)
<1>9. Joins(g, seqs)
  BY <1>1, <1>8 DEF Joins
<1>10. Flat(seqs) = g[Len(seqs)]
  BY DEF Flat, Joins
<1> QED BY <1>9, <1>10

LEMMA FlatEmpty == Flat(<<>>) = <<>>
<1>1. PICK s : s = <<>>
  OBVIOUS
<1>2. s \in Seq(Seq({})) /\ Len(s) = 0
  BY <1>1
<1>3. PICK f : Joins(f, s) /\ Flat(s) = f[Len(s)]
  BY <1>2, FlatIs
<1>4. f[0] = <<>>
  BY <1>2, <1>3 DEF Joins
<1> QED BY <1>1, <1>2, <1>3, <1>4

LEMMA FlatAppend ==
  ASSUME NEW R, NEW seqs \in Seq(Seq(R)), NEW x \in Seq(R)
  PROVE  Flat(seqs) \in Seq(R) /\ Flat(Append(seqs, x)) = Flat(seqs) \o x
<1>1. PICK t : t = Append(seqs, x)
  OBVIOUS
<1>2. PICK n \in Nat : n = Len(seqs)
  OBVIOUS
<1>3. t \in Seq(Seq(R)) /\ Len(t) = n + 1 /\ t[n + 1] = x /\ \A k \in 1..n : t[k] = seqs[k]
  BY <1>1, <1>2
<1>4. PICK f : Joins(f, seqs) /\ Flat(seqs) = f[Len(seqs)]
  BY FlatIs
<1>5. PICK g : Joins(g, t) /\ Flat(t) = g[Len(t)]
  BY <1>3, FlatIs
<1>6. \A k \in 0..n : f[k] = IF k = 0 THEN <<>> ELSE f[k - 1] \o seqs[k]
  BY <1>2, <1>4 DEF Joins
<1>7. \A k \in 0..(n + 1) : g[k] = IF k = 0 THEN <<>> ELSE g[k - 1] \o t[k]
  BY <1>3, <1>5 DEF Joins
<1> DEFINE G == {k \in 0..n : f[k] = g[k] /\ f[k] \in Seq(R)}
<1>8. 0 \in G
  <2>1. PICK e : e = <<>>
    OBVIOUS
  <2>2. e \in Seq(R)
    BY <2>1
  <2>3. 0 \in 0..n /\ 0 \in 0..(n + 1)
    OBVIOUS
  <2>4. f[0] = e /\ g[0] = e
    BY <1>6, <1>7, <2>1, <2>3
  <2> QED BY <2>2, <2>3, <2>4
<1>9. ASSUME NEW k \in 1..n, k - 1 \in G PROVE k \in G
  <2>1. k \in 0..n /\ k \in 0..(n + 1) /\ k # 0 /\ f[k - 1] = g[k - 1] /\ f[k - 1] \in Seq(R)
    BY <1>9
  <2>2. t[k] = seqs[k] /\ seqs[k] \in Seq(R)
    BY <1>2, <1>3
  <2>3. f[k] = f[k - 1] \o seqs[k] /\ g[k] = g[k - 1] \o t[k]
    BY <1>6, <1>7, <2>1
  <2>4. f[k - 1] \o seqs[k] \in Seq(R)
    BY <2>1, <2>2
  <2> QED BY <2>1, <2>2, <2>3, <2>4
<1>10. f[n] = g[n] /\ f[n] \in Seq(R)
  <2> HIDE DEF G
  <2>1. \A k \in 0..n : k \in G
    BY <1>8, <1>9, UpTo
  <2>2. n \in G
    BY <2>1
  <2> QED BY <2>2 DEF G
<1>11. g[n + 1] = g[n] \o x
  <2>1. n + 1 \in 0..(n + 1) /\ n + 1 # 0 /\ (n + 1) - 1 = n
    OBVIOUS
  <2> QED BY <1>3, <1>7, <2>1
<1> QED BY <1>1, <1>2, <1>3, <1>4, <1>5, <1>10, <1>11

(* The recursion of Total.                                                 *)
Sums(f, s) ==
  f = [n \in 0..Len(s) |-> IF n = 0 THEN 0 ELSE f[n - 1] + s[n]]

LEMMA TotalIs ==
  ASSUME NEW s \in Seq(Nat)
  PROVE  \E f \in [0..Len(s) -> Nat] : Sums(f, s) /\ Total(s) = f[Len(s)]
<1>1. PICK n : n = Len(s)
  OBVIOUS
<1>2. PICK step : step = [k \in 1..n |-> [v \in Nat |-> v + s[k]]]
  OBVIOUS
<1>3. n \in Nat /\ step \in [1..n -> [Nat -> Nat]]
  <2>1. n \in Nat /\ \A k \in 1..n : s[k] \in Nat
    BY <1>1
  <2>2. \A x, y \in Nat : x + y \in Nat
    OBVIOUS
  <2>3. \A k \in 1..n : [v \in Nat |-> v + s[k]] \in [Nat -> Nat]
    BY <2>1, <2>2
  <2> QED BY <1>2, <2>1, <2>3
<1>4. PICK base : base = 0
  OBVIOUS
<1>5. base \in Nat
  BY <1>4
<1>6. PICK f \in [0..n -> Nat] : f[0] = base /\ \A k \in 1..n : f[k] = step[k][f[k - 1]]
  <2>1. n \in Nat
    BY <1>3
  <2>3. Recurses(step, n, Nat)
    BY <1>3 DEF Recurses
  <2>4. \E f : Iterates(f, n, Nat, base, step)
    BY <1>5, <2>1, <2>3, Recursion
  <2> QED BY <2>4 DEF Iterates
<1>7. \A k \in 1..n : k - 1 \in 0..n
  BY <1>3
<1>8. \A k \in 1..n : step[k][f[k - 1]] = f[k - 1] + s[k]
  BY <1>2, <1>6, <1>7
<1>9. f = [k \in 0..n |-> IF k = 0 THEN 0 ELSE f[k - 1] + s[k]]
  <2>1. \A k \in 0..n : k # 0 => k \in 1..n
    BY <1>3
  <2> QED BY <1>4, <1>6, <1>8, <2>1
<1>10. \E g : Sums(g, s)
  BY <1>1, <1>9 DEF Sums
<1> DEFINE g == CHOOSE g : Sums(g, s)
<1>11. Sums(g, s)
  BY <1>10
<1>12. Total(s) = g[Len(s)]
  BY DEF Total, Sums
<1> HIDE DEF g
<1>13. g = f
  <2> DEFINE Bad == {m \in 0..n : g[m] # f[m]}
  <2>1. DOMAIN g = 0..n /\ g = [m \in 0..n |-> g[m]]
    BY <1>1, <1>11 DEF Sums
  <2>2. \A m \in 0..n : g[m] = IF m = 0 THEN 0 ELSE g[m - 1] + s[m]
    BY <1>1, <1>11 DEF Sums
  <2>3. Bad = {}
    <3> SUFFICES ASSUME Bad # {} PROVE FALSE
      OBVIOUS
    <3>1. PICK m \in Bad : \A x \in Bad : m <= x
      <4>1. Bad \in SUBSET Nat
        BY <1>3
      <4> HIDE DEF Bad
      <4> QED BY <4>1, LeastElement
    <3>2. m \in 0..n /\ g[m] # f[m]
      OBVIOUS
    <3>3. m # 0
      BY <1>4, <1>6, <2>2, <3>2
    <3>4. m - 1 \in 0..n /\ ~ (m <= m - 1) /\ m \in 1..n
      BY <1>3, <3>2, <3>3
    <3>5. g[m - 1] = f[m - 1]
      BY <3>1, <3>4
    <3> QED BY <1>6, <1>8, <2>2, <3>2, <3>3, <3>4, <3>5
  <2> QED BY <1>6, <2>1, <2>3
<1> QED BY <1>1, <1>6, <1>11, <1>12, <1>13

LEMMA TotalEmpty == Total(<<>>) = 0
<1>1. PICK s : s = <<>>
  OBVIOUS
<1>2. s \in Seq(Nat) /\ Len(s) = 0
  BY <1>1
<1>3. PICK f \in [0..Len(s) -> Nat] : Sums(f, s) /\ Total(s) = f[Len(s)]
  BY <1>2, TotalIs
<1>4. f[0] = 0
  BY <1>2, <1>3 DEF Sums
<1> QED BY <1>1, <1>2, <1>3, <1>4

LEMMA TotalAppend ==
  ASSUME NEW s \in Seq(Nat), NEW x \in Nat
  PROVE  Total(s) \in Nat /\ Total(Append(s, x)) = Total(s) + x
<1>1. PICK t : t = Append(s, x)
  OBVIOUS
<1>2. /\ t \in Seq(Nat) /\ Len(t) = Len(s) + 1 /\ t[Len(t)] = x /\ Len(s) \in Nat
      /\ \A n \in 1..Len(s) : t[n] = s[n]
  BY <1>1
<1>3. PICK f \in [0..Len(s) -> Nat] : Sums(f, s) /\ Total(s) = f[Len(s)]
  BY TotalIs
<1>4. PICK g \in [0..Len(t) -> Nat] : Sums(g, t) /\ Total(t) = g[Len(t)]
  BY <1>2, TotalIs
<1> DEFINE Bad == {n \in 0..Len(s) : g[n] # f[n]}
<1>5. Bad = {}
  <2> SUFFICES ASSUME Bad # {} PROVE FALSE
    OBVIOUS
  <2>1. PICK m \in Bad : \A n \in Bad : m <= n
    <3>1. Bad \in SUBSET Nat
      BY <1>2
    <3> HIDE DEF Bad
    <3> QED BY <3>1, LeastElement
  <2>2. m \in 0..Len(s) /\ g[m] # f[m] /\ m \in 0..Len(t)
    BY <1>2
  <2>3. m # 0
    BY <1>2, <1>3, <1>4, <2>2 DEF Sums
  <2>4. m - 1 \in 0..Len(s) /\ ~ (m <= m - 1) /\ m \in 1..Len(s)
    BY <1>2, <2>2, <2>3
  <2>5. g[m - 1] = f[m - 1] /\ t[m] = s[m]
    BY <1>2, <2>1, <2>4
  <2>6. f[m] = f[m - 1] + s[m]
    BY <1>3, <2>2, <2>3 DEF Sums
  <2>7. g[m] = g[m - 1] + t[m]
    BY <1>4, <2>2, <2>3 DEF Sums
  <2> QED BY <2>2, <2>5, <2>6, <2>7
<1>6. g[Len(s)] = f[Len(s)]
  BY <1>2, <1>5
<1>7. g[Len(t)] = g[Len(t) - 1] + t[Len(t)]
  <2>1. Len(t) \in 0..Len(t) /\ Len(t) # 0
    BY <1>2
  <2> QED BY <1>4, <2>1 DEF Sums
<1>8. Len(t) - 1 = Len(s) /\ Total(s) \in Nat
  <2>1. Len(s) \in 0..Len(s)
    BY <1>2
  <2>2. f[Len(s)] \in Nat
    BY <2>1
  <2> QED BY <1>2, <1>3, <2>2
<1> QED BY <1>1, <1>2, <1>3, <1>4, <1>6, <1>7, <1>8

------------------------------------------------------------------------------
(* Sequences that are mapped and joined                                    *)

(* Induction over sequences, of a set.                                     *)
LEMMA SequencesGrow ==
  ASSUME NEW R, NEW s \in Seq(R), NEW G, <<>> \in G,
         \A w \in Seq(R) : \A x \in R : w \in G => Append(w, x) \in G
  PROVE  s \in G
<1>1. PICK n \in Nat : n = Len(s) /\ DOMAIN s = 1..n
  OBVIOUS
<1> DEFINE pre(k) == SubSeq(s, 1, k)
<1> DEFINE K == {k \in 0..n : pre(k) \in G}
<1>2. 0 \in K
  <2>1. pre(0) = <<>>
    OBVIOUS
  <2> HIDE DEF pre
  <2> QED BY <2>1
<1>3. ASSUME NEW k \in 1..n, k - 1 \in K PROVE k \in K
  <2>1. pre(k - 1) \in Seq(R) /\ s[k] \in R /\ pre(k) = Append(pre(k - 1), s[k])
    BY <1>1
  <2> HIDE DEF pre
  <2>2. pre(k) \in G
    BY <1>3, <2>1
  <2> QED BY <2>2
<1>4. n \in K
  <2> HIDE DEF K
  <2>1. \A k \in 0..n : k \in K
    BY <1>2, <1>3, UpTo
  <2> QED BY <2>1
<1>5. pre(n) = s
  BY <1>1
<1> QED BY <1>4, <1>5

(* A function applied to every element.                                    *)
Mapped(s, g) == [i \in DOMAIN s |-> g[s[i]]]

LEMMA MappedLen ==
  ASSUME NEW X, NEW g, NEW s \in Seq(X)
  PROVE  Len(Mapped(s, g)) = Len(s)
<1>1. PICK n \in Nat : n = Len(s) /\ DOMAIN s = 1..n
  OBVIOUS
<1>2. PICK m : m = Mapped(s, g)
  OBVIOUS
<1>3. m = [i \in 1..n |-> g[s[i]]]
  BY <1>1, <1>2 DEF Mapped
<1>4. Len(m) = n
  BY <1>3
<1> QED BY <1>1, <1>2, <1>4

LEMMA MappedSays ==
  ASSUME NEW X, NEW Y, NEW g \in [X -> Y], NEW s \in Seq(X)
  PROVE  Mapped(s, g) \in Seq(Y)
<1>1. PICK n \in Nat : n = Len(s) /\ DOMAIN s = 1..n
  OBVIOUS
<1>2. \A i \in 1..n : s[i] \in X /\ g[s[i]] \in Y
  BY <1>1
<1>3. PICK m : m = Mapped(s, g)
  OBVIOUS
<1>4. m = [i \in 1..n |-> g[s[i]]] /\ m \in [1..n -> Y]
  BY <1>1, <1>2, <1>3 DEF Mapped
<1>5. m \in Seq(Y)
  BY <1>4
<1> QED BY <1>3, <1>5

LEMMA MappedAppend ==
  ASSUME NEW X, NEW g, NEW s \in Seq(X), NEW x \in X
  PROVE  Mapped(Append(s, x), g) = Append(Mapped(s, g), g[x])
<1>1. PICK n \in Nat : n = Len(s) /\ DOMAIN s = 1..n
  OBVIOUS
<1>2. PICK m : m = Mapped(s, g)
  OBVIOUS
<1>4. m = [i \in 1..n |-> g[s[i]]]
  BY <1>1, <1>2 DEF Mapped
<1>15. PICK Y : Y = {g[z] : z \in X}
  OBVIOUS
<1>3. m \in Seq(Y) /\ Len(m) = n
  <2>1. \A i \in 1..n : g[s[i]] \in Y
    BY <1>1, <1>15
  <2>2. m \in [1..n -> Y]
    BY <1>4, <2>1
  <2> QED BY <2>2
<1>5. PICK t : t = Append(s, x)
  OBVIOUS
<1>6. DOMAIN t = 1..(n + 1) /\ t[n + 1] = x /\ \A i \in 1..n : t[i] = s[i]
  BY <1>1, <1>5
<1>7. PICK a : a = Mapped(t, g)
  OBVIOUS
<1>8. a = [i \in 1..(n + 1) |-> g[t[i]]]
  BY <1>6, <1>7 DEF Mapped
<1>9. PICK y \in Y : y = g[x]
  BY <1>15
<1>10. PICK b : b = Append(m, y)
  OBVIOUS
<1>11. b \in Seq(Y) /\ Len(b) = n + 1 /\ \A i \in 1..(n + 1) : b[i] = IF i = n + 1 THEN y ELSE m[i]
  BY <1>3, <1>10
<1>12. \A i \in 1..(n + 1) : g[t[i]] = b[i]
  <2>1. ASSUME NEW i \in 1..n PROVE g[t[i]] = b[i]
    <3>1. i \in 1..(n + 1) /\ i # n + 1
      BY <1>1
    <3> QED BY <1>4, <1>6, <1>11, <3>1
  <2>2. g[t[n + 1]] = b[n + 1]
    <3>1. n + 1 \in 1..(n + 1)
      BY <1>1
    <3> QED BY <1>6, <1>9, <1>11, <3>1
  <2>3. \A i \in 1..(n + 1) : i \in 1..n \/ i = n + 1
    BY <1>1
  <2> QED BY <2>1, <2>2, <2>3
<1>13. b = [i \in 1..(n + 1) |-> b[i]]
  BY <1>11
<1>14. a = b
  BY <1>8, <1>12, <1>13
<1> QED BY <1>2, <1>5, <1>7, <1>9, <1>10, <1>14

LEMMA MappedEmpty ==
  ASSUME NEW g
  PROVE  Mapped(<<>>, g) = <<>>
<1>1. PICK e : e = <<>>
  OBVIOUS
<1>2. DOMAIN e = 1..0
  BY <1>1
<1>3. Mapped(e, g) = [i \in 1..0 |-> g[e[i]]]
  BY <1>2 DEF Mapped
<1>4. [i \in 1..0 |-> g[e[i]]] = e
  BY <1>1
<1> QED BY <1>1, <1>3, <1>4

LEMMA MappedOne ==
  ASSUME NEW x, NEW g
  PROVE  Mapped(<<x>>, g) = <<g[x]>>
<1>1. PICK e : e = <<>>
  OBVIOUS
<1>2. e \in Seq({x}) /\ Append(e, x) = <<x>> /\ Append(e, g[x]) = <<g[x]>>
  BY <1>1
<1>3. Mapped(Append(e, x), g) = Append(Mapped(e, g), g[x])
  BY <1>2, MappedAppend
<1>4. Mapped(e, g) = e
  BY <1>1, MappedEmpty
<1> QED BY <1>2, <1>3, <1>4

LEMMA ConcatSays ==
  ASSUME NEW Y, NEW a \in Seq(Y), NEW b \in Seq(Y)
  PROVE  a \o b = [i \in 1..(Len(a) + Len(b)) |-> IF i <= Len(a) THEN a[i] ELSE b[i - Len(a)]]
<1>1. PICK c : c = a \o b
  OBVIOUS
<1>2. c \in Seq(Y) /\ Len(c) = Len(a) + Len(b)
  BY <1>1
<1>3. \A i \in 1..Len(c) : c[i] = IF i <= Len(a) THEN a[i] ELSE b[i - Len(a)]
  BY <1>1, <1>2
<1>4. c = [i \in 1..Len(c) |-> c[i]]
  BY <1>2
<1> QED BY <1>1, <1>2, <1>3, <1>4

(* Two sequences, one after the other, mapped.                             *)
LEMMA MappedConcat ==
  ASSUME NEW X, NEW g, NEW s \in Seq(X), NEW t \in Seq(X)
  PROVE  Mapped(s \o t, g) = Mapped(s, g) \o Mapped(t, g)
<1>1. PICK n \in Nat, m \in Nat : n = Len(s) /\ DOMAIN s = 1..n /\ m = Len(t) /\ DOMAIN t = 1..m
  OBVIOUS
<1>2. PICK a, b : a = Mapped(s, g) /\ b = Mapped(t, g)
  OBVIOUS
<1>10. PICK Y : Y = {g[z] : z \in X}
  OBVIOUS
<1>3. a \in Seq(Y) /\ Len(a) = n /\ b \in Seq(Y) /\ Len(b) = m
  <2>1. a = [i \in 1..n |-> g[s[i]]] /\ b = [i \in 1..m |-> g[t[i]]]
    BY <1>1, <1>2 DEF Mapped
  <2>2. (\A i \in 1..n : g[s[i]] \in Y) /\ (\A i \in 1..m : g[t[i]] \in Y)
    BY <1>1, <1>10
  <2>3. a \in [1..n -> Y] /\ b \in [1..m -> Y]
    BY <2>1, <2>2
  <2> QED BY <2>3
<1>4. PICK u : u = s \o t
  OBVIOUS
<1>5. u \in Seq(X) /\ Len(u) = n + m /\ DOMAIN u = 1..(n + m)
      /\ \A i \in 1..(n + m) : u[i] = IF i <= n THEN s[i] ELSE t[i - n]
  BY <1>1, <1>4
<1>6. Mapped(u, g) = [i \in 1..(n + m) |-> g[u[i]]]
  BY <1>5 DEF Mapped
<1>7. PICK c : c = a \o b
  OBVIOUS
<1>8. c = [i \in 1..(n + m) |-> IF i <= n THEN a[i] ELSE b[i - n]]
  <2>1. a \in Seq(Y) /\ b \in Seq(Y)
    BY <1>3
  <2>2. a \o b = [i \in 1..(Len(a) + Len(b)) |-> IF i <= Len(a) THEN a[i] ELSE b[i - Len(a)]]
    BY <2>1, ConcatSays
  <2> QED BY <1>3, <1>7, <2>2
<1>9. \A i \in 1..(n + m) : g[u[i]] = IF i <= n THEN a[i] ELSE b[i - n]
  <2>1. ASSUME NEW i \in 1..(n + m) PROVE g[u[i]] = IF i <= n THEN a[i] ELSE b[i - n]
    <3>1. CASE i <= n
      <4>1. i \in 1..n
        BY <3>1
      <4>2. a[i] = g[s[i]]
        BY <1>1, <1>2, <4>1 DEF Mapped
      <4> QED BY <1>5, <3>1, <4>2
    <3>2. CASE ~ (i <= n)
      <4>1. i - n \in 1..m
        BY <3>2
      <4>2. b[i - n] = g[t[i - n]]
        BY <1>1, <1>2, <4>1 DEF Mapped
      <4> QED BY <1>5, <3>2, <4>2
    <3> QED BY <3>1, <3>2
  <2> QED BY <2>1
<1> QED BY <1>2, <1>4, <1>6, <1>7, <1>8, <1>9

LEMMA FlatSays ==
  ASSUME NEW R, NEW seqs \in Seq(Seq(R))
  PROVE  Flat(seqs) \in Seq(R)
<1>1. PICK e : e = <<>>
  OBVIOUS
<1>2. e \in Seq(R)
  BY <1>1
<1> QED BY <1>2, FlatAppend

LEMMA FlatConcat ==
  ASSUME NEW R, NEW s \in Seq(Seq(R)), NEW t \in Seq(Seq(R))
  PROVE  Flat(s \o t) = Flat(s) \o Flat(t)
<1> DEFINE G == {w \in Seq(Seq(R)) : Flat(s \o w) = Flat(s) \o Flat(w)}
<1>1. <<>> \in G
  <2>1. PICK e : e = <<>>
    OBVIOUS
  <2>2. e \in Seq(Seq(R)) /\ s \o e = s
    BY <2>1
  <2>3. PICK a \in Seq(R) : a = Flat(s)
    BY FlatSays
  <2>4. a \o e = a
    BY <2>1
  <2>5. Flat(e) = e
    BY <2>1, FlatEmpty
  <2> QED BY <2>1, <2>2, <2>3, <2>4, <2>5
<1>2. ASSUME NEW w \in Seq(Seq(R)), NEW x \in Seq(R), w \in G
      PROVE  Append(w, x) \in G
  <2>1. s \o Append(w, x) = Append(s \o w, x) /\ s \o w \in Seq(Seq(R)) /\ Append(w, x) \in Seq(Seq(R))
    OBVIOUS
  <2>2. Flat(Append(s \o w, x)) = Flat(s \o w) \o x
    BY <2>1, FlatAppend
  <2>3. Flat(Append(w, x)) = Flat(w) \o x
    BY FlatAppend
  <2>4. PICK a \in Seq(R), b \in Seq(R) : a = Flat(s) /\ b = Flat(w)
    BY FlatSays
  <2>5. (a \o b) \o x = a \o (b \o x)
    OBVIOUS
  <2>6. Flat(s \o w) = a \o b
    BY <1>2, <2>4
  <2> QED BY <2>1, <2>2, <2>3, <2>4, <2>5, <2>6
<1> HIDE DEF G
<1>3. t \in G
  BY <1>1, <1>2, SequencesGrow
<1> QED BY <1>3 DEF G

LEMMA FlatOne ==
  ASSUME NEW R, NEW x \in Seq(R)
  PROVE  Flat(<<x>>) = x
<1>1. PICK e : e = <<>>
  OBVIOUS
<1>2. e \in Seq(Seq(R)) /\ Append(e, x) = <<x>>
  BY <1>1
<1>3. Flat(Append(e, x)) = Flat(e) \o x
  BY <1>2, FlatAppend
<1>4. Flat(e) = e /\ e \o x = x
  BY <1>1, FlatEmpty
<1> QED BY <1>2, <1>3, <1>4

(* Nothing, however often.                                                 *)
LEMMA FlatNone ==
  ASSUME NEW s, s \in Seq({<<>>})
  PROVE  Flat(s) = <<>>
<1> DEFINE G == {w \in Seq({<<>>}) : Flat(w) = <<>>}
<1>1. PICK e : e = <<>>
  OBVIOUS
<1>2. <<>> \in G
  <2>1. e \in Seq({e}) /\ Flat(e) = e
    BY <1>1, FlatEmpty
  <2> QED BY <1>1, <2>1
<1>3. ASSUME NEW w \in Seq({<<>>}), NEW x \in {<<>>}, w \in G
      PROVE  Append(w, x) \in G
  <2>1. PICK R : R = {}
    OBVIOUS
  <2>2. e \in Seq(R) /\ x = e /\ e \o e = e
    BY <1>1
  <2>3. w \in Seq(Seq(R))
    <3>1. PICK n \in Nat : n = Len(w) /\ w \in [1..n -> {<<>>}]
      OBVIOUS
    <3>2. \A i \in 1..n : w[i] \in Seq(R)
      BY <1>1, <2>2, <3>1
    <3>3. w \in [1..n -> Seq(R)]
      BY <3>1, <3>2
    <3> QED BY <3>3
  <2>4. Flat(Append(w, x)) = Flat(w) \o x
    BY <2>2, <2>3, FlatAppend
  <2>5. Flat(w) = e
    BY <1>1, <1>3
  <2>6. Flat(Append(w, x)) = <<>>
    BY <1>1, <2>2, <2>4, <2>5
  <2>7. Append(w, x) \in Seq({<<>>})
    OBVIOUS
  <2> QED BY <2>6, <2>7
<1> HIDE DEF G
<1>4. s \in G
  BY <1>2, <1>3, SequencesGrow
<1> QED BY <1>4 DEF G

(* What the functions that are mapped have to do with each other.          *)
Maps(g, X, Y) == g \in [X -> Y]
SameLengths(f, g, X) == \A x \in X : Len(f[x]) = Len(g[x])
Composes(h, g, f, X) == \A x \in X : h[x] = g[f[x]]
FlatComposes(h, g, f, X) == \A x \in X : h[x] = Flat(Mapped(f[x], g))
MapComposes(h, u, f, X) == \A x \in X : h[x] = Mapped(f[x], u)
Restricts(h, g, S, X) == \A x \in X : h[x] = IF x \in S THEN g[x] ELSE <<>>
Singly(g, f, X) == \A x \in X : g[x] = <<f[x]>>

(* The length of what is joined is that of what joins pairwise.            *)
LEMMA FlatLength ==
  ASSUME NEW R, NEW X, NEW f, Maps(f, X, Seq(R)), NEW g, Maps(g, X, Seq(R)),
         SameLengths(f, g, X), NEW s \in Seq(X)
  PROVE  Len(Flat(Mapped(s, f))) = Len(Flat(Mapped(s, g)))
<1>5. f \in [X -> Seq(R)] /\ g \in [X -> Seq(R)]
  BY DEF Maps
<1> DEFINE G == {w \in Seq(X) : Len(Flat(Mapped(w, f))) = Len(Flat(Mapped(w, g)))}
<1>1. <<>> \in G
  <2>1. PICK e : e = <<>>
    OBVIOUS
  <2>2. e \in Seq(X) /\ Mapped(e, f) = e /\ Mapped(e, g) = e
    BY <2>1, MappedEmpty
  <2> QED BY <2>1, <2>2
<1>2. ASSUME NEW w \in Seq(X), NEW x \in X, w \in G
      PROVE  Append(w, x) \in G
  <2>1. PICK a \in Seq(Seq(R)) : a = Mapped(w, f)
    BY <1>5, MappedSays
  <2>2. PICK b \in Seq(Seq(R)) : b = Mapped(w, g)
    BY <1>5, MappedSays
  <2>3. PICK y \in Seq(R) : y = f[x]
    BY <1>5
  <2>4. PICK z \in Seq(R) : z = g[x]
    BY <1>5
  <2>5. Mapped(Append(w, x), f) = Append(a, y)
    BY <2>1, <2>3, MappedAppend
  <2>6. Mapped(Append(w, x), g) = Append(b, z)
    BY <2>2, <2>4, MappedAppend
  <2>7. PICK c \in Seq(R) : c = Flat(a) /\ Flat(Append(a, y)) = c \o y
    BY FlatAppend
  <2>8. PICK d \in Seq(R) : d = Flat(b) /\ Flat(Append(b, z)) = d \o z
    BY FlatAppend
  <2>9. Len(c) = Len(d)
    BY <1>2, <2>1, <2>2, <2>7, <2>8
  <2>10. Len(y) = Len(z)
    BY <2>3, <2>4 DEF SameLengths
  <2>11. Len(c \o y) = Len(d \o z)
    <3>1. Len(c \o y) = Len(c) + Len(y)
      OBVIOUS
    <3>2. Len(d \o z) = Len(d) + Len(z)
      OBVIOUS
    <3> QED BY <2>9, <2>10, <3>1, <3>2
  <2>12. Append(w, x) \in Seq(X)
    OBVIOUS
  <2> QED BY <2>5, <2>6, <2>7, <2>8, <2>11, <2>12
<1> HIDE DEF G
<1>3. s \in G
  BY <1>1, <1>2, SequencesGrow
<1> QED BY <1>3 DEF G

(* Joined first and mapped then, or the other way round.                   *)
LEMMA FlatMapped ==
  ASSUME NEW R, NEW X, NEW Y, NEW f, Maps(f, X, Seq(Y)), NEW g, Maps(g, Y, Seq(R)),
         NEW h, Maps(h, X, Seq(R)), FlatComposes(h, g, f, X),
         NEW s \in Seq(X)
  PROVE  Flat(Mapped(Flat(Mapped(s, f)), g)) = Flat(Mapped(s, h))
<1>5. f \in [X -> Seq(Y)] /\ g \in [Y -> Seq(R)] /\ h \in [X -> Seq(R)]
  BY DEF Maps
<1> DEFINE G == {w \in Seq(X) : Flat(Mapped(Flat(Mapped(w, f)), g)) = Flat(Mapped(w, h))}
<1>1. <<>> \in G
  <2>1. PICK e : e = <<>>
    OBVIOUS
  <2>2. e \in Seq(X) /\ Mapped(e, f) = e /\ Mapped(e, g) = e /\ Mapped(e, h) = e
    BY <2>1, MappedEmpty
  <2>3. Flat(e) = e
    BY <2>1, FlatEmpty
  <2> QED BY <2>1, <2>2, <2>3
<1>2. ASSUME NEW w \in Seq(X), NEW x \in X, w \in G
      PROVE  Append(w, x) \in G
  <2>1. PICK a \in Seq(Seq(Y)) : a = Mapped(w, f)
    BY <1>5, MappedSays
  <2>2. PICK b \in Seq(Seq(R)) : b = Mapped(w, h)
    BY <1>5, MappedSays
  <2>3. PICK y \in Seq(Y) : y = f[x]
    BY <1>5
  <2>4. PICK z \in Seq(R) : z = h[x]
    BY <1>5
  <2>5. Mapped(Append(w, x), f) = Append(a, y)
    BY <2>1, <2>3, MappedAppend
  <2>6. Mapped(Append(w, x), h) = Append(b, z)
    BY <2>2, <2>4, MappedAppend
  <2>7. PICK c \in Seq(Y) : c = Flat(a) /\ Flat(Append(a, y)) = c \o y
    BY FlatAppend
  <2>8. Flat(Append(b, z)) = Flat(b) \o z
    BY FlatAppend
  <2>9. Mapped(c \o y, g) = Mapped(c, g) \o Mapped(y, g)
    BY MappedConcat
  <2>10. Mapped(c, g) \in Seq(Seq(R))
    BY <1>5, MappedSays
  <2>11. Mapped(y, g) \in Seq(Seq(R))
    BY <1>5, MappedSays
  <2>12. Flat(Mapped(c, g) \o Mapped(y, g)) = Flat(Mapped(c, g)) \o Flat(Mapped(y, g))
    BY <2>10, <2>11, FlatConcat
  <2>13. Flat(Mapped(c, g)) = Flat(b)
    BY <1>2, <2>1, <2>2, <2>7
  <2>14. Flat(Mapped(y, g)) = z
    BY <2>3, <2>4 DEF FlatComposes
  <2>15. Append(w, x) \in Seq(X)
    OBVIOUS
  <2>16. Flat(Mapped(Flat(Mapped(Append(w, x), f)), g)) = Flat(Mapped(Append(w, x), h))
    BY <2>5, <2>6, <2>7, <2>8, <2>9, <2>12, <2>13, <2>14
  <2> QED BY <2>15, <2>16
<1> HIDE DEF G
<1>3. s \in G
  BY <1>1, <1>2, SequencesGrow
<1> QED BY <1>3 DEF G

(* What of a sequence is not kept joins as nothing.                        *)
LEMMA FlatKept ==
  ASSUME NEW R, NEW X, NEW g, Maps(g, X, Seq(R)), NEW h, Maps(h, X, Seq(R)), NEW S,
         Restricts(h, g, S, X),
         NEW s \in Seq(X)
  PROVE  Flat(Mapped(Keep(s, S), g)) = Flat(Mapped(s, h))
<1>5. g \in [X -> Seq(R)] /\ h \in [X -> Seq(R)]
  BY DEF Maps
<1> DEFINE G == {w \in Seq(X) : Flat(Mapped(Keep(w, S), g)) = Flat(Mapped(w, h))}
<1>1. <<>> \in G
  <2>1. PICK e : e = <<>>
    OBVIOUS
  <2>2. e \in Seq(X) /\ Mapped(e, g) = e /\ Mapped(e, h) = e /\ Keep(e, S) = e
    BY <2>1, MappedEmpty, KeepEmpty
  <2> QED BY <2>1, <2>2
<1>2. ASSUME NEW w \in Seq(X), NEW x \in X, w \in G
      PROVE  Append(w, x) \in G
  <2>1. PICK k \in Seq(X) : k = Keep(w, S)
    BY KeepSays
  <2>2. PICK a \in Seq(Seq(R)) : a = Mapped(k, g)
    BY <1>5, MappedSays
  <2>3. PICK b \in Seq(Seq(R)) : b = Mapped(w, h)
    BY <1>5, MappedSays
  <2>4. PICK z \in Seq(R) : z = h[x]
    BY <1>5
  <2>5. Mapped(Append(w, x), h) = Append(b, z)
    BY <2>3, <2>4, MappedAppend
  <2>6. PICK d \in Seq(R) : d = Flat(b) /\ Flat(Append(b, z)) = d \o z
    BY FlatAppend
  <2>7. Flat(a) = d
    BY <1>2, <2>1, <2>2, <2>3, <2>6
  <2>10. Keep(Append(w, x), S) = IF x \in S THEN Append(k, x) ELSE k
    BY <2>1, KeepAppend
  <2>8. Flat(Mapped(Keep(Append(w, x), S), g)) = d \o z
    <3>1. CASE x \in S
      <4>1. Keep(Append(w, x), S) = Append(k, x)
        BY <2>10, <3>1
      <4>2. z = g[x]
        BY <2>4, <3>1 DEF Restricts
      <4>3. Mapped(Append(k, x), g) = Append(a, z)
        BY <2>2, <4>2, MappedAppend
      <4>4. Flat(Append(a, z)) = Flat(a) \o z
        BY FlatAppend
      <4> QED BY <2>7, <4>1, <4>3, <4>4
    <3>2. CASE x \notin S
      <4>1. Keep(Append(w, x), S) = k
        BY <2>10, <3>2
      <4>2. PICK e : e = <<>>
        OBVIOUS
      <4>3. z = e /\ d \o e = d
        BY <2>4, <3>2, <4>2 DEF Restricts
      <4> QED BY <2>2, <2>7, <4>1, <4>3
    <3> QED BY <3>1, <3>2
  <2>9. Append(w, x) \in Seq(X)
    OBVIOUS
  <2> QED BY <2>5, <2>6, <2>8, <2>9
<1> HIDE DEF G
<1>3. s \in G
  BY <1>1, <1>2, SequencesGrow
<1> QED BY <1>3 DEF G

(* The elements of what is joined, mapped one by one.                      *)
LEMMA MappedFlat ==
  ASSUME NEW X, NEW Y, NEW Z, NEW f, Maps(f, X, Seq(Y)), NEW u, Maps(u, Y, Z),
         NEW h, Maps(h, X, Seq(Z)), MapComposes(h, u, f, X),
         NEW s \in Seq(X)
  PROVE  Mapped(Flat(Mapped(s, f)), u) = Flat(Mapped(s, h))
<1>5. f \in [X -> Seq(Y)] /\ u \in [Y -> Z] /\ h \in [X -> Seq(Z)]
  BY DEF Maps
<1> DEFINE G == {w \in Seq(X) : Mapped(Flat(Mapped(w, f)), u) = Flat(Mapped(w, h))}
<1>1. <<>> \in G
  <2>1. PICK e : e = <<>>
    OBVIOUS
  <2>2. e \in Seq(X) /\ Mapped(e, f) = e /\ Mapped(e, u) = e /\ Mapped(e, h) = e
    BY <2>1, MappedEmpty
  <2>3. Flat(e) = e
    BY <2>1, FlatEmpty
  <2> QED BY <2>1, <2>2, <2>3
<1>2. ASSUME NEW w \in Seq(X), NEW x \in X, w \in G
      PROVE  Append(w, x) \in G
  <2>1. PICK a \in Seq(Seq(Y)) : a = Mapped(w, f)
    BY <1>5, MappedSays
  <2>2. PICK b \in Seq(Seq(Z)) : b = Mapped(w, h)
    BY <1>5, MappedSays
  <2>3. PICK y \in Seq(Y) : y = f[x]
    BY <1>5
  <2>4. PICK z \in Seq(Z) : z = h[x]
    BY <1>5
  <2>5. Mapped(Append(w, x), f) = Append(a, y)
    BY <2>1, <2>3, MappedAppend
  <2>6. Mapped(Append(w, x), h) = Append(b, z)
    BY <2>2, <2>4, MappedAppend
  <2>7. PICK c \in Seq(Y) : c = Flat(a) /\ Flat(Append(a, y)) = c \o y
    BY FlatAppend
  <2>8. Flat(Append(b, z)) = Flat(b) \o z
    BY FlatAppend
  <2>9. Mapped(c \o y, u) = Mapped(c, u) \o Mapped(y, u)
    BY MappedConcat
  <2>10. Mapped(c, u) = Flat(b)
    BY <1>2, <2>1, <2>2, <2>7
  <2>11. Mapped(y, u) = z
    BY <2>3, <2>4 DEF MapComposes
  <2>12. Append(w, x) \in Seq(X)
    OBVIOUS
  <2> QED BY <2>5, <2>6, <2>7, <2>8, <2>9, <2>10, <2>11, <2>12
<1> HIDE DEF G
<1>3. s \in G
  BY <1>1, <1>2, SequencesGrow
<1> QED BY <1>3 DEF G

LEMMA MappedMapped ==
  ASSUME NEW X, NEW Y, NEW f \in [X -> Y], NEW g, NEW h, Composes(h, g, f, X),
         NEW s \in Seq(X)
  PROVE  Mapped(Mapped(s, f), g) = Mapped(s, h)
<1>1. PICK n \in Nat : n = Len(s) /\ DOMAIN s = 1..n
  OBVIOUS
<1>2. PICK m : m = Mapped(s, f)
  OBVIOUS
<1>3. m = [i \in 1..n |-> f[s[i]]]
  BY <1>1, <1>2 DEF Mapped
<1>4. Mapped(m, g) = [i \in 1..n |-> g[m[i]]]
  BY <1>3 DEF Mapped
<1>5. Mapped(s, h) = [i \in 1..n |-> h[s[i]]]
  BY <1>1 DEF Mapped
<1>6. \A i \in 1..n : g[m[i]] = h[s[i]]
  BY <1>1, <1>3 DEF Composes
<1> QED BY <1>2, <1>4, <1>5, <1>6

(* Sequences of one each.                                                  *)
LEMMA FlatSingles ==
  ASSUME NEW X, NEW Y, NEW f \in [X -> Y], NEW g \in [X -> Seq(Y)],
         Singly(g, f, X), NEW s \in Seq(X)
  PROVE  Flat(Mapped(s, g)) = Mapped(s, f)
<1> DEFINE G == {w \in Seq(X) : Flat(Mapped(w, g)) = Mapped(w, f)}
<1>1. <<>> \in G
  <2>1. PICK e : e = <<>>
    OBVIOUS
  <2>2. e \in Seq(X) /\ Mapped(e, f) = e /\ Mapped(e, g) = e
    BY <2>1, MappedEmpty
  <2>3. Flat(e) = e
    BY <2>1, FlatEmpty
  <2> QED BY <2>1, <2>2, <2>3
<1>2. ASSUME NEW w \in Seq(X), NEW x \in X, w \in G
      PROVE  Append(w, x) \in G
  <2>1. PICK a \in Seq(Y) : a = Mapped(w, f)
    BY MappedSays
  <2>2. PICK b \in Seq(Seq(Y)) : b = Mapped(w, g)
    BY MappedSays
  <2>3. PICK y \in Y : y = f[x]
    OBVIOUS
  <2>4. <<y>> \in Seq(Y) /\ g[x] = <<y>>
    BY <2>3 DEF Singly
  <2>5. Mapped(Append(w, x), f) = Append(a, y)
    BY <2>1, <2>3, MappedAppend
  <2>6. Mapped(Append(w, x), g) = Append(b, <<y>>)
    BY <2>2, <2>4, MappedAppend
  <2>7. Flat(Append(b, <<y>>)) = Flat(b) \o <<y>>
    BY <2>4, FlatAppend
  <2>8. Flat(b) = a
    BY <1>2, <2>1, <2>2
  <2>9. a \o <<y>> = Append(a, y)
    OBVIOUS
  <2>10. Append(w, x) \in Seq(X)
    OBVIOUS
  <2> QED BY <2>5, <2>6, <2>7, <2>8, <2>9, <2>10
<1> HIDE DEF G
<1>3. s \in G
  BY <1>1, <1>2, SequencesGrow
<1> QED BY <1>3 DEF G

(* What is kept, mapped: a sequence of one or of none for each.            *)
LEMMA KeptAsFlat ==
  ASSUME NEW X, NEW Y, NEW h, Maps(h, X, Y), NEW S, NEW g, Maps(g, X, Seq(Y)),
         Singly(g, h, X), NEW f, Maps(f, X, Seq(Y)), Restricts(f, g, S, X),
         NEW s \in Seq(X)
  PROVE  Mapped(Keep(s, S), h) = Flat(Mapped(s, f))
<1>1. PICK k \in Seq(X) : k = Keep(s, S)
  BY KeepSays
<1>2. Flat(Mapped(k, g)) = Mapped(k, h)
  <2>1. h \in [X -> Y] /\ g \in [X -> Seq(Y)]
    BY DEF Maps
  <2> QED BY <2>1, FlatSingles
<1>3. Flat(Mapped(Keep(s, S), g)) = Flat(Mapped(s, f))
  BY FlatKept
<1> QED BY <1>1, <1>2, <1>3

(* What is kept, mapped, is what of the mapped is kept.                    *)
Selects(g, S, T, X) == \A x \in X : x \in S <=> g[x] \in T

LEMMA MappedKept ==
  ASSUME NEW X, NEW Y, NEW g, Maps(g, X, Y), NEW S, NEW T, Selects(g, S, T, X),
         NEW s \in Seq(X)
  PROVE  Mapped(Keep(s, S), g) = Keep(Mapped(s, g), T)
<1>5. g \in [X -> Y]
  BY DEF Maps
<1> DEFINE G == {w \in Seq(X) : Mapped(Keep(w, S), g) = Keep(Mapped(w, g), T)}
<1>1. <<>> \in G
  <2>1. PICK e : e = <<>>
    OBVIOUS
  <2>2. e \in Seq(X) /\ Mapped(e, g) = e /\ Keep(e, S) = e /\ Keep(e, T) = e
    BY <2>1, MappedEmpty, KeepEmpty
  <2> QED BY <2>1, <2>2
<1>2. ASSUME NEW w \in Seq(X), NEW x \in X, w \in G
      PROVE  Append(w, x) \in G
  <2>1. PICK k \in Seq(X) : k = Keep(w, S)
    BY KeepSays
  <2>2. PICK m \in Seq(Y) : m = Mapped(w, g)
    BY <1>5, MappedSays
  <2>3. PICK y \in Y : y = g[x]
    BY <1>5
  <2>4. Mapped(Append(w, x), g) = Append(m, y)
    BY <2>2, <2>3, MappedAppend
  <2>5. Mapped(k, g) = Keep(m, T)
    BY <1>2, <2>1, <2>2
  <2>6. Keep(Append(w, x), S) = IF x \in S THEN Append(k, x) ELSE k
    BY <2>1, KeepAppend
  <2>7. Keep(Append(m, y), T) = IF y \in T THEN Append(Keep(m, T), y) ELSE Keep(m, T)
    BY KeepAppend
  <2>8. x \in S <=> y \in T
    BY <2>3 DEF Selects
  <2>9. Mapped(Append(k, x), g) = Append(Mapped(k, g), y)
    BY <2>3, MappedAppend
  <2>10. Mapped(Keep(Append(w, x), S), g) = Keep(Append(m, y), T)
    <3>1. CASE x \in S
      BY <2>5, <2>6, <2>7, <2>8, <2>9, <3>1
    <3>2. CASE x \notin S
      BY <2>5, <2>6, <2>7, <2>8, <3>2
    <3> QED BY <3>1, <3>2
  <2>11. Append(w, x) \in Seq(X)
    OBVIOUS
  <2> QED BY <2>4, <2>10, <2>11
<1> HIDE DEF G
<1>3. s \in G
  BY <1>1, <1>2, SequencesGrow
<1> QED BY <1>3 DEF G

LEMMA MappedSame ==
  ASSUME NEW X, NEW g, NEW h, \A x \in X : g[x] = h[x], NEW s \in Seq(X)
  PROVE  Mapped(s, g) = Mapped(s, h)
<1>1. \A i \in DOMAIN s : s[i] \in X
  OBVIOUS
<1>2. \A i \in DOMAIN s : g[s[i]] = h[s[i]]
  BY <1>1
<1> QED BY Zenon, <1>2 DEF Mapped

(* What is read off a sequence, element by element.                        *)
LEMMA ReadNone ==
  ASSUME NEW g
  PROVE  Flat(Mapped(<<>>, g)) = <<>>
BY Zenon, MappedEmpty, FlatEmpty

LEMMA ReadConcat ==
  ASSUME NEW R, NEW X, NEW g, Maps(g, X, Seq(R)), NEW s \in Seq(X), NEW t \in Seq(X)
  PROVE  Flat(Mapped(s \o t, g)) = Flat(Mapped(s, g)) \o Flat(Mapped(t, g))
<1>1. Mapped(s \o t, g) = Mapped(s, g) \o Mapped(t, g)
  BY MappedConcat
<1>2. g \in [X -> Seq(R)]
  BY DEF Maps
<1>3. Mapped(s, g) \in Seq(Seq(R))
  BY <1>2, MappedSays
<1>4. Mapped(t, g) \in Seq(Seq(R))
  BY <1>2, MappedSays
<1> QED BY <1>1, <1>3, <1>4, FlatConcat
===============================================================================
