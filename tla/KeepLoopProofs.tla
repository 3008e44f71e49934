--------------------------- MODULE KeepLoopProofs ---------------------------
(***************************************************************************)
(* What the loop of KeepLoop keeps, for lists of any length.               *)
(***************************************************************************)
EXTENDS KeepLoop, WellFoundedInduction, TLAPS

\* There is a least one among any numbers.
LEMMA LeastExists ==
    ASSUME NEW S, S \subseteq Nat, S # {}
    PROVE  \E x \in S : \A y \in S : x <= y
<1> DEFINE R == OpToRel(<, Nat)
<1>1. PICK x \in S : \A y \in S : ~(<<y, x>> \in R)
  <2>1. IsWellFoundedOn(R, Nat)
    BY NatLessThanWellFounded
  <2> HIDE DEF R
  <2> QED
    BY <2>1, WFMin
<1>2. ASSUME NEW y \in S PROVE x <= y
  <2>1. ~(<<y, x>> \in R)
    BY <1>1
  <2>2. ~(y < x)
    BY <2>1 DEF OpToRel
  <2> QED
    BY <2>2
<1> QED
  BY <1>2

\* t lists, of the first n of s, those at the places P.
SelectedUpTo(t, s, P, N, n) ==
    /\ t \in Seq(N)
    /\ \E at \in [1..Len(t) -> 1..n] :
          /\ \A k, l \in 1..Len(t) : k < l => at[k] < at[l]
          /\ \A k \in 1..Len(t) : t[k] = s[at[k]]
          /\ \A i \in 1..n : i \in P <=> \E k \in 1..Len(t) : at[k] = i

\* An empty list selects from nothing.
LEMMA NothingSelected ==
    ASSUME NEW N, NEW s, NEW P
    PROVE  SelectedUpTo(<<>>, s, P, N, 0)
<1>1. <<>> \in Seq(N) /\ Len(<<>>) = 0 /\ <<>> \in [1..0 -> 1..0]
  OBVIOUS
<1>2. \A k \in 1..0 : FALSE
  OBVIOUS
<1>3. \E at \in [1..0 -> 1..0] : TRUE
  BY <1>1
<1> QED
  BY <1>1, <1>2, <1>3 DEF SelectedUpTo

\* One more is appended if its place is one of them.
LEMMA OneMore ==
    ASSUME NEW N, NEW s \in Seq(N), NEW P, NEW n \in 1..Len(s), NEW t,
           SelectedUpTo(t, s, P, N, n - 1)
    PROVE  SelectedUpTo(IF n \in P THEN Append(t, s[n]) ELSE t, s, P, N, n)
<1> DEFINE l == Len(t)
<1>1. t \in Seq(N) /\ s[n] \in N
  BY DEF SelectedUpTo
<1>2. l \in Nat /\ n \in Nat /\ n - 1 \in Nat /\ n # 0
  BY <1>1
<1>3. PICK at \in [1..l -> 1..(n - 1)] :
          /\ \A k, j \in 1..l : k < j => at[k] < at[j]
          /\ \A k \in 1..l : t[k] = s[at[k]]
          /\ \A i \in 1..(n - 1) : i \in P <=> \E k \in 1..l : at[k] = i
  BY DEF SelectedUpTo
<1>4. CASE n \in P
  <2> DEFINE u == Append(t, s[n])
             to == [k \in 1..(l + 1) |-> IF k = l + 1 THEN n ELSE at[k]]
  <2>1. /\ u \in Seq(N) /\ Len(u) = l + 1 /\ u[l + 1] = s[n]
        /\ \A k \in 1..l : u[k] = t[k]
    BY <1>1
  <2>3. \A k \in 1..l : at[k] \in 1..n /\ at[k] < n /\ k \in 1..(l + 1) /\ to[k] = at[k]
    <3> SUFFICES ASSUME NEW k \in 1..l
                 PROVE  at[k] \in 1..n /\ at[k] < n /\ k \in 1..(l + 1) /\ to[k] = at[k]
      OBVIOUS
    <3>1. at[k] \in 1..(n - 1)
      BY <1>3
    <3>2. k \in 1..(l + 1) /\ k # l + 1
      BY <1>2
    <3> HIDE DEF l
    <3> QED
      BY <1>2, <3>1, <3>2
  <2>4. to[l + 1] = n /\ n \in 1..n /\ l + 1 \in 1..(l + 1)
    BY <1>2
  <2>5. to \in [1..(l + 1) -> 1..n]
    <3>1. \A k \in 1..(l + 1) : k # l + 1 => k \in 1..l
      BY <1>2
    <3> QED
      BY <2>3, <2>4, <3>1
  <2> HIDE DEF u, to, l
  <2>6. \A k \in 1..(l + 1) : k # l + 1 => k \in 1..l
    BY <1>2
  <2>7. \A k, j \in 1..(l + 1) : k < j => to[k] < to[j]
    <3> SUFFICES ASSUME NEW k \in 1..(l + 1), NEW j \in 1..(l + 1), k < j
                 PROVE  to[k] < to[j]
      OBVIOUS
    <3>1. k # l + 1
      BY <1>2
    <3>2. k \in 1..l
      BY <2>6, <3>1
    <3>3. CASE j = l + 1
      BY <2>3, <2>4, <3>2, <3>3
    <3>4. CASE j # l + 1
      BY <1>3, <2>3, <2>6, <3>2, <3>4
    <3> QED
      BY <3>3, <3>4
  <2>8. \A k \in 1..(l + 1) : u[k] = s[to[k]]
    BY <1>3, <2>1, <2>3, <2>4, <2>6
  <2>9. ASSUME NEW i \in 1..n PROVE i \in P <=> \E k \in 1..(l + 1) : to[k] = i
    <3>1. CASE i = n
      BY <1>4, <2>4, <3>1
    <3>2. CASE i # n
      <4>1. i \in 1..(n - 1)
        BY <1>2, <3>2
      <4>2. i \in P <=> \E k \in 1..l : at[k] = i
        BY <1>3, <4>1
      <4>3. (\E k \in 1..l : at[k] = i) <=> \E k \in 1..(l + 1) : to[k] = i
        BY <2>3, <2>4, <2>6, <3>2
      <4> QED
        BY <4>2, <4>3
    <3> QED
      BY <3>1, <3>2
  <2> QED
    <3>1. to \in [1..Len(u) -> 1..n] /\ \A k, j \in 1..Len(u) : k < j => to[k] < to[j]
      BY <2>1, <2>5, <2>7
    <3>2. \A k \in 1..Len(u) : u[k] = s[to[k]]
      BY <2>1, <2>8
    <3>3. \A i \in 1..n : i \in P <=> \E k \in 1..Len(u) : to[k] = i
      BY <2>1, <2>9
    <3>4. SelectedUpTo(u, s, P, N, n)
      BY <2>1, <3>1, <3>2, <3>3 DEF SelectedUpTo
    <3> QED
      BY <1>4, <3>4 DEF u
<1>5. CASE n \notin P
  <2>2. at \in [1..l -> 1..n] /\ \A k \in 1..l : at[k] # n
    <3>1. \A k \in 1..l : at[k] \in 1..(n - 1)
      BY <1>3
    <3>2. \A i \in 1..(n - 1) : i \in 1..n /\ i # n
      BY <1>2
    <3> QED
      BY <1>3, <3>1, <3>2
  <2>3. \A i \in 1..n : i \in P <=> \E k \in 1..l : at[k] = i
    BY <1>2, <1>3, <1>5, <2>2
  <2>4. \A k, j \in 1..Len(t) : k < j => at[k] < at[j]
    BY <1>3
  <2>5. \A k \in 1..Len(t) : t[k] = s[at[k]]
    BY <1>3
  <2>6. SelectedUpTo(t, s, P, N, n)
    <3>1. at \in [1..Len(t) -> 1..n] /\ t \in Seq(N)
      BY <1>1, <2>2
    <3>2. \A i \in 1..n : i \in P <=> \E k \in 1..Len(t) : at[k] = i
      BY <2>3
    <3> QED
      BY <2>4, <2>5, <3>1, <3>2 DEF SelectedUpTo
  <2> QED
    BY <1>5, <2>6
<1> QED
  BY <1>4, <1>5

\* The list after round n of the loop, if g has the lists of the rounds before.
Round(g, s, P, n) ==
    IF n = 0 THEN <<>>
    ELSE IF n \in P THEN Append(g[n - 1], s[n]) ELSE g[n - 1]

\* g has the lists of the first m rounds.
IsLoop(g, s, P, m) == g = [n \in 0..m |-> Round(g, s, P, n)]

\* The loop makes its rounds one by one.
LEMMA LoopExists ==
    ASSUME NEW s, NEW P, NEW m \in Nat
    PROVE  \E g : IsLoop(g, s, P, m)
<1> DEFINE Bad == {i \in Nat : ~ \E g : IsLoop(g, s, P, i)}
<1>1. ASSUME Bad # {} PROVE FALSE
  <2>1. PICK i \in Bad : \A j \in Bad : i <= j
    BY <1>1, LeastExists
  <2>2. CASE i = 0
    <3> DEFINE g == [n \in 0..0 |-> <<>>]
    <3>1. IsLoop(g, s, P, 0)
      BY DEF IsLoop, Round
    <3> QED
      BY <2>1, <2>2, <3>1
  <2>3. CASE i # 0
    <3>1. i \in Nat /\ i - 1 \in Nat
      BY <2>1, <2>3
    <3>2. i - 1 \notin Bad
      BY <2>1, <3>1
    <3>3. PICK g : IsLoop(g, s, P, i - 1)
      BY <3>1, <3>2
    <3> DEFINE h == [n \in 0..i |-> IF n = i THEN Round(g, s, P, i) ELSE g[n]]
    <3>4. ASSUME NEW n \in 0..i PROVE h[n] = Round(h, s, P, n)
      <4>1. n # 0 => n - 1 \in 0..(i - 1) /\ h[n - 1] = g[n - 1]
        BY <3>1
      <4>2. Round(h, s, P, n) = Round(g, s, P, n)
        BY <4>1 DEF Round
      <4>3. n # i => n \in 0..(i - 1) /\ g[n] = Round(g, s, P, n)
        BY <3>1, <3>3 DEF IsLoop
      <4> QED
        BY <4>2, <4>3
    <3>5. h = [n \in 0..i |-> Round(h, s, P, n)]
      <4> DEFINE k == [n \in 0..i |-> Round(h, s, P, n)]
      <4>1. \A n \in 0..i : h[n] = k[n]
        BY <3>4
      <4>2. h = [n \in 0..i |-> h[n]] /\ k = [n \in 0..i |-> k[n]]
        OBVIOUS
      <4> HIDE DEF h, k
      <4>3. h = k
        BY <4>1, <4>2
      <4> QED
        BY <4>3 DEF k
    <3>6. IsLoop(h, s, P, i)
      BY <3>5 DEF IsLoop
    <3> QED
      BY <2>1, <3>6
  <2> QED
    BY <2>2, <2>3
<1> QED
  BY <1>1

\* KeepAt is the list after the last round.
LEMMA KeepIsLoop ==
    ASSUME NEW s, NEW P, Len(s) \in Nat
    PROVE  \E g : IsLoop(g, s, P, Len(s)) /\ KeepAt(s, P) = g[Len(s)]
<1> DEFINE c == CHOOSE g : g = [n \in 0..Len(s) |->
                    IF n = 0 THEN <<>>
                    ELSE IF n \in P THEN Append(g[n - 1], s[n]) ELSE g[n - 1]]
<1>1. KeepAt(s, P) = c[Len(s)]
  BY DEF KeepAt
<1>2. \E g : g = [n \in 0..Len(s) |->
                    IF n = 0 THEN <<>>
                    ELSE IF n \in P THEN Append(g[n - 1], s[n]) ELSE g[n - 1]]
  <2>1. PICK g : IsLoop(g, s, P, Len(s))
    BY LoopExists
  <2>2. g = [n \in 0..Len(s) |->
                IF n = 0 THEN <<>>
                ELSE IF n \in P THEN Append(g[n - 1], s[n]) ELSE g[n - 1]]
    BY <2>1 DEF IsLoop, Round
  <2> QED
    BY <2>2
<1>3. IsLoop(c, s, P, Len(s))
  BY <1>2 DEF IsLoop, Round
<1> QED
  BY <1>1, <1>3

\* The loop keeps the elements at the places P, in their order.
LEMMA KeepAtSelects ==
    ASSUME NEW N, NEW s \in Seq(N), NEW P
    PROVE  SelectedUpTo(KeepAt(s, P), s, P, N, Len(s))
<1>1. Len(s) \in Nat /\ DOMAIN s = 1..Len(s)
  OBVIOUS
<1>2. PICK g : IsLoop(g, s, P, Len(s)) /\ KeepAt(s, P) = g[Len(s)]
  BY <1>1, KeepIsLoop
<1>3. \A n \in 0..Len(s) : g[n] = Round(g, s, P, n)
  BY <1>2 DEF IsLoop
<1> DEFINE Bad == {n \in 0..Len(s) : ~SelectedUpTo(g[n], s, P, N, n)}
<1>4. ASSUME Bad # {} PROVE FALSE
  <2>1. Bad \subseteq Nat
    BY <1>1
  <2>2. PICK n \in Bad : \A j \in Bad : n <= j
    BY <1>4, <2>1, LeastExists
  <2>3. CASE n = 0
    <3>1. g[0] = <<>>
      BY <1>1, <1>3 DEF Round
    <3>2. SelectedUpTo(<<>>, s, P, N, 0)
      BY NothingSelected
    <3> QED
      BY <2>2, <2>3, <3>1, <3>2
  <2>4. CASE n # 0
    <3>1. n \in 1..Len(s) /\ n - 1 \in 0..Len(s) /\ n \in 0..Len(s)
      BY <1>1, <2>2, <2>4
    <3>2. n - 1 \notin Bad
      <4>1. n - 1 \in Bad => n <= n - 1
        BY <2>2
      <4>2. n \in Nat
        BY <1>1, <3>1
      <4> QED
        BY <4>1, <4>2
    <3>3. SelectedUpTo(g[n - 1], s, P, N, n - 1)
      BY <3>1, <3>2
    <3>4. SelectedUpTo(IF n \in P THEN Append(g[n - 1], s[n]) ELSE g[n - 1], s, P, N, n)
      BY <3>1, <3>3, OneMore
    <3>5. g[n] = IF n \in P THEN Append(g[n - 1], s[n]) ELSE g[n - 1]
      BY <1>1, <1>3, <2>4, <3>1 DEF Round
    <3>6. SelectedUpTo(g[n], s, P, N, n)
      BY <3>4, <3>5
    <3> QED
      BY <2>2, <3>6
  <2> QED
    BY <2>3, <2>4
<1> QED
  <2>1. Len(s) \in 0..Len(s)
    BY <1>1
  <2>2. SelectedUpTo(g[Len(s)], s, P, N, Len(s))
    BY <1>4, <2>1
  <2> QED
    BY <1>2, <2>2

\* The loop keeps names, those that are in S, in their order.
LEMMA KeepSelects ==
    ASSUME NEW N, NEW s \in Seq(N), NEW S
    PROVE  Keep(s, S) \in Seq(N) /\ IsSelection(Keep(s, S), s, S)
<1> DEFINE P == {n \in DOMAIN s : s[n] \in S}
           t == Keep(s, S)
<1>1. Len(s) \in Nat /\ DOMAIN s = 1..Len(s)
  OBVIOUS
<1>5. SelectedUpTo(t, s, P, N, Len(s))
  BY KeepAtSelects DEF Keep
<1>6. t \in Seq(N)
  BY <1>5 DEF SelectedUpTo
<1>7. DOMAIN t = 1..Len(t)
  BY <1>6
<1>8. PICK at \in [1..Len(t) -> 1..Len(s)] :
          /\ \A k, l \in 1..Len(t) : k < l => at[k] < at[l]
          /\ \A k \in 1..Len(t) : t[k] = s[at[k]]
          /\ \A i \in 1..Len(s) : s[i] \in S <=> \E k \in 1..Len(t) : at[k] = i
  BY <1>1, <1>5 DEF SelectedUpTo, P
<1> HIDE DEF t
<1>9. {at[k] : k \in DOMAIN t} = {k \in DOMAIN s : s[k] \in S}
  <2>1. \A i : i \in {at[k] : k \in DOMAIN t} => i \in {k \in DOMAIN s : s[k] \in S}
    BY <1>1, <1>7, <1>8
  <2>2. \A i : i \in {k \in DOMAIN s : s[k] \in S} => i \in {at[k] : k \in DOMAIN t}
    BY <1>1, <1>7, <1>8
  <2> QED
    BY <2>1, <2>2
<1>10. IsSelection(t, s, S)
  BY <1>1, <1>7, <1>8, <1>9 DEF IsSelection
<1> QED
  BY <1>6, <1>10 DEF t

\* What is kept is what is in S.
LEMMA KeptAre ==
    ASSUME NEW N, NEW s \in Seq(N), NEW S, NEW x
    PROVE  (\E k \in DOMAIN Keep(s, S) : Keep(s, S)[k] = x) <=> x \in S /\ \E k \in DOMAIN s : s[k] = x
BY KeepSelects DEF IsSelection

\* at has the places in s of the elements of t, which are the first of their
\* kinds, of every kind one.
AreFirsts(at, t, s, kindOf) ==
    /\ at \in [1..Len(t) -> 1..Len(s)]
    /\ \A k, l \in 1..Len(t) : k < l => at[k] < at[l]
    /\ \A k \in 1..Len(t) : t[k] = s[at[k]]
    /\ \A i \in 1..Len(s) : \E k \in 1..Len(t) : at[k] <= i /\ kindOf[t[k]] = kindOf[s[i]]
    /\ \A k \in 1..Len(t), i \in 1..Len(s) : kindOf[t[k]] = kindOf[s[i]] => at[k] <= i

\* Of each kind in the list, the loop keeps one, the first.
LEMMA FirstOfKindKeeps ==
    ASSUME NEW N, NEW s \in Seq(N), NEW kindOf, NEW t, t = FirstOfKind(s, kindOf)
    PROVE  /\ t \in Seq(N) /\ DOMAIN t = 1..Len(t) /\ Len(t) \in Nat
           /\ \E at : AreFirsts(at, t, s, kindOf)
<1> DEFINE P == {n \in DOMAIN s : kindOf[s[n]] \notin {kindOf[s[m]] : m \in 1..(n - 1)}}
<1>1. Len(s) \in Nat /\ DOMAIN s = 1..Len(s)
  OBVIOUS
<1>2. SelectedUpTo(t, s, P, N, Len(s))
  BY KeepAtSelects DEF FirstOfKind
<1>3. \A n \in 1..Len(s) : n \in P <=> \A m \in 1..(n - 1) : kindOf[s[m]] # kindOf[s[n]]
  BY <1>1
<1> HIDE DEF P
<1>4. t \in Seq(N) /\ DOMAIN t = 1..Len(t) /\ Len(t) \in Nat
  <2>1. t \in Seq(N)
    BY <1>2 DEF SelectedUpTo
  <2> QED
    BY <2>1
<1>5. PICK at \in [1..Len(t) -> 1..Len(s)] :
          /\ \A k, l \in 1..Len(t) : k < l => at[k] < at[l]
          /\ \A k \in 1..Len(t) : t[k] = s[at[k]]
          /\ \A i \in 1..Len(s) : i \in P <=> \E k \in 1..Len(t) : at[k] = i
  BY <1>2 DEF SelectedUpTo
<1>6. ASSUME NEW i \in 1..Len(s)
      PROVE  \E k \in 1..Len(t) : at[k] <= i /\ kindOf[t[k]] = kindOf[s[i]]
  <2> DEFINE Same == {m \in 1..Len(s) : kindOf[s[m]] = kindOf[s[i]]}
  <2>1. Same \subseteq Nat /\ i \in Same
    OBVIOUS
  <2>2. PICK m \in Same : \A j \in Same : m <= j
    BY <2>1, LeastExists
  <2>3. ASSUME NEW j \in 1..(m - 1) PROVE kindOf[s[j]] # kindOf[s[m]]
    <3>1. j \in 1..Len(s) /\ ~(m <= j)
      BY <1>1
    <3> QED
      BY <2>2, <3>1
  <2>4. m \in P
    BY <1>3, <2>3
  <2> QED
    BY <1>5, <2>1, <2>2, <2>4
<1>7. ASSUME NEW k \in 1..Len(t), NEW i \in 1..Len(s), kindOf[t[k]] = kindOf[s[i]]
      PROVE  at[k] <= i
  <2>1. at[k] \in 1..Len(s) /\ at[k] \in P
    BY <1>5
  <2>2. i \notin 1..(at[k] - 1)
    BY <1>3, <1>5, <1>7, <2>1
  <2> QED
    BY <1>1, <2>1, <2>2
<1> QED
  BY <1>4, <1>5, <1>6, <1>7 DEF AreFirsts
=============================================================================
