---------------------------- MODULE PluginProofs ----------------------------
(***************************************************************************)
(* What the plugins and extensions of a step compute, for any              *)
(* configuration and any input: the children that a case fans out into,    *)
(* the numbers and values that are written into a step's data, and the     *)
(* values of a form that are the server's.                                 *)
(***************************************************************************)
EXTENDS Splits, ReadOnlySchemas, ValueWrites, FiniteSetTheorems, WellFoundedInduction, TLAPS

----------------------------------------------------------------------------
(***************************************************************************)
(* What a case fans out into, for any artifact, any selection of HS codes  *)
(* and any number of containers: each agency's workflow once, and a row of *)
(* the boat note for each dispatch note that stands.                       *)
(*                                                                         *)
(* The lists are built by loops (Those, FlattenSeq), which are recursive   *)
(* functions of a position: what holds of them is shown from position to   *)
(* position, by the least one at which it would not.                       *)
(***************************************************************************)
\* A set of numbers has a least one.
LEMMA LeastNatural ==
  ASSUME NEW T \in SUBSET Nat, T # {}
  PROVE  \E n \in T : \A m \in T : n <= m
<1> DEFINE R == OpToRel(<, Nat)
<1>1. IsWellFoundedOn(R, Nat)
  BY NatLessThanWellFounded
<1>2. PICK n \in T : \A m \in T : ~ (<<m, n>> \in R)
  <2> HIDE DEF R
  <2> QED
    BY <1>1, WFMin
<1>3. \A m \in T : ~ (m < n)
  BY <1>2 DEF OpToRel
<1> QED
  BY <1>3

\* Induction up to n, for a property that is given as the set of the numbers that have it.
LEMMA UpTo ==
  ASSUME NEW T, NEW n \in Nat, 0 \in T, \A m \in 0 .. n - 1 : m \in T => m + 1 \in T
  PROVE  \A m \in 0 .. n : m \in T
<1> DEFINE U == {m \in 0 .. n : m \notin T}
<1> SUFFICES ASSUME U # {} PROVE FALSE
  OBVIOUS
<1>1. PICK k \in U : \A m \in U : k <= m
  <2>1. U \in SUBSET Nat
    OBVIOUS
  <2> HIDE DEF U
  <2> QED
    BY <2>1, LeastNatural
<1>2. k # 0 /\ k - 1 \in 0 .. n - 1 /\ k - 1 \notin U
  BY <1>1
<1> QED
  BY <1>1, <1>2

----------------------------------------------------------------------------
\* f is what Those has kept of s after each element up to the m-th.
Keeps(f, s, I, m) ==
  f = [n \in 0 .. m |->
         IF n = 0 THEN << >> ELSE IF n \in I THEN Append(f[n - 1], s[n]) ELSE f[n - 1]]

\* What a loop has kept after each element is what it had kept before, with or without it.
LEMMA KeepsEach ==
  ASSUME NEW f, NEW s, NEW I, NEW m \in Nat, Keeps(f, s, I, m)
  PROVE  /\ f[0] = << >>
         /\ \A n \in 1 .. m : f[n] = IF n \in I THEN Append(f[n - 1], s[n]) ELSE f[n - 1]
<1>1. \A n \in 0 .. m : f[n] = IF n = 0 THEN << >> ELSE IF n \in I THEN Append(f[n - 1], s[n]) ELSE f[n - 1]
  BY DEF Keeps
<1>2. 0 \in 0 .. m /\ \A n \in 1 .. m : n \in 0 .. m /\ n # 0
  OBVIOUS
<1> QED
  BY <1>1, <1>2

Kept(s, I) == CHOOSE f : Keeps(f, s, I, Len(s))

\* There is such a function, so the recursive definition of Those defines one.
LEMMA KeptExists ==
  ASSUME NEW S, NEW s \in Seq(S), NEW I
  PROVE  Keeps(Kept(s, I), s, I, Len(s)) /\ Kept(s, I) \in [0 .. Len(s) -> Seq(S)]
<1> DEFINE T == {m \in Nat : \E f \in [0 .. m -> Seq(S)] : Keeps(f, s, I, m)}
<1>1. 0 \in T
  <2> DEFINE f == [n \in 0 .. 0 |-> << >>]
  <2>1. f \in [0 .. 0 -> Seq(S)]
    OBVIOUS
  <2>2. Keeps(f, s, I, 0)
    BY DEF Keeps
  <2> QED
    BY <2>1, <2>2
<1>2. ASSUME NEW m \in 0 .. Len(s) - 1, m \in T
      PROVE  m + 1 \in T
  <2>1. PICK f \in [0 .. m -> Seq(S)] : Keeps(f, s, I, m)
    BY <1>2
  <2> DEFINE next == IF m + 1 \in I THEN Append(f[m], s[m + 1]) ELSE f[m]
             g == [n \in 0 .. m + 1 |-> IF n = m + 1 THEN next ELSE f[n]]
  <2>2. m \in 0 .. m /\ m \in Nat /\ m + 1 \in 1 .. Len(s)
    OBVIOUS
  <2>3. next \in Seq(S)
    BY <2>1, <2>2
  <2>4. g \in [0 .. m + 1 -> Seq(S)]
    <3> HIDE DEF next
    <3> QED
      BY <2>1, <2>2, <2>3
  <2>5. Keeps(g, s, I, m + 1)
    <3> DEFINE body(n) == IF n = 0 THEN << >> ELSE IF n \in I THEN Append(g[n - 1], s[n]) ELSE g[n - 1]
    <3>1. ASSUME NEW n \in 0 .. m
          PROVE  g[n] = body(n)
      <4>1. g[n] = f[n] /\ (n # 0 => g[n - 1] = f[n - 1])
        BY <2>2
      <4>2. f[n] = IF n = 0 THEN << >> ELSE IF n \in I THEN Append(f[n - 1], s[n]) ELSE f[n - 1]
        BY <2>1 DEF Keeps
      <4> HIDE DEF g
      <4> QED
        BY <4>1, <4>2
    <3>2. g[m + 1] = body(m + 1)
      <4>1. g[m + 1] = next /\ g[m] = f[m] /\ m + 1 # 0 /\ (m + 1) - 1 = m
        BY <2>2
      <4> HIDE DEF g
      <4> QED
        BY <4>1
    <3>3. DOMAIN g = 0 .. m + 1 /\ \A n \in 0 .. m + 1 : g[n] = body(n)
      <4>1. DOMAIN g = 0 .. m + 1
        OBVIOUS
      <4> HIDE DEF g, body
      <4> QED
        BY <2>2, <3>1, <3>2, <4>1
    <3> HIDE DEF g
    <3>4. g = [n \in 0 .. m + 1 |-> g[n]]
      BY <2>4
    <3>5. g = [n \in 0 .. m + 1 |-> body(n)]
      <4> HIDE DEF body
      <4> QED
        BY <3>3, <3>4
    <3> QED
      BY <3>5 DEF Keeps
  <2> HIDE DEF g
  <2> QED
    BY <2>2, <2>4, <2>5
<1>3. Len(s) \in T
  <2>1. Len(s) \in Nat
    OBVIOUS
  <2> HIDE DEF T
  <2>2. \A m \in 0 .. Len(s) - 1 : m \in T => m + 1 \in T
    BY <1>2
  <2>3. \A m \in 0 .. Len(s) : m \in T
    BY <1>1, <2>1, <2>2, UpTo
  <2> QED
    BY <2>1, <2>3
<1>4. PICK f \in [0 .. Len(s) -> Seq(S)] : Keeps(f, s, I, Len(s))
  BY <1>3
<1>5. Keeps(Kept(s, I), s, I, Len(s))
  BY <1>4 DEF Kept
<1> DEFINE k == Kept(s, I)
<1>6. k = [n \in 0 .. Len(s) |-> k[n]]
  <2> HIDE DEF k
  <2>1. Keeps(k, s, I, Len(s))
    BY <1>5 DEF k
  <2> QED
    BY <2>1 DEF Keeps
<1>7. \A n \in 0 .. Len(s) : k[n] \in Seq(S)
  <2> HIDE DEF k
  <2>1. /\ k[0] = << >>
        /\ \A n \in 1 .. Len(s) : k[n] = IF n \in I THEN Append(k[n - 1], s[n]) ELSE k[n - 1]
    <3>1. Keeps(k, s, I, Len(s))
      BY <1>5 DEF k
    <3> QED
      BY <3>1, KeepsEach
  <2> DEFINE U == {n \in Nat : k[n] \in Seq(S)}
  <2>2. 0 \in U
    <3>1. << >> \in Seq(S)
      OBVIOUS
    <3> QED
      BY <2>1, <3>1
  <2>3. ASSUME NEW n \in 0 .. Len(s) - 1, n \in U
        PROVE  n + 1 \in U
    <3>1. n + 1 \in 1 .. Len(s) /\ (n + 1) - 1 = n /\ s[n + 1] \in S
      OBVIOUS
    <3>2. k[n] \in Seq(S) /\ n + 1 \in Nat
      BY <2>3
    <3>3. Append(k[n], s[n + 1]) \in Seq(S)
      BY <3>1, <3>2
    <3>4. k[n + 1] = IF n + 1 \in I THEN Append(k[n], s[n + 1]) ELSE k[n]
      BY <2>1, <3>1
    <3> QED
      BY <3>2, <3>3, <3>4
  <2>4. Len(s) \in Nat
    OBVIOUS
  <2>5. \A n \in 0 .. Len(s) : n \in U
    <3> HIDE DEF U
    <3> QED
      BY <2>2, <2>3, <2>4, UpTo
  <2> QED
    BY <2>5
<1> QED
  <2> HIDE DEF k
  <2>1. k \in [0 .. Len(s) -> Seq(S)]
    BY <1>6, <1>7
  <2> QED
    BY <1>5, <2>1 DEF k

\* at gives the place in s of each element of k, which are those of I up to m.
From(at, k, s, I, m) ==
  /\ at \in [1 .. Len(k) -> {n \in 1 .. m : n \in I}]
  /\ \A q, r \in 1 .. Len(k) : q < r => at[q] < at[r]
  /\ \A n \in 1 .. m : n \in I => \E r \in 1 .. Len(k) : at[r] = n
  /\ \A r \in 1 .. Len(k) : k[r] = s[at[r]]

\* From holds of one element more.
LEMMA FromGrows ==
  ASSUME NEW S, NEW s \in Seq(S), NEW I, NEW m \in 0 .. Len(s) - 1, NEW k \in Seq(S), NEW j \in Seq(S),
         \E at : From(at, k, s, I, m),
         j = IF m + 1 \in I THEN Append(k, s[m + 1]) ELSE k
  PROVE  \E at : From(at, j, s, I, m + 1)
<1>1. PICK at : From(at, k, s, I, m)
  OBVIOUS
<1>2. m + 1 \in 1 .. Len(s) /\ Len(k) \in Nat /\ m \in Nat
  OBVIOUS
<1>3. CASE m + 1 \notin I
  <2>1. {n \in 1 .. m + 1 : n \in I} = {n \in 1 .. m : n \in I}
    BY <1>2, <1>3
  <2>2. \A n \in 1 .. m + 1 : n \in I => n \in 1 .. m
    BY <1>2, <1>3
  <2>3. j = k
    BY <1>3
  <2>4. /\ at \in [1 .. Len(k) -> {n \in 1 .. m + 1 : n \in I}]
        /\ \A q, r \in 1 .. Len(k) : q < r => at[q] < at[r]
    BY <1>1, <2>1 DEF From
  <2>5. /\ \A n \in 1 .. m + 1 : n \in I => \E r \in 1 .. Len(k) : at[r] = n
        /\ \A r \in 1 .. Len(k) : k[r] = s[at[r]]
    BY <1>1, <2>2 DEF From
  <2>6. From(at, k, s, I, m + 1)
    BY ONLY <2>4, <2>5 DEF From
  <2> QED
    BY ONLY <2>3, <2>6
<1>4. CASE m + 1 \in I
  <2> DEFINE new == [r \in 1 .. Len(k) + 1 |-> IF r = Len(k) + 1 THEN m + 1 ELSE at[r]]
  <2>1. /\ Len(j) = Len(k) + 1 /\ j[Len(k) + 1] = s[m + 1]
        /\ \A r \in 1 .. Len(k) : j[r] = k[r]
    BY <1>2, <1>4
  <2>2. /\ new[Len(k) + 1] = m + 1
        /\ \A r \in 1 .. Len(k) : r \in 1 .. Len(k) + 1 /\ new[r] = at[r] /\ at[r] \in 1 .. m /\ at[r] \in I
    <3>1. /\ new[Len(k) + 1] = m + 1
          /\ \A r \in 1 .. Len(k) : r \in 1 .. Len(k) + 1 /\ new[r] = at[r]
      BY <1>2
    <3>2. \A r \in 1 .. Len(k) : at[r] \in {n \in 1 .. m : n \in I}
      BY <1>1 DEF From
    <3> QED
      BY <3>1, <3>2
  <2>3. new \in [1 .. Len(j) -> {n \in 1 .. m + 1 : n \in I}]
    <3>1. \A r \in 1 .. Len(k) + 1 : r = Len(k) + 1 \/ r \in 1 .. Len(k)
      BY <1>2
    <3>2. \A r \in 1 .. Len(k) + 1 : new[r] \in {n \in 1 .. m + 1 : n \in I}
      <4> HIDE DEF new
      <4> QED
        BY <1>2, <1>4, <2>2, <3>1
    <3> QED
      BY <2>1, <3>2
  <2> HIDE DEF new
  <2>4. \A q, r \in 1 .. Len(j) : q < r => new[q] < new[r]
    <3> SUFFICES ASSUME NEW q \in 1 .. Len(j), NEW r \in 1 .. Len(j), q < r
                 PROVE  new[q] < new[r]
      OBVIOUS
    <3>1. q \in 1 .. Len(k) /\ (r \in 1 .. Len(k) \/ r = Len(k) + 1)
      BY <1>2, <2>1
    <3>2. CASE r \in 1 .. Len(k)
      BY <1>1, <2>2, <3>1, <3>2 DEF From
    <3>3. CASE r = Len(k) + 1
      BY <1>2, <2>2, <3>1, <3>3
    <3> QED
      BY <3>1, <3>2, <3>3
  <2>5. \A n \in 1 .. m + 1 : n \in I => \E r \in 1 .. Len(j) : new[r] = n
    <3> SUFFICES ASSUME NEW n \in 1 .. m + 1, n \in I
                 PROVE  \E r \in 1 .. Len(j) : new[r] = n
      OBVIOUS
    <3>1. CASE n = m + 1
      BY <1>2, <2>1, <2>2, <3>1
    <3>2. CASE n \in 1 .. m
      <4>1. PICK r \in 1 .. Len(k) : at[r] = n
        BY <1>1, <3>2 DEF From
      <4> QED
        BY <1>2, <2>1, <2>2, <4>1
    <3> QED
      BY <1>2, <3>1, <3>2
  <2>6. \A r \in 1 .. Len(j) : j[r] = s[new[r]]
    <3> SUFFICES ASSUME NEW r \in 1 .. Len(j)
                 PROVE  j[r] = s[new[r]]
      OBVIOUS
    <3>1. CASE r = Len(k) + 1
      BY <2>1, <2>2, <3>1
    <3>2. CASE r \in 1 .. Len(k)
      BY <1>1, <2>1, <2>2, <3>2 DEF From
    <3> QED
      BY <1>2, <2>1, <3>1, <3>2
  <2> QED
    BY <2>3, <2>4, <2>5, <2>6 DEF From
<1> QED
  BY <1>3, <1>4

\* Those takes the elements at the indices of I, each once and in order.
LEMMA ThoseIs ==
  ASSUME NEW S, NEW s \in Seq(S), NEW I
  PROVE  /\ Those(s, I) \in Seq(S)
         /\ \E at : From(at, Those(s, I), s, I, Len(s))
<1> DEFINE k == Kept(s, I)
<1>1. Those(s, I) = k[Len(s)]
  BY DEF Those, Kept, Keeps
<1>2. Keeps(k, s, I, Len(s)) /\ k \in [0 .. Len(s) -> Seq(S)]
  BY KeptExists
<1>3. Len(s) \in Nat
  OBVIOUS
<1> HIDE DEF k
<1>4. /\ k[0] = << >>
      /\ \A n \in 1 .. Len(s) : k[n] = IF n \in I THEN Append(k[n - 1], s[n]) ELSE k[n - 1]
  BY <1>2, <1>3, KeepsEach
<1> DEFINE T == {m \in Nat : \E at : From(at, k[m], s, I, m)}
<1>5. 0 \in T
  <2>1. From([r \in 1 .. 0 |-> 0], << >>, s, I, 0)
    BY DEF From
  <2> QED
    BY <1>4, <2>1
<1>6. ASSUME NEW m \in 0 .. Len(s) - 1, m \in T
      PROVE  m + 1 \in T
  <2>1. k[m] \in Seq(S) /\ k[m + 1] \in Seq(S) /\ m + 1 \in Nat
    <3>1. m \in 0 .. Len(s) /\ m + 1 \in 0 .. Len(s) /\ m + 1 \in Nat
      BY <1>3
    <3> QED
      BY <1>2, <3>1
  <2>2. k[m + 1] = IF m + 1 \in I THEN Append(k[m], s[m + 1]) ELSE k[m]
    <3>1. m + 1 \in 1 .. Len(s) /\ (m + 1) - 1 = m
      BY <1>3
    <3> QED
      BY <1>4, <3>1
  <2>3. \E at : From(at, k[m], s, I, m)
    BY <1>6
  <2>4. \E at : From(at, k[m + 1], s, I, m + 1)
    BY <2>1, <2>2, <2>3, FromGrows
  <2> QED
    BY <2>1, <2>4
<1>7. Len(s) \in T
  <2> HIDE DEF T
  <2>1. \A m \in 0 .. Len(s) - 1 : m \in T => m + 1 \in T
    BY <1>6
  <2>2. \A m \in 0 .. Len(s) : m \in T
    BY <1>3, <1>5, <2>1, UpTo
  <2> QED
    BY <1>3, <2>2
<1> QED
  BY <1>1, <1>2, <1>3, <1>7
----------------------------------------------------------------------------
\* f is what FlattenSeq has joined of ss up to each of its first m sequences.
Flattens(f, ss, m) ==
  f = [i \in 1 .. m |-> IF i = 1 THEN ss[i] ELSE f[i - 1] \o ss[i]]

Flattened(ss) == CHOOSE f : Flattens(f, ss, Len(ss))

\* Each sequence is appended to what those before it make.
LEMMA FlattensEach ==
  ASSUME NEW f, NEW ss, NEW m \in Nat \ {0}, Flattens(f, ss, m)
  PROVE  /\ f[1] = ss[1]
         /\ \A i \in 2 .. m : f[i] = f[i - 1] \o ss[i]
<1>1. \A i \in 1 .. m : f[i] = IF i = 1 THEN ss[i] ELSE f[i - 1] \o ss[i]
  BY DEF Flattens
<1>2. 1 \in 1 .. m /\ \A i \in 2 .. m : i \in 1 .. m /\ i # 1
  OBVIOUS
<1> QED
  BY <1>1, <1>2

\* There is such a function, so the recursive definition of FlattenSeq defines one.
LEMMA FlattenedExists ==
  ASSUME NEW S, NEW ss \in Seq(Seq(S)), Len(ss) # 0
  PROVE  Flattens(Flattened(ss), ss, Len(ss)) /\ Flattened(ss) \in [1 .. Len(ss) -> Seq(S)]
<1> DEFINE T == {m \in Nat : \E f \in [1 .. m + 1 -> Seq(S)] : Flattens(f, ss, m + 1)}
           last == Len(ss) - 1
<1>0. Len(ss) \in Nat \ {0} /\ last \in Nat /\ last + 1 = Len(ss) /\ \A i \in 1 .. Len(ss) : ss[i] \in Seq(S)
  OBVIOUS
<1>1. 0 \in T
  <2> DEFINE f == [i \in 1 .. 1 |-> ss[1]]
  <2>1. ss[1] \in Seq(S)
    BY <1>0
  <2>2. f \in [1 .. 1 -> Seq(S)] /\ 0 + 1 = 1
    BY <2>1
  <2>3. Flattens(f, ss, 1)
    <3>1. f = [i \in 1 .. 1 |-> IF i = 1 THEN ss[i] ELSE f[i - 1] \o ss[i]]
      OBVIOUS
    <3> QED
      BY <3>1 DEF Flattens
  <2> HIDE DEF f
  <2> QED
    BY <2>2, <2>3
<1>2. ASSUME NEW m \in 0 .. last - 1, m \in T
      PROVE  m + 1 \in T
  <2>1. PICK f \in [1 .. m + 1 -> Seq(S)] : Flattens(f, ss, m + 1)
    BY <1>2
  <2> DEFINE next == f[m + 1] \o ss[m + 2]
             g == [i \in 1 .. m + 2 |-> IF i = m + 2 THEN next ELSE f[i]]
  <2>2. m \in Nat /\ m + 1 \in 1 .. m + 1 /\ m + 2 \in 2 .. Len(ss) /\ (m + 1) + 1 = m + 2
    BY <1>0
  <2>3. next \in Seq(S)
    <3>1. f[m + 1] \in Seq(S) /\ ss[m + 2] \in Seq(S)
      BY <1>0, <2>1, <2>2
    <3> QED
      BY <3>1
  <2>4. g \in [1 .. m + 2 -> Seq(S)]
    <3> HIDE DEF next
    <3> QED
      BY <2>1, <2>2, <2>3
  <2>5. Flattens(g, ss, m + 2)
    <3> DEFINE body(i) == IF i = 1 THEN ss[i] ELSE g[i - 1] \o ss[i]
    <3>1. ASSUME NEW i \in 1 .. m + 1
          PROVE  g[i] = body(i)
      <4>1. i \in 1 .. m + 2 /\ i # m + 2 /\ (i # 1 => i - 1 \in 1 .. m + 2 /\ i - 1 # m + 2)
        BY <2>2
      <4> HIDE DEF next
      <4>3. g[i] = f[i] /\ (i # 1 => g[i - 1] = f[i - 1])
        BY <4>1
      <4>2. f[i] = IF i = 1 THEN ss[i] ELSE f[i - 1] \o ss[i]
        BY <2>1 DEF Flattens
      <4> HIDE DEF g
      <4> QED
        BY <4>2, <4>3
    <3>2. g[m + 2] = body(m + 2)
      <4>0. /\ m + 2 \in 1 .. m + 2 /\ m + 1 \in 1 .. m + 2 /\ m + 1 # m + 2
            /\ m + 2 # 1 /\ (m + 2) - 1 = m + 1
        BY <2>2
      <4>1. g[m + 2] = next /\ g[m + 1] = f[m + 1] /\ m + 2 # 1 /\ (m + 2) - 1 = m + 1
        <5> HIDE DEF next
        <5> QED
          BY <4>0
      <4> HIDE DEF g
      <4> QED
        BY <4>1
    <3>3. \A i \in 1 .. m + 2 : g[i] = body(i)
      <4> HIDE DEF g, body
      <4> QED
        BY <2>2, <3>1, <3>2
    <3>4. g = [i \in 1 .. m + 2 |-> g[i]]
      <4> HIDE DEF g
      <4> QED
        BY <2>4
    <3> HIDE DEF g
    <3>5. g = [i \in 1 .. m + 2 |-> body(i)]
      <4> HIDE DEF body
      <4> QED
        BY <3>3, <3>4
    <3> QED
      BY <3>5 DEF Flattens
  <2> HIDE DEF g
  <2> QED
    BY <2>2, <2>4, <2>5
<1>3. last \in T
  <2> HIDE DEF T
  <2>1. \A m \in 0 .. last - 1 : m \in T => m + 1 \in T
    BY <1>2
  <2>2. \A m \in 0 .. last : m \in T
    <3> HIDE DEF last
    <3> QED
      BY <1>0, <1>1, <2>1, UpTo
  <2> QED
    BY <1>0, <2>2
<1>4. PICK f \in [1 .. Len(ss) -> Seq(S)] : Flattens(f, ss, Len(ss))
  BY <1>0, <1>3
<1>5. Flattens(Flattened(ss), ss, Len(ss))
  BY <1>4 DEF Flattened
<1> DEFINE k == Flattened(ss)
<1> HIDE DEF T
<1>6. k = [i \in 1 .. Len(ss) |-> k[i]]
  <2> HIDE DEF k
  <2>1. Flattens(k, ss, Len(ss))
    BY <1>5 DEF k
  <2> QED
    BY <2>1 DEF Flattens
<1>7. \A i \in 1 .. Len(ss) : k[i] \in Seq(S)
  <2> HIDE DEF k
  <2>1. /\ k[1] = ss[1]
        /\ \A i \in 2 .. Len(ss) : k[i] = k[i - 1] \o ss[i]
    <3>1. Flattens(k, ss, Len(ss))
      BY <1>5 DEF k
    <3> QED
      BY <1>0, <3>1, FlattensEach
  <2> DEFINE U == {n \in Nat : k[n + 1] \in Seq(S)}
  <2>2. 0 \in U
    <3>1. 0 + 1 = 1 /\ ss[1] \in Seq(S)
      BY <1>0
    <3> QED
      BY <2>1, <3>1
  <2>3. ASSUME NEW n \in 0 .. last - 1, n \in U
        PROVE  n + 1 \in U
    <3>1. n + 2 \in 2 .. Len(ss) /\ (n + 2) - 1 = n + 1 /\ n + 2 \in 1 .. Len(ss) /\ n + 1 \in Nat /\ (n + 1) + 1 = n + 2
      BY <1>0
    <3>2. k[n + 1] \in Seq(S) /\ ss[n + 2] \in Seq(S)
      BY <1>0, <2>3, <3>1
    <3>3. k[n + 1] \o ss[n + 2] \in Seq(S)
      BY <3>2
    <3>4. k[n + 2] = k[n + 1] \o ss[n + 2]
      BY <2>1, <3>1
    <3> QED
      BY <3>1, <3>3, <3>4
  <2>4. \A n \in 0 .. last : n \in U
    <3> HIDE DEF U, last
    <3> QED
      BY <1>0, <2>2, <2>3, UpTo
  <2>5. ASSUME NEW i \in 1 .. Len(ss)
        PROVE  k[i] \in Seq(S)
    <3>1. i - 1 \in 0 .. last /\ (i - 1) + 1 = i
      BY <1>0
    <3>2. i - 1 \in U
      BY <2>4, <3>1
    <3> QED
      BY <3>1, <3>2
  <2> QED
    BY <2>5
<1> QED
  <2> HIDE DEF k
  <2>1. k \in [1 .. Len(ss) -> Seq(S)]
    BY <1>6, <1>7
  <2> QED
    BY <1>5, <2>1 DEF k

\* The r-th element of k is the nth[r]-th of ss[of[r]], and each element of the first m is there once.
Joins(of, nth, k, ss, m) ==
  /\ of \in [1 .. Len(k) -> 1 .. m] /\ nth \in [1 .. Len(k) -> Nat]
  /\ \A r \in 1 .. Len(k) : nth[r] \in 1 .. Len(ss[of[r]]) /\ k[r] = ss[of[r]][nth[r]]
  /\ \A q, r \in 1 .. Len(k) : of[q] = of[r] /\ nth[q] = nth[r] => q = r
  /\ \A i \in 1 .. m : \A j \in 1 .. Len(ss[i]) : \E r \in 1 .. Len(k) : of[r] = i /\ nth[r] = j

\* A sequence alone is its own elements.
LEMMA JoinsOne ==
  ASSUME NEW S, NEW ss \in Seq(Seq(S)), Len(ss) # 0
  PROVE  \E of, nth : Joins(of, nth, ss[1], ss, 1)
<1> DEFINE of == [r \in 1 .. Len(ss[1]) |-> 1]
           nth == [r \in 1 .. Len(ss[1]) |-> r]
<1>1. ss[1] \in Seq(S) /\ Len(ss[1]) \in Nat
  <2>1. 1 \in 1 .. Len(ss)
    OBVIOUS
  <2>2. ss[1] \in Seq(S)
    BY <2>1
  <2> QED
    BY <2>2
<1>2. of \in [1 .. Len(ss[1]) -> 1 .. 1] /\ nth \in [1 .. Len(ss[1]) -> Nat]
  BY <1>1
<1>3. \A r \in 1 .. Len(ss[1]) : of[r] = 1 /\ nth[r] = r
  OBVIOUS
<1> HIDE DEF of, nth
<1>4. \A i \in 1 .. 1 : i = 1
  OBVIOUS
<1>5. Joins(of, nth, ss[1], ss, 1)
  BY <1>1, <1>2, <1>3, <1>4 DEF Joins
<1> QED
  BY <1>5

\* Joins holds of one sequence more.
LEMMA JoinsGrow ==
  ASSUME NEW S, NEW ss \in Seq(Seq(S)), NEW m \in 1 .. Len(ss) - 1, NEW k \in Seq(S),
         \E of, nth : Joins(of, nth, k, ss, m)
  PROVE  \E of, nth : Joins(of, nth, k \o ss[m + 1], ss, m + 1)
<1> DEFINE t == ss[m + 1]
           l == Len(k)
           z == k \o t
<1>1. t \in Seq(S) /\ m + 1 \in 1 .. Len(ss) /\ m \in Nat
  OBVIOUS
<1>2. Len(t) \in Nat /\ l \in Nat /\ z \in Seq(S) /\ Len(z) = l + Len(t)
  BY <1>1
<1>3. /\ \A r \in 1 .. l : z[r] = k[r]
      /\ \A j \in 1 .. Len(t) : z[l + j] = t[j]
  BY <1>1
<1>4. PICK of, nth : Joins(of, nth, k, ss, m)
  OBVIOUS
<1> DEFINE of2 == [r \in 1 .. Len(z) |-> IF r <= l THEN of[r] ELSE m + 1]
           nth2 == [r \in 1 .. Len(z) |-> IF r <= l THEN nth[r] ELSE r - l]
<1> HIDE DEF t, l, z
<1>5. /\ \A r \in 1 .. l : r \in 1 .. Len(z) /\ of2[r] = of[r] /\ nth2[r] = nth[r]
      /\ \A j \in 1 .. Len(t) : l + j \in 1 .. Len(z) /\ of2[l + j] = m + 1 /\ nth2[l + j] = j
  BY <1>2
<1>6. \A r \in 1 .. Len(z) : r \in 1 .. l \/ \E j \in 1 .. Len(t) : r = l + j
  <2> SUFFICES ASSUME NEW r \in 1 .. Len(z), r \notin 1 .. l
               PROVE  \E j \in 1 .. Len(t) : r = l + j
    OBVIOUS
  <2>1. r - l \in 1 .. Len(t) /\ r = l + (r - l)
    BY <1>2
  <2> QED
    BY <2>1
<1>7. \A r \in 1 .. l : /\ of[r] \in 1 .. m /\ of[r] # m + 1 /\ nth[r] \in Nat
                        /\ nth[r] \in 1 .. Len(ss[of[r]]) /\ k[r] = ss[of[r]][nth[r]]
  <2> SUFFICES ASSUME NEW r \in 1 .. l
               PROVE  /\ of[r] \in 1 .. m /\ of[r] # m + 1 /\ nth[r] \in Nat
                      /\ nth[r] \in 1 .. Len(ss[of[r]]) /\ k[r] = ss[of[r]][nth[r]]
    OBVIOUS
  <2>1. r \in 1 .. Len(k)
    BY DEF l
  <2>2. of[r] \in 1 .. m /\ nth[r] \in Nat
    BY <1>4, <2>1 DEF Joins
  <2>3. nth[r] \in 1 .. Len(ss[of[r]]) /\ k[r] = ss[of[r]][nth[r]]
    BY <1>4, <2>1 DEF Joins
  <2> QED
    BY <1>1, <2>2, <2>3
<1>8. of2 \in [1 .. Len(z) -> 1 .. m + 1] /\ nth2 \in [1 .. Len(z) -> Nat]
  <2>1. ASSUME NEW r \in 1 .. Len(z)
        PROVE  of2[r] \in 1 .. m + 1 /\ nth2[r] \in Nat
    <3> HIDE DEF of2, nth2
    <3>1. CASE r \in 1 .. l
      <4>1. of2[r] = of[r] /\ nth2[r] = nth[r] /\ of[r] \in 1 .. m /\ nth[r] \in Nat
        BY <1>5, <1>7, <3>1
      <4> QED
        BY <1>1, <4>1
    <3>2. CASE \E j \in 1 .. Len(t) : r = l + j
      BY <1>1, <1>5, <3>2
    <3> QED
      BY <1>6, <3>1, <3>2
  <2> QED
    BY <2>1
<1> HIDE DEF of2, nth2
<1>9. \A r \in 1 .. Len(z) : nth2[r] \in 1 .. Len(ss[of2[r]]) /\ z[r] = ss[of2[r]][nth2[r]]
  <2> SUFFICES ASSUME NEW r \in 1 .. Len(z)
               PROVE  nth2[r] \in 1 .. Len(ss[of2[r]]) /\ z[r] = ss[of2[r]][nth2[r]]
    OBVIOUS
  <2>1. CASE r \in 1 .. l
    BY <1>3, <1>5, <1>7, <2>1
  <2>2. CASE \E j \in 1 .. Len(t) : r = l + j
    BY <1>3, <1>5, <2>2 DEF t
  <2> QED
    BY <1>6, <2>1, <2>2
<1>10. \A q, r \in 1 .. Len(z) : of2[q] = of2[r] /\ nth2[q] = nth2[r] => q = r
  <2> SUFFICES ASSUME NEW q \in 1 .. Len(z), NEW r \in 1 .. Len(z), of2[q] = of2[r], nth2[q] = nth2[r]
               PROVE  q = r
    OBVIOUS
  <2>1. CASE q \in 1 .. l /\ r \in 1 .. l
    BY <1>4, <1>5, <2>1 DEF Joins, l
  <2>2. CASE q \in 1 .. l /\ \E j \in 1 .. Len(t) : r = l + j
    <3>1. of2[r] = m + 1
      BY <1>5, <2>2
    <3>2. of2[q] # m + 1
      BY <1>5, <1>7, <2>2
    <3> QED
      BY <3>1, <3>2
  <2>3. CASE r \in 1 .. l /\ \E j \in 1 .. Len(t) : q = l + j
    <3>1. of2[q] = m + 1
      BY <1>5, <2>3
    <3>2. of2[r] # m + 1
      BY <1>5, <1>7, <2>3
    <3> QED
      BY <3>1, <3>2
  <2>4. CASE (\E j \in 1 .. Len(t) : q = l + j) /\ (\E j \in 1 .. Len(t) : r = l + j)
    BY <1>5, <2>4
  <2> QED
    BY <1>6, <2>1, <2>2, <2>3, <2>4
<1>11. \A i \in 1 .. m + 1 : \A j \in 1 .. Len(ss[i]) : \E r \in 1 .. Len(z) : of2[r] = i /\ nth2[r] = j
  <2> SUFFICES ASSUME NEW i \in 1 .. m + 1, NEW j \in 1 .. Len(ss[i])
               PROVE  \E r \in 1 .. Len(z) : of2[r] = i /\ nth2[r] = j
    OBVIOUS
  <2>1. CASE i = m + 1
    BY <1>5, <2>1 DEF t
  <2>2. CASE i \in 1 .. m
    <3>1. PICK r \in 1 .. l : of[r] = i /\ nth[r] = j
      BY <1>4, <2>2 DEF Joins, l
    <3> QED
      BY <1>5, <3>1
  <2> QED
    BY <1>1, <2>1, <2>2
<1>12. Joins(of2, nth2, z, ss, m + 1)
  BY <1>8, <1>9, <1>10, <1>11 DEF Joins
<1> QED
  BY <1>12 DEF z, t

\* FlattenSeq has each element of each sequence once.
LEMMA FlattenIs ==
  ASSUME NEW S, NEW ss \in Seq(Seq(S))
  PROVE  /\ FlattenSeq(ss) \in Seq(S)
         /\ \E of, nth : Joins(of, nth, FlattenSeq(ss), ss, Len(ss))
<1>1. CASE Len(ss) = 0
  <2>1. ss = << >> /\ FlattenSeq(ss) = << >>
    BY <1>1 DEF FlattenSeq
  <2>2. Joins([r \in 1 .. 0 |-> 1], [r \in 1 .. 0 |-> 1], << >>, ss, 0)
    BY DEF Joins
  <2>3. << >> \in Seq(S)
    OBVIOUS
  <2> QED
    BY <1>1, <2>1, <2>2, <2>3
<1>2. CASE Len(ss) # 0
  <2> DEFINE k == Flattened(ss)
             last == Len(ss) - 1
  <2>1. FlattenSeq(ss) = k[Len(ss)]
    BY <1>2 DEF FlattenSeq, Flattened, Flattens
  <2>2. Flattens(k, ss, Len(ss)) /\ k \in [1 .. Len(ss) -> Seq(S)]
    BY <1>2, FlattenedExists
  <2>3. Len(ss) \in Nat \ {0} /\ last \in Nat /\ last + 1 = Len(ss)
    BY <1>2
  <2> HIDE DEF k
  <2>4. k[1] = ss[1] /\ \A i \in 2 .. Len(ss) : k[i] = k[i - 1] \o ss[i]
    BY <2>2, <2>3, FlattensEach
  <2> DEFINE T == {n \in Nat : \E of, nth : Joins(of, nth, k[n + 1], ss, n + 1)}
  <2>5. 0 \in T
    <3>1. \E of, nth : Joins(of, nth, k[1], ss, 1)
      BY <1>2, <2>4, JoinsOne
    <3>2. 0 + 1 = 1
      OBVIOUS
    <3> QED
      BY <3>1, <3>2
  <2>6. ASSUME NEW n \in 0 .. last - 1, n \in T
        PROVE  n + 1 \in T
    <3>1. n + 1 \in 1 .. Len(ss) - 1 /\ n + 1 \in 1 .. Len(ss) /\ n + 2 \in 2 .. Len(ss) /\ n + 1 \in Nat
          /\ (n + 1) + 1 = n + 2 /\ (n + 2) - 1 = n + 1
      BY <2>3
    <3>2. k[n + 1] \in Seq(S)
      BY <2>2, <3>1
    <3>3. \E of, nth : Joins(of, nth, k[n + 1], ss, n + 1)
      BY <2>6
    <3>4. \E of, nth : Joins(of, nth, k[n + 1] \o ss[(n + 1) + 1], ss, (n + 1) + 1)
      BY <3>1, <3>2, <3>3, JoinsGrow
    <3>5. k[n + 2] = k[n + 1] \o ss[n + 2]
      BY <2>4, <3>1
    <3> QED
      BY <3>1, <3>4, <3>5
  <2>7. last \in T
    <3> HIDE DEF T, last
    <3>1. \A n \in 0 .. last - 1 : n \in T => n + 1 \in T
      BY <2>6
    <3>2. \A n \in 0 .. last : n \in T
      BY <2>3, <2>5, <3>1, UpTo
    <3> QED
      BY <2>3, <3>2
  <2>8. k[Len(ss)] \in Seq(S)
    <3>1. Len(ss) \in 1 .. Len(ss)
      BY <2>3
    <3> QED
      BY <2>2, <3>1
  <2> QED
    BY <2>1, <2>3, <2>7, <2>8
<1> QED
  BY <1>1, <1>2

----------------------------------------------------------------------------
\* A sequence without repeats is as long as its elements are many.
LEMMA CountedOnce ==
  ASSUME NEW S, NEW s \in Seq(S), \A q, r \in 1 .. Len(s) : s[q] = s[r] => q = r
  PROVE  Cardinality(ToSet(s)) = Len(s)
<1> DEFINE T == ToSet(s)
<1>1. Len(s) \in Nat /\ DOMAIN s = 1 .. Len(s)
  OBVIOUS
<1>2. \A r \in 1 .. Len(s) : s[r] \in T
  BY <1>1 DEF ToSet
<1>3. \A x \in T : \E r \in 1 .. Len(s) : s[r] = x
  BY <1>1 DEF ToSet
<1> HIDE DEF T
<1>4. s \in [1 .. Len(s) -> T]
  BY <1>1, <1>2
<1>5. s \in Bijection(1 .. Len(s), T)
  BY <1>1, <1>3, <1>4 DEF Bijection, Injection, Surjection, IsInjective
<1> QED
  BY <1>1, <1>5, FS_CountingElements DEF ExistsBijection, T

\* Each workflow that the codes ask for, once.
LEMMA TemplatesAre ==
  ASSUME NEW codes \in Seq(HSCodes)
  PROVE  /\ TemplatesOf(codes) \in Seq(AgencyFlows)
         /\ \A q, r \in 1 .. Len(TemplatesOf(codes)) : TemplatesOf(codes)[q] = TemplatesOf(codes)[r] => q = r
         /\ ToSet(TemplatesOf(codes)) = UNION {ToSet(Mappings[codes[i]]) : i \in DOMAIN codes}
<1> DEFINE ss == [i \in DOMAIN codes |-> Mappings[codes[i]]]
           all == FlattenSeq(ss)
           I == {n \in DOMAIN all : \A m \in 1 .. n - 1 : all[m] # all[n]}
           t == TemplatesOf(codes)
           asked == UNION {ToSet(Mappings[codes[i]]) : i \in DOMAIN codes}
<1>1. /\ ss \in Seq(Seq(AgencyFlows)) /\ DOMAIN codes = 1 .. Len(codes) /\ Len(ss) = Len(codes)
      /\ Len(codes) \in Nat /\ \A i \in 1 .. Len(codes) : ss[i] = Mappings[codes[i]] /\ ss[i] \in Seq(AgencyFlows)
  <2>1. /\ DOMAIN codes = 1 .. Len(codes) /\ Len(codes) \in Nat
        /\ \A i \in 1 .. Len(codes) : Mappings[codes[i]] \in Seq(AgencyFlows)
    BY SplitsAssumption
  <2>2. ss \in [1 .. Len(codes) -> Seq(AgencyFlows)]
    BY <2>1
  <2> QED
    BY <2>1, <2>2
<1>2. t = Those(all, I)
  BY DEF TemplatesOf
<1> HIDE DEF ss
<1>3. all \in Seq(AgencyFlows) /\ \E of, nth : Joins(of, nth, all, ss, Len(ss))
  BY <1>1, FlattenIs
<1> HIDE DEF all
<1>4. Len(all) \in Nat /\ DOMAIN all = 1 .. Len(all)
  BY <1>3
<1>5. ToSet(all) = asked
  <2>1. PICK of, nth : Joins(of, nth, all, ss, Len(ss))
    BY <1>3
  <2>2. ASSUME NEW r \in 1 .. Len(all)
        PROVE  all[r] \in asked
    <3>1. of[r] \in 1 .. Len(codes) /\ nth[r] \in 1 .. Len(ss[of[r]]) /\ all[r] = ss[of[r]][nth[r]]
      BY <1>1, <2>1 DEF Joins
    <3>2. all[r] \in ToSet(Mappings[codes[of[r]]])
      <4>1. ss[of[r]] \in Seq(AgencyFlows) /\ ss[of[r]] = Mappings[codes[of[r]]]
        BY <1>1, <3>1
      <4>2. nth[r] \in DOMAIN ss[of[r]]
        BY <3>1, <4>1
      <4> QED
        BY <3>1, <4>1, <4>2 DEF ToSet
    <3> QED
      BY <1>1, <3>1, <3>2
  <2>3. ASSUME NEW i \in DOMAIN codes, NEW x \in ToSet(Mappings[codes[i]])
        PROVE  x \in ToSet(all)
    <3>1. PICK j \in 1 .. Len(ss[i]) : x = ss[i][j]
      <4>1. ss[i] \in Seq(AgencyFlows) /\ ss[i] = Mappings[codes[i]]
        BY <1>1
      <4>2. DOMAIN ss[i] = 1 .. Len(ss[i])
        BY <4>1
      <4> QED
        BY <4>1, <4>2 DEF ToSet
    <3>2. PICK r \in 1 .. Len(all) : of[r] = i /\ nth[r] = j
      BY <1>1, <2>1, <3>1 DEF Joins
    <3>3. all[r] = x
      BY <2>1, <3>1, <3>2 DEF Joins
    <3> QED
      BY <1>4, <3>3 DEF ToSet
  <2>4. \A x \in ToSet(all) : x \in asked
    BY <1>4, <2>2 DEF ToSet
  <2>5. \A x \in asked : x \in ToSet(all)
    BY <2>3
  <2> QED
    BY <2>4, <2>5
<1>6. t \in Seq(AgencyFlows) /\ \E at : From(at, t, all, I, Len(all))
  BY <1>2, <1>3, ThoseIs
<1>7. PICK at : From(at, t, all, I, Len(all))
  BY <1>6
<1> HIDE DEF t
<1>8. \A r \in 1 .. Len(t) : at[r] \in 1 .. Len(all) /\ at[r] \in I /\ t[r] = all[at[r]]
  BY <1>7 DEF From
<1>9. ASSUME NEW q \in 1 .. Len(t), NEW r \in 1 .. Len(t), t[q] = t[r]
      PROVE  q = r
  <2>0. /\ at[q] \in 1 .. Len(all) /\ at[r] \in 1 .. Len(all) /\ all[at[q]] = all[at[r]]
        /\ \A m \in 1 .. at[q] - 1 : all[m] # all[at[q]]
        /\ \A m \in 1 .. at[r] - 1 : all[m] # all[at[r]]
    BY <1>8, <1>9
  <2>1. ~ (at[q] < at[r]) /\ ~ (at[r] < at[q])
    BY <1>4, <2>0
  <2>2. ~ (q < r) /\ ~ (r < q)
    BY <1>7, <2>1 DEF From
  <2>3. q \in Nat /\ r \in Nat
    OBVIOUS
  <2> QED
    BY <2>2, <2>3
<1>10. ASSUME NEW n \in 1 .. Len(all)
       PROVE  all[n] \in ToSet(t)
  <2> DEFINE T == {m \in 1 .. Len(all) : all[m] = all[n]}
  <2>1. T \in SUBSET Nat /\ T # {}
    OBVIOUS
  <2>2. PICK m \in T : \A k \in T : m <= k
    <3> HIDE DEF T
    <3> QED
      BY <2>1, LeastNatural
  <2>3. m \in I
    <3>1. ASSUME NEW k \in 1 .. m - 1
          PROVE  all[k] # all[m]
      <4>1. k \in 1 .. Len(all) /\ ~ (m <= k)
        BY <1>4
      <4> QED
        BY <2>2, <4>1
    <3> QED
      BY <1>4, <3>1
  <2>4. PICK r \in 1 .. Len(t) : at[r] = m
    BY <1>7, <2>3 DEF From
  <2>5. t[r] = all[n]
    BY <1>8, <2>2, <2>4
  <2>6. r \in DOMAIN t
    BY <1>6
  <2> QED
    BY <2>5, <2>6 DEF ToSet
<1>11. ToSet(t) = ToSet(all)
  <2>1. \A x \in ToSet(t) : x \in ToSet(all)
    BY <1>4, <1>6, <1>8 DEF ToSet
  <2>2. \A x \in ToSet(all) : x \in ToSet(t)
    BY <1>4, <1>10 DEF ToSet
  <2> QED
    BY <2>1, <2>2
<1> QED
  BY <1>5, <1>6, <1>9, <1>11 DEF t

\* What no other of the workflows replaces stays, in its order.
LEMMA AppliedAre ==
  ASSUME NEW t \in Seq(AgencyFlows), NEW replaces, \A q, r \in 1 .. Len(t) : t[q] = t[r] => q = r
  PROVE  /\ ApplyReplaces(t, replaces) \in Seq(AgencyFlows)
         /\ \A q, r \in 1 .. Len(ApplyReplaces(t, replaces)) :
              ApplyReplaces(t, replaces)[q] = ApplyReplaces(t, replaces)[r] => q = r
         /\ ToSet(ApplyReplaces(t, replaces)) = {wf \in ToSet(t) : \A other \in ToSet(t) : wf \notin replaces[other]}
<1> DEFINE I == {n \in DOMAIN t : \A other \in ToSet(t) : t[n] \notin replaces[other]}
           a == ApplyReplaces(t, replaces)
           stay == {wf \in ToSet(t) : \A other \in ToSet(t) : wf \notin replaces[other]}
<1>1. a = Those(t, I)
  BY DEF ApplyReplaces
<1>2. a \in Seq(AgencyFlows) /\ \E at : From(at, a, t, I, Len(t))
  <2> HIDE DEF I, a
  <2> QED
    BY <1>1, ThoseIs
<1>3. PICK at : From(at, a, t, I, Len(t))
  BY <1>2
<1> HIDE DEF a
<1>4. DOMAIN a = 1 .. Len(a) /\ DOMAIN t = 1 .. Len(t)
  BY <1>2
<1>5. \A r \in 1 .. Len(a) : at[r] \in 1 .. Len(t) /\ at[r] \in I /\ a[r] = t[at[r]]
  BY <1>3 DEF From
<1>6. ASSUME NEW q \in 1 .. Len(a), NEW r \in 1 .. Len(a), a[q] = a[r]
      PROVE  q = r
  <2>1. at[q] = at[r] /\ at[q] \in Nat
    BY <1>5, <1>6
  <2>2. ~ (q < r) /\ ~ (r < q)
    BY <1>3, <2>1 DEF From
  <2>3. q \in Nat /\ r \in Nat
    OBVIOUS
  <2> QED
    BY <2>2, <2>3
<1>7. \A x \in ToSet(a) : x \in stay
  BY <1>4, <1>5 DEF ToSet
<1>8. ASSUME NEW x \in stay
      PROVE  x \in ToSet(a)
  <2>1. PICK n \in 1 .. Len(t) : x = t[n]
    BY <1>4 DEF ToSet
  <2>2. n \in I
    BY <1>4, <2>1
  <2>3. PICK r \in 1 .. Len(a) : at[r] = n
    BY <1>3, <2>2 DEF From
  <2> QED
    BY <1>4, <1>5, <2>1, <2>3 DEF ToSet
<1> HIDE DEF stay
<1>9. ToSet(a) = stay
  BY <1>7, <1>8
<1> QED
  BY <1>2, <1>6, <1>9 DEF a, stay

Replacings == [AgencyFlows -> SUBSET AgencyFlows]

\* What is started in the place of what is asked for.
LEMMA ServedOnce ==
  ASSUME NEW codes \in Seq(HSCodes), NEW replaces \in Replacings, ReplacesValid(replaces),
         NEW s, s = ApplyReplaces(TemplatesOf(codes), replaces)
  PROVE  /\ s \in Seq(AgencyFlows)
         /\ Len(s) = Cardinality(ToSet(s))
         /\ LET asked == UNION {ToSet(Mappings[codes[i]]) : i \in DOMAIN codes}
            IN /\ ToSet(s) \subseteq asked
               /\ \A wf \in asked : (wf \in ToSet(s)) <=> \A other \in ToSet(s) : wf \notin replaces[other]
<1> DEFINE t == TemplatesOf(codes)
           asked == UNION {ToSet(Mappings[codes[i]]) : i \in DOMAIN codes}
<1>1. /\ t \in Seq(AgencyFlows) /\ ToSet(t) = asked
      /\ \A q, r \in 1 .. Len(t) : t[q] = t[r] => q = r
  BY TemplatesAre
<1> HIDE DEF asked, t
<1>2. /\ s \in Seq(AgencyFlows) /\ \A q, r \in 1 .. Len(s) : s[q] = s[r] => q = r
      /\ ToSet(s) = {wf \in asked : \A other \in asked : wf \notin replaces[other]}
  BY <1>1, AppliedAre DEF t
<1>3. Len(s) = Cardinality(ToSet(s))
  BY <1>2, CountedOnce
<1>4. asked \subseteq AgencyFlows
  <2>1. \A n \in DOMAIN t : t[n] \in AgencyFlows
    BY <1>1
  <2> QED
    BY <1>1, <2>1 DEF ToSet
<1>5. ASSUME NEW wf \in asked, \A other \in ToSet(s) : wf \notin replaces[other]
      PROVE  wf \in ToSet(s)
  <2> SUFFICES ASSUME NEW other \in asked, wf \in replaces[other]
               PROVE  FALSE
    BY <1>2
  <2>1. other \in AgencyFlows /\ replaces[other] # {}
    BY <1>4
  <2>2. other \notin Replaced(replaces)
    BY <2>1 DEF ReplacesValid
  <2>3. \A x \in asked : other \notin replaces[x]
    BY <1>4, <2>2 DEF Replaced
  <2>4. other \in ToSet(s)
    BY <1>2, <2>3
  <2> QED
    BY <1>5, <2>4
<1>6. /\ ToSet(s) \subseteq asked
      /\ \A wf \in asked : (wf \in ToSet(s)) <=> \A other \in ToSet(s) : wf \notin replaces[other]
  BY <1>2, <1>5
<1> QED
  BY <1>2, <1>3, <1>6 DEF asked

----------------------------------------------------------------------------
AgencyStates == [pc : {"select", "split", "failed"}, codes : Selections, replaces : Replacings, started : Seq(AgencyFlows)]
NotesStates == [pc : {"count", "branches", "collected", "failed"}, count : Counts, branch : Seq(BranchData)]
ListedNotes == [container : Nat, live : BOOLEAN]

AgencyInv == agency \in AgencyStates /\ EveryCodeIsServed

\* The number that a branch has is that of a note Customs lists for its container.
NumbersAreListed ==
  \A i \in NoteBranches :
    notes.branch[i].number # NoNote =>
      notes.branch[i].number \in DOMAIN listed /\ listed[notes.branch[i].number].container = i

StandingBranches == {i \in NoteBranches : Standing(notes.branch[i])}

\* The rows are those of the branches that stand, in their order.
RowsAre ==
  /\ rows.containers \in Seq(Nat)
  /\ \E at \in [1 .. Len(rows.containers) -> StandingBranches] :
       /\ \A q, r \in 1 .. Len(rows.containers) : q < r => at[q] < at[r]
       /\ \A i \in StandingBranches : \E r \in 1 .. Len(rows.containers) : at[r] = i
       /\ \A r \in 1 .. Len(rows.containers) : rows.containers[r] = notes.branch[at[r]].number
  /\ rows.userform # 0 => rows.userform \in NoteBranches /\ ~notes.branch[rows.userform].cancelled

NotesInv ==
  /\ notes \in NotesStates /\ listed \in Seq(ListedNotes)
  /\ notes.pc \in {"count", "failed"} => notes.branch = << >> /\ listed = << >>
  /\ notes.pc \in {"branches", "collected"} => notes.count \in Nat /\ Len(notes.branch) = notes.count
  /\ \A n \in DOMAIN listed : listed[n].container \in NoteBranches
  /\ NumbersAreListed
  /\ notes.pc = "collected" => RowsAre

SplitsInv == AgencyInv /\ NotesInv

----------------------------------------------------------------------------
\* Each live note covers at most the one container that it is listed for.
LEMMA NeverTooMany ==
  ASSUME NotesInv, notes.pc \in {"branches", "collected"}
  PROVE  MissingCDNs <=
           Cardinality({i \in NoteBranches : \A n \in DOMAIN listed : listed[n].live => listed[n].container # i})
<1> DEFINE A == ActiveCDNRefs
           N == NoteBranches
           C == {listed[n].container : n \in A}
           U == {i \in N : \A n \in DOMAIN listed : listed[n].live => listed[n].container # i}
           f == [n \in A |-> listed[n].container]
<1>1. /\ notes.count \in Nat /\ N = 1 .. notes.count /\ A \subseteq 1 .. Len(listed) /\ Len(listed) \in Nat
      /\ DOMAIN listed = 1 .. Len(listed)
  <2>1. notes.branch \in Seq(BranchData) /\ Len(notes.branch) = notes.count /\ listed \in Seq(ListedNotes)
    BY DEF NotesInv, NotesStates
  <2>2. notes.count \in Nat
    BY DEF NotesInv
  <2> QED
    BY <2>1, <2>2 DEF ActiveCDNRefs, NoteBranches
<1>2. \A n \in A : listed[n].live /\ n \in DOMAIN listed
  BY DEF ActiveCDNRefs
<1>3. \A n \in DOMAIN listed : listed[n].live => n \in A
  BY DEF ActiveCDNRefs
<1>4. IsFiniteSet(A) /\ Cardinality(A) \in Nat
  <2>1. IsFiniteSet(1 .. Len(listed))
    BY <1>1, FS_Interval
  <2> HIDE DEF A
  <2>2. IsFiniteSet(A)
    BY <1>1, <2>1, FS_Subset
  <2> QED
    BY <2>2, FS_CardinalityType
<1>5. IsFiniteSet(N) /\ Cardinality(N) = notes.count
  <2>1. /\ IsFiniteSet(1 .. notes.count)
        /\ Cardinality(1 .. notes.count) = IF 1 > notes.count THEN 0 ELSE notes.count - 1 + 1
    <3>1. 1 \in Int /\ notes.count \in Int
      BY <1>1
    <3> QED
      BY <3>1, FS_Interval
  <2> QED
    BY <1>1, <2>1
<1>6. f \in Surjection(A, C)
  BY DEF Surjection
<1>7. IsFiniteSet(C) /\ Cardinality(C) <= Cardinality(A) /\ Cardinality(C) \in Nat
  <2> HIDE DEF A, C, f
  <2>1. IsFiniteSet(C) /\ Cardinality(C) <= Cardinality(A)
    BY <1>4, <1>6, FS_Surjection
  <2> QED
    BY <2>1, FS_CardinalityType
<1>8. U = N \ C
  BY <1>2, <1>3
<1> HIDE DEF U, C, N, A, f
<1>9. /\ Cardinality(U) = Cardinality(N) - Cardinality(N \cap C)
      /\ Cardinality(N \cap C) <= Cardinality(C)
  <2>1. Cardinality(N \ C) = Cardinality(N) - Cardinality(N \cap C)
    BY <1>5, FS_Difference
  <2>2. Cardinality(N \cap C) <= Cardinality(C)
    BY <1>7, FS_Intersection
  <2> QED
    BY <1>8, <2>1, <2>2
<1>10. Cardinality(N \cap C) \in Nat /\ Cardinality(U) \in Nat
  <2>1. IsFiniteSet(N \cap C) /\ IsFiniteSet(U)
    BY <1>5, <1>8, FS_Intersection, FS_Difference
  <2> QED
    BY <2>1, FS_CardinalityType
<1>11. MissingCDNs = IF Cardinality(A) < notes.count THEN notes.count - Cardinality(A) ELSE 0
  BY DEF MissingCDNs, A
<1>12. MissingCDNs <= Cardinality(U)
  BY <1>1, <1>4, <1>5, <1>7, <1>9, <1>10, <1>11
<1> QED
  BY <1>12 DEF U, N

\* The property follows from the invariant.
LEMMA NotesAgree == NotesInv => NotesAgreeWithCustoms
<1> SUFFICES ASSUME NotesInv
             PROVE  NotesAgreeWithCustoms
  OBVIOUS
<1>1. ASSUME notes.pc = "collected"
      PROVE  LET covered == [r \in DOMAIN rows.containers |-> listed[rows.containers[r]].container]
             IN /\ ToSet(covered) = {i \in NoteBranches : ~notes.branch[i].cancelled /\ notes.branch[i].number # NoNote}
                /\ \A r, s \in DOMAIN covered : r < s => covered[r] < covered[s]
                /\ rows.userform # 0 => ~notes.branch[rows.userform].cancelled
  <2> DEFINE c == rows.containers
             covered == [r \in DOMAIN c |-> listed[c[r]].container]
             std == {i \in NoteBranches : ~notes.branch[i].cancelled /\ notes.branch[i].number # NoNote}
  <2>1. RowsAre
    BY <1>1 DEF NotesInv
  <2>2. PICK at \in [1 .. Len(c) -> StandingBranches] :
          /\ \A q, r \in 1 .. Len(c) : q < r => at[q] < at[r]
          /\ \A i \in StandingBranches : \E r \in 1 .. Len(c) : at[r] = i
          /\ \A r \in 1 .. Len(c) : c[r] = notes.branch[at[r]].number
    BY <2>1 DEF RowsAre
  <2>3. std = StandingBranches
    BY DEF StandingBranches, Standing
  <2>4. DOMAIN c = 1 .. Len(c)
    BY <2>1 DEF RowsAre
  <2>5. ASSUME NEW r \in 1 .. Len(c)
        PROVE  covered[r] = at[r] /\ at[r] \in StandingBranches
    <3>1. at[r] \in StandingBranches /\ at[r] \in NoteBranches /\ notes.branch[at[r]].number # NoNote
      BY <2>2 DEF StandingBranches, Standing
    <3>2. listed[c[r]].container = at[r]
      BY <2>2, <3>1 DEF NotesInv, NumbersAreListed
    <3> QED
      BY <2>4, <3>1, <3>2
  <2>6. DOMAIN covered = 1 .. Len(c)
    BY <2>4
  <2> HIDE DEF covered, std, c
  <2>7. ToSet(covered) = std
    <3>1. \A x \in ToSet(covered) : x \in std
      BY <2>3, <2>5, <2>6 DEF ToSet
    <3>2. \A x \in std : \E r \in 1 .. Len(c) : covered[r] = x
      BY <2>2, <2>3, <2>5
    <3>3. \A x \in std : x \in ToSet(covered)
      BY <2>6, <3>2 DEF ToSet
    <3> QED
      BY <3>1, <3>3
  <2>8. \A r, s \in DOMAIN covered : r < s => covered[r] < covered[s]
    BY <2>2, <2>5, <2>6
  <2>9. rows.userform # 0 => ~notes.branch[rows.userform].cancelled
    BY <2>1 DEF RowsAre
  <2> QED
    BY <2>7, <2>8, <2>9 DEF covered, std, c
<1> QED
  BY <1>1, NeverTooMany DEF NotesAgreeWithCustoms

----------------------------------------------------------------------------
\* The invariant holds at first.
LEMMA SplitsInitially == SplitsInit(Replacings) => SplitsInv
<1> SUFFICES ASSUME SplitsInit(Replacings)
             PROVE  SplitsInv
  OBVIOUS
<1>1. agency \in AgencyStates /\ agency.pc = "select"
  <2>1. << >> \in Seq(AgencyFlows)
    OBVIOUS
  <2> QED
    BY <2>1 DEF SplitsInit, AgencyStates
<1>2. AgencyInv
  BY <1>1 DEF AgencyInv, EveryCodeIsServed
<1>3. notes \in NotesStates /\ notes.pc = "count" /\ notes.branch = << >> /\ listed = << >>
  <2>1. << >> \in Seq(BranchData)
    OBVIOUS
  <2> QED
    BY <2>1 DEF SplitsInit, NotesStates
<1>4. listed \in Seq(ListedNotes) /\ DOMAIN listed = {} /\ NoteBranches = {}
  BY <1>3 DEF NoteBranches
<1>5. NotesInv
  BY <1>3, <1>4 DEF NotesInv, NumbersAreListed
<1> QED
  BY <1>2, <1>5 DEF SplitsInv

\* The HS code split starts what serves its codes.
LEMMA SplitHSCodesKeeps ==
  ASSUME AgencyInv, SplitHSCodes
  PROVE  AgencyInv'
<1> DEFINE ok == /\ ReplacesValid(agency.replaces) /\ agency.codes # << >>
                 /\ \A i \in DOMAIN agency.codes : Mappings[agency.codes[i]] # << >>
           s == ApplyReplaces(TemplatesOf(agency.codes), agency.replaces)
<1>1. agency' = IF ok THEN [agency EXCEPT !.pc = "split", !.started = s] ELSE [agency EXCEPT !.pc = "failed"]
  BY DEF SplitHSCodes
<1>2. /\ agency \in AgencyStates /\ agency.codes \in Selections /\ agency.codes \in Seq(HSCodes)
      /\ agency.replaces \in Replacings
  <2>1. agency \in AgencyStates
    BY DEF AgencyInv
  <2>2. agency.codes \in Selections /\ agency.replaces \in Replacings
    BY <2>1 DEF AgencyStates
  <2> QED
    BY <2>1, <2>2, SplitsAssumption
<1>3. CASE ok
  <2>1. /\ s \in Seq(AgencyFlows) /\ Len(s) = Cardinality(ToSet(s))
        /\ LET asked == UNION {ToSet(Mappings[agency.codes[i]]) : i \in DOMAIN agency.codes}
           IN /\ ToSet(s) \subseteq asked
              /\ \A wf \in asked : (wf \in ToSet(s)) <=> \A other \in ToSet(s) : wf \notin agency.replaces[other]
    <3>1. ReplacesValid(agency.replaces)
      BY <1>3
    <3> HIDE DEF s, ok
    <3>2. s = ApplyReplaces(TemplatesOf(agency.codes), agency.replaces)
      BY DEF s
    <3> QED
      BY <1>2, <3>1, <3>2, ServedOnce
  <2> HIDE DEF s, ok
  <2> DEFINE y == [agency EXCEPT !.pc = "split"]
             x == [y EXCEPT !.started = s]
  <2>2. y \in AgencyStates /\ y.codes = agency.codes /\ y.replaces = agency.replaces
    BY <1>2 DEF AgencyStates
  <2>3. agency' = x
    BY <1>1, <1>3
  <2> HIDE DEF y
  <2>4. x \in AgencyStates /\ x.codes = y.codes /\ x.replaces = y.replaces /\ x.started = s
    BY <2>1, <2>2 DEF AgencyStates
  <2> HIDE DEF x
  <2>5. EveryCodeIsServed'
    BY <2>1, <2>2, <2>3, <2>4 DEF EveryCodeIsServed
  <2> QED
    BY <2>3, <2>4, <2>5 DEF AgencyInv
<1>4. CASE ~ok
  <2> HIDE DEF s, ok
  <2>1. agency' \in AgencyStates /\ agency'.pc = "failed"
    BY <1>1, <1>2, <1>4 DEF AgencyStates
  <2> QED
    BY <2>1 DEF AgencyInv, EveryCodeIsServed
<1> QED
  BY <1>3, <1>4

----------------------------------------------------------------------------
----------------------------------------------------------------------------
\* What Customs lists of the notes changes only so: a note is added, or one stops being live.
ListedOnly ==
  /\ listed' \in Seq(ListedNotes) /\ DOMAIN listed \subseteq DOMAIN listed'
  /\ \A n \in DOMAIN listed' : listed'[n].container \in NoteBranches
  /\ \A n \in DOMAIN listed : listed'[n].container = listed[n].container

\* A note is listed.
LEMMA ListsNote ==
  ASSUME NotesInv, NEW i \in NoteBranches, listed' = Append(listed, [container |-> i, live |-> TRUE])
  PROVE  /\ ListedOnly
         /\ Len(listed) + 1 \in DOMAIN listed' /\ listed'[Len(listed) + 1].container = i /\ Len(listed) + 1 \in Nat
<1> DEFINE x == [container |-> i, live |-> TRUE]
<1>1. listed \in Seq(ListedNotes) /\ \A n \in DOMAIN listed : listed[n].container \in NoteBranches
  BY DEF NotesInv
<1>2. x \in ListedNotes /\ x.container = i
  <2>1. notes.branch \in Seq(BranchData)
    BY DEF NotesInv, NotesStates
  <2>2. i \in Nat
    BY <2>1 DEF NoteBranches
  <2> QED
    BY <2>2 DEF ListedNotes
<1>3. listed' = Append(listed, x)
  OBVIOUS
<1> HIDE DEF x
<1>4. /\ listed' \in Seq(ListedNotes) /\ DOMAIN listed = 1 .. Len(listed) /\ DOMAIN listed' = 1 .. Len(listed) + 1
      /\ Len(listed) \in Nat /\ listed'[Len(listed) + 1] = x /\ \A n \in 1 .. Len(listed) : listed'[n] = listed[n]
  BY <1>1, <1>2, <1>3
<1>5. \A n \in DOMAIN listed' : n = Len(listed) + 1 \/ n \in DOMAIN listed
  BY <1>4
<1>6. \A n \in DOMAIN listed' : listed'[n].container \in NoteBranches
  BY <1>1, <1>2, <1>4, <1>5
<1>7. /\ DOMAIN listed \subseteq DOMAIN listed' /\ \A n \in DOMAIN listed : listed'[n].container = listed[n].container
      /\ Len(listed) + 1 \in DOMAIN listed'
  BY <1>4
<1> QED
  BY <1>2, <1>4, <1>6, <1>7 DEF ListedOnly

\* A listed note stops being live.
LEMMA EndsNote ==
  ASSUME NotesInv, NEW n \in DOMAIN listed, listed' = [listed EXCEPT ![n].live = FALSE]
  PROVE  ListedOnly
<1> DEFINE x == [listed[n] EXCEPT !.live = FALSE]
<1>1. listed \in Seq(ListedNotes) /\ \A m \in DOMAIN listed : listed[m].container \in NoteBranches
  BY DEF NotesInv
<1>2. listed[n] \in ListedNotes /\ DOMAIN listed = 1 .. Len(listed) /\ Len(listed) \in Nat
  BY <1>1
<1>3. x \in ListedNotes /\ x.container = listed[n].container
  BY <1>2 DEF ListedNotes
<1>4. listed' = [listed EXCEPT ![n] = x]
  OBVIOUS
<1> HIDE DEF x
<1>5. /\ listed' \in Seq(ListedNotes) /\ DOMAIN listed' = DOMAIN listed /\ listed'[n] = x
      /\ \A m \in DOMAIN listed : m # n => listed'[m] = listed[m]
  <2>1. /\ DOMAIN listed' = DOMAIN listed /\ listed'[n] = x
        /\ \A m \in DOMAIN listed : m # n => listed'[m] = listed[m]
    BY <1>4
  <2>2. \A m \in DOMAIN listed : listed[m] \in ListedNotes
    BY <1>1
  <2>3. \A m \in 1 .. Len(listed) : listed'[m] \in ListedNotes
    BY <1>2, <1>3, <2>1, <2>2
  <2>4. listed' = [m \in 1 .. Len(listed) |-> listed'[m]]
    BY <1>2, <1>4
  <2>5. listed' \in [1 .. Len(listed) -> ListedNotes]
    BY <2>3, <2>4
  <2>6. listed' \in Seq(ListedNotes)
    BY <1>2, <2>5
  <2> QED
    BY <2>1, <2>6
<1> QED
  BY <1>1, <1>3, <1>5 DEF ListedOnly

LEMMA SameListed == ASSUME NotesInv, UNCHANGED listed PROVE ListedOnly
BY DEF NotesInv, ListedOnly

\* A branch records something while the others run.
LEMMA BranchKeeps ==
  ASSUME NotesInv, notes.pc = "branches", NEW i \in NoteBranches, NEW b \in BranchData,
         notes' = [notes EXCEPT !.branch[i] = b], ListedOnly,
         \/ b.number = notes.branch[i].number
         \/ b.number \in DOMAIN listed' /\ listed'[b.number].container = i
  PROVE  NotesInv'
<1> DEFINE s == [notes.branch EXCEPT ![i] = b]
<1>1. /\ notes \in NotesStates /\ notes.branch \in Seq(BranchData) /\ notes.count \in Nat
      /\ Len(notes.branch) = notes.count /\ DOMAIN notes.branch = 1 .. Len(notes.branch)
  <2>1. notes \in NotesStates /\ notes.count \in Nat /\ Len(notes.branch) = notes.count
    BY DEF NotesInv
  <2>2. notes.branch \in Seq(BranchData)
    BY <2>1 DEF NotesStates
  <2> QED
    BY <2>1, <2>2
<1>2. /\ s \in Seq(BranchData) /\ Len(s) = Len(notes.branch) /\ DOMAIN s = DOMAIN notes.branch /\ s[i] = b
      /\ \A j \in NoteBranches : j # i => s[j] = notes.branch[j]
  BY <1>1 DEF NoteBranches
<1>3. notes' = [notes EXCEPT !.branch = s]
  OBVIOUS
<1> HIDE DEF s
<1>4. notes' \in NotesStates /\ notes'.pc = "branches" /\ notes'.count = notes.count /\ notes'.branch = s
  BY <1>1, <1>2, <1>3 DEF NotesStates
<1>5. NoteBranches' = NoteBranches
  BY <1>2, <1>4 DEF NoteBranches
<1>6. NumbersAreListed'
  <2> SUFFICES ASSUME NEW j \in NoteBranches, s[j].number # NoNote
               PROVE  s[j].number \in DOMAIN listed' /\ listed'[s[j].number].container = j
    BY <1>4, <1>5 DEF NumbersAreListed
  <2>1. CASE s[j].number = notes.branch[j].number
    BY <2>1 DEF NotesInv, NumbersAreListed, ListedOnly
  <2>2. CASE s[j].number # notes.branch[j].number
    BY <1>2, <2>2
  <2> QED
    BY <2>1, <2>2
<1> QED
  BY <1>1, <1>2, <1>4, <1>5, <1>6 DEF NotesInv, ListedOnly

LEMMA BranchFields ==
  ASSUME NEW b \in BranchData
  PROVE  /\ [b EXCEPT !.accepted = TRUE] \in BranchData /\ [b EXCEPT !.accepted = TRUE].number = b.number
         /\ [b EXCEPT !.ended = TRUE] \in BranchData /\ [b EXCEPT !.ended = TRUE].number = b.number
         /\ [b EXCEPT !.cancelled = TRUE] \in BranchData /\ [b EXCEPT !.cancelled = TRUE].number = b.number
         /\ \A n \in Nat : [b EXCEPT !.number = n] \in BranchData /\ [b EXCEPT !.number = n].number = n
<1>1. /\ [b EXCEPT !.accepted = TRUE] \in BranchData /\ [b EXCEPT !.accepted = TRUE].number = b.number
      /\ [b EXCEPT !.ended = TRUE] \in BranchData /\ [b EXCEPT !.ended = TRUE].number = b.number
  BY DEF BranchData
<1>2. [b EXCEPT !.cancelled = TRUE] \in BranchData /\ [b EXCEPT !.cancelled = TRUE].number = b.number
  BY DEF BranchData
<1>3. \A n \in Nat : [b EXCEPT !.number = n] \in BranchData /\ [b EXCEPT !.number = n].number = n
  BY DEF BranchData
<1> QED
  BY <1>1, <1>2, <1>3

\* A branch's record.
LEMMA BranchAt ==
  ASSUME NotesInv, NEW i \in NoteBranches
  PROVE  notes.branch[i] \in BranchData
<1>1. notes.branch \in Seq(BranchData)
  BY DEF NotesInv, NotesStates
<1> QED
  BY <1>1 DEF NoteBranches

LEMMA RunningStepKeeps ==
  ASSUME NotesInv, NEW i \in NoteBranches,
         AcceptNote(i) \/ RegisterNote(i) \/ EndBranch(i) \/ CustomsCancels(i) \/ TraderCancels(i)
  PROVE  NotesInv'
<1> DEFINE b == notes.branch[i]
<1>1. b \in BranchData
  BY BranchAt
<1>2. notes.pc = "branches"
  BY DEF AcceptNote, RegisterNote, EndBranch, CustomsCancels, TraderCancels, Running
<1>3. CASE AcceptNote(i)
  <2> DEFINE x == [b EXCEPT !.accepted = TRUE]
  <2>1. notes' = [notes EXCEPT !.branch[i] = x] /\ UNCHANGED listed
    BY <1>3 DEF AcceptNote
  <2>2. x \in BranchData /\ x.number = b.number
    BY <1>1, BranchFields
  <2> HIDE DEF x
  <2> QED
    BY <1>2, <2>1, <2>2, BranchKeeps, SameListed
<1>4. CASE RegisterNote(i)
  <2> DEFINE x == [b EXCEPT !.number = Len(listed) + 1]
  <2>1. notes' = [notes EXCEPT !.branch[i] = x] /\ listed' = Append(listed, [container |-> i, live |-> TRUE])
    BY <1>4 DEF RegisterNote
  <2>2. ListedOnly /\ Len(listed) + 1 \in DOMAIN listed' /\ listed'[Len(listed) + 1].container = i /\ Len(listed) + 1 \in Nat
    BY <2>1, ListsNote
  <2>3. x \in BranchData /\ x.number = Len(listed) + 1
    BY <1>1, <2>2, BranchFields
  <2> HIDE DEF x
  <2> QED
    BY <1>2, <2>1, <2>2, <2>3, BranchKeeps
<1>5. CASE EndBranch(i)
  <2> DEFINE x == [b EXCEPT !.ended = TRUE]
  <2>1. notes' = [notes EXCEPT !.branch[i] = x] /\ UNCHANGED listed
    BY <1>5 DEF EndBranch
  <2>2. x \in BranchData /\ x.number = b.number
    BY <1>1, BranchFields
  <2> HIDE DEF x
  <2> QED
    BY <1>2, <2>1, <2>2, BranchKeeps, SameListed
<1>6. CASE CustomsCancels(i) \/ TraderCancels(i)
  <2> DEFINE y == [b EXCEPT !.cancelled = TRUE]
             x == [y EXCEPT !.ended = TRUE]
  <2>1. notes' = [notes EXCEPT !.branch[i] = x]
    <3> DEFINE c == [notes EXCEPT !.branch[i] = y]
    <3>1. notes' = [c EXCEPT !.branch[i].ended = TRUE]
      BY <1>6 DEF CustomsCancels, TraderCancels
    <3>2. notes \in NotesStates /\ notes.branch \in Seq(BranchData)
      BY DEF NotesInv, NotesStates
    <3>3. c.branch = [notes.branch EXCEPT ![i] = y]
      BY <3>2 DEF NotesStates
    <3>4. c.branch[i] = y
      BY <3>2, <3>3 DEF NoteBranches
    <3> HIDE DEF y
    <3>5. notes' = [c EXCEPT !.branch = [c.branch EXCEPT ![i] = x]]
      <4> HIDE DEF c
      <4> QED
        BY <3>1, <3>4
    <3> HIDE DEF x
    <3>6. [c.branch EXCEPT ![i] = x] = [notes.branch EXCEPT ![i] = x]
      <4> HIDE DEF c
      <4> QED
        BY <3>2, <3>3
    <3> QED
      BY <3>2, <3>5, <3>6 DEF NotesStates
  <2>2. y \in BranchData /\ y.number = b.number
    BY <1>1, BranchFields
  <2> HIDE DEF y
  <2>3. x \in BranchData /\ x.number = b.number
    BY <2>2, BranchFields
  <2> HIDE DEF x
  <2>4. ListedOnly
    <3>1. CASE TraderCancels(i)
      BY <3>1, SameListed DEF TraderCancels
    <3>2. CASE CustomsCancels(i)
      <4>1. b.number \in DOMAIN listed /\ listed' = [listed EXCEPT ![b.number].live = FALSE]
        BY <3>2 DEF CustomsCancels, NotesInv, NumbersAreListed
      <4> QED
        BY <4>1, EndsNote
    <3> QED
      BY <1>6, <3>1, <3>2
  <2> QED
    BY <1>2, <2>1, <2>3, <2>4, BranchKeeps
<1> QED
  BY <1>3, <1>4, <1>5, <1>6

\* A note is raised again, or ends, after the branches have.
LEMMA ListedKeeps ==
  ASSUME NotesInv, UNCHANGED <<notes, rows>>, ListedOnly, notes.pc = "collected"
  PROVE  NotesInv'
<1>1. NumbersAreListed'
  BY DEF NotesInv, NumbersAreListed, ListedOnly, NoteBranches
<1>2. RowsAre'
  BY DEF NotesInv, RowsAre, StandingBranches, NoteBranches
<1> QED
  BY <1>1, <1>2 DEF NotesInv, ListedOnly, NoteBranches

\* The dispatch notes are split.
LEMMA SplitCDNsKeeps ==
  ASSUME NotesInv, SplitCDNs
  PROVE  NotesInv'
<1> DEFINE none == [number |-> NoNote, accepted |-> FALSE, cancelled |-> FALSE, ended |-> FALSE]
           bs == [i \in 1 .. notes.count |-> none]
           ok == notes.count # NotANumber /\ notes.count \in 1 .. MaxContainersPerDeclaration
<1>1. /\ notes' = IF ok THEN [notes EXCEPT !.pc = "branches", !.branch = bs] ELSE [notes EXCEPT !.pc = "failed"]
      /\ UNCHANGED listed /\ notes.branch = << >> /\ listed = << >> /\ notes \in NotesStates
  BY DEF SplitCDNs, NotesInv
<1>2. CASE ~ok
  <2> HIDE DEF ok, bs
  <2>1. notes' \in NotesStates /\ notes'.pc = "failed" /\ notes'.branch = << >>
    BY <1>1, <1>2 DEF NotesStates
  <2> QED
    BY <1>1, <2>1 DEF NotesInv, NumbersAreListed, NoteBranches
<1>3. CASE ok
  <2> DEFINE y == [notes EXCEPT !.pc = "branches"]
             x == [y EXCEPT !.branch = bs]
  <2>1. notes.count \in Nat
    BY <1>3
  <2>2. none \in BranchData /\ none.number = NoNote
    BY DEF BranchData, NoNote
  <2> HIDE DEF none
  <2>3. bs \in Seq(BranchData) /\ Len(bs) = notes.count /\ DOMAIN bs = 1 .. notes.count
        /\ \A i \in DOMAIN bs : bs[i] = none
    BY <2>1, <2>2
  <2> HIDE DEF bs
  <2>4. y \in NotesStates /\ y.pc = "branches" /\ y.count = notes.count
    BY <1>1 DEF NotesStates
  <2>5. notes' = x
    BY <1>1, <1>3
  <2> HIDE DEF y
  <2>6. x \in NotesStates /\ x.pc = "branches" /\ x.count = notes.count /\ x.branch = bs
    BY <2>3, <2>4 DEF NotesStates
  <2> HIDE DEF x
  <2>7. NumbersAreListed'
    BY <2>2, <2>3, <2>5, <2>6 DEF NumbersAreListed, NoteBranches
  <2> QED
    BY <1>1, <2>1, <2>3, <2>5, <2>6, <2>7 DEF NotesInv, NoteBranches
<1> QED
  BY <1>2, <1>3

\* What the collector quotes is the first of a set of branches, or else 0.
LEMMA FirstIs ==
  ASSUME NEW I \in SUBSET Nat, I # {}
  PROVE  Min(I) \in I
<1>1. \E n \in I : \A m \in I : n <= m
  BY LeastNatural
<1> QED
  BY <1>1 DEF Min

\* The collector writes the rows.
LEMMA CollectKeeps ==
  ASSUME NotesInv, CollectResults
  PROVE  NotesInv'
<1> DEFINE bs == notes.branch
           live == {i \in NoteBranches : ~bs[i].cancelled}
           good == {i \in live : bs[i].accepted}
           std == {i \in NoteBranches : Standing(bs[i])}
           numbers == Those(bs, std)
           quoted == IF good # {} THEN Min(good) ELSE IF live # {} THEN Min(live) ELSE 0
           c == [r \in DOMAIN numbers |-> numbers[r].number]
<1>1. /\ notes.pc = "branches" /\ notes' = [notes EXCEPT !.pc = "collected"] /\ UNCHANGED listed
      /\ rows'.containers = c /\ rows'.userform = quoted
  BY DEF CollectResults
<1>2. /\ notes \in NotesStates /\ bs \in Seq(BranchData) /\ DOMAIN bs = NoteBranches /\ NoteBranches = 1 .. Len(bs)
      /\ Len(bs) \in Nat
  <2>1. notes \in NotesStates
    BY DEF NotesInv
  <2>2. bs \in Seq(BranchData)
    BY <2>1 DEF NotesStates
  <2> QED
    BY <2>1, <2>2 DEF NoteBranches
<1>3. notes' \in NotesStates /\ notes'.pc = "collected" /\ notes'.branch = bs /\ notes'.count = notes.count
  BY <1>1, <1>2 DEF NotesStates
<1>4. NoteBranches' = NoteBranches
  BY <1>3 DEF NoteBranches
<1>5. quoted # 0 => quoted \in live
  <2>1. live \in SUBSET Nat /\ good \in SUBSET Nat /\ good \subseteq live
    BY <1>2
  <2> HIDE DEF live, good
  <2>2. good # {} => Min(good) \in good
    BY <2>1, FirstIs
  <2>3. live # {} => Min(live) \in live
    BY <2>1, FirstIs
  <2> QED
    BY <2>1, <2>2, <2>3
<1>6. numbers \in Seq(BranchData) /\ \E at : From(at, numbers, bs, std, Len(bs))
  <2> HIDE DEF std, bs
  <2> QED
    BY <1>2, ThoseIs
<1>7. PICK at : From(at, numbers, bs, std, Len(bs))
  BY <1>6
<1> HIDE DEF numbers
<1>8. DOMAIN numbers = 1 .. Len(numbers) /\ Len(numbers) \in Nat /\ \A r \in 1 .. Len(numbers) : numbers[r] \in BranchData
  BY <1>6
<1>9. c \in Seq(Nat) /\ Len(c) = Len(numbers) /\ \A r \in 1 .. Len(numbers) : c[r] = numbers[r].number
  <2>1. \A r \in 1 .. Len(numbers) : numbers[r].number \in Nat
    BY <1>8 DEF BranchData
  <2>2. c \in [1 .. Len(numbers) -> Nat]
    BY <1>8, <2>1
  <2> QED
    BY <1>8, <2>2
<1> HIDE DEF c
<1>10. {n \in 1 .. Len(bs) : n \in std} = std
  BY <1>2
<1>11. StandingBranches' = std
  BY <1>3, <1>4 DEF StandingBranches
<1> HIDE DEF std, quoted
<1>12. /\ at \in [1 .. Len(c) -> std]
       /\ \A q, r \in 1 .. Len(c) : q < r => at[q] < at[r]
       /\ \A i \in std : \E r \in 1 .. Len(c) : at[r] = i
       /\ \A r \in 1 .. Len(c) : c[r] = bs[at[r]].number
  <2>1. \A i \in std : i \in 1 .. Len(bs)
    BY <1>10
  <2> QED
    BY <1>7, <1>9, <1>10, <2>1 DEF From
<1>13. RowsAre'
  <2>1. /\ rows'.containers \in Seq(Nat)
        /\ \E f \in [1 .. Len(rows'.containers) -> StandingBranches'] :
             /\ \A q, r \in 1 .. Len(rows'.containers) : q < r => f[q] < f[r]
             /\ \A i \in StandingBranches' : \E r \in 1 .. Len(rows'.containers) : f[r] = i
             /\ \A r \in 1 .. Len(rows'.containers) : rows'.containers[r] = notes'.branch[f[r]].number
    <3>1. /\ c \in Seq(Nat)
          /\ \E f \in [1 .. Len(c) -> std] :
               /\ \A q, r \in 1 .. Len(c) : q < r => f[q] < f[r]
               /\ \A i \in std : \E r \in 1 .. Len(c) : f[r] = i
               /\ \A r \in 1 .. Len(c) : c[r] = bs[f[r]].number
      BY <1>9, <1>12
    <3>2. rows'.containers = c /\ StandingBranches' = std /\ notes'.branch = bs
      BY <1>1, <1>3, <1>11
    <3> HIDE DEF bs
    <3> QED
      BY <3>1, <3>2
  <2>2. rows'.userform # 0 => rows'.userform \in NoteBranches' /\ ~notes'.branch[rows'.userform].cancelled
    BY <1>1, <1>3, <1>4, <1>5
  <2> QED
    BY <2>1, <2>2 DEF RowsAre
<1>14. NumbersAreListed'
  BY <1>1, <1>3, <1>4 DEF NotesInv, NumbersAreListed
<1> QED
  BY <1>1, <1>3, <1>4, <1>13, <1>14 DEF NotesInv

LEMMA SameNotes == NotesInv /\ UNCHANGED <<notes, rows, listed>> => NotesInv'
  BY DEF NotesInv, NumbersAreListed, RowsAre, StandingBranches, NoteBranches

LEMMA SameAgency == AgencyInv /\ UNCHANGED agency => AgencyInv'
  BY DEF AgencyInv, EveryCodeIsServed

\* Every step keeps the invariant.
LEMMA SplitsStep == SplitsInv /\ [SplitsNext]_splitVars => SplitsInv'
<1> SUFFICES ASSUME SplitsInv, [SplitsNext]_splitVars
             PROVE  SplitsInv'
  OBVIOUS
<1>0. AgencyInv /\ NotesInv
  BY DEF SplitsInv
<1>1. CASE SplitHSCodes
  BY <1>0, <1>1, SplitHSCodesKeeps, SameNotes DEF SplitHSCodes, SplitsInv
<1>2. CASE SplitCDNs
  <2>1. UNCHANGED agency
    BY <1>2 DEF SplitCDNs
  <2> QED
    BY <1>0, <1>2, <2>1, SplitCDNsKeeps, SameAgency DEF SplitsInv
<1>3. CASE CollectResults
  <2>1. UNCHANGED agency
    BY <1>3 DEF CollectResults
  <2> QED
    BY <1>0, <1>3, <2>1, CollectKeeps, SameAgency DEF SplitsInv
<1>4. CASE Retrieve \/ UNCHANGED splitVars
  <2>1. UNCHANGED <<agency, notes, rows, listed>>
    BY <1>4 DEF Retrieve, splitVars
  <2> QED
    BY <1>0, <2>1, SameNotes, SameAgency DEF SplitsInv
<1>5. ASSUME NEW i \in NoteBranches,
             AcceptNote(i) \/ RegisterNote(i) \/ EndBranch(i) \/ CustomsCancels(i) \/ TraderCancels(i)
      PROVE  SplitsInv'
  <2>1. UNCHANGED agency
    BY <1>5 DEF AcceptNote, RegisterNote, EndBranch, CustomsCancels, TraderCancels
  <2> QED
    BY <1>0, <1>5, <2>1, RunningStepKeeps, SameAgency DEF SplitsInv
<1>6. ASSUME NEW i \in NoteBranches, RaiseAgain(i)
      PROVE  SplitsInv'
  <2>1. /\ notes.pc = "collected" /\ listed' = Append(listed, [container |-> i, live |-> TRUE])
        /\ UNCHANGED agency /\ UNCHANGED <<notes, rows>>
    BY <1>6 DEF RaiseAgain
  <2>2. ListedOnly
    BY <1>0, <2>1, ListsNote
  <2> QED
    BY <1>0, <2>1, <2>2, ListedKeeps, SameAgency DEF SplitsInv
<1>7. ASSUME NEW n \in DOMAIN listed, CancelListed(n)
      PROVE  SplitsInv'
  <2>1. /\ notes.pc = "collected" /\ listed' = [listed EXCEPT ![n].live = FALSE]
        /\ UNCHANGED agency /\ UNCHANGED <<notes, rows>>
    BY <1>7 DEF CancelListed
  <2>2. ListedOnly
    BY <1>0, <2>1, EndsNote
  <2> QED
    BY <1>0, <2>1, <2>2, ListedKeeps, SameAgency DEF SplitsInv
<1> QED
  BY <1>1, <1>2, <1>3, <1>4, <1>5, <1>6, <1>7 DEF SplitsNext

\* Whatever a trader selects, an artifact maps and replaces, and however the branches, the two
\* sides' cancellations and the notes raised again interleave.
THEOREM SplitWhole == SplitsSpec => []SplitsAreWhole
<1>1. SplitsInv => SplitsAreWhole
  BY NotesAgree DEF SplitsInv, AgencyInv, SplitsAreWhole
<1>2. SplitsInit([AgencyFlows -> SUBSET AgencyFlows]) => SplitsInv
  BY SplitsInitially DEF Replacings
<1> QED
  BY <1>1, <1>2, SplitsStep, PTL DEF SplitsSpec

\* Selections, branches and Customs' list have their types.
THEOREM SplitsTypeCorrect == SplitsSpec => []SplitsType
<1>1. SplitsInv => SplitsType
  <2> SUFFICES ASSUME SplitsInv
               PROVE  SplitsType
    OBVIOUS
  <2>1. /\ agency.pc \in {"select", "split", "failed"} /\ agency.codes \in Selections
        /\ agency.started \in Seq(AgencyFlows)
    BY DEF SplitsInv, AgencyInv, AgencyStates
  <2>2. /\ notes.pc \in {"count", "branches", "collected", "failed"} /\ notes.count \in Counts
        /\ notes.branch \in Seq(BranchData)
    BY DEF SplitsInv, NotesInv, NotesStates
  <2>3. listed \in Seq(ListedNotes) /\ \A n \in DOMAIN listed : listed[n].container \in NoteBranches
    BY DEF SplitsInv, NotesInv
  <2>4. \A n \in 1 .. Len(listed) : listed[n] \in ListedNotes /\ n \in DOMAIN listed
    BY <2>3
  <2>5. \A n \in 1 .. Len(listed) : listed[n].live \in BOOLEAN /\ listed[n].container \in NoteBranches
    BY <2>3, <2>4 DEF ListedNotes
  <2>6. \A i \in NoteBranches : notes.branch[i] \in BranchData
    BY <2>2 DEF NoteBranches
  <2> QED
    BY <2>1, <2>2, <2>5, <2>6 DEF SplitsType
<1>2. SplitsInit([AgencyFlows -> SUBSET AgencyFlows]) => SplitsInv
  BY SplitsInitially DEF Replacings
<1> QED
  BY <1>1, <1>2, SplitsStep, PTL DEF SplitsSpec

----------------------------------------------------------------------------
(***************************************************************************)
(* A recursive function on 0 .. m. The definition of one chooses a         *)
(* function that satisfies its equation: there is one, whatever the step.  *)
(***************************************************************************)
Recurs(f, x, step, m) == f[0] = x /\ \A n \in 1 .. m : f[n] = step[<<n, f[n - 1]>>]

LEMMA RecursionExists ==
  ASSUME NEW m \in Nat, NEW X, NEW x \in X, NEW step \in [(1 .. m) \X X -> X]
  PROVE  \E f \in [0 .. m -> X] : Recurs(f, x, step, m)
<1> DEFINE Starts(f, l) == f \in [0 .. l -> X] /\ f[0] = x /\ \A n \in 1 .. l : f[n] = step[<<n, f[n - 1]>>]
           T == {l \in 0 .. m : \E f : Starts(f, l)}
<1>1. 0 \in T
  <2> DEFINE f == [n \in 0 .. 0 |-> x]
  <2>1. Starts(f, 0)
    OBVIOUS
  <2>2. 0 \in 0 .. m
    OBVIOUS
  <2> QED
    BY <2>1, <2>2
<1>2. ASSUME NEW l \in 0 .. m - 1, l \in T
      PROVE  l + 1 \in T
  <2>1. PICK f : Starts(f, l)
    BY <1>2
  <2>2. l \in 0 .. l /\ l + 1 \in 1 .. m /\ l + 1 \in 0 .. m /\ l \in Nat /\ 0 \in 0 .. l
    OBVIOUS
  <2> DEFINE next == step[<<l + 1, f[l]>>]
             g == [n \in 0 .. l + 1 |-> IF n = l + 1 THEN next ELSE f[n]]
  <2>3. next \in X
    <3>1. f[l] \in X
      BY <2>1, <2>2
    <3>2. <<l + 1, f[l]>> \in (1 .. m) \X X
      BY <2>2, <3>1
    <3> QED
      BY <3>2
  <2>4. g \in [0 .. l + 1 -> X]
    <3> HIDE DEF next
    <3>1. \A n \in 0 .. l + 1 : n = l + 1 \/ n \in 0 .. l
      BY <2>2
    <3>2. \A n \in 0 .. l : f[n] \in X
      BY <2>1
    <3> QED
      BY <2>3, <3>1, <3>2
  <2>5. \A n \in 1 .. l + 1 : g[n] = step[<<n, g[n - 1]>>]
    <3> SUFFICES ASSUME NEW n \in 1 .. l + 1
                 PROVE  g[n] = step[<<n, g[n - 1]>>]
      OBVIOUS
    <3>1. CASE n = l + 1
      <4>1. g[n] = next /\ g[n - 1] = f[l] /\ n - 1 = l
        <5> HIDE DEF next
        <5> QED
          BY <2>2, <3>1
      <4> HIDE DEF g
      <4> QED
        BY <3>1, <4>1
    <3>2. CASE n \in 1 .. l
      <4>1. g[n] = f[n] /\ g[n - 1] = f[n - 1]
        <5> HIDE DEF next
        <5>1. n \in 0 .. l + 1 /\ n - 1 \in 0 .. l + 1 /\ n # l + 1 /\ n - 1 # l + 1
          BY <2>2, <3>2
        <5> QED
          BY <5>1
      <4>2. f[n] = step[<<n, f[n - 1]>>]
        BY <2>1, <3>2
      <4> HIDE DEF g
      <4> QED
        BY <4>1, <4>2
    <3>3. n = l + 1 \/ n \in 1 .. l
      BY <2>2
    <3> QED
      BY <3>1, <3>2, <3>3
  <2>6. g[0] = x
    <3> HIDE DEF next
    <3>1. 0 \in 0 .. l + 1 /\ 0 # l + 1
      BY <2>2
    <3>2. g[0] = f[0]
      BY <3>1
    <3> QED
      BY <2>1, <3>2
  <2> HIDE DEF g
  <2>7. Starts(g, l + 1)
    BY <2>4, <2>5, <2>6
  <2> QED
    BY <2>2, <2>7
<1>3. m \in T
  <2> HIDE DEF T
  <2>1. \A l \in 0 .. m - 1 : l \in T => l + 1 \in T
    BY <1>2
  <2>2. \A l \in 0 .. m : l \in T
    BY <1>1, <2>1, UpTo
  <2> QED
    BY <2>2
<1> QED
  BY <1>3 DEF Recurs

\* What satisfies the equation takes its values where the step does.
LEMMA RecursionStays ==
  ASSUME NEW m \in Nat, NEW X, NEW r, r = [n \in 0 .. m |-> r[n]], r[0] \in X,
         \A n \in 1 .. m : r[n - 1] \in X => r[n] \in X
  PROVE  r \in [0 .. m -> X]
<1> DEFINE T == {n \in Nat : r[n] \in X}
<1>1. 0 \in T
  OBVIOUS
<1>2. \A n \in 0 .. m - 1 : n \in T => n + 1 \in T
  <2> SUFFICES ASSUME NEW n \in 0 .. m - 1, r[n] \in X
               PROVE  r[n + 1] \in X /\ n + 1 \in Nat
    OBVIOUS
  <2>1. n + 1 \in 1 .. m /\ (n + 1) - 1 = n /\ n + 1 \in Nat
    OBVIOUS
  <2> QED
    BY <2>1
<1>3. \A n \in 0 .. m : n \in T
  <2> HIDE DEF T
  <2> QED
    BY <1>1, <1>2, UpTo
<1> QED
  BY <1>3

----------------------------------------------------------------------------
(***************************************************************************)
(* A form's read-only values, for any values, any default and any number   *)
(* of list and of saves. After any number of list of an accepted list, the *)
(* list seen of each server part are as many as the stored list taken.     *)
(***************************************************************************)
Pairings(stored) == [ok : BOOLEAN, free : SUBSET DOMAIN stored]

\* What a row does to the pairing: it takes a stored one of its part, or it is new and empty.
LEMMA PairIs ==
  ASSUME form \in FormSchemas, NEW stored \in Seq(ValuesOrMissing), NEW pairing \in Pairings(stored),
         NEW row \in ValuesOrMissing
  PROVE  LET next == Pair(stored, pairing, row)
         IN /\ next \in Pairings(stored)
            /\ next.ok => pairing.ok
            /\ next.ok => \/ \E j \in pairing.free : /\ ServerPart(stored[j]) = ServerPart(row)
                                                     /\ next.free = pairing.free \ {j}
                          \/ /\ ServerPart(row) = form.default /\ form.addable
                             /\ next.free = pairing.free
<1> DEFINE part == ServerPart(row)
           matches == {j \in pairing.free : ServerPart(stored[j]) = part}
           least == CHOOSE k \in matches : \A l \in matches : k <= l
           next == Pair(stored, pairing, row)
<1>1. pairing.ok \in BOOLEAN /\ pairing.free \subseteq DOMAIN stored /\ pairing.free \subseteq Nat
  BY DEF Pairings
<1>2. form.addable \in BOOLEAN
  BY DEF FormSchemas
<1>3. \A st, sub : Unchanged(st, sub) \in BOOLEAN
  <2> SUFFICES ASSUME NEW st, NEW sub
               PROVE  Unchanged(st, sub) \in BOOLEAN
    OBVIOUS
  <2>1. CASE st # Missing
    BY <2>1 DEF Unchanged
  <2>2. CASE st = Missing
    BY <2>2 DEF Unchanged
  <2> QED
    BY <2>1, <2>2
<1>4. CASE matches # {}
  <2>1. \E k \in matches : \A l \in matches : k <= l
    <3>1. matches \in SUBSET Nat
      BY <1>1
    <3> HIDE DEF matches
    <3> QED
      BY <1>4, <3>1, LeastNatural
  <2>2. least \in matches
    <3> HIDE DEF matches
    <3> QED
      BY <2>1
  <2>3. next = [ok |-> pairing.ok /\ Unchanged(stored[least], row), free |-> pairing.free \ {least}]
    BY <1>4 DEF Pair
  <2>4. least \in pairing.free /\ ServerPart(stored[least]) = part
    BY <2>2
  <2> HIDE DEF least, next, matches, part
  <2>5. next.ok = (pairing.ok /\ Unchanged(stored[least], row)) /\ next.free = pairing.free \ {least}
    BY <2>3
  <2>6. next \in Pairings(stored)
    <3>1. (pairing.ok /\ Unchanged(stored[least], row)) \in BOOLEAN
      OBVIOUS
    <3>2. pairing.free \ {least} \in SUBSET DOMAIN stored
      BY <1>1
    <3> QED
      BY <2>3, <3>1, <3>2 DEF Pairings
  <2> QED
    BY <2>4, <2>5, <2>6 DEF part, next
<1>5. CASE matches = {} /\ part = form.default
  <2>1. next = [ok |-> pairing.ok /\ form.addable /\ Unchanged(Missing, row), free |-> pairing.free]
    BY <1>5 DEF Pair
  <2> HIDE DEF least, next, matches
  <2>2. (pairing.ok /\ form.addable /\ Unchanged(Missing, row)) \in BOOLEAN
    OBVIOUS
  <2>3. next \in Pairings(stored)
    BY <1>1, <2>1, <2>2 DEF Pairings
  <2>4. next.ok = (pairing.ok /\ form.addable /\ Unchanged(Missing, row)) /\ next.free = pairing.free
    BY <2>1
  <2>5. part = form.default
    BY <1>5
  <2> QED
    BY <2>3, <2>4, <2>5 DEF next, part
<1>6. CASE matches = {} /\ part # form.default
  <2>1. next = [ok |-> FALSE, free |-> pairing.free]
    BY <1>6 DEF Pair
  <2> HIDE DEF next
  <2>2. next \in Pairings(stored)
    BY <1>1, <2>1 DEF Pairings
  <2> QED
    BY <2>1, <2>2 DEF next
<1> QED
  BY <1>4, <1>5, <1>6

\* The pairing after each row, as the model computes it.
Pairs(f, stored, list) ==
  f = [n \in 0 .. Len(list) |->
         IF n = 0 THEN [ok |-> TRUE, free |-> DOMAIN stored] ELSE Pair(stored, f[n - 1], list[n])]
PairedBy(stored, list) == CHOOSE f : Pairs(f, stored, list)

LEMMA PairedExists ==
  ASSUME form \in FormSchemas, NEW stored \in Seq(ValuesOrMissing), NEW list \in Seq(ValuesOrMissing)
  PROVE  LET f == PairedBy(stored, list)
         IN /\ f \in [0 .. Len(list) -> Pairings(stored)]
            /\ f[0] = [ok |-> TRUE, free |-> DOMAIN stored]
            /\ \A n \in 1 .. Len(list) : f[n] = Pair(stored, f[n - 1], list[n])
            /\ Pairing(stored, list) = f[Len(list)]
<1> DEFINE m == Len(list)
           start == [ok |-> TRUE, free |-> DOMAIN stored]
           step == [p \in (1 .. m) \X Pairings(stored) |-> Pair(stored, p[2], list[p[1]])]
<1>1. m \in Nat /\ start \in Pairings(stored) /\ \A n \in 1 .. m : list[n] \in ValuesOrMissing
  BY DEF Pairings
<1>2. step \in [(1 .. m) \X Pairings(stored) -> Pairings(stored)]
  <2> SUFFICES ASSUME NEW n \in 1 .. m, NEW pairing \in Pairings(stored)
               PROVE  Pair(stored, pairing, list[n]) \in Pairings(stored)
    OBVIOUS
  <2> QED
    BY <1>1, PairIs
<1>3. \A n \in 1 .. m : \A pairing \in Pairings(stored) : step[<<n, pairing>>] = Pair(stored, pairing, list[n])
  OBVIOUS
<1> HIDE DEF step, start
<1>4. PICK f \in [0 .. m -> Pairings(stored)] : f[0] = start /\ \A n \in 1 .. m : f[n] = step[<<n, f[n - 1]>>]
  <2> DEFINE X == Pairings(stored)
  <2>1. m \in Nat /\ start \in X /\ step \in [(1 .. m) \X X -> X]
    BY <1>1, <1>2
  <2> HIDE DEF m, X
  <2>2. \E f \in [0 .. m -> X] : Recurs(f, start, step, m)
    BY ONLY <2>1, RecursionExists
  <2> QED
    BY <2>2 DEF X, Recurs
<1>5. Pairs(f, stored, list)
  <2>1. \A n \in 1 .. m : f[n] = Pair(stored, f[n - 1], list[n])
    <3> SUFFICES ASSUME NEW n \in 1 .. m
                 PROVE  f[n] = Pair(stored, f[n - 1], list[n])
      OBVIOUS
    <3>1. n - 1 \in 0 .. m
      BY <1>1
    <3>2. f[n - 1] \in Pairings(stored)
      BY <1>4, <3>1
    <3> QED
      BY <1>3, <1>4, <3>2
  <2>2. f = [n \in 0 .. m |-> IF n = 0 THEN start ELSE Pair(stored, f[n - 1], list[n])]
    <3>1. \A n \in 0 .. m : n = 0 \/ n \in 1 .. m
      BY <1>1
    <3>2. \A n \in 0 .. m : f[n] = IF n = 0 THEN start ELSE Pair(stored, f[n - 1], list[n])
      BY <1>4, <2>1, <3>1
    <3>3. f = [n \in 0 .. m |-> f[n]]
      BY <1>4
    <3> QED
      BY <3>2, <3>3
  <2> QED
    BY <2>2 DEF Pairs, start
<1> DEFINE r == PairedBy(stored, list)
<1>6. Pairs(r, stored, list)
  BY <1>5 DEF PairedBy
<1>7. Pairing(stored, list) = r[m]
  BY DEF Pairing, PairedBy, Pairs
<1> HIDE DEF r
<1>8. r = [n \in 0 .. m |-> IF n = 0 THEN start ELSE Pair(stored, r[n - 1], list[n])]
  BY <1>6 DEF Pairs, start
<1>9. /\ r = [n \in 0 .. m |-> r[n]] /\ r[0] = start
      /\ \A n \in 1 .. m : r[n] = Pair(stored, r[n - 1], list[n])
  <2>1. 0 \in 0 .. m /\ \A n \in 1 .. m : n \in 0 .. m /\ n # 0
    BY <1>1
  <2>2. r = [n \in 0 .. m |-> r[n]]
    BY <1>8
  <2>3. \A n \in 0 .. m : r[n] = IF n = 0 THEN start ELSE Pair(stored, r[n - 1], list[n])
    BY <1>8
  <2> QED
    BY <2>1, <2>2, <2>3
<1>10. r \in [0 .. m -> Pairings(stored)]
  <2>1. \A n \in 1 .. m : r[n - 1] \in Pairings(stored) => r[n] \in Pairings(stored)
    BY <1>1, <1>9, PairIs
  <2> HIDE DEF m
  <2> QED
    BY <1>1, <1>9, <2>1, RecursionStays
<1> QED
  BY <1>7, <1>9, <1>10 DEF r, start

\* The rows with part v among the first n, and the stored rows with it that are taken.
SeenOf(list, n, v) == {i \in 1 .. n : ServerPart(list[i]) = v}
TakenOf(stored, free, v) == {j \in DOMAIN stored \ free : ServerPart(stored[j]) = v}

Balanced(stored, list, n, pairing) ==
  pairing.ok =>
    /\ \A v \in Values \ {form.default} :
         Cardinality(SeenOf(list, n, v)) = Cardinality(TakenOf(stored, pairing.free, v))
    /\ Cardinality(DOMAIN stored \ pairing.free) <= n
    /\ ~form.addable => Cardinality(DOMAIN stored \ pairing.free) = n

\* Sets of positions are finite, and one more is counted once.
LEMMA PositionsCount ==
  ASSUME NEW l \in Nat, NEW I \in SUBSET (1 .. l)
  PROVE  /\ IsFiniteSet(I) /\ Cardinality(I) \in Nat /\ Cardinality(I) <= l
         /\ \A i \in 1 .. l : i \notin I => Cardinality(I \cup {i}) = Cardinality(I) + 1
<1>1. IsFiniteSet(1 .. l) /\ Cardinality(1 .. l) = l
  BY FS_Interval
<1>2. IsFiniteSet(I) /\ Cardinality(I) <= l
  BY <1>1, FS_Subset
<1>3. Cardinality(I) \in Nat
  BY <1>2, FS_CardinalityType
<1> QED
  BY <1>2, <1>3, FS_AddElement

LEMMA BalancedStep ==
  ASSUME form \in FormSchemas, NEW stored \in Seq(ValuesOrMissing), NEW list \in Seq(ValuesOrMissing),
         NEW n \in 0 .. Len(list) - 1, NEW pairing \in Pairings(stored), Balanced(stored, list, n, pairing)
  PROVE  Balanced(stored, list, n + 1, Pair(stored, pairing, list[n + 1]))
<1> DEFINE row == list[n + 1]
           next == Pair(stored, pairing, row)
           part == ServerPart(row)
<1>1. /\ n + 1 \in 1 .. Len(list) /\ n \in Nat /\ n + 1 \in Nat /\ Len(list) \in Nat /\ Len(stored) \in Nat
      /\ DOMAIN stored = 1 .. Len(stored) /\ n + 1 \notin 1 .. n
      /\ 1 .. n + 1 = (1 .. n) \cup {n + 1}
  OBVIOUS
<1>2. row \in ValuesOrMissing
  BY <1>1
<1>3. /\ next.ok => pairing.ok
      /\ next.ok => \/ \E j \in pairing.free : ServerPart(stored[j]) = part /\ next.free = pairing.free \ {j}
                    \/ part = form.default /\ form.addable /\ next.free = pairing.free
  BY <1>2, PairIs
<1>4. pairing.free \subseteq 1 .. Len(stored)
  BY <1>1 DEF Pairings
<1> HIDE DEF next
<1> SUFFICES ASSUME next.ok
             PROVE  /\ \A v \in Values \ {form.default} :
                         Cardinality(SeenOf(list, n + 1, v)) = Cardinality(TakenOf(stored, next.free, v))
                    /\ Cardinality(DOMAIN stored \ next.free) <= n + 1
                    /\ ~form.addable => Cardinality(DOMAIN stored \ next.free) = n + 1
  BY DEF Balanced, next
<1>5. /\ \A v \in Values \ {form.default} :
           Cardinality(SeenOf(list, n, v)) = Cardinality(TakenOf(stored, pairing.free, v))
      /\ Cardinality(DOMAIN stored \ pairing.free) <= n
      /\ ~form.addable => Cardinality(DOMAIN stored \ pairing.free) = n
  BY <1>3 DEF Balanced
<1>6. \A v : SeenOf(list, n + 1, v) = IF part = v THEN SeenOf(list, n, v) \cup {n + 1} ELSE SeenOf(list, n, v)
  BY <1>1 DEF SeenOf
<1>7. \A v : SeenOf(list, n, v) \in SUBSET (1 .. Len(list)) /\ n + 1 \notin SeenOf(list, n, v)
  BY <1>1 DEF SeenOf
<1>8. \A v : Cardinality(SeenOf(list, n, v) \cup {n + 1}) = Cardinality(SeenOf(list, n, v)) + 1
  BY <1>1, <1>7, PositionsCount
<1>9. CASE part = form.default /\ form.addable /\ next.free = pairing.free
  <2>1. \A v \in Values \ {form.default} : SeenOf(list, n + 1, v) = SeenOf(list, n, v)
    BY <1>6, <1>9
  <2>2. Cardinality(DOMAIN stored \ pairing.free) \in Nat
    BY <1>1, PositionsCount
  <2> HIDE DEF part
  <2> QED
    BY <1>1, <1>5, <1>9, <2>1, <2>2
<1>10. ASSUME NEW j \in pairing.free, ServerPart(stored[j]) = part, next.free = pairing.free \ {j}
       PROVE  /\ \A v \in Values \ {form.default} :
                   Cardinality(SeenOf(list, n + 1, v)) = Cardinality(TakenOf(stored, next.free, v))
              /\ Cardinality(DOMAIN stored \ next.free) = Cardinality(DOMAIN stored \ pairing.free) + 1
  <2>1. j \in 1 .. Len(stored)
    BY <1>4
  <2>2. DOMAIN stored \ next.free = (DOMAIN stored \ pairing.free) \cup {j} /\ j \notin DOMAIN stored \ pairing.free
    BY <1>1, <1>10, <2>1
  <2>3. Cardinality(DOMAIN stored \ next.free) = Cardinality(DOMAIN stored \ pairing.free) + 1
    <3>1. DOMAIN stored \ pairing.free \in SUBSET (1 .. Len(stored))
      BY <1>1
    <3>2. Cardinality((DOMAIN stored \ pairing.free) \cup {j}) = Cardinality(DOMAIN stored \ pairing.free) + 1
      BY <1>1, <2>1, <2>2, <3>1, PositionsCount
    <3> QED
      BY <2>2, <3>2
  <2>4. \A v : TakenOf(stored, next.free, v) =
                IF part = v THEN TakenOf(stored, pairing.free, v) \cup {j} ELSE TakenOf(stored, pairing.free, v)
    BY <1>10, <2>2 DEF TakenOf
  <2>5. \A v : TakenOf(stored, pairing.free, v) \in SUBSET (1 .. Len(stored)) /\ j \notin TakenOf(stored, pairing.free, v)
    BY <1>1, <2>2 DEF TakenOf
  <2>6. \A v : Cardinality(TakenOf(stored, pairing.free, v) \cup {j}) = Cardinality(TakenOf(stored, pairing.free, v)) + 1
    BY <1>1, <2>1, <2>5, PositionsCount
  <2>7. ASSUME NEW v \in Values \ {form.default}
        PROVE  Cardinality(SeenOf(list, n + 1, v)) = Cardinality(TakenOf(stored, next.free, v))
    <3>1. CASE part = v
      BY <1>5, <1>6, <1>8, <2>4, <2>6, <3>1
    <3>2. CASE part # v
      BY <1>5, <1>6, <2>4, <3>2
    <3> QED
      BY <3>1, <3>2
  <2> QED
    BY <2>3, <2>7
<1>11. ASSUME \E j \in pairing.free : ServerPart(stored[j]) = part /\ next.free = pairing.free \ {j}
       PROVE  /\ \A v \in Values \ {form.default} :
                   Cardinality(SeenOf(list, n + 1, v)) = Cardinality(TakenOf(stored, next.free, v))
              /\ Cardinality(DOMAIN stored \ next.free) <= n + 1
              /\ ~form.addable => Cardinality(DOMAIN stored \ next.free) = n + 1
  <2>1. Cardinality(DOMAIN stored \ pairing.free) \in Nat
    BY <1>1, PositionsCount
  <2>2. PICK j \in pairing.free : ServerPart(stored[j]) = part /\ next.free = pairing.free \ {j}
    BY <1>11
  <2>3. /\ \A v \in Values \ {form.default} :
             Cardinality(SeenOf(list, n + 1, v)) = Cardinality(TakenOf(stored, next.free, v))
        /\ Cardinality(DOMAIN stored \ next.free) = Cardinality(DOMAIN stored \ pairing.free) + 1
    BY <2>2, <1>10
  <2> HIDE DEF part
  <2> QED
    BY <1>1, <1>5, <2>1, <2>3
<1> QED
  BY <1>3, <1>9, <1>11

\* A list that is accepted has the stored rows of each part once each.
LEMMA AcceptedRows ==
  ASSUME form \in FormSchemas, NEW stored \in Seq(ValuesOrMissing), NEW list \in Seq(ValuesOrMissing),
         RowsKept(stored, list)
  PROVE  /\ \A v \in Values \ {form.default} :
              IF form.removable THEN Count(list, v) <= Count(stored, v) ELSE Count(list, v) = Count(stored, v)
         /\ ~form.addable => Len(list) <= Len(stored)
         /\ ~form.removable => Len(list) >= Len(stored)
<1> DEFINE m == Len(list)
           f == PairedBy(stored, list)
           all(v) == {j \in DOMAIN stored : ServerPart(stored[j]) = v}
<1>1. /\ m \in Nat /\ Len(stored) \in Nat
      /\ DOMAIN stored = 1 .. Len(stored) /\ DOMAIN list = 1 .. m
  OBVIOUS
<1>2. /\ f \in [0 .. m -> Pairings(stored)] /\ f[0] = [ok |-> TRUE, free |-> DOMAIN stored]
      /\ \A n \in 1 .. m : f[n] = Pair(stored, f[n - 1], list[n])
      /\ Pairing(stored, list) = f[m]
  BY PairedExists
<1> HIDE DEF f
<1> DEFINE T == {n \in Nat : Balanced(stored, list, n, f[n])}
<1>3. 0 \in T
  <2>1. f[0].free = DOMAIN stored
    BY <1>2
  <2>2. \A v : SeenOf(list, 0, v) = {} /\ TakenOf(stored, f[0].free, v) = {}
    BY <2>1 DEF SeenOf, TakenOf
  <2>3. DOMAIN stored \ f[0].free = {}
    BY <2>1
  <2>4. Cardinality({}) = 0
    BY FS_EmptySet
  <2>5. Cardinality(DOMAIN stored \ f[0].free) = 0
    BY <2>3, <2>4
  <2>6. \A v : Cardinality(SeenOf(list, 0, v)) = Cardinality(TakenOf(stored, f[0].free, v))
    BY <2>2
  <2>7. Balanced(stored, list, 0, f[0])
    BY <2>5, <2>6 DEF Balanced
  <2> QED
    BY <2>7
<1>4. \A n \in 0 .. m - 1 : n \in T => n + 1 \in T
  <2> SUFFICES ASSUME NEW n \in 0 .. m - 1, Balanced(stored, list, n, f[n])
               PROVE  n + 1 \in Nat /\ Balanced(stored, list, n + 1, f[n + 1])
    OBVIOUS
  <2>1. n \in 0 .. m /\ n + 1 \in 1 .. m /\ (n + 1) - 1 = n /\ n + 1 \in Nat
    BY <1>1
  <2>2. f[n] \in Pairings(stored)
    BY <1>2, <2>1
  <2>3. f[n + 1] = Pair(stored, f[n], list[n + 1])
    BY <1>2, <2>1
  <2>4. Balanced(stored, list, n + 1, Pair(stored, f[n], list[n + 1]))
    BY <2>2, BalancedStep
  <2> QED
    BY <2>1, <2>3, <2>4
<1>5. m \in T
  <2> HIDE DEF T
  <2>1. \A n \in 0 .. m : n \in T
    BY <1>1, <1>3, <1>4, UpTo
  <2> QED
    BY <1>1, <2>1
<1> DEFINE free == f[m].free
           taken == DOMAIN stored \ free
<1>6. f[m].ok /\ (form.removable \/ free = {})
  BY <1>2 DEF RowsKept
<1>7. /\ \A v \in Values \ {form.default} :
           Cardinality(SeenOf(list, m, v)) = Cardinality(TakenOf(stored, free, v))
      /\ Cardinality(taken) <= m
      /\ ~form.addable => Cardinality(taken) = m
  BY <1>5, <1>6 DEF Balanced
<1>8. Cardinality(taken) \in Nat /\ Cardinality(taken) <= Len(stored)
  <2>1. taken \in SUBSET (1 .. Len(stored))
    BY <1>1
  <2> HIDE DEF taken
  <2> QED
    BY <1>1, <2>1, PositionsCount
<1>9. free = {} => Cardinality(taken) = Len(stored)
  <2>1. free = {} => taken = 1 .. Len(stored)
    BY <1>1
  <2>2. Cardinality(1 .. Len(stored)) = Len(stored)
    <3> DEFINE l == Len(stored)
    <3>1. l \in Nat /\ 1 \in Int /\ l \in Int
      BY <1>1
    <3> HIDE DEF l
    <3>2. Cardinality(1 .. l) = IF 1 > l THEN 0 ELSE l - 1 + 1
      BY <3>1, FS_Interval
    <3>3. Cardinality(1 .. l) = l
      BY <3>1, <3>2
    <3> QED
      BY <3>3 DEF l
  <2> QED
    BY <2>1, <2>2
<1> HIDE DEF free, f, T
<1>10. \A v : Count(list, v) = Cardinality(SeenOf(list, m, v)) /\ Count(stored, v) = Cardinality(all(v))
  BY <1>1 DEF Count, SeenOf
<1>11. \A v : Cardinality(TakenOf(stored, free, v)) <= Cardinality(all(v))
  <2> SUFFICES ASSUME NEW v
               PROVE  Cardinality(TakenOf(stored, free, v)) <= Cardinality(all(v))
    OBVIOUS
  <2>1. TakenOf(stored, free, v) \in SUBSET all(v) /\ all(v) \in SUBSET (1 .. Len(stored))
    BY <1>1 DEF TakenOf
  <2> HIDE DEF all
  <2>2. IsFiniteSet(all(v))
    BY <1>1, <2>1, PositionsCount
  <2> QED
    BY <2>1, <2>2, FS_Subset
<1>12. \A v : free = {} => TakenOf(stored, free, v) = all(v)
  BY DEF TakenOf
<1> HIDE DEF all, taken
<1>13. ASSUME NEW v \in Values \ {form.default}
       PROVE  IF form.removable THEN Count(list, v) <= Count(stored, v) ELSE Count(list, v) = Count(stored, v)
  BY <1>6, <1>7, <1>10, <1>11, <1>12
<1> QED
  BY <1>1, <1>6, <1>7, <1>8, <1>9, <1>13

\* Only the server's part of a value is bound to stay: a default may stand for a value left out.
LEMMA UnchangedPart ==
  ASSUME NEW st, NEW sub, Unchanged(st, sub)
  PROVE  ServerPart(sub) = ServerPart(st)
BY DEF Unchanged, ServerPart

LEMMA FormIsOfRows ==
  ASSUME NEW d \in FormData
  PROVE  /\ d.number \in ValuesOrMissing /\ d.rows \in Seq(ValuesOrMissing)
<1>1. d.rows \in BoundedSeq(ValuesOrMissing, MaxRows)
  BY DEF FormData
<1>2. PICK l \in 0 .. MaxRows : d.rows \in [1 .. l -> ValuesOrMissing]
  BY <1>1 DEF BoundedSeq, SeqOf
<1>3. l \in Nat
  BY FormsAssumption
<1>4. d.rows \in Seq(ValuesOrMissing)
  BY <1>2, <1>3
<1> QED
  BY <1>4 DEF FormData

FormsInv == FormsType /\ ServerValuesKept

\* Part by part, lists that keep each other's rows chain.
LEMMA CountsAreNumbers ==
  ASSUME NEW list \in Seq(ValuesOrMissing), NEW v
  PROVE  Count(list, v) \in Nat
<1>1. Len(list) \in Nat /\ {i \in DOMAIN list : ServerPart(list[i]) = v} \in SUBSET (1 .. Len(list))
  OBVIOUS
<1> QED
  BY <1>1, PositionsCount DEF Count

LEMMA SaveKeeps ==
  ASSUME FormsInv, NEW sub \in FormData, NEW draft \in BOOLEAN, Save(sub, draft)
  PROVE  FormsInv'
<1>1. /\ form' = form /\ given' = given /\ kept' = sub /\ submitted' = ~draft
      /\ Unchanged(kept.number, sub.number) /\ RowsKept(kept.rows, sub.rows)
  BY DEF Save, ReadOnlyKept
<1>2. form \in FormSchemas /\ given \in FormData /\ kept \in FormData
  BY DEF FormsInv, FormsType
<1>3. /\ given.rows \in Seq(ValuesOrMissing) /\ kept.rows \in Seq(ValuesOrMissing)
      /\ sub.rows \in Seq(ValuesOrMissing)
  BY <1>2, FormIsOfRows
<1>4. FormsType'
  BY <1>1, <1>2 DEF FormsType
<1>5. /\ \A v \in Values \ {form.default} :
           IF form.removable THEN Count(sub.rows, v) <= Count(kept.rows, v)
                             ELSE Count(sub.rows, v) = Count(kept.rows, v)
      /\ ~form.addable => Len(sub.rows) <= Len(kept.rows)
      /\ ~form.removable => Len(sub.rows) >= Len(kept.rows)
  BY <1>1, <1>2, <1>3, AcceptedRows
<1>6. ServerPart(sub.number) = ServerPart(kept.number)
  BY <1>1, UnchangedPart
<1>7. /\ ServerPart(kept.number) = ServerPart(given.number)
      /\ \A v \in Values \ {form.default} :
           IF form.removable THEN Count(kept.rows, v) <= Count(given.rows, v)
                             ELSE Count(kept.rows, v) = Count(given.rows, v)
      /\ ~form.addable => Len(kept.rows) <= Len(given.rows)
      /\ ~form.removable => Len(kept.rows) >= Len(given.rows)
  BY DEF FormsInv, ServerValuesKept
<1>8. \A v : Count(sub.rows, v) \in Nat /\ Count(kept.rows, v) \in Nat /\ Count(given.rows, v) \in Nat
  BY <1>3, CountsAreNumbers
<1>9. Len(sub.rows) \in Nat /\ Len(kept.rows) \in Nat /\ Len(given.rows) \in Nat
  BY <1>3
<1>10. ASSUME NEW v \in Values \ {form.default}
       PROVE  IF form.removable THEN Count(sub.rows, v) <= Count(given.rows, v)
                                ELSE Count(sub.rows, v) = Count(given.rows, v)
  <2>1. /\ IF form.removable THEN Count(sub.rows, v) <= Count(kept.rows, v)
                             ELSE Count(sub.rows, v) = Count(kept.rows, v)
        /\ IF form.removable THEN Count(kept.rows, v) <= Count(given.rows, v)
                             ELSE Count(kept.rows, v) = Count(given.rows, v)
    BY <1>5, <1>7
  <2> QED
    BY <1>8, <2>1
<1>11. /\ ~form.addable => Len(sub.rows) <= Len(given.rows)
       /\ ~form.removable => Len(sub.rows) >= Len(given.rows)
  BY <1>5, <1>7, <1>9
<1>12. ServerValuesKept'
  <2>1. \A v : /\ Count(kept.rows, v)' = Count(sub.rows, v) /\ Count(given.rows, v)' = Count(given.rows, v)
    BY <1>1 DEF Count, ServerPart
  <2>2. ServerPart(kept.number)' = ServerPart(sub.number) /\ ServerPart(given.number)' = ServerPart(given.number)
    BY <1>1 DEF ServerPart
  <2> QED
    BY <1>1, <1>6, <1>7, <1>10, <1>11, <2>1, <2>2 DEF ServerValuesKept
<1> QED
  BY <1>4, <1>12 DEF FormsInv

LEMMA FormsInitially == FormsInit(FormData) => FormsInv
<1> SUFFICES ASSUME FormsInit(FormData) PROVE FormsInv
  OBVIOUS
<1>1. FormsType /\ kept = given
  BY DEF FormsInit, FormsType
<1>2. Len(given.rows) \in Nat /\ \A v : Count(given.rows, v) \in Nat
  BY <1>1, FormIsOfRows, CountsAreNumbers DEF FormsType
<1> QED
  BY <1>1, <1>2 DEF FormsInv, ServerValuesKept

LEMMA FormsStep == FormsInv /\ [FormsNext]_formVars => FormsInv'
<1>1. FormsInv /\ UNCHANGED formVars => FormsInv'
  BY DEF FormsInv, FormsType, ServerValuesKept, Count, ServerPart, formVars, FormData, FormSchemas, ValuesOrMissing
<1> QED
  BY <1>1, SaveKeeps DEF FormsNext

\* The type invariant of a form and what its step holds.
THEOREM FormsTypeCorrect == FormsSpec => []FormsType
<1>1. FormsInv => FormsType
  BY DEF FormsInv
<1> QED
  BY <1>1, FormsInitially, FormsStep, PTL DEF FormsSpec

\* Whatever the form's default and switches, and however often a step is saved: the server's values
\* are there as they were, once each.
THEOREM ServerValuesStay == FormsSpec => []ServerValuesKept
<1>1. FormsInv => ServerValuesKept
  BY DEF FormsInv
<1> QED
  BY <1>1, FormsInitially, FormsStep, PTL DEF FormsSpec

----------------------------------------------------------------------------
(***************************************************************************)
(* The read-only check, for any document: any number of schemas under one  *)
(* another, with $refs from any to any. What is reached from some schemas  *)
(* is the least set with them that the keywords do not lead out of.        *)
(***************************************************************************)
Closed(edges, keywords, G) == \A e \in edges : e[1] \in G /\ e[2] \in keywords => e[3] \in G

Reaches(r, edges, keywords, S) ==
  r = [n \in 0 .. Cardinality(SchemaNodes) |->
         IF n = 0 THEN S ELSE r[n - 1] \cup Under(edges, keywords, r[n - 1])]
ReachedBy(edges, keywords, S) == CHOOSE r : Reaches(r, edges, keywords, S)

\* r grows from S to what is reached, and each step adds what is under it.
Climbs(r, edges, keywords, S) ==
  /\ r \in [0 .. Cardinality(SchemaNodes) -> SUBSET SchemaNodes]
  /\ r[0] = S
  /\ \A n \in 1 .. Cardinality(SchemaNodes) : r[n] = r[n - 1] \cup Under(edges, keywords, r[n - 1])
  /\ Reached(edges, keywords, S) = r[Cardinality(SchemaNodes)]

LEMMA ReachedSteps ==
  ASSUME NEW edges \in SUBSET Edges, NEW keywords, NEW S \in SUBSET SchemaNodes
  PROVE  Climbs(ReachedBy(edges, keywords, S), edges, keywords, S)
<1> DEFINE m == Cardinality(SchemaNodes)
           X == SUBSET SchemaNodes
           step == [p \in (1 .. m) \X X |-> p[2] \cup Under(edges, keywords, p[2])]
<1>1. m \in Nat
  BY SchemasAssumption, FS_CardinalityType
<1>2. \A G \in X : G \cup Under(edges, keywords, G) \in X
  BY DEF Under, Edges
<1>3. step \in [(1 .. m) \X X -> X]
  BY <1>2
<1>4. \A n \in 1 .. m : \A G \in X : step[<<n, G>>] = G \cup Under(edges, keywords, G)
  OBVIOUS
<1>5. S \in X
  OBVIOUS
<1> HIDE DEF step, m, X
<1>6. PICK f \in [0 .. m -> X] : Recurs(f, S, step, m)
  BY <1>1, <1>3, <1>5, RecursionExists
<1>7. f = [n \in 0 .. m |-> IF n = 0 THEN S ELSE f[n - 1] \cup Under(edges, keywords, f[n - 1])]
  <2>1. \A n \in 0 .. m : n = 0 \/ n \in 1 .. m
    BY <1>1
  <2>2. ASSUME NEW n \in 1 .. m
        PROVE  f[n] = f[n - 1] \cup Under(edges, keywords, f[n - 1])
    <3>1. n - 1 \in 0 .. m
      BY <1>1
    <3>2. f[n - 1] \in X
      BY <1>6, <3>1
    <3> QED
      BY <1>4, <1>6, <3>2 DEF Recurs
  <2>3. f[0] = S
    BY <1>6 DEF Recurs
  <2>4. \A n \in 0 .. m : f[n] = IF n = 0 THEN S ELSE f[n - 1] \cup Under(edges, keywords, f[n - 1])
    BY <2>1, <2>2, <2>3
  <2>5. f = [n \in 0 .. m |-> f[n]]
    BY <1>6
  <2> QED
    BY <2>4, <2>5
<1>8. Reaches(f, edges, keywords, S)
  BY <1>7 DEF Reaches, m
<1> DEFINE r == ReachedBy(edges, keywords, S)
<1>9. Reaches(r, edges, keywords, S)
  BY <1>8 DEF ReachedBy
<1>10. Reached(edges, keywords, S) = r[m]
  BY DEF Reached, ReachedBy, Reaches, m
<1> HIDE DEF r
<1>11. r = [n \in 0 .. m |-> IF n = 0 THEN S ELSE r[n - 1] \cup Under(edges, keywords, r[n - 1])]
  BY <1>9 DEF Reaches, m
<1>12. /\ r = [n \in 0 .. m |-> r[n]] /\ r[0] = S
       /\ \A n \in 1 .. m : r[n] = r[n - 1] \cup Under(edges, keywords, r[n - 1])
  <2>1. 0 \in 0 .. m /\ \A n \in 1 .. m : n \in 0 .. m /\ n # 0
    BY <1>1
  <2>2. r = [n \in 0 .. m |-> r[n]]
    BY <1>11
  <2>3. \A n \in 0 .. m : r[n] = IF n = 0 THEN S ELSE r[n - 1] \cup Under(edges, keywords, r[n - 1])
    BY <1>11
  <2> QED
    BY <2>1, <2>2, <2>3
<1>13. r \in [0 .. m -> X]
  <2>1. \A n \in 1 .. m : r[n - 1] \in X => r[n] \in X
    BY <1>2, <1>12
  <2>2. r[0] \in X
    BY <1>5, <1>12
  <2>3. r = [n \in 0 .. m |-> r[n]]
    BY <1>12
  <2> QED
    BY <1>1, <2>1, <2>2, <2>3, RecursionStays
<1> QED
  BY <1>10, <1>12, <1>13 DEF r, m, X, Climbs

\* Each step of it adds a schema or comes to an end, and there are no more steps than schemas.
LEMMA ReachedIs ==
  ASSUME NEW edges \in SUBSET Edges, NEW keywords, NEW S \in SUBSET SchemaNodes
  PROVE  /\ Reached(edges, keywords, S) \in SUBSET SchemaNodes
         /\ S \subseteq Reached(edges, keywords, S)
         /\ Closed(edges, keywords, Reached(edges, keywords, S))
<1> DEFINE m == Cardinality(SchemaNodes)
           r == ReachedBy(edges, keywords, S)
<1>0. Climbs(r, edges, keywords, S)
  BY ReachedSteps
<1> HIDE DEF r
<1>1. /\ r \in [0 .. m -> SUBSET SchemaNodes] /\ r[0] = S
      /\ \A n \in 1 .. m : r[n] = r[n - 1] \cup Under(edges, keywords, r[n - 1])
      /\ Reached(edges, keywords, S) = r[m]
  BY <1>0 DEF Climbs
<1>2. m \in Nat /\ IsFiniteSet(SchemaNodes)
  BY SchemasAssumption, FS_CardinalityType
<1> HIDE DEF m
<1> DEFINE T == {n \in 0 .. m : /\ S \subseteq r[n]
                                /\ Cardinality(r[n]) >= n \/ Closed(edges, keywords, r[n])}
<1>3. \A n \in 0 .. m : r[n] \in SUBSET SchemaNodes /\ IsFiniteSet(r[n]) /\ Cardinality(r[n]) \in Nat
  BY <1>1, <1>2, FS_Subset, FS_CardinalityType
<1>4. 0 \in T
  <2>1. 0 \in 0 .. m
    BY <1>2
  <2> QED
    BY <1>1, <1>3, <2>1
<1>5. \A n \in 0 .. m - 1 : n \in T => n + 1 \in T
  <2> SUFFICES ASSUME NEW n \in 0 .. m - 1, n \in T
               PROVE  n + 1 \in T
    OBVIOUS
  <2>1. n \in 0 .. m /\ n + 1 \in 1 .. m /\ n + 1 \in 0 .. m /\ (n + 1) - 1 = n /\ n \in Nat
    BY <1>2
  <2>2. r[n + 1] = r[n] \cup Under(edges, keywords, r[n])
    BY <1>1, <2>1
  <2>3. S \subseteq r[n + 1]
    BY <2>2
  <2>4. CASE Closed(edges, keywords, r[n])
    <3>1. r[n + 1] = r[n]
      BY <2>2, <2>4 DEF Closed, Under
    <3> QED
      BY <2>1, <2>3, <2>4, <3>1
  <2>5. CASE ~Closed(edges, keywords, r[n])
    <3>1. r[n + 1] # r[n]
      BY <2>2, <2>5 DEF Closed, Under
    <3>2. r[n] \in SUBSET r[n + 1]
      BY <2>2
    <3>3. Cardinality(r[n]) <= Cardinality(r[n + 1]) /\ Cardinality(r[n]) # Cardinality(r[n + 1])
      BY <1>3, <2>1, <3>1, <3>2, FS_Subset
    <3>4. Cardinality(r[n]) >= n
      BY <2>5
    <3>5. Cardinality(r[n]) \in Nat /\ Cardinality(r[n + 1]) \in Nat
      BY <1>3, <2>1
    <3>6. Cardinality(r[n + 1]) >= n + 1
      BY <2>1, <3>3, <3>4, <3>5
    <3> QED
      BY <2>1, <2>3, <3>6
  <2> QED
    BY <2>4, <2>5
<1>6. m \in T
  <2> HIDE DEF T
  <2>1. \A n \in 0 .. m : n \in T
    BY <1>2, <1>4, <1>5, UpTo
  <2>2. m \in 0 .. m
    BY <1>2
  <2> QED
    BY <2>1, <2>2
<1>7. r[m] \in SUBSET SchemaNodes
  BY <1>2, <1>3
<1>8. Closed(edges, keywords, r[m])
  <2> SUFFICES ASSUME Cardinality(r[m]) >= m
               PROVE  Closed(edges, keywords, r[m])
    BY <1>6
  <2>1. Cardinality(r[m]) <= m /\ (Cardinality(r[m]) = m => r[m] = SchemaNodes)
    BY <1>2, <1>7, FS_Subset DEF m
  <2>2. Cardinality(r[m]) \in Nat
    BY <1>2, <1>3
  <2>3. r[m] = SchemaNodes
    BY <1>2, <2>1, <2>2
  <2> QED
    BY <2>3 DEF Closed, Edges
<1> QED
  BY <1>1, <1>6, <1>7, <1>8

LEMMA ReachedLeast ==
  ASSUME NEW edges \in SUBSET Edges, NEW keywords, NEW S \in SUBSET SchemaNodes,
         NEW G, S \subseteq G, Closed(edges, keywords, G)
  PROVE  Reached(edges, keywords, S) \subseteq G
<1> DEFINE m == Cardinality(SchemaNodes)
           r == ReachedBy(edges, keywords, S)
<1>0. Climbs(r, edges, keywords, S)
  BY ReachedSteps
<1> HIDE DEF r
<1>1. /\ r \in [0 .. m -> SUBSET SchemaNodes] /\ r[0] = S
      /\ \A n \in 1 .. m : r[n] = r[n - 1] \cup Under(edges, keywords, r[n - 1])
      /\ Reached(edges, keywords, S) = r[m]
  BY <1>0 DEF Climbs
<1>2. m \in Nat
  BY SchemasAssumption, FS_CardinalityType
<1> HIDE DEF m
<1> DEFINE T == {n \in Nat : r[n] \subseteq G}
<1>3. 0 \in T
  BY <1>1
<1>4. \A n \in 0 .. m - 1 : n \in T => n + 1 \in T
  <2> SUFFICES ASSUME NEW n \in 0 .. m - 1, r[n] \subseteq G
               PROVE  n + 1 \in Nat /\ r[n + 1] \subseteq G
    OBVIOUS
  <2>1. n + 1 \in 1 .. m /\ (n + 1) - 1 = n /\ n + 1 \in Nat
    BY <1>2
  <2>2. r[n + 1] = r[n] \cup Under(edges, keywords, r[n])
    BY <1>1, <2>1
  <2>3. Under(edges, keywords, r[n]) \subseteq G
    BY DEF Closed, Under
  <2> QED
    BY <2>1, <2>2, <2>3
<1>5. m \in T
  <2> HIDE DEF T
  <2>1. \A n \in 0 .. m : n \in T
    BY <1>2, <1>3, <1>4, UpTo
  <2> QED
    BY <1>2, <2>1
<1> QED
  BY <1>1, <1>5

----------------------------------------------------------------------------
\* The schemas that a readOnly is written behind, by any keywords at all.
Live == {s \in SchemaNodes : Reached(document.edges, Keywords, {s}) \cap document.readOnly # {}}
\* The schemas that the check follows from the root.
Inner == Reached(Compiled, Followed, {1})
\* A document that is accepted, with no $ref beside a $ref.
Sound == document \in SchemaDocuments /\ ~RefSiblings /\ ~RefusedReadOnly /\ ~RefBesideRef
\* The keywords that put a schema on the same value in the browser.
OnValue == {"$ref", "allOf", "oneOf"}

LEMMA DocumentIs ==
  ASSUME document \in SchemaDocuments
  PROVE  /\ document.edges \in SUBSET Edges /\ Compiled \in SUBSET Edges /\ Compiled \subseteq document.edges
         /\ document.readOnly \in SUBSET SchemaNodes
         /\ \A e \in document.edges : e[1] \in SchemaNodes /\ e[2] \in Keywords /\ e[3] \in SchemaNodes
BY DEF SchemaDocuments, Compiled, Edges

\* A readOnly is live, and what leads to what is live is live.
LEMMA LiveBack ==
  ASSUME document \in SchemaDocuments
  PROVE  /\ document.readOnly \subseteq Live
         /\ \A e \in document.edges : e[3] \in Live => e[1] \in Live
<1> DEFINE E == document.edges
           from(s) == Reached(E, Keywords, {s})
<1>1. E \in SUBSET Edges
  BY DocumentIs
<1>2. \A s \in SchemaNodes : s \in from(s) /\ Closed(E, Keywords, from(s))
  BY <1>1, ReachedIs
<1>3. document.readOnly \subseteq Live
  <2> SUFFICES ASSUME NEW s \in document.readOnly
               PROVE  s \in Live
    OBVIOUS
  <2>1. s \in SchemaNodes
    BY DocumentIs
  <2> QED
    BY <1>2, <2>1 DEF Live
<1>4. ASSUME NEW e \in E, e[3] \in Live
      PROVE  e[1] \in Live
  <2>1. e[1] \in SchemaNodes /\ e[2] \in Keywords /\ e[3] \in SchemaNodes
    BY DocumentIs
  <2>2. e[3] \in from(e[1])
    BY <1>2, <2>1 DEF Closed
  <2>3. from(e[3]) \subseteq from(e[1])
    <3>1. {e[3]} \in SUBSET SchemaNodes /\ {e[3]} \subseteq from(e[1]) /\ Closed(E, Keywords, from(e[1]))
      BY <1>2, <2>1, <2>2
    <3> HIDE DEF E
    <3> QED
      BY <1>1, <3>1, ReachedLeast
  <2> QED
    BY <1>4, <2>1, <2>3 DEF Live
<1> QED
  BY <1>3, <1>4

\* What is live has a readOnly in every set that its live ways do not lead out of.
LEMMA LiveMeets ==
  ASSUME document \in SchemaDocuments, NEW t \in Live, NEW G, t \in G,
         \A e \in document.edges : e[1] \in G /\ e[3] \in Live => e[3] \in G
  PROVE  G \cap document.readOnly # {}
<1> DEFINE E == document.edges
           H == G \cup (SchemaNodes \ Live)
<1>1. E \in SUBSET Edges /\ t \in SchemaNodes
  BY DocumentIs DEF Live
<1>2. Closed(E, Keywords, H)
  <2> SUFFICES ASSUME NEW e \in E, e[1] \in H
               PROVE  e[3] \in H
    BY DEF Closed
  <2>1. e[3] \in SchemaNodes
    BY DocumentIs
  <2>2. e[3] \in Live => e[1] \in Live
    BY LiveBack
  <2> QED
    BY <2>1, <2>2
<1>3. Reached(E, Keywords, {t}) \subseteq H
  <2>1. {t} \in SUBSET SchemaNodes /\ {t} \subseteq H
    BY <1>1
  <2> HIDE DEF E, H
  <2> QED
    BY <1>1, <1>2, <2>1, ReachedLeast
<1>4. PICK y \in document.readOnly : y \in Reached(E, Keywords, {t})
  BY DEF Live
<1>5. y \in Live
  BY LiveBack
<1> QED
  BY <1>3, <1>4, <1>5

\* The library drops no way to a readOnly: refSiblings refuses a document in which it would.
LEMMA LiveIsCompiled ==
  ASSUME Sound, NEW e \in document.edges, e[3] \in Live
  PROVE  e \in Compiled
<1> SUFFICES ASSUME e \notin Compiled
             PROVE  FALSE
  OBVIOUS
<1> DEFINE E == document.edges
           K == Keywords \ {"$ref"}
           beside == Under(E, K, {e[1]})
           W == Reached(E, K, beside)
<1>0. document \in SchemaDocuments
  BY DEF Sound
<1>1. HasRef(e[1]) /\ e[2] # "$ref"
  BY DEF Compiled
<1>2. e[1] \in SchemaNodes /\ e[2] \in K /\ e[3] \in SchemaNodes /\ E \in SUBSET Edges
  BY <1>0, <1>1, DocumentIs
<1>3. e[3] \in beside
  BY <1>2 DEF Under
<1>4. beside \in SUBSET SchemaNodes
  BY <1>2 DEF Under, Edges
<1>5. beside \subseteq W /\ Closed(E, K, W)
  <2> HIDE DEF E, K, beside
  <2> QED
    BY <1>2, <1>4, ReachedIs
<1>6. \A t \in W : ~HasRef(t)
  BY <1>1, <1>2 DEF Sound, RefBesideRef
<1>7. \A f \in E : f[1] \in W => f[3] \in W
  <2> SUFFICES ASSUME NEW f \in E, f[1] \in W
               PROVE  f[3] \in W
    OBVIOUS
  <2>1. f[2] # "$ref"
    BY <1>6 DEF HasRef
  <2>2. f[2] \in K
    BY <1>0, <2>1, DocumentIs
  <2> QED
    BY <1>5, <2>2 DEF Closed
<1>8. W \cap document.readOnly # {}
  <2>1. e[3] \in W
    BY <1>3, <1>5
  <2> HIDE DEF W
  <2> QED
    BY <1>0, <1>7, <2>1, LiveMeets
<1>9. HoldsReadOnly(beside) /\ document.readOnly # {}
  BY <1>8 DEF HoldsReadOnly
<1> QED
  BY <1>1, <1>2, <1>9 DEF Sound, RefSiblings

\* From where the check has come, each way to a readOnly is one that it follows.
LEMMA LiveIsFollowed ==
  ASSUME Sound, NEW e \in document.edges, e[1] \in Inner, e[3] \in Live
  PROVE  e \in Compiled /\ e[2] \in Followed /\ e[3] \in Inner
<1> DEFINE under == Under(Compiled, {"oneOf"}, Inner)
           G == Reached(Compiled, Keywords, under)
<1>1. document \in SchemaDocuments
  BY DEF Sound
<1>2. e \in Compiled
  BY LiveIsCompiled
<1>3. Compiled \in SUBSET Edges /\ {1} \in SUBSET SchemaNodes /\ e[2] \in Keywords
  BY <1>1, DocumentIs, SchemasAssumption
<1>4. Closed(Compiled, Followed, Inner)
  BY <1>3, ReachedIs DEF Inner
<1>5. e[2] # "oneOf"
  <2> SUFFICES ASSUME e[2] = "oneOf"
               PROVE  FALSE
    OBVIOUS
  <2>1. e[3] \in under
    BY <1>2 DEF Under
  <2>2. under \in SUBSET SchemaNodes
    BY <1>3 DEF Under, Edges
  <2>3. under \subseteq G /\ Closed(Compiled, Keywords, G)
    <3> HIDE DEF under
    <3> QED
      BY <1>3, <2>2, ReachedIs
  <2>4. \A f \in document.edges : f[1] \in G /\ f[3] \in Live => f[3] \in G
    <3> SUFFICES ASSUME NEW f \in document.edges, f[1] \in G, f[3] \in Live
                 PROVE  f[3] \in G
      OBVIOUS
    <3>1. f \in Compiled /\ f[2] \in Keywords
      BY <1>1, LiveIsCompiled, DocumentIs
    <3> QED
      BY <2>3, <3>1 DEF Closed
  <2>5. G \cap document.readOnly # {}
    <3>1. e[3] \in G
      BY <2>1, <2>3
    <3> HIDE DEF G
    <3> QED
      BY <1>1, <2>4, <3>1, LiveMeets
  <2> QED
    BY <2>5 DEF Sound, RefusedReadOnly, Inner
<1>6. e[2] \in Followed
  BY <1>3, <1>5 DEF Keywords
<1> QED
  BY <1>2, <1>4, <1>6 DEF Closed

LEMMA LiveReaches ==
  ASSUME Sound, NEW s \in Inner, s \in Live
  PROVE  ReachesReadOnly(s)
<1> DEFINE G == Reached(Compiled, Followed, {s})
<1>1. document \in SchemaDocuments
  BY DEF Sound
<1>2. Compiled \in SUBSET Edges /\ {1} \in SUBSET SchemaNodes /\ {s} \in SUBSET SchemaNodes
  BY <1>1, DocumentIs, SchemasAssumption DEF Live
<1>3. s \in G /\ Closed(Compiled, Followed, G)
  BY <1>2, ReachedIs
<1>4. G \subseteq Inner
  <2>1. Closed(Compiled, Followed, Inner) /\ {s} \subseteq Inner
    BY <1>2, ReachedIs DEF Inner
  <2> QED
    BY <1>2, <2>1, ReachedLeast
<1>5. \A f \in document.edges : f[1] \in G /\ f[3] \in Live => f[3] \in G
  <2> SUFFICES ASSUME NEW f \in document.edges, f[1] \in G, f[3] \in Live
               PROVE  f[3] \in G
    OBVIOUS
  <2>1. f \in Compiled /\ f[2] \in Followed
    BY <1>4, LiveIsFollowed
  <2> QED
    BY <1>3, <2>1 DEF Closed
<1>6. G \cap document.readOnly # {}
  <2> HIDE DEF G
  <2> QED
    BY <1>1, <1>3, <1>5, LiveMeets
<1> QED
  BY <1>6 DEF ReachesReadOnly

----------------------------------------------------------------------------
\* What the check compares applies to the value, whatever the document.
LEMMA NodeWithin ==
  ASSUME document \in SchemaDocuments, NEW S1 \in SUBSET SchemaNodes, NEW S \in SUBSET S1
  PROVE  /\ NodeOf(S) \subseteq Reached(document.edges, OnValue, S1)
         /\ NodeOf(S) \in SUBSET SchemaNodes
         /\ NodeOf(S) # {} => document.readOnly # {}
<1> DEFINE E == document.edges
           V == {"$ref", "allOf"}
           G == Reached(E, OnValue, S1)
<1>1. E \in SUBSET Edges /\ Compiled \in SUBSET Edges /\ Compiled \subseteq E /\ S \in SUBSET SchemaNodes
  BY DocumentIs
<1>2. G \in SUBSET SchemaNodes /\ S1 \subseteq G /\ Closed(E, OnValue, G)
  <2> HIDE DEF E
  <2> QED
    BY <1>1, ReachedIs
<1>3. Closed(Compiled, V, G) /\ S \subseteq G
  BY <1>1, <1>2 DEF Closed, OnValue
<1>4. SameValue(S) \subseteq G
  <2> HIDE DEF G
  <2> QED
    BY <1>1, <1>3, ReachedLeast DEF SameValue
<1>5. NodeOf(S) \subseteq SameValue(S)
  BY DEF NodeOf
<1>6. NodeOf(S) # {} => document.readOnly # {}
  BY DEF NodeOf, ReachesReadOnly
<1> QED
  BY <1>2, <1>4, <1>5, <1>6

\* And it is all that applies to the value and that a readOnly is written behind.
LEMMA NodeSees ==
  ASSUME Sound, NEW S1 \in SUBSET SchemaNodes, NEW S \in SUBSET Inner, S1 \cap Live \subseteq S
  PROVE  /\ NodeOf(S) \subseteq Inner
         /\ Reached(document.edges, OnValue, S1) \cap Live \subseteq NodeOf(S)
<1> DEFINE E == document.edges
           K == {"$ref", "allOf"}
           V == SameValue(S)
           H == V \cup (SchemaNodes \ Live)
<1>0. document \in SchemaDocuments
  BY DEF Sound
<1>1. E \in SUBSET Edges /\ Compiled \in SUBSET Edges /\ {1} \in SUBSET SchemaNodes
  BY <1>0, DocumentIs, SchemasAssumption
<1>2. Inner \in SUBSET SchemaNodes /\ Closed(Compiled, Followed, Inner)
  BY <1>1, ReachedIs DEF Inner
<1>3. S \subseteq V /\ Closed(Compiled, K, V)
  <2>1. S \in SUBSET SchemaNodes
    BY <1>2
  <2> QED
    BY <1>1, <2>1, ReachedIs DEF SameValue
<1>4. V \subseteq Inner
  <2>1. Closed(Compiled, K, Inner) /\ S \in SUBSET SchemaNodes
    BY <1>2 DEF Closed, Followed
  <2> QED
    BY <1>1, <2>1, ReachedLeast DEF SameValue
<1>5. Closed(E, OnValue, H)
  <2> SUFFICES ASSUME NEW e \in E, e[1] \in H, e[2] \in OnValue, e[3] \in Live
               PROVE  e[3] \in V
    <3>1. \A e \in E : e[3] \in SchemaNodes
      BY <1>0, DocumentIs
    <3> HIDE DEF V
    <3> QED
      BY <3>1 DEF Closed
  <2>1. e[1] \in Live
    BY <1>0, LiveBack
  <2>2. e[1] \in V
    BY <2>1
  <2>3. e \in Compiled /\ e[2] \in Followed
    BY <1>4, <2>2, LiveIsFollowed
  <2>4. e[2] \in K
    BY <2>3 DEF OnValue, Followed
  <2> QED
    BY <1>3, <2>2, <2>3, <2>4 DEF Closed
<1>6. Reached(E, OnValue, S1) \subseteq H
  <2>1. S1 \subseteq H
    BY <1>3
  <2> HIDE DEF E, H
  <2> QED
    BY <1>1, <1>5, <2>1, ReachedLeast
<1>7. ASSUME NEW x \in Reached(E, OnValue, S1), x \in Live
      PROVE  x \in NodeOf(S)
  <2>1. x \in V /\ x \in Inner
    BY <1>4, <1>6, <1>7
  <2>2. ReachesReadOnly(x)
    BY <1>7, <2>1, LiveReaches
  <2> QED
    BY <2>1, <2>2 DEF NodeOf
<1> QED
  BY <1>4, <1>7 DEF NodeOf

----------------------------------------------------------------------------
Applies(at, path) ==
  at = [n \in 0 .. Len(path) |->
          Reached(document.edges, {"$ref", "allOf", "oneOf"},
                  IF n = 0 THEN {1} ELSE Under(document.edges, {path[n]}, at[n - 1]))]

\* What may apply at the end of a path, from what may apply before it.
Below(S, token) == Reached(document.edges, OnValue, Under(document.edges, {token}, S))

Descends(at, path) ==
  /\ at \in [0 .. Len(path) -> SUBSET SchemaNodes]
  /\ at[0] = Reached(document.edges, OnValue, {1})
  /\ \A n \in 1 .. Len(path) : at[n] = Below(at[n - 1], path[n])

LEMMA BelowIs ==
  ASSUME document \in SchemaDocuments, NEW S, NEW token
  PROVE  /\ Under(document.edges, {token}, S) \in SUBSET SchemaNodes
         /\ Below(S, token) \in SUBSET SchemaNodes
<1>1. document.edges \in SUBSET Edges /\ {1} \in SUBSET SchemaNodes
  BY DocumentIs, SchemasAssumption
<1>2. Under(document.edges, {token}, S) \in SUBSET SchemaNodes
  BY <1>1 DEF Under, Edges
<1>3. Below(S, token) \in SUBSET SchemaNodes
  <2> DEFINE S1 == Under(document.edges, {token}, S)
  <2>0. S1 \in SUBSET SchemaNodes
    BY <1>2
  <2> HIDE DEF S1
  <2>1. Reached(document.edges, OnValue, S1) \in SUBSET SchemaNodes
    BY <1>1, <2>0, ReachedIs
  <2> QED
    BY <2>1 DEF Below, S1
<1> QED
  BY <1>2, <1>3

LEMMA ApplyingIs ==
  ASSUME document \in SchemaDocuments, NEW path \in Seq(PathTokens)
  PROVE  Descends(ApplyingTo(path), path)
<1> DEFINE m == Len(path)
           X == SUBSET SchemaNodes
           top == Reached(document.edges, OnValue, {1})
           step == [p \in (1 .. m) \X X |-> Below(p[2], path[p[1]])]
<1>1. m \in Nat /\ top \in X
  <2>1. document.edges \in SUBSET Edges /\ {1} \in SUBSET SchemaNodes
    BY DocumentIs, SchemasAssumption
  <2>2. top \in X
    BY <2>1, ReachedIs
  <2> QED
    BY <2>2
<1>0. \A S, token : Below(S, token) \in X
  <2> SUFFICES ASSUME NEW S, NEW token
               PROVE  Below(S, token) \in X
    OBVIOUS
  <2> QED
    BY BelowIs
<1>2. step \in [(1 .. m) \X X -> X]
  BY <1>0
<1>3. \A n \in 1 .. m : \A S \in X : step[<<n, S>>] = Below(S, path[n])
  OBVIOUS
<1> DEFINE body(at, n) == Reached(document.edges, {"$ref", "allOf", "oneOf"},
                                  IF n = 0 THEN {1} ELSE Under(document.edges, {path[n]}, at[n - 1]))
<1>4. \A at : /\ body(at, 0) = top
              /\ \A n \in 1 .. m : body(at, n) = Below(at[n - 1], path[n])
  BY DEF OnValue, Below
<1> HIDE DEF step, m, X, top
<1>5. PICK f \in [0 .. m -> X] : Recurs(f, top, step, m)
  BY <1>1, <1>2, RecursionExists
<1>6. \A n \in 0 .. m : f[n] = body(f, n)
  <2>1. \A n \in 0 .. m : n = 0 \/ n \in 1 .. m
    BY <1>1
  <2>2. ASSUME NEW n \in 1 .. m
        PROVE  f[n] = Below(f[n - 1], path[n])
    <3>1. n - 1 \in 0 .. m
      BY <1>1
    <3>2. f[n - 1] \in X
      BY <1>5, <3>1
    <3> QED
      BY <1>3, <1>5, <3>2 DEF Recurs
  <2>3. f[0] = top
    BY <1>5 DEF Recurs
  <2> HIDE DEF body
  <2> QED
    BY <1>4, <2>1, <2>2, <2>3
<1>7. f = [n \in 0 .. m |-> body(f, n)]
  <2>1. f = [n \in 0 .. m |-> f[n]]
    BY <1>5
  <2> HIDE DEF body
  <2> QED
    BY <1>6, <2>1
<1>8. Applies(f, path)
  BY <1>7 DEF Applies, m
<1> DEFINE at == ApplyingTo(path)
<1>9. Applies(at, path)
  <2>1. at = CHOOSE g : Applies(g, path)
    BY DEF ApplyingTo, Applies
  <2> HIDE DEF at
  <2> QED
    BY <1>8, <2>1
<1> HIDE DEF at
<1>10. at = [n \in 0 .. m |-> body(at, n)]
  BY <1>9 DEF Applies, m
<1>11. /\ at = [n \in 0 .. m |-> at[n]] /\ at[0] = top
       /\ \A n \in 1 .. m : at[n] = Below(at[n - 1], path[n])
  <2> HIDE DEF body
  <2>1. 0 \in 0 .. m /\ \A n \in 1 .. m : n \in 0 .. m
    BY <1>1
  <2>2. at = [n \in 0 .. m |-> at[n]] /\ \A n \in 0 .. m : at[n] = body(at, n)
    BY <1>10
  <2> QED
    BY <1>4, <2>1, <2>2
<1>12. at \in [0 .. m -> X]
  <2>1. \A n \in 1 .. m : at[n - 1] \in X => at[n] \in X
    BY <1>0, <1>11
  <2> QED
    BY <1>1, <1>11, <2>1, RecursionStays
<1> QED
  BY <1>11, <1>12 DEF Descends, at, m, X, top

\* What applies along a path does not depend on how it goes on.
LEMMA ApplyingGrows ==
  ASSUME document \in SchemaDocuments, NEW path \in Seq(PathTokens), NEW token \in PathTokens
  PROVE  /\ \A n \in 0 .. Len(path) : ApplyingTo(Append(path, token))[n] = ApplyingTo(path)[n]
         /\ ApplyingTo(Append(path, token))[Len(path) + 1] = Below(ApplyingTo(path)[Len(path)], token)
<1> DEFINE long == Append(path, token)
           l == ApplyingTo(long)
           s == ApplyingTo(path)
           m == Len(path)
<1>1. m \in Nat /\ long \in Seq(PathTokens) /\ Len(long) = m + 1
      /\ long[m + 1] = token /\ \A n \in 1 .. m : long[n] = path[n]
  OBVIOUS
<1>2. Descends(l, long) /\ Descends(s, path)
  BY <1>1, ApplyingIs
<1> HIDE DEF l, s, long, m
<1>3. l[0] = s[0]
  BY <1>2 DEF Descends
<1>4. /\ \A n \in 1 .. m + 1 : l[n] = Below(l[n - 1], long[n])
      /\ \A n \in 1 .. m : s[n] = Below(s[n - 1], path[n])
  BY <1>1, <1>2 DEF Descends, m
<1> DEFINE T == {n \in Nat : l[n] = s[n]}
<1>5. 0 \in T
  BY <1>3
<1>6. \A n \in 0 .. m - 1 : n \in T => n + 1 \in T
  <2> SUFFICES ASSUME NEW n \in 0 .. m - 1, l[n] = s[n]
               PROVE  n + 1 \in Nat /\ l[n + 1] = s[n + 1]
    OBVIOUS
  <2>1. n + 1 \in 1 .. m /\ n + 1 \in 1 .. m + 1 /\ (n + 1) - 1 = n /\ n + 1 \in Nat
    BY <1>1
  <2> QED
    BY <1>1, <1>4, <2>1
<1>7. \A n \in 0 .. m : n \in T
  <2> HIDE DEF T
  <2> QED
    BY <1>1, <1>5, <1>6, UpTo
<1>8. l[m + 1] = Below(s[m], token)
  <2>1. m + 1 \in 1 .. m + 1 /\ (m + 1) - 1 = m /\ m \in 0 .. m
    BY <1>1
  <2>2. l[m] = s[m]
    BY <1>7, <2>1
  <2> QED
    BY <1>1, <1>4, <2>1, <2>2
<1> QED
  BY <1>7, <1>8 DEF l, s, m, long

----------------------------------------------------------------------------
Marked == \E n \in 0 .. Len(walk.path) : Applying[n] \cap document.readOnly # {}

WalkInv ==
  /\ ~RefSiblings /\ ~RefusedReadOnly
  /\ walk.node \subseteq Applying[Len(walk.path)]
  /\ walk.node # {} => document.readOnly # {}
  /\ walk.owned => Marked
  /\ ~RefBesideRef => /\ walk.node \subseteq Inner
                      /\ Applying[Len(walk.path)] \cap Live \subseteq walk.node
                      /\ Marked => walk.owned

SchemasInv ==
  /\ SchemasType
  /\ walk.pc = "load" => walk.path = << >>
  /\ walk.pc = "walk" => WalkInv

LEMMA SchemasTypeIs ==
  ASSUME SchemasType
  PROVE  /\ document \in SchemaDocuments
         /\ walk.path \in Seq(PathTokens) /\ walk.node \in SUBSET SchemaNodes /\ walk.owned \in BOOLEAN
         /\ walk.pc \in {"load", "refused", "walk"}
BY DEF SchemasType

Walks == [pc : {"load", "refused", "walk"}, path : Seq(PathTokens), node : SUBSET SchemaNodes, owned : BOOLEAN]

\* What the invariant says of a walk depends on the document, the path, the node and what is owned.
LEMMA WalkedOn ==
  ASSUME document' = document, walk' \in Walks,
         document \in SchemaDocuments, ~RefSiblings, ~RefusedReadOnly,
         NEW m, Len(walk'.path) = m,
         walk'.node \subseteq ApplyingTo(walk'.path)[m],
         walk'.node # {} => document.readOnly # {},
         walk'.owned => \E n \in 0 .. m : ApplyingTo(walk'.path)[n] \cap document.readOnly # {},
         ~RefBesideRef => /\ walk'.node \subseteq Inner
                          /\ ApplyingTo(walk'.path)[m] \cap Live \subseteq walk'.node
                          /\ (\E n \in 0 .. m : ApplyingTo(walk'.path)[n] \cap document.readOnly # {}) => walk'.owned
  PROVE  WalkInv'
<1>1. /\ RefSiblings' = RefSiblings /\ RefusedReadOnly' = RefusedReadOnly /\ RefBesideRef' = RefBesideRef
      /\ Inner' = Inner /\ Live' = Live /\ document.readOnly' = document.readOnly
  BY DEF RefSiblings, RefusedReadOnly, RefBesideRef, Inner, Live, HasRef, Compiled, HoldsReadOnly, Under, Reached
<1>2. Applying' = ApplyingTo(walk'.path)
  BY DEF Applying, ApplyingTo, Under, Reached
<1> DEFINE at == ApplyingTo(walk'.path)
           marked == \E n \in 0 .. m : at[n] \cap document.readOnly # {}
<1>3. Applying' = at
  BY <1>2
<1> HIDE DEF at
<1>4. Marked' = marked
  BY <1>1, <1>3 DEF Marked
<1> HIDE DEF marked
<1>5. /\ walk'.node \subseteq at[m] /\ (walk'.owned => marked)
      /\ ~RefBesideRef => walk'.node \subseteq Inner /\ at[m] \cap Live \subseteq walk'.node /\ (marked => walk'.owned)
  BY DEF at, marked
<1> QED
  BY <1>1, <1>3, <1>4, <1>5 DEF WalkInv

LEMMA LoadKeeps == SchemasInv /\ LoadForm => SchemasInv'
<1> SUFFICES ASSUME SchemasInv, LoadForm
             PROVE  SchemasInv'
  OBVIOUS
<1> DEFINE node == NodeOf({1})
           top == Reached(document.edges, OnValue, {1})
<1>1. /\ document \in SchemaDocuments /\ document' = document /\ walk.path = << >> /\ walk.owned \in BOOLEAN
      /\ walk.pc = "load" /\ walk \in Walks
  BY SchemasTypeIs DEF SchemasInv, LoadForm, SchemasType, Walks
<1>2. {1} \in SUBSET SchemaNodes
  BY SchemasAssumption
<1>3. node \subseteq top /\ node \in SUBSET SchemaNodes /\ (node # {} => document.readOnly # {})
  BY <1>1, <1>2, NodeWithin
<1>4. CASE RefSiblings \/ RefusedReadOnly
  <2>1. walk' = [walk EXCEPT !.pc = "refused"]
    BY <1>4 DEF LoadForm
  <2>2. walk' \in Walks /\ walk'.pc = "refused"
    BY <1>1, <2>1 DEF Walks
  <2> QED
    BY <1>1, <2>2 DEF SchemasInv, SchemasType, Walks
<1>5. CASE ~(RefSiblings \/ RefusedReadOnly)
  <2> HIDE DEF node
  <2>1. walk' = [walk EXCEPT !.pc = "walk", !.node = node, !.owned = IsReadOnly(node)]
    BY <1>5 DEF LoadForm, node
  <2>2. IsReadOnly(node) \in BOOLEAN
    BY DEF IsReadOnly
  <2>3. walk' \in Walks
    BY <1>1, <1>3, <2>1, <2>2 DEF Walks
  <2>4. walk'.pc = "walk" /\ walk'.node = node /\ walk'.path = << >> /\ walk'.owned = IsReadOnly(node)
    BY <1>1, <2>1 DEF Walks
  <2>5. << >> \in Seq(PathTokens) /\ Len(<< >>) = 0
    OBVIOUS
  <2>6. ApplyingTo(<< >>)[0] = top
    BY <1>1, <2>5, ApplyingIs DEF Descends
  <2>7. ASSUME ~RefBesideRef
        PROVE  node \subseteq Inner /\ top \cap Live \subseteq node
    <3>1. Sound
      BY <1>1, <1>5, <2>7 DEF Sound
    <3>2. {1} \subseteq Inner
      BY <1>1, <1>2, DocumentIs, ReachedIs DEF Inner
    <3> QED
      BY <1>2, <3>1, <3>2, NodeSees DEF node
  <2>8. document.readOnly \subseteq Live
    BY <1>1, LiveBack
  <2>9. IsReadOnly(node) => top \cap document.readOnly # {}
    BY <1>3 DEF IsReadOnly
  <2>10. ~RefBesideRef => (top \cap document.readOnly # {} => IsReadOnly(node))
    BY <2>7, <2>8 DEF IsReadOnly
  <2> HIDE DEF top
  <2>11. \A n \in 0 .. 0 : n = 0
    OBVIOUS
  <2>12. WalkInv'
    BY <1>1, <1>3, <1>5, <2>3, <2>4, <2>5, <2>6, <2>7, <2>9, <2>10, <2>11, WalkedOn
  <2> QED
    BY <1>1, <2>3, <2>4, <2>12 DEF SchemasInv, SchemasType, Walks
<1> QED
  BY <1>4, <1>5

LEMMA DescendKeeps ==
  ASSUME SchemasInv, NEW token \in PathTokens, Descend(token)
  PROVE  SchemasInv'
<1> DEFINE under == Under(Compiled, {token}, walk.node)
           node == NodeOf(under)
           m == Len(walk.path)
           longer == Append(walk.path, token)
           at == ApplyingTo(walk.path)
           on == ApplyingTo(longer)
           below == Under(document.edges, {token}, at[m])
           owned == walk.owned \/ IsReadOnly(node)
<1>1. /\ document \in SchemaDocuments /\ document' = document
      /\ walk.path \in Seq(PathTokens) /\ walk.node \in SUBSET SchemaNodes /\ walk.owned \in BOOLEAN
      /\ walk.pc = "walk" /\ walk \in Walks
  BY SchemasTypeIs DEF SchemasInv, Descend, SchemasType, Walks
<1>2. /\ ~RefSiblings /\ ~RefusedReadOnly
      /\ walk.node \subseteq at[m] /\ (walk.owned => Marked)
      /\ ~RefBesideRef => /\ walk.node \subseteq Inner
                          /\ at[m] \cap Live \subseteq walk.node
                          /\ Marked => walk.owned
  BY <1>1 DEF SchemasInv, WalkInv, Applying
<1>3. /\ \A n \in 0 .. m : on[n] = at[n]
      /\ on[m + 1] = Reached(document.edges, OnValue, below)
  BY <1>1, ApplyingGrows DEF Below
<1>4. m \in Nat /\ longer \in Seq(PathTokens) /\ Len(longer) = m + 1
  BY <1>1
<1>5. below \in SUBSET SchemaNodes /\ under \in SUBSET below
  <2>1. below \in SUBSET SchemaNodes
    BY <1>1, BelowIs
  <2>2. Compiled \subseteq document.edges
    BY <1>1, DocumentIs
  <2>3. under \subseteq below
    BY <1>2, <2>2 DEF Under
  <2> QED
    BY <2>1, <2>3
<1> HIDE DEF at, on, below, under
<1>6. /\ node \subseteq on[m + 1] /\ node \in SUBSET SchemaNodes
      /\ node # {} => document.readOnly # {}
  BY <1>1, <1>3, <1>5, NodeWithin
<1>7. ASSUME ~RefBesideRef
      PROVE  node \subseteq Inner /\ on[m + 1] \cap Live \subseteq node
  <2>1. Sound
    BY <1>1, <1>2, <1>7 DEF Sound
  <2>2. under \in SUBSET Inner
    <3>1. Closed(Compiled, Followed, Inner)
      BY <1>1, DocumentIs, SchemasAssumption, ReachedIs DEF Inner
    <3>2. token \in Followed
      BY DEF PathTokens, Followed
    <3> QED
      BY <1>2, <1>7, <3>1, <3>2 DEF Closed, under, Under
  <2>3. below \cap Live \subseteq under
    <3> SUFFICES ASSUME NEW x \in below, x \in Live
                 PROVE  x \in under
      OBVIOUS
    <3>1. PICK e \in document.edges : e[1] \in at[m] /\ e[2] = token /\ e[3] = x
      BY DEF below, Under
    <3>2. e[1] \in Live
      BY <1>1, <3>1, LiveBack
    <3>3. e[1] \in walk.node
      BY <1>2, <1>7, <3>1, <3>2
    <3>4. e \in Compiled
      BY <2>1, <3>1, LiveIsCompiled
    <3> QED
      BY <3>1, <3>3, <3>4 DEF under, Under
  <2> QED
    BY <1>3, <1>5, <2>1, <2>2, <2>3, NodeSees
<1> HIDE DEF node, m, longer
<1>8. walk' = [walk EXCEPT !.path = longer, !.node = node, !.owned = owned]
  BY DEF Descend, node, under, longer
<1>9. owned \in BOOLEAN
  <2>1. IsReadOnly(node) \in BOOLEAN
    BY DEF IsReadOnly
  <2> QED
    BY <1>1, <2>1
<1>10. owned = (walk.owned \/ node \cap document.readOnly # {})
  BY DEF IsReadOnly
<1> HIDE DEF owned
<1>11. walk' \in Walks /\ walk'.pc = "walk" /\ walk'.path = longer /\ walk'.node = node /\ walk'.owned = owned
  BY <1>1, <1>4, <1>6, <1>8, <1>9 DEF Walks
<1>12. Marked <=> \E n \in 0 .. m : at[n] \cap document.readOnly # {}
  BY DEF Marked, Applying, at, m
<1> DEFINE marked == \E n \in 0 .. m + 1 : on[n] \cap document.readOnly # {}
<1>13. marked <=> Marked \/ on[m + 1] \cap document.readOnly # {}
  <2>1. \A n \in 0 .. m + 1 : n = m + 1 \/ n \in 0 .. m
    BY <1>4
  <2>2. \A n \in 0 .. m : n \in 0 .. m + 1
    BY <1>4
  <2>3. m + 1 \in 0 .. m + 1
    BY <1>4
  <2>4. ASSUME marked
        PROVE  Marked \/ on[m + 1] \cap document.readOnly # {}
    <3>1. PICK n \in 0 .. m + 1 : on[n] \cap document.readOnly # {}
      BY <2>4
    <3>2. CASE n = m + 1
      BY <3>1, <3>2
    <3>3. CASE n \in 0 .. m
      BY <1>3, <1>12, <3>1, <3>3
    <3> QED
      BY <2>1, <3>2, <3>3
  <2>5. ASSUME Marked
        PROVE  marked
    <3>1. PICK n \in 0 .. m : at[n] \cap document.readOnly # {}
      BY <1>12, <2>5
    <3>2. on[n] \cap document.readOnly # {} /\ n \in 0 .. m + 1
      BY <1>3, <2>2, <3>1
    <3> QED
      BY <3>2
  <2>6. ASSUME on[m + 1] \cap document.readOnly # {}
        PROVE  marked
    BY <2>3, <2>6
  <2> QED
    BY <2>4, <2>5, <2>6
<1>14. document.readOnly \subseteq Live
  BY <1>1, LiveBack
<1> HIDE DEF marked
<1>15. owned => marked
  BY <1>2, <1>6, <1>10, <1>13
<1>16. ~RefBesideRef => (marked => owned)
  BY <1>2, <1>7, <1>10, <1>13, <1>14
<1>17. WalkInv'
  <2>1. ApplyingTo(walk'.path) = on /\ Len(walk'.path) = m + 1
    BY <1>4, <1>11 DEF on
  <2>2. marked = \E n \in 0 .. m + 1 : ApplyingTo(walk'.path)[n] \cap document.readOnly # {}
    BY <2>1 DEF marked
  <2>3. /\ walk'.node \subseteq ApplyingTo(walk'.path)[m + 1]
        /\ walk'.node # {} => document.readOnly # {}
        /\ ~RefBesideRef => walk'.node \subseteq Inner /\ ApplyingTo(walk'.path)[m + 1] \cap Live \subseteq walk'.node
    BY <1>6, <1>7, <1>11, <2>1
  <2>4. /\ walk'.owned => \E n \in 0 .. m + 1 : ApplyingTo(walk'.path)[n] \cap document.readOnly # {}
        /\ ~RefBesideRef =>
             ((\E n \in 0 .. m + 1 : ApplyingTo(walk'.path)[n] \cap document.readOnly # {}) => walk'.owned)
    BY <1>11, <1>15, <1>16, <2>2
  <2> QED
    BY <1>1, <1>2, <1>11, <2>1, <2>3, <2>4, WalkedOn
<1> QED
  BY <1>1, <1>11, <1>17 DEF SchemasInv, SchemasType, Walks

LEMMA NothingHidden == SchemasInv => NoReadOnlyIsMissed
<1> SUFFICES ASSUME SchemasInv, walk.pc = "walk"
             PROVE  /\ walk.owned => Marked
                    /\ Marked /\ ~RefBesideRef => walk.owned
                    /\ HasDefault(walk.node) <=> walk.node \cap document.defaults # {}
  BY DEF NoReadOnlyIsMissed, Marked
<1>1. WalkInv /\ walk.node \in SUBSET SchemaNodes
  BY SchemasTypeIs DEF SchemasInv
<1>2. ASSUME NEW s \in walk.node, s \in document.defaults
      PROVE  s \in CompiledDefaults
  <2>1. s \in SchemaNodes /\ document.readOnly # {}
    BY <1>1 DEF WalkInv
  <2>2. ~HasRef(s)
    BY <1>1, <1>2, <2>1 DEF WalkInv, RefSiblings
  <2> QED
    BY <1>2, <2>2 DEF CompiledDefaults
<1>3. HasDefault(walk.node) <=> walk.node \cap document.defaults # {}
  BY <1>2 DEF HasDefault, CompiledDefaults
<1> QED
  BY <1>1, <1>3 DEF WalkInv

LEMMA SchemasStep == SchemasInv /\ [SchemasNext]_schemaVars => SchemasInv'
<1>1. SchemasInv /\ UNCHANGED schemaVars => SchemasInv'
  <2> SUFFICES ASSUME SchemasInv, UNCHANGED <<document, walk>>
               PROVE  SchemasInv'
    BY DEF schemaVars
  <2>1. /\ RefSiblings' = RefSiblings /\ RefusedReadOnly' = RefusedReadOnly /\ RefBesideRef' = RefBesideRef
        /\ Inner' = Inner /\ Live' = Live
    BY DEF RefSiblings, RefusedReadOnly, RefBesideRef, Inner, Live, HasRef, Compiled, HoldsReadOnly, Under, Reached
  <2>2. Applying' = Applying
    BY DEF Applying, ApplyingTo, Under, Reached
  <2>3. WalkInv => WalkInv'
    BY <2>1, <2>2 DEF WalkInv, Marked
  <2> QED
    BY <2>3 DEF SchemasInv, SchemasType
<1> QED
  BY <1>1, LoadKeeps, DescendKeeps DEF SchemasNext

LEMMA SchemasInitially == SchemasInit(SchemaDocuments) => SchemasInv
<1>1. << >> \in Seq(PathTokens)
  OBVIOUS
<1> QED
  BY <1>1 DEF SchemasInit, SchemasInv, SchemasType

\* The type invariant of a document and of a walk through it.
THEOREM SchemasTypeCorrect == SchemasSpec => []SchemasType
<1>1. SchemasInv => SchemasType
  BY DEF SchemasInv
<1> QED
  BY <1>1, SchemasInitially, SchemasStep, PTL DEF SchemasSpec

\* For any document, of any number of schemas that refer to one another in any way, and any path into
\* a submission: the check takes for the server's what the browser may be told is, unless a $ref sits
\* beside a $ref.
THEOREM ReadOnlyIsNotMissed == SchemasSpec => []NoReadOnlyIsMissed
  BY SchemasInitially, SchemasStep, NothingHidden, PTL DEF SchemasSpec

\* What the server put into a step stays as it is, whatever the form's document says and whatever is
\* sent: no value that is marked goes unnoticed, and none is changed, lost, repeated or made up.
THEOREM ServersPartStays == ReadOnlySpec => []ReadOnlyIsKept
<1>1. FormsInit(FormData) /\ SchemasInit(SchemaDocuments) => FormsInv /\ SchemasInv
  BY FormsInitially, SchemasInitially
<1>2. /\ FormsInv /\ SchemasInv
      /\ [\/ FormsNext /\ UNCHANGED schemaVars
          \/ SchemasNext /\ UNCHANGED formVars]_<<formVars, schemaVars>>
      => FormsInv' /\ SchemasInv'
  <2>1. [\/ FormsNext /\ UNCHANGED schemaVars
         \/ SchemasNext /\ UNCHANGED formVars]_<<formVars, schemaVars>>
        => [FormsNext]_formVars /\ [SchemasNext]_schemaVars
    OBVIOUS
  <2> QED
    BY <2>1, FormsStep, SchemasStep
<1>3. FormsInv /\ SchemasInv => ReadOnlyIsKept
  BY NothingHidden DEF FormsInv, ReadOnlyIsKept
<1> QED
  BY <1>1, <1>2, <1>3, PTL DEF ReadOnlySpec

----------------------------------------------------------------------------
(***************************************************************************)
(* The numbers that a step draws, for any number of steps, entries and     *)
(* rows: what is left to fill stays apart from what is filled, and what a  *)
(* step drew is in no record but its own.                                  *)
(***************************************************************************)
Apart(p, q) == p[1] # q[1] \/ ~Overlapping(p[2], q[2])
FillTargets == [place : Places, overwrite : BOOLEAN]

AnyPaths == Paths \cup {ListPath}
Names == Fields \cup {"list"}

LEMMA PathIs ==
  ASSUME NEW p \in AnyPaths
  PROVE  /\ p \in Seq(Names)
         /\ \/ Len(p) = 1 /\ p = <<p[1]>>
            \/ Len(p) = 2 /\ p = <<p[1], p[2]>>
         /\ p \in Paths => p[1] \in Fields /\ p[1] # "list"
<1>1. CASE \E f \in Names : p = <<f>> /\ (f \in Fields \/ p \notin Paths)
  <2>1. PICK f \in Names : p = <<f>> /\ (f \in Fields \/ p \notin Paths)
    BY <1>1
  <2>2. <<f>> \in Seq(Names) /\ Len(<<f>>) = 1
    OBVIOUS
  <2> QED
    BY <2>1, <2>2, WritesAssumption
<1>2. CASE \E f, g \in Fields : p = <<f, g>>
  <2>1. PICK f, g \in Fields : p = <<f, g>>
    BY <1>2
  <2>2. <<f, g>> \in Seq(Names) /\ Len(<<f, g>>) = 2
    BY DEF Names
  <2> QED
    BY <2>1, <2>2, WritesAssumption
<1>3. ListPath \notin Paths
  <2>1. ASSUME NEW f \in Fields, NEW g \in Fields
        PROVE  <<"list">> # <<f>> /\ <<"list">> # <<f, g>>
    <3>1. <<"list">>[1] = "list" /\ <<f>>[1] = f /\ <<f, g>>[1] = f
      OBVIOUS
    <3> QED
      BY <3>1, WritesAssumption
  <2> QED
    BY <2>1 DEF ListPath, Paths
<1> QED
  BY <1>1, <1>2, <1>3 DEF AnyPaths, Names, Paths, ListPath

LEMMA PrefixStarts ==
  ASSUME NEW S, NEW p \in Seq(S), NEW q \in Seq(S), IsPrefix(p, q), NEW i \in 1 .. Len(p)
  PROVE  p[i] = q[i] /\ Len(p) <= Len(q)
<1>1. Len(p) <= Len(q) /\ SubSeq(p, 1, Len(p)) = SubSeq(q, 1, Len(p))
  BY DEF IsPrefix
<1>2. SubSeq(p, 1, Len(p))[i] = p[i] /\ SubSeq(q, 1, Len(p))[i] = q[i]
  BY <1>1
<1> QED
  BY <1>1, <1>2

\* A path that leads to another is the field that the other is in.
LEMMA LeadsTo ==
  ASSUME NEW p \in AnyPaths, NEW q \in AnyPaths, IsPrefix(p, q)
  PROVE  p # q => Len(q) = 2 /\ p = <<q[1]>>
<1>1. p \in Seq(Names) /\ q \in Seq(Names) /\ 1 \in 1 .. Len(p)
  BY PathIs
<1>2. p[1] = q[1] /\ Len(p) <= Len(q)
  BY <1>1, PrefixStarts
<1>3. CASE Len(q) = 1
  BY <1>2, <1>3, PathIs
<1>4. CASE Len(p) = 2
  <2>1. 2 \in 1 .. Len(p)
    BY <1>4
  <2>2. p[2] = q[2]
    BY <1>1, <2>1, PrefixStarts
  <2>3. Len(q) = 2
    BY <1>2, <1>4, PathIs
  <2>4. p = <<p[1], p[2]>> /\ q = <<q[1], q[2]>>
    BY <1>4, <2>3, PathIs
  <2> QED
    BY <1>2, <2>2, <2>4
<1> QED
  BY <1>2, <1>3, <1>4, PathIs

LEMMA StartsItself == ASSUME NEW p \in AnyPaths PROVE IsPrefix(p, p)
BY PathIs DEF IsPrefix

LEMMA ApartIs ==
  ASSUME NEW p \in Places, NEW q \in Places, Apart(p, q)
  PROVE  /\ Apart(q, p) /\ p # q
         /\ p[1] = q[1] => ~IsStrictPrefix(p[2], q[2]) /\ ~IsStrictPrefix(q[2], p[2])
<1>1. Overlapping(q[2], q[2])
  BY StartsItself DEF Overlapping, Places, AnyPaths
<1>2. Overlapping(p[2], q[2]) <=> Overlapping(q[2], p[2])
  BY DEF Overlapping
<1>3. IsStrictPrefix(p[2], q[2]) \/ IsStrictPrefix(q[2], p[2]) => Overlapping(p[2], q[2])
  BY DEF Overlapping, IsStrictPrefix
<1> QED
  BY <1>1, <1>2, <1>3 DEF Apart

LEMMA TargetsIs ==
  ASSUME NEW e \in Entries
  PROVE  /\ Targets(e) \in Seq(FillTargets)
         /\ Len(Targets(e)) = IF e.each THEN Cardinality(Elements) ELSE 1
         /\ \A i \in 1 .. Len(Targets(e)) :
              Targets(e)[i] = [place |-> <<IF e.each THEN i ELSE 0, e.path>>, overwrite |-> e.overwrite]
<1> DEFINE m == IF e.each THEN Cardinality(Elements) ELSE 1
           x(i) == [place |-> <<IF e.each THEN i ELSE 0, e.path>>, overwrite |-> e.overwrite]
<1>1. m \in Nat /\ e.path \in Paths /\ e.overwrite \in BOOLEAN /\ e.each \in BOOLEAN
  BY FS_CardinalityType, RefIdsAssumption DEF Entries
<1>2. ASSUME NEW i \in 1 .. m
      PROVE  x(i) \in FillTargets
  <2>1. (IF e.each THEN i ELSE 0) \in Elements \cup {0}
    BY <1>1, RefIdsAssumption
  <2> QED
    BY <1>1, <2>1 DEF FillTargets, Places
<1>3. Targets(e) = [i \in 1 .. m |-> x(i)]
  BY DEF Targets
<1> HIDE DEF m, x
<1>4. Targets(e) \in Seq(FillTargets) /\ Len(Targets(e)) = m /\ \A i \in 1 .. m : Targets(e)[i] = x(i)
  BY <1>1, <1>2, <1>3
<1> QED
  BY <1>4 DEF m, x

\* The places of all entries are apart from each other.
LEMMA TargetsAre ==
  ASSUME NEW entries \in Seq(Entries)
  PROVE  /\ AllTargets(entries) \in Seq(FillTargets)
         /\ WellFormed(entries) =>
              \A i, j \in 1 .. Len(AllTargets(entries)) :
                i # j => Apart(AllTargets(entries)[i].place, AllTargets(entries)[j].place)
<1> DEFINE ss == [i \in DOMAIN entries |-> Targets(entries[i])]
           k == AllTargets(entries)
<1>1. ss \in Seq(Seq(FillTargets)) /\ Len(ss) = Len(entries) /\ \A i \in 1 .. Len(entries) : entries[i] \in Entries
  BY TargetsIs
<1>2. k = FlattenSeq(ss)
  BY DEF AllTargets
<1>3. \A i \in 1 .. Len(entries) : ss[i] = Targets(entries[i])
  OBVIOUS
<1> HIDE DEF ss, k
<1>4. k \in Seq(FillTargets) /\ \E of, nth : Joins(of, nth, k, ss, Len(ss))
  BY <1>1, <1>2, FlattenIs
<1>5. PICK of, nth : Joins(of, nth, k, ss, Len(ss))
  BY <1>4
<1>6. ASSUME NEW i \in 1 .. Len(k)
      PROVE  /\ of[i] \in 1 .. Len(entries) /\ entries[of[i]] \in Entries /\ entries[of[i]].each \in BOOLEAN
             /\ nth[i] \in 1 .. IF entries[of[i]].each THEN Cardinality(Elements) ELSE 1
             /\ k[i].place = <<IF entries[of[i]].each THEN nth[i] ELSE 0, entries[of[i]].path>>
  <2>1. of[i] \in 1 .. Len(entries) /\ nth[i] \in 1 .. Len(ss[of[i]]) /\ k[i] = ss[of[i]][nth[i]]
    BY <1>1, <1>5 DEF Joins
  <2> DEFINE e == entries[of[i]]
  <2>2. e \in Entries /\ ss[of[i]] = Targets(e)
    BY <1>1, <1>3, <2>1
  <2> HIDE DEF e
  <2>3. /\ Len(Targets(e)) = IF e.each THEN Cardinality(Elements) ELSE 1
        /\ Targets(e)[nth[i]] = [place |-> <<IF e.each THEN nth[i] ELSE 0, e.path>>, overwrite |-> e.overwrite]
    BY <2>1, <2>2, TargetsIs
  <2>4. e.each \in BOOLEAN
    BY <2>2 DEF Entries
  <2> QED
    BY <2>1, <2>2, <2>3, <2>4 DEF e
<1>7. ASSUME WellFormed(entries), NEW i \in 1 .. Len(k), NEW j \in 1 .. Len(k), i # j
      PROVE  Apart(k[i].place, k[j].place)
  <2> DEFINE e == entries[of[i]]
             f == entries[of[j]]
  <2>1. e.each \in BOOLEAN /\ f.each \in BOOLEAN /\ of[i] \in 1 .. Len(entries) /\ of[j] \in 1 .. Len(entries)
    BY <1>6
  <2>2. /\ k[i].place = <<IF e.each THEN nth[i] ELSE 0, e.path>>
        /\ k[j].place = <<IF f.each THEN nth[j] ELSE 0, f.path>>
    BY <1>6
  <2>3. of[i] = of[j] => nth[i] # nth[j]
    BY <1>5, <1>7 DEF Joins
  <2>4. /\ nth[i] \in 1 .. IF e.each THEN Cardinality(Elements) ELSE 1
        /\ nth[j] \in 1 .. IF f.each THEN Cardinality(Elements) ELSE 1
    BY <1>6
  <2>5. Cardinality(Elements) \in Nat
    BY FS_CardinalityType, RefIdsAssumption
  <2>6. CASE of[i] = of[j]
    <3>1. e.each = f.each /\ nth[i] # nth[j]
      BY <2>3, <2>6
    <3>2. e.each
      BY <2>1, <2>4, <3>1
    <3> QED
      BY <2>2, <3>1, <3>2 DEF Apart
  <2>7. CASE e.each # f.each
    <3>1. nth[i] # 0 /\ nth[j] # 0
      BY <2>4, <2>5, <2>1
    <3> QED
      BY <2>1, <2>2, <2>7, <3>1 DEF Apart
  <2>8. CASE of[i] # of[j] /\ e.each = f.each
    <3>1. of[i] < of[j] \/ of[j] < of[i]
      BY <2>1, <2>8
    <3>2. ~Overlapping(e.path, f.path)
      <4>1. \A l, n \in DOMAIN entries :
              l < n /\ entries[l].each = entries[n].each => ~Overlapping(entries[l].path, entries[n].path)
        BY <1>7 DEF WellFormed
      <4>2. of[i] \in DOMAIN entries /\ of[j] \in DOMAIN entries
        BY <2>1
      <4>3. ~Overlapping(e.path, f.path) \/ ~Overlapping(f.path, e.path)
        BY <2>8, <3>1, <4>1, <4>2
      <4> QED
        BY <4>3 DEF Overlapping
    <3> QED
      BY <2>2, <3>2 DEF Apart
  <2> QED
    BY <2>6, <2>7, <2>8
<1> QED
  BY <1>4, <1>7 DEF k

\* What is on the way to a place, or in it, is left as it is when a place apart from it is written.
LEMMA WriteIs ==
  ASSUME NEW doc \in Documents, NEW place \in Places, NEW n \in 1 .. MaxNumber
  PROVE  /\ Write(doc, place, n) \in Documents /\ Write(doc, place, n)[place] = n
         /\ \A p \in Places : Apart(p, place) => Write(doc, place, n)[p] = doc[p]
         /\ \A p \in Places : Write(doc, place, n)[p] \in {n, Object, Nothing, doc[p]}
         /\ \A p \in Places : Write(doc, place, n)[p] = n => p = place \/ doc[p] = n
         /\ \A p \in Places : \/ Write(doc, place, n)[p] = doc[p]
                              \/ p = place
                              \/ p[1] = place[1] /\ IsStrictPrefix(p[2], place[2])
                              \/ p[1] = place[1] /\ IsStrictPrefix(place[2], p[2])
<1> DEFINE w == Write(doc, place, n)
<1>1. w = [p \in Places |->
             IF p = place THEN n
             ELSE IF p[1] = place[1] /\ IsStrictPrefix(p[2], place[2]) THEN Object
             ELSE IF p[1] = place[1] /\ IsStrictPrefix(place[2], p[2]) THEN Nothing
             ELSE doc[p]]
  BY DEF Write
<1>2. \A p \in Places : doc[p] \in {Nothing, Object, Given} \cup 1 .. MaxNumber
  BY DEF Documents
<1>3. n # Object /\ n # Nothing
  BY RefIdsAssumption
<1> HIDE DEF w
<1>4. \A p \in Places : w[p] = IF p = place THEN n
             ELSE IF p[1] = place[1] /\ IsStrictPrefix(p[2], place[2]) THEN Object
             ELSE IF p[1] = place[1] /\ IsStrictPrefix(place[2], p[2]) THEN Nothing
             ELSE doc[p]
  BY <1>1
<1>5. w \in Documents
  BY <1>1, <1>2 DEF Documents
<1>6. \A p \in Places : Apart(p, place) => w[p] = doc[p]
  BY <1>4, ApartIs
<1> QED
  BY <1>3, <1>4, <1>5, <1>6 DEF w

----------------------------------------------------------------------------
(* A run's copy and what is left to fill.                                  *)

Overwritten(conf, p) ==
  \E i \in DOMAIN AllTargets(conf) : AllTargets(conf)[i].place = p /\ AllTargets(conf)[i].overwrite

Ahead(todo, conf, given0) ==
  /\ todo \in Seq(FillTargets)
  /\ \A i \in 1 .. Len(todo) :
       /\ Fillable(given0, todo[i].place)
       /\ todo[i].overwrite => Overwritten(conf, todo[i].place)
  /\ \A i, j \in 1 .. Len(todo) : i # j => Apart(todo[i].place, todo[j].place)

\* n is in one place, which nothing that is left to fill touches.
Placed(n, doc, todo) ==
  \E p \in Places : /\ doc[p] = n
                    /\ \A q \in Places : doc[q] = n => q = p
                    /\ \A i \in 1 .. Len(todo) : Apart(p, todo[i].place)

Fills(doc, todo, got, conf, given0) ==
  /\ doc \in Documents
  /\ Ahead(todo, conf, given0)
  /\ \A p \in Places : doc[p] \in 1 .. MaxNumber => doc[p] \in got
  /\ \A n \in got : Placed(n, doc, todo)
  /\ \A p \in Places : given0[p] = Given => doc[p] = Given \/ Overwritten(conf, p)

LEMMA FillsAtFirst ==
  ASSUME NEW conf \in Seq(Entries), NEW given0 \in GivenDocuments, WellFormed(conf),
         \A i \in DOMAIN AllTargets(conf) : Fillable(given0, AllTargets(conf)[i].place)
  PROVE  Fills(given0, AllTargets(conf), {}, conf, given0)
<1>1. given0 \in Documents /\ \A p \in Places : given0[p] \in {Nothing, Object, Given}
  BY DEF GivenDocuments, Documents
<1>2. \A p \in Places : given0[p] \notin 1 .. MaxNumber
  BY <1>1, RefIdsAssumption
<1>3. AllTargets(conf) \in Seq(FillTargets)
  BY TargetsAre
<1>4. \A i, j \in 1 .. Len(AllTargets(conf)) :
        i # j => Apart(AllTargets(conf)[i].place, AllTargets(conf)[j].place)
  BY TargetsAre
<1>5. DOMAIN AllTargets(conf) = 1 .. Len(AllTargets(conf))
  BY <1>3
<1>6. \A i \in 1 .. Len(AllTargets(conf)) :
        AllTargets(conf)[i].overwrite => Overwritten(conf, AllTargets(conf)[i].place)
  BY <1>5 DEF Overwritten
<1>7. Ahead(AllTargets(conf), conf, given0)
  BY <1>3, <1>4, <1>5, <1>6 DEF Ahead
<1> QED
  BY <1>1, <1>2, <1>7 DEF Fills

\* What is left after the next place.
LEMMA AheadStill ==
  ASSUME NEW conf, NEW given0, NEW todo, Ahead(todo, conf, given0), todo # << >>
  PROVE  /\ Ahead(Tail(todo), conf, given0)
         /\ Head(todo) = todo[1] /\ 1 \in 1 .. Len(todo) /\ todo[1] \in FillTargets
         /\ \A i \in 1 .. Len(Tail(todo)) : i + 1 \in 1 .. Len(todo) /\ Tail(todo)[i] = todo[i + 1]
         /\ \A i \in 1 .. Len(Tail(todo)) : Apart(todo[1].place, Tail(todo)[i].place)
<1>1. todo \in Seq(FillTargets)
  BY DEF Ahead
<1>2. /\ Tail(todo) \in Seq(FillTargets) /\ Len(Tail(todo)) = Len(todo) - 1 /\ Len(todo) \in Nat
      /\ Head(todo) = todo[1] /\ 1 \in 1 .. Len(todo)
      /\ \A i \in 1 .. Len(Tail(todo)) : i + 1 \in 1 .. Len(todo) /\ Tail(todo)[i] = todo[i + 1]
  BY <1>1
<1>3. /\ \A i \in 1 .. Len(todo) :
           Fillable(given0, todo[i].place) /\ (todo[i].overwrite => Overwritten(conf, todo[i].place))
      /\ \A i, j \in 1 .. Len(todo) : i # j => Apart(todo[i].place, todo[j].place)
  BY DEF Ahead
<1>4. \A i \in 1 .. Len(Tail(todo)) :
        /\ Fillable(given0, Tail(todo)[i].place)
        /\ Tail(todo)[i].overwrite => Overwritten(conf, Tail(todo)[i].place)
  BY <1>2, <1>3
<1>5. \A i, j \in 1 .. Len(Tail(todo)) : i # j => Apart(Tail(todo)[i].place, Tail(todo)[j].place)
  <2> SUFFICES ASSUME NEW i \in 1 .. Len(Tail(todo)), NEW j \in 1 .. Len(Tail(todo)), i # j
               PROVE  Apart(Tail(todo)[i].place, Tail(todo)[j].place)
    OBVIOUS
  <2>1. i + 1 # j + 1
    OBVIOUS
  <2> QED
    BY <1>2, <1>3, <2>1
<1>6. \A i \in 1 .. Len(Tail(todo)) : Apart(todo[1].place, Tail(todo)[i].place)
  <2> SUFFICES ASSUME NEW i \in 1 .. Len(Tail(todo))
               PROVE  Apart(todo[1].place, Tail(todo)[i].place)
    OBVIOUS
  <2>1. i + 1 # 1
    OBVIOUS
  <2> QED
    BY <1>2, <1>3, <2>1
<1>7. Ahead(Tail(todo), conf, given0)
  BY <1>2, <1>4, <1>5 DEF Ahead
<1>8. todo[1] \in FillTargets
  BY <1>1, <1>2
<1> QED
  BY <1>2, <1>6, <1>7, <1>8

LEMMA FillsPast ==
  ASSUME NEW doc, NEW todo, NEW got, NEW conf, NEW given0, Fills(doc, todo, got, conf, given0), todo # << >>
  PROVE  Fills(doc, Tail(todo), got, conf, given0)
<1>1. Ahead(todo, conf, given0)
  BY DEF Fills
<1>2. /\ Ahead(Tail(todo), conf, given0)
      /\ \A i \in 1 .. Len(Tail(todo)) : i + 1 \in 1 .. Len(todo) /\ Tail(todo)[i] = todo[i + 1]
  BY <1>1, AheadStill
<1>3. \A n \in got : Placed(n, doc, Tail(todo))
  BY <1>2 DEF Fills, Placed
<1> QED
  BY <1>2, <1>3 DEF Fills

LEMMA FillsOne ==
  ASSUME NEW doc, NEW todo, NEW got \in SUBSET (1 .. MaxNumber), NEW conf, NEW given0 \in GivenDocuments,
         Fills(doc, todo, got, conf, given0), todo # << >>,
         doc[Head(todo).place] = Nothing \/ Head(todo).overwrite,
         NEW n \in 1 .. MaxNumber, n \notin got
  PROVE  Fills(Write(doc, Head(todo).place, n), Tail(todo), got \cup {n}, conf, given0)
<1> DEFINE place == todo[1].place
           w == Write(doc, place, n)
           rest == Tail(todo)
<1>1. doc \in Documents /\ Ahead(todo, conf, given0)
  BY DEF Fills
<1>2. /\ Ahead(rest, conf, given0) /\ Head(todo) = todo[1] /\ 1 \in 1 .. Len(todo) /\ todo[1] \in FillTargets
      /\ \A i \in 1 .. Len(rest) : i + 1 \in 1 .. Len(todo) /\ rest[i] = todo[i + 1]
      /\ \A i \in 1 .. Len(rest) : Apart(place, rest[i].place)
  BY <1>1, AheadStill
<1>3. place \in Places /\ Fillable(given0, place) /\ (todo[1].overwrite => Overwritten(conf, place))
  BY <1>1, <1>2 DEF Ahead, FillTargets
<1> HIDE DEF place, rest
<1>4. /\ w \in Documents /\ w[place] = n
      /\ \A p \in Places : Apart(p, place) => w[p] = doc[p]
      /\ \A p \in Places : w[p] \in {n, Object, Nothing, doc[p]}
      /\ \A p \in Places : w[p] = n => p = place \/ doc[p] = n
      /\ \A p \in Places : \/ w[p] = doc[p]
                           \/ p = place
                           \/ p[1] = place[1] /\ IsStrictPrefix(p[2], place[2])
                           \/ p[1] = place[1] /\ IsStrictPrefix(place[2], p[2])
  BY <1>1, <1>3, WriteIs
<1> HIDE DEF w
<1>5. Object \notin 1 .. MaxNumber /\ Nothing \notin 1 .. MaxNumber /\ Given # Object /\ Given # Nothing
  BY RefIdsAssumption
<1>6. \A p \in Places : doc[p] \in 1 .. MaxNumber => doc[p] \in got
  BY DEF Fills
<1>7. \A p \in Places : w[p] \in 1 .. MaxNumber => w[p] \in got \cup {n}
  BY <1>4, <1>5, <1>6
<1>8. Placed(n, w, rest)
  <2>1. \A p \in Places : w[p] = n => p = place
    BY <1>4, <1>6
  <2> QED
    BY <1>2, <1>3, <1>4, <2>1 DEF Placed
<1>9. ASSUME NEW l \in got
      PROVE  Placed(l, w, rest)
  <2>1. Placed(l, doc, todo)
    BY DEF Fills
  <2>2. PICK p \in Places : /\ doc[p] = l
                            /\ \A q \in Places : doc[q] = l => q = p
                            /\ \A i \in 1 .. Len(todo) : Apart(p, todo[i].place)
    BY <2>1 DEF Placed
  <2>3. w[p] = l
    BY <1>2, <1>4, <2>2 DEF place
  <2>4. ASSUME NEW q \in Places, w[q] = l
        PROVE  q = p
    <3>1. l # n
      OBVIOUS
    <3>2. l \in 1 .. MaxNumber
      OBVIOUS
    <3>3. w[q] = doc[q]
      BY <1>4, <1>5, <2>4, <3>1, <3>2
    <3> QED
      BY <2>2, <2>4, <3>3
  <2>5. \A i \in 1 .. Len(rest) : Apart(p, rest[i].place)
    BY <1>2, <2>2
  <2> QED
    BY <2>3, <2>4, <2>5 DEF Placed
<1>10. ASSUME NEW p \in Places, given0[p] = Given
       PROVE  w[p] = Given \/ Overwritten(conf, p)
  <2>1. doc[p] = Given \/ Overwritten(conf, p)
    BY <1>10 DEF Fills
  <2>2. CASE w[p] = doc[p]
    BY <2>1, <2>2
  <2>3. CASE p = place
    <3>1. CASE todo[1].overwrite
      BY <1>3, <2>3, <3>1
    <3>2. CASE doc[place] = Nothing
      BY <1>5, <2>1, <2>3, <3>2
    <3> QED
      BY <1>2, <3>1, <3>2 DEF place
  <2>4. CASE p[1] = place[1] /\ IsStrictPrefix(p[2], place[2])
    <3>1. p[2] \in Paths /\ place[2] \in Paths /\ p = <<p[1], p[2]>>
      BY <1>3 DEF Places
    <3>2. Len(place[2]) = 2 /\ p = <<place[1], <<place[2][1]>>>>
      BY <2>4, <3>1, LeadsTo DEF IsStrictPrefix, AnyPaths
    <3>3. given0[p] \in {Nothing, Object}
      BY <1>3, <3>2 DEF Fillable
    <3> QED
      BY <1>5, <1>10, <3>3
  <2>5. CASE p[1] = place[1] /\ IsStrictPrefix(place[2], p[2])
    <3>1. given0[place] # Object /\ Nested(given0)
      BY <1>3 DEF Fillable, GivenDocuments
    <3>2. given0[p] = Nothing
      BY <1>3, <2>5, <3>1 DEF Nested
    <3> QED
      BY <1>5, <1>10, <3>2
  <2> QED
    BY <1>4, <2>2, <2>3, <2>4, <2>5
<1>11. Fills(w, rest, got \cup {n}, conf, given0)
  BY <1>2, <1>4, <1>7, <1>8, <1>9, <1>10 DEF Fills
<1> QED
  BY <1>2, <1>11 DEF place, w, rest

----------------------------------------------------------------------------
(* Steps side by side.                                                     *)

RefIdsStatics ==
  /\ ids \in [Generators -> Seq(Entries)] /\ inputs \in [Generators -> GivenDocuments]
  /\ drawn \in 0 .. MaxNumber /\ refIdFailures \in 0 .. MaxRefIdFailures

\* What one step's activity holds, and what it has put in its record.
Generating ==
  [pc : {"idle", "generate", "save", "done", "refused"}, doc : Documents \cup {<< >>}, todo : Seq(FillTargets),
   got : SUBSET (1 .. MaxNumber)]
Drawer(g) ==
  /\ generator[g] \in Generating /\ generator[g].got \in SUBSET (1 .. drawn)
  /\ generator[g].pc \notin {"generate", "save", "done"} => generator[g].got = {}
  /\ generator[g].pc \in {"generate", "save", "done"} =>
       Fills(generator[g].doc, generator[g].todo, generator[g].got, ids[g], inputs[g])
  /\ generator[g].pc \in {"save", "done"} => output[g] = generator[g].doc

\* A number in a record was drawn; one that a run holds is in its own record alone.
InRecord(h) ==
  /\ output[h] \in Documents \cup {<< >>}
  /\ output[h] # << >> =>
       \A p \in Places :
         /\ output[h][p] \in 1 .. MaxNumber => output[h][p] \in 1 .. drawn
         /\ \A g \in Generators :
              output[h][p] \in generator[g].got => g = h /\ generator[g].pc \in {"save", "done"}

RefIdsInv ==
  /\ RefIdsStatics
  /\ \E X : generator \in [Generators -> X]
  /\ \E X : output \in [Generators -> X]
  /\ \A g \in Generators : Drawer(g)
  /\ \A g, h \in Generators : g # h => generator[g].got \cap generator[h].got = {}
  /\ \A h \in Generators : InRecord(h)

LEMMA IdleIs ==
  NotGenerating \in Generating /\ NotGenerating.got = {} /\ NotGenerating.pc = "idle"
<1>1. << >> \in Seq(FillTargets)
  OBVIOUS
<1> QED
  BY <1>1 DEF NotGenerating, Generating

LEMMA RefIdsInitially == RefIdsInit(Seq(Entries), GivenDocuments) => RefIdsInv
<1> SUFFICES ASSUME RefIdsInit(Seq(Entries), GivenDocuments)
             PROVE  RefIdsInv
  OBVIOUS
<1>1. RefIdsStatics
  BY RefIdsAssumption DEF RefIdsInit, RefIdsStatics
<1>2. /\ generator \in [Generators -> {NotGenerating}] /\ output \in [Generators -> {<< >>}]
      /\ \A g \in Generators : generator[g] = NotGenerating /\ output[g] = << >>
  BY DEF RefIdsInit
<1>3. ASSUME NEW g \in Generators
      PROVE  Drawer(g) /\ InRecord(g) /\ generator[g].got = {}
  BY <1>2, IdleIs DEF Drawer, InRecord
<1> QED
  BY <1>1, <1>2, <1>3 DEF RefIdsInv

LEMMA RefIdsStays == ASSUME RefIdsInv, UNCHANGED refIdVars PROVE RefIdsInv'
<1>1. RefIdsStatics' = RefIdsStatics
  BY DEF refIdVars, RefIdsStatics
<1>2. \A g \in Generators : Drawer(g)' = Drawer(g) /\ InRecord(g)' = InRecord(g)
  BY DEF refIdVars, Drawer, InRecord
<1> QED
  BY <1>1, <1>2 DEF RefIdsInv, refIdVars

\* A step of g leaves the others' activities and what their records hold.
LEMMA DrawersApart ==
  ASSUME RefIdsInv, NEW g \in Generators, NEW next, generator' = [generator EXCEPT ![g] = next],
         UNCHANGED <<ids, inputs>>, drawn' \in drawn .. MaxNumber,
         NEW h \in Generators, h # g, output'[h] = output[h]
  PROVE  Drawer(h)' /\ generator'[h] = generator[h] /\ generator'[g] = next
<1>1. generator'[h] = generator[h] /\ generator'[g] = next
  BY DEF RefIdsInv
<1>2. drawn \in Nat /\ \A n \in 1 .. drawn : n \in 1 .. drawn'
  BY RefIdsAssumption DEF RefIdsInv, RefIdsStatics
<1>3. Drawer(h)
  BY DEF RefIdsInv
<1> QED
  BY <1>1, <1>2, <1>3 DEF Drawer

\* So a step of g keeps the invariant, if g's activity and the records keep theirs.
LEMMA OneGenerates ==
  ASSUME RefIdsInv, NEW g \in Generators, NEW next, generator' = [generator EXCEPT ![g] = next],
         UNCHANGED <<ids, inputs>>, drawn' \in drawn .. MaxNumber, refIdFailures' \in 0 .. MaxRefIdFailures,
         \E X : output' \in [Generators -> X],
         \A h \in Generators : h # g => output'[h] = output[h],
         \A h \in Generators : h # g => next.got \cap generator[h].got = {},
         Drawer(g)', \A h \in Generators : InRecord(h)'
  PROVE  RefIdsInv'
<1>1. generator'[g] = next /\ \A h \in Generators : h # g => generator'[h] = generator[h]
  BY DEF RefIdsInv
<1>2. RefIdsStatics'
  <2>1. drawn' \in 0 .. MaxNumber
    BY DEF RefIdsInv, RefIdsStatics
  <2> QED
    BY <2>1 DEF RefIdsInv, RefIdsStatics
<1>3. (\E X : generator \in [Generators -> X])'
  <2>1. PICK X : generator \in [Generators -> X]
    BY DEF RefIdsInv
  <2>2. generator' \in [Generators -> X \cup {next}]
    BY <2>1
  <2> QED
    BY <2>2
<1>4. \A h \in Generators : h # g => Drawer(h)'
  BY DrawersApart
<1>5. \A h, l \in Generators : h # l => generator'[h].got \cap generator'[l].got = {}
  <2> SUFFICES ASSUME NEW h \in Generators, NEW l \in Generators, h # l
               PROVE  generator'[h].got \cap generator'[l].got = {}
    OBVIOUS
  <2>1. CASE h = g
    BY <1>1, <2>1
  <2>2. CASE l = g
    BY <1>1, <2>2
  <2>3. CASE h # g /\ l # g
    BY <1>1, <2>3 DEF RefIdsInv
  <2> QED
    BY <2>1, <2>2, <2>3
<1> QED
  BY <1>2, <1>3, <1>4, <1>5 DEF RefIdsInv

LEMMA CollectRefIdsKeeps == ASSUME RefIdsInv, NEW g \in Generators, Collect(g) PROVE RefIdsInv'
<1> DEFINE targets == AllTargets(ids[g])
           sound == WellFormed(ids[g]) /\ \A i \in DOMAIN targets : Fillable(inputs[g], targets[i].place)
           next == IF sound THEN [pc |-> "generate", doc |-> inputs[g], todo |-> targets, got |-> {}]
                   ELSE [NotGenerating EXCEPT !.pc = "refused"]
<1>1. /\ generator[g].pc = "idle" /\ generator' = [generator EXCEPT ![g] = next]
      /\ UNCHANGED <<ids, inputs, drawn, output, refIdFailures>>
  BY DEF Collect
<1>2. ids[g] \in Seq(Entries) /\ inputs[g] \in GivenDocuments
  BY DEF RefIdsInv, RefIdsStatics
<1>3. sound => Fills(inputs[g], targets, {}, ids[g], inputs[g])
  BY <1>2, FillsAtFirst
<1>4. /\ next \in Generating /\ next.got = {} /\ next.pc \in {"generate", "refused"}
      /\ next.pc = "generate" => Fills(next.doc, next.todo, next.got, ids[g], inputs[g])
  <2>1. inputs[g] \in Documents /\ targets \in Seq(FillTargets)
    BY <1>2, TargetsAre DEF GivenDocuments, Documents
  <2>2. << >> \in Seq(FillTargets)
    OBVIOUS
  <2> HIDE DEF sound, targets
  <2> QED
    BY <1>3, <2>1, <2>2 DEF NotGenerating, Generating
<1> HIDE DEF next, sound, targets
<1>5. generator'[g] = next /\ \A h \in Generators : h # g => generator'[h] = generator[h]
  BY <1>1 DEF RefIdsInv
<1>6. Drawer(g)'
  BY <1>1, <1>4, <1>5 DEF Drawer
<1>7. drawn' \in drawn .. MaxNumber /\ refIdFailures' \in 0 .. MaxRefIdFailures
  BY <1>1 DEF RefIdsInv, RefIdsStatics
<1>8. \A h \in Generators : InRecord(h)'
  <2> SUFFICES ASSUME NEW h \in Generators
               PROVE  InRecord(h)'
    OBVIOUS
  <2>1. InRecord(h)
    BY DEF RefIdsInv
  <2> QED
    BY <1>1, <1>4, <1>5, <2>1 DEF InRecord
<1>9. \E X : output' \in [Generators -> X]
  BY <1>1 DEF RefIdsInv
<1> QED
  BY <1>1, <1>4, <1>6, <1>7, <1>8, <1>9, OneGenerates

LEMMA GenerateKeeps == ASSUME RefIdsInv, NEW g \in Generators, Generate(g) PROVE RefIdsInv'
<1> DEFINE doc == generator[g].doc
           todo == generator[g].todo
           got == generator[g].got
           target == Head(todo)
           holds == doc[target.place] # Nothing
<1>1. /\ generator[g].pc = "generate" /\ todo # << >>
      /\ UNCHANGED <<ids, inputs, output, refIdFailures>>
  BY DEF Generate
<1>2. Fills(doc, todo, got, ids[g], inputs[g]) /\ got \in SUBSET (1 .. drawn) /\ inputs[g] \in GivenDocuments
  BY <1>1 DEF RefIdsInv, Drawer, RefIdsStatics
<1>3. drawn \in 0 .. MaxNumber /\ MaxNumber \in Nat
  BY RefIdsAssumption DEF RefIdsInv, RefIdsStatics
<1>4. (\E X : output' \in [Generators -> X]) /\ refIdFailures' \in 0 .. MaxRefIdFailures
  BY <1>1 DEF RefIdsInv, RefIdsStatics
<1>5. \A h \in Generators : InRecord(h) /\ generator[h].got \in SUBSET (1 .. drawn)
  BY DEF RefIdsInv, Drawer
<1>8. generator[g] \in Generating
  BY DEF RefIdsInv, Drawer
<1>6. CASE holds /\ ~target.overwrite
  <2> DEFINE next == [generator[g] EXCEPT !.todo = Tail(todo)]
  <2>1. generator' = [generator EXCEPT ![g] = next] /\ drawn' = drawn
    BY <1>6 DEF Generate, RefIdsInv
  <2>2. Fills(doc, Tail(todo), got, ids[g], inputs[g])
    BY <1>1, <1>2, FillsPast
  <2>3. generator[g].todo # << >> /\ next.got = got /\ next.doc = doc
    BY <1>1
  <2>4. next.pc = "generate" /\ next.todo = Tail(todo)
    BY <1>1
  <2>10. next \in Generating
    <3>1. Tail(todo) \in Seq(FillTargets)
      BY <2>2 DEF Fills, Ahead
    <3> QED
      BY <1>8, <3>1 DEF Generating
  <2> HIDE DEF next
  <2>5. generator'[g] = next /\ \A h \in Generators : h # g => generator'[h] = generator[h]
    BY <2>1 DEF RefIdsInv
  <2> HIDE DEF doc, todo, target, holds
  <2>6. Drawer(g)'
    BY <1>1, <1>2, <2>1, <2>2, <2>3, <2>4, <2>5, <2>10 DEF Drawer
  <2>7. drawn' \in drawn .. MaxNumber
    BY <1>3, <2>1
  <2>8. \A h \in Generators : InRecord(h)'
    <3> SUFFICES ASSUME NEW h \in Generators
                 PROVE  InRecord(h)'
      OBVIOUS
    <3>1. \A l \in Generators : generator'[l].got = generator[l].got /\ generator'[l].pc = generator[l].pc
      BY <1>1, <2>3, <2>4, <2>5
    <3> QED
      BY <1>1, <1>5, <2>1, <3>1 DEF InRecord
  <2>9. \A h \in Generators : h # g => next.got \cap generator[h].got = {}
    BY <2>3 DEF RefIdsInv
  <2> QED
    BY <1>1, <1>4, <2>1, <2>6, <2>7, <2>8, <2>9, OneGenerates
<1>7. CASE ~ (holds /\ ~target.overwrite)
  <2> DEFINE n == drawn + 1
             next == [pc |-> "generate", doc |-> Write(doc, target.place, n), todo |-> Tail(todo), got |-> got \cup {n}]
  <2>1. drawn < MaxNumber /\ drawn' = n /\ generator' = [generator EXCEPT ![g] = next]
    BY <1>7 DEF Generate
  <2>2. n \in 1 .. MaxNumber /\ n \notin 1 .. drawn /\ drawn' \in drawn .. MaxNumber
    BY <1>3, <2>1
  <2>3. doc[target.place] = Nothing \/ target.overwrite
    BY <1>7
  <2>4. got \in SUBSET (1 .. MaxNumber) /\ n \notin got
    BY <1>2, <1>3, <2>2
  <2> HIDE DEF doc, todo, got, n
  <2>5. Fills(Write(doc, target.place, n), Tail(todo), got \cup {n}, ids[g], inputs[g])
    BY <1>1, <1>2, <2>2, <2>3, <2>4, FillsOne
  <2>6. /\ next.pc = "generate" /\ next.got = got \cup {n}
        /\ Fills(next.doc, next.todo, next.got, ids[g], inputs[g])
    BY <2>5
  <2>12. next \in Generating
    <3>1. Tail(todo) \in Seq(FillTargets) /\ Write(doc, target.place, n) \in Documents
      BY <2>5 DEF Fills, Ahead
    <3>2. got \cup {n} \in SUBSET (1 .. MaxNumber)
      BY <2>2, <2>4
    <3> QED
      BY <3>1, <3>2 DEF Generating
  <2> HIDE DEF next, target, holds
  <2>7. generator'[g] = next /\ \A h \in Generators : h # g => generator'[h] = generator[h]
    BY <2>1 DEF RefIdsInv
  <2>8. got \cup {n} \in SUBSET (1 .. drawn')
    BY <1>2, <1>3, <2>1 DEF n
  <2>9. Drawer(g)'
    BY <1>1, <2>6, <2>7, <2>8, <2>12 DEF Drawer
  <2>10. ASSUME NEW h \in Generators
         PROVE  InRecord(h)'
    <3>1. InRecord(h) /\ output'[h] = output[h]
      BY <1>1, <1>5
    <3>2. ASSUME NEW p \in Places, output[h] # << >>
          PROVE  /\ output[h][p] \in 1 .. MaxNumber => output[h][p] \in 1 .. drawn'
                 /\ \A l \in Generators :
                      output[h][p] \in generator'[l].got => l = h /\ generator'[l].pc \in {"save", "done"}
      <4>1. output[h][p] \in 1 .. MaxNumber => output[h][p] \in 1 .. drawn
        BY <3>1, <3>2 DEF InRecord
      <4>2. output[h][p] # n
        BY <2>2, <4>1
      <4>3. ASSUME NEW l \in Generators, output[h][p] \in generator'[l].got
            PROVE  l = h /\ generator'[l].pc \in {"save", "done"}
        <5>1. output[h][p] \in generator[l].got
          BY <2>6, <2>7, <4>2, <4>3 DEF got
        <5>2. l = h /\ generator[l].pc \in {"save", "done"}
          BY <3>1, <3>2, <5>1 DEF InRecord
        <5> QED
          BY <1>1, <2>7, <5>2
      <4>4. \A m \in 1 .. drawn : m \in 1 .. drawn'
        BY <1>3, <2>1 DEF n
      <4> QED
        BY <4>1, <4>3, <4>4
    <3> QED
      BY <3>1, <3>2 DEF InRecord
  <2>11. \A h \in Generators : h # g => next.got \cap generator[h].got = {}
    <3> SUFFICES ASSUME NEW h \in Generators, h # g
                 PROVE  next.got \cap generator[h].got = {}
      OBVIOUS
    <3>1. got \cap generator[h].got = {}
      BY DEF RefIdsInv, got
    <3>2. n \notin generator[h].got
      BY <1>5, <2>2
    <3> QED
      BY <2>6, <3>1, <3>2
  <2> QED
    BY <1>1, <1>4, <2>1, <2>2, <2>9, <2>10, <2>11, OneGenerates
<1> QED
  BY <1>6, <1>7

LEMMA SaveOutputKeeps == ASSUME RefIdsInv, NEW g \in Generators, SaveOutput(g) PROVE RefIdsInv'
<1> DEFINE next == [generator[g] EXCEPT !.pc = "save"]
           doc == generator[g].doc
           got == generator[g].got
<1>1. /\ generator[g].pc = "generate" /\ output' = [output EXCEPT ![g] = doc]
      /\ generator' = [generator EXCEPT ![g] = next]
      /\ UNCHANGED <<ids, inputs, drawn, refIdFailures>>
  BY DEF SaveOutput
<1>2. Fills(doc, generator[g].todo, got, ids[g], inputs[g]) /\ got \in SUBSET (1 .. drawn)
  BY <1>1 DEF RefIdsInv, Drawer
<1>3. /\ generator[g] \in Generating
      /\ next \in Generating /\ next.doc = doc /\ next.todo = generator[g].todo /\ next.got = got /\ next.pc = "save"
  <2>1. generator[g] \in Generating
    BY DEF RefIdsInv, Drawer
  <2> QED
    BY <2>1 DEF Generating
<1>4. doc \in Documents /\ \A p \in Places : doc[p] \in 1 .. MaxNumber => doc[p] \in got
  BY <1>2 DEF Fills
<1>5. \A h \in Generators : h # g => got \cap generator[h].got = {}
  BY DEF RefIdsInv
<1>6. \A h \in Generators : InRecord(h) /\ generator[h].got \in SUBSET (1 .. MaxNumber)
  BY DEF RefIdsInv, Drawer, Generating
<1> HIDE DEF next, doc, got
<1>7. /\ generator'[g] = next /\ output'[g] = doc
      /\ \A h \in Generators : h # g => generator'[h] = generator[h] /\ output'[h] = output[h]
  BY <1>1 DEF RefIdsInv
<1>8. Drawer(g)'
  BY <1>1, <1>2, <1>3, <1>7 DEF Drawer
<1>9. drawn' \in drawn .. MaxNumber /\ refIdFailures' \in 0 .. MaxRefIdFailures
  BY <1>1 DEF RefIdsInv, RefIdsStatics
<1>10. \A l \in Generators : generator'[l].got = generator[l].got
  BY <1>3, <1>7 DEF got
<1>11. InRecord(g)'
  <2>1. ASSUME NEW p \in Places
        PROVE  /\ doc[p] \in 1 .. MaxNumber => doc[p] \in 1 .. drawn
               /\ \A l \in Generators : doc[p] \in generator[l].got => l = g
    <3>1. doc[p] \in 1 .. MaxNumber => doc[p] \in got
      BY <1>4
    <3>2. ASSUME NEW l \in Generators, doc[p] \in generator[l].got
          PROVE  l = g
      <4>1. doc[p] \in got
        BY <1>6, <3>1, <3>2
      <4> QED
        BY <1>5, <3>2, <4>1
    <3> QED
      BY <1>2, <3>1, <3>2
  <2> QED
    BY <1>1, <1>3, <1>4, <1>7, <1>10, <2>1 DEF InRecord
<1>12. ASSUME NEW h \in Generators, h # g
       PROVE  InRecord(h)'
  <2>1. InRecord(h) /\ output'[h] = output[h]
    BY <1>6, <1>7, <1>12
  <2>2. \A l \in Generators : generator[l].pc \in {"save", "done"} => generator'[l].pc \in {"save", "done"}
    BY <1>3, <1>7
  <2> QED
    BY <1>1, <1>10, <2>1, <2>2 DEF InRecord
<1>13. \A h \in Generators : h # g => next.got \cap generator[h].got = {}
  BY <1>3, <1>5
<1>14. \E X : output' \in [Generators -> X]
  <2>1. PICK X : output \in [Generators -> X]
    BY DEF RefIdsInv
  <2>2. output' \in [Generators -> X \cup {doc}]
    BY <1>1, <2>1
  <2> QED
    BY <2>2
<1> QED
  BY <1>1, <1>7, <1>8, <1>9, <1>11, <1>12, <1>13, <1>14, OneGenerates

LEMMA CompletesKeeps == ASSUME RefIdsInv, NEW g \in Generators, Completes(g) PROVE RefIdsInv'
<1> DEFINE next == [generator[g] EXCEPT !.pc = "done"]
<1>1. /\ generator[g].pc = "save" /\ generator' = [generator EXCEPT ![g] = next]
      /\ UNCHANGED <<ids, inputs, drawn, output, refIdFailures>>
  BY DEF Completes
<1>2. Drawer(g) /\ generator[g] \in Generating
  BY DEF RefIdsInv, Drawer
<1>3. /\ next \in Generating /\ next.doc = generator[g].doc /\ next.todo = generator[g].todo
      /\ next.got = generator[g].got /\ next.pc = "done"
  BY <1>2 DEF Generating
<1> HIDE DEF next
<1>4. generator'[g] = next /\ \A h \in Generators : h # g => generator'[h] = generator[h]
  BY <1>1 DEF RefIdsInv
<1>5. Drawer(g)'
  BY <1>1, <1>2, <1>3, <1>4 DEF Drawer
<1>6. drawn' \in drawn .. MaxNumber /\ refIdFailures' \in 0 .. MaxRefIdFailures
  BY <1>1 DEF RefIdsInv, RefIdsStatics
<1>7. ASSUME NEW h \in Generators
      PROVE  InRecord(h)'
  <2>1. InRecord(h)
    BY DEF RefIdsInv
  <2>2. \A l \in Generators :
          /\ generator'[l].got = generator[l].got
          /\ generator[l].pc \in {"save", "done"} => generator'[l].pc \in {"save", "done"}
    BY <1>3, <1>4
  <2> QED
    BY <1>1, <2>1, <2>2 DEF InRecord
<1>8. \A h \in Generators : h # g => next.got \cap generator[h].got = {}
  BY <1>3 DEF RefIdsInv
<1>9. \E X : output' \in [Generators -> X]
  BY <1>1 DEF RefIdsInv
<1> QED
  BY <1>1, <1>5, <1>6, <1>7, <1>8, <1>9, OneGenerates

LEMMA GeneratorFailsKeeps == ASSUME RefIdsInv, NEW g \in Generators, GeneratorFails(g) PROVE RefIdsInv'
<1>1. /\ generator' = [generator EXCEPT ![g] = NotGenerating]
      /\ refIdFailures < MaxRefIdFailures /\ refIdFailures' = refIdFailures + 1
      /\ UNCHANGED <<ids, inputs, drawn, output>>
  BY DEF GeneratorFails
<1>2. NotGenerating \in Generating /\ NotGenerating.got = {} /\ NotGenerating.pc = "idle"
  BY IdleIs
<1>3. generator'[g] = NotGenerating /\ \A h \in Generators : h # g => generator'[h] = generator[h]
  BY <1>1 DEF RefIdsInv
<1>4. Drawer(g)'
  BY <1>1, <1>2, <1>3 DEF Drawer
<1>5. drawn' \in drawn .. MaxNumber /\ refIdFailures' \in 0 .. MaxRefIdFailures
  BY <1>1, RefIdsAssumption DEF RefIdsInv, RefIdsStatics
<1>6. ASSUME NEW h \in Generators
      PROVE  InRecord(h)'
  <2>1. InRecord(h)
    BY DEF RefIdsInv
  <2> QED
    BY <1>1, <1>2, <1>3, <2>1 DEF InRecord
<1>7. \A h \in Generators : h # g => NotGenerating.got \cap generator[h].got = {}
  BY <1>2
<1>8. \E X : output' \in [Generators -> X]
  BY <1>1 DEF RefIdsInv
<1> QED
  BY <1>1, <1>4, <1>5, <1>6, <1>7, <1>8, OneGenerates

LEMMA RefIdsStep == RefIdsInv /\ [RefIdsNext]_refIdVars => RefIdsInv'
<1>1. ASSUME RefIdsInv, RefIdsNext
      PROVE  RefIdsInv'
  <2>1. PICK g \in Generators : Collect(g) \/ Generate(g) \/ SaveOutput(g) \/ Completes(g) \/ GeneratorFails(g)
    BY <1>1 DEF RefIdsNext
  <2> QED
    BY <1>1, <2>1, CollectRefIdsKeeps, GenerateKeeps, SaveOutputKeeps, CompletesKeeps, GeneratorFailsKeeps
<1> QED
  BY <1>1, RefIdsStays

\* A record that is some step's own has a number of its run in one place, and no other record has it.
LEMMA LandedOnce == RefIdsInv => NumbersLandOnce
<1> SUFFICES ASSUME RefIdsInv, NEW g \in Generators, generator[g].pc = "done"
             PROVE  /\ \A n \in generator[g].got :
                         Cardinality({w \in Generators \X Places :
                                        output[w[1]] # << >> /\ output[w[1]][w[2]] = n}) = 1
                    /\ \A p \in Places : inputs[g][p] = Given =>
                         \/ output[g][p] = Given
                         \/ \E i \in DOMAIN AllTargets(ids[g]) :
                              AllTargets(ids[g])[i].place = p /\ AllTargets(ids[g])[i].overwrite
  BY DEF NumbersLandOnce
<1> DEFINE doc == generator[g].doc
<1>1. Fills(doc, generator[g].todo, generator[g].got, ids[g], inputs[g]) /\ output[g] = doc
  BY DEF RefIdsInv, Drawer
<1>2. ASSUME NEW n \in generator[g].got
      PROVE  Cardinality({w \in Generators \X Places : output[w[1]] # << >> /\ output[w[1]][w[2]] = n}) = 1
  <2>1. Placed(n, doc, generator[g].todo) /\ doc \in Documents
    BY <1>1 DEF Fills
  <2>2. PICK p \in Places : doc[p] = n /\ \A q \in Places : doc[q] = n => q = p
    BY <2>1 DEF Placed
  <2>3. doc # << >>
    <3>1. DOMAIN doc = Places /\ DOMAIN << >> = {}
      BY <2>1 DEF Documents
    <3> QED
      BY <3>1
  <2>4. \A w \in Generators \X Places :
          output[w[1]] # << >> /\ output[w[1]][w[2]] = n <=> w = <<g, p>>
    <3> SUFFICES ASSUME NEW h \in Generators, NEW q \in Places
                 PROVE  output[h] # << >> /\ output[h][q] = n <=> h = g /\ q = p
      OBVIOUS
    <3>1. InRecord(h)
      BY DEF RefIdsInv
    <3>2. output[h] # << >> /\ output[h][q] = n => h = g
      BY <3>1 DEF InRecord
    <3> HIDE DEF doc
    <3> QED
      BY <1>1, <2>2, <2>3, <3>2
  <2>5. {w \in Generators \X Places : output[w[1]] # << >> /\ output[w[1]][w[2]] = n} = {<<g, p>>}
    BY <2>4
  <2> QED
    BY <2>5, FS_Singleton
<1>3. \A p \in Places : inputs[g][p] = Given => output[g][p] = Given \/ Overwritten(ids[g], p)
  BY <1>1 DEF Fills
<1> QED
  BY <1>2, <1>3 DEF Overwritten

LEMMA RefIdsTyped == RefIdsInv => RefIdsType
<1> SUFFICES ASSUME RefIdsInv
             PROVE  RefIdsType
  OBVIOUS
<1>1. ASSUME NEW g \in Generators
      PROVE  /\ generator[g].pc \in {"idle", "generate", "save", "done", "refused"}
             /\ generator[g].got \subseteq 1 .. drawn
             /\ inputs[g] \in Documents
             /\ output[g] # << >> => output[g] \in Documents
  BY DEF RefIdsInv, RefIdsStatics, Drawer, InRecord, Generating, GivenDocuments, Documents
<1> QED
  BY <1>1 DEF RefIdsInv, RefIdsStatics, RefIdsType

\* The records of any number of steps that draw numbers have their types.
THEOREM RefIdsTypeCorrect == RefIdsSpec => []RefIdsType
<1> QED
  BY RefIdsInitially, RefIdsStep, RefIdsTyped, PTL DEF RefIdsSpec

----------------------------------------------------------------------------
(***************************************************************************)
(* The values that a step writes, for any entries, any rows and any        *)
(* inputs: which fields are written is fixed when they are read, and no    *)
(* write undoes another's, in whatever order they come.                    *)
(***************************************************************************)
\* The fields that entries write in the inputs held, and what one of them covers or is in.
Aims(entries, held) ==
  {t \in (DOMAIN entries) \X (Elements \cup {0}) : t[2] \in RowsOf(entries[t[1]], held)}
OverPlace(entries, t, p) == t[2] = p[1] /\ IsPrefix(entries[t[1]].path, p[2])
WithinPlace(entries, t, p) == t[2] = p[1] /\ IsStrictPrefix(p[2], entries[t[1]].path)
Relists(entries) == \E i \in DOMAIN entries : entries[i].path = ListPath

\* What p holds when the fields T are written.
Lands(entries, held, T, at, p) ==
  \/ \E t \in T :
       /\ OverPlace(entries, t, p)
       /\ at[p] = ValueOf(held, entries[t[1]], t[2])[SubSeq(p[2], Len(entries[t[1]].path) + 1, Len(p[2]))]
  \/ /\ \A t \in T : ~OverPlace(entries, t, p)
     /\ at[p] = IF \E t \in T : WithinPlace(entries, t, p) THEN Object ELSE held.at[p]
Landed(entries, held, T, at) ==
  \A p \in Places : (p[1] # 0 /\ Relists(entries)) \/ Lands(entries, held, T, at, p)

\* A write of a field.
WriteOf(entries, held, t) ==
  [place |-> <<t[2], entries[t[1]].path>>, value |-> ValueOf(held, entries[t[1]], t[2])]
AllWrites(entries, held) == {WriteOf(entries, held, t) : t \in Aims(entries, held)}

\* todo is a write of each of some fields, and at is what the others leave.
Pending(entries, held, todo, at, aim) ==
  /\ aim \in [1 .. Len(todo) -> Aims(entries, held)]
  /\ \A i, j \in 1 .. Len(todo) : aim[i] = aim[j] => i = j
  /\ \A i \in 1 .. Len(todo) : todo[i] = WriteOf(entries, held, aim[i])
  /\ Landed(entries, held, Aims(entries, held) \ {aim[i] : i \in 1 .. Len(todo)}, at)

LEMMA AimsAre ==
  ASSUME NEW entries \in Seq(Writes), NEW held, NEW t \in Aims(entries, held)
  PROVE  /\ t[1] \in 1 .. Len(entries) /\ t[2] \in Elements \cup {0} /\ t = <<t[1], t[2]>>
         /\ entries[t[1]] \in Writes /\ entries[t[1]].path \in AnyPaths
         /\ entries[t[1]].each \in BOOLEAN /\ (entries[t[1]].each <=> t[2] # 0)
         /\ t[2] # 0 => held.list = "rows"
<1>1. /\ t[1] \in 1 .. Len(entries) /\ t[2] \in Elements \cup {0} /\ t = <<t[1], t[2]>>
      /\ t[2] \in RowsOf(entries[t[1]], held)
  BY DEF Aims
<1>2. entries[t[1]] \in Writes
  BY <1>1
<1>3. entries[t[1]].path \in AnyPaths /\ entries[t[1]].each \in BOOLEAN
  BY <1>2 DEF Writes, AnyPaths
<1>4. 0 \notin Elements
  BY RefIdsAssumption, FS_CardinalityType
<1> QED
  BY <1>1, <1>2, <1>3, <1>4 DEF RowsOf

\* Two fields that are written are apart.
LEMMA AimsApart ==
  ASSUME NEW entries \in Seq(Writes), NEW held, WritesWellFormed(entries),
         NEW t \in Aims(entries, held), NEW u \in Aims(entries, held), t # u, t[2] = u[2]
  PROVE  ~Overlapping(entries[t[1]].path, entries[u[1]].path)
<1>1. /\ t[1] \in 1 .. Len(entries) /\ t = <<t[1], t[2]>> /\ u[1] \in 1 .. Len(entries) /\ u = <<u[1], u[2]>>
      /\ entries[t[1]].each = entries[u[1]].each
  BY AimsAre
<1>2. t[1] < u[1] \/ u[1] < t[1]
  BY <1>1
<1>3. \A i, j \in DOMAIN entries :
        i < j /\ entries[i].each = entries[j].each => ~Overlapping(entries[i].path, entries[j].path)
  BY DEF WritesWellFormed
<1>4. t[1] \in DOMAIN entries /\ u[1] \in DOMAIN entries
  BY <1>1
<1>5. ~Overlapping(entries[t[1]].path, entries[u[1]].path) \/ ~Overlapping(entries[u[1]].path, entries[t[1]].path)
  BY <1>1, <1>2, <1>3, <1>4
<1> QED
  BY <1>5 DEF Overlapping

\* A write of the list covers and enters no field.
LEMMA ListCovers ==
  ASSUME NEW p \in Paths
  PROVE  ~IsPrefix(ListPath, p) /\ ~IsPrefix(p, ListPath)
<1>1. ListPath \in AnyPaths /\ p \in AnyPaths /\ ListPath[1] = "list" /\ Len(ListPath) = 1
  BY DEF AnyPaths, ListPath
<1>2. p[1] # "list"
  BY <1>1, PathIs
<1>3. ListPath \in Seq(Names) /\ p \in Seq(Names) /\ 1 \in 1 .. Len(ListPath) /\ 1 \in 1 .. Len(p)
  BY <1>1, PathIs
<1> QED
  BY <1>1, <1>2, <1>3, PrefixStarts

\* What a write puts in each place.
Puts(put, doc, row, path, value) ==
  /\ path = ListPath => put.list = "other" /\ \A p \in Places : p[1] = 0 => put.at[p] = doc.at[p]
  /\ path # ListPath => put.list = doc.list
  /\ path # ListPath /\ row # 0 /\ doc.list # "rows" => put.at = doc.at
  /\ path # ListPath /\ (row = 0 \/ doc.list = "rows") =>
       \A p \in Places :
         put.at[p] = IF p[1] # row THEN doc.at[p]
                     ELSE IF IsPrefix(path, p[2]) THEN value[SubSeq(p[2], Len(path) + 1, Len(p[2]))]
                     ELSE IF IsStrictPrefix(p[2], path) THEN Object
                     ELSE doc.at[p]
  /\ \E Y : put \in [list : Lists, at : [Places -> Y]]

LEMMA PutIs ==
  ASSUME NEW X, NEW doc \in [list : Lists, at : [Places -> X]], NEW row, NEW path, NEW value
  PROVE  Puts(PutValue(doc, <<row, path>>, value), doc, row, path, value)
<1> DEFINE put == PutValue(doc, <<row, path>>, value)
<1>1. doc.list \in Lists /\ doc.at \in [Places -> X]
  OBVIOUS
<1>2. ASSUME path = ListPath
      PROVE  Puts(put, doc, row, path, value)
  <2> DEFINE at == [p \in Places |-> IF p[1] = 0 THEN doc.at[p] ELSE Nothing]
  <2>1. put = [list |-> "other", at |-> at]
    BY <1>2 DEF PutValue
  <2>2. at \in [Places -> X \cup {Nothing}] /\ "other" \in Lists
    BY <1>1 DEF Lists
  <2>3. put \in [list : Lists, at : [Places -> X \cup {Nothing}]] /\ put.list = "other" /\ put.at = at
    BY <2>1, <2>2
  <2>4. \A p \in Places : p[1] = 0 => at[p] = doc.at[p]
    OBVIOUS
  <2> HIDE DEF at, put
  <2> QED
    BY <1>2, <2>3, <2>4 DEF Puts
<1>3. ASSUME path # ListPath, row # 0, doc.list # "rows"
      PROVE  Puts(put, doc, row, path, value)
  <2>1. put = doc
    BY <1>3 DEF PutValue
  <2> HIDE DEF put
  <2> QED
    BY <1>3, <2>1 DEF Puts
<1>4. ASSUME path # ListPath, row = 0 \/ doc.list = "rows"
      PROVE  Puts(put, doc, row, path, value)
  <2> DEFINE v(p) == IF p[1] # row THEN doc.at[p]
                     ELSE IF IsPrefix(path, p[2]) THEN value[SubSeq(p[2], Len(path) + 1, Len(p[2]))]
                     ELSE IF IsStrictPrefix(p[2], path) THEN Object
                     ELSE doc.at[p]
             Y == {v(p) : p \in Places}
             at == [p \in Places |-> v(p)]
  <2>1. put = [doc EXCEPT !.at = at]
    BY <1>4 DEF PutValue
  <2>2. at \in [Places -> Y]
    OBVIOUS
  <2>3. \A p \in Places : at[p] = v(p)
    OBVIOUS
  <2> HIDE DEF Y, at
  <2>4. put \in [list : Lists, at : [Places -> Y]] /\ put.list = doc.list /\ put.at = at
    BY <1>1, <2>1, <2>2
  <2> HIDE DEF put
  <2> QED
    BY <1>4, <2>3, <2>4 DEF Puts
<1> HIDE DEF put
<1>5. Puts(put, doc, row, path, value)
  BY <1>2, <1>3, <1>4
<1> QED
  BY <1>5 DEF put

\* The next write: of a field that is apart from those that were written.
LEMMA LandsNext ==
  ASSUME NEW entries \in Seq(Writes), NEW held, WritesWellFormed(entries),
         NEW X, NEW doc \in [list : Lists, at : [Places -> X]], doc.list = held.list \/ Relists(entries),
         NEW T \in SUBSET Aims(entries, held), NEW t \in Aims(entries, held), t \notin T,
         Landed(entries, held, T, doc.at)
  PROVE  Landed(entries, held, T \cup {t},
                PutValue(doc, WriteOf(entries, held, t).place, WriteOf(entries, held, t).value).at)
<1> DEFINE row == t[2]
           path == entries[t[1]].path
           value == ValueOf(held, entries[t[1]], t[2])
           put == PutValue(doc, <<row, path>>, value)
<1>1. WriteOf(entries, held, t).place = <<row, path>> /\ WriteOf(entries, held, t).value = value
  BY DEF WriteOf
<1>2. row \in Elements \cup {0} /\ path \in AnyPaths /\ (row # 0 => held.list = "rows") /\ t[1] \in DOMAIN entries
  BY AimsAre
<1>3. /\ path = ListPath => \A p \in Places : p[1] = 0 => put.at[p] = doc.at[p]
      /\ path # ListPath /\ row # 0 /\ doc.list # "rows" => put.at = doc.at
      /\ path # ListPath /\ (row = 0 \/ doc.list = "rows") =>
           \A p \in Places :
             put.at[p] = IF p[1] # row THEN doc.at[p]
                         ELSE IF IsPrefix(path, p[2]) THEN value[SubSeq(p[2], Len(path) + 1, Len(p[2]))]
                         ELSE IF IsStrictPrefix(p[2], path) THEN Object
                         ELSE doc.at[p]
  <2>1. Puts(PutValue(doc, <<row, path>>, value), doc, row, path, value)
    BY PutIs
  <2> QED
    BY <2>1 DEF Puts
<1>4. path = ListPath => Relists(entries)
  BY <1>2 DEF Relists
<1> SUFFICES ASSUME NEW p \in Places, ~ (p[1] # 0 /\ Relists(entries))
             PROVE  Lands(entries, held, T \cup {t}, put.at, p)
  BY <1>1 DEF Landed
<1>5. Lands(entries, held, T, doc.at, p)
  BY DEF Landed
<1>6. OverPlace(entries, t, p) <=> row = p[1] /\ IsPrefix(path, p[2])
  BY DEF OverPlace
<1>7. WithinPlace(entries, t, p) <=> row = p[1] /\ IsStrictPrefix(p[2], path)
  BY DEF WithinPlace
<1>8. p[2] \in Paths /\ p[2] \in AnyPaths
  BY DEF Places, AnyPaths
<1> HIDE DEF put, row, path, value
<1>9. CASE put.at[p] = doc.at[p] /\ ~OverPlace(entries, t, p) /\ ~WithinPlace(entries, t, p)
  BY <1>5, <1>9 DEF Lands
<1>10. CASE OverPlace(entries, t, p) /\ put.at[p] = value[SubSeq(p[2], Len(path) + 1, Len(p[2]))]
  BY <1>10 DEF Lands, value, path, row
<1>11. CASE WithinPlace(entries, t, p) /\ ~OverPlace(entries, t, p) /\ put.at[p] = Object
  <2>1. ASSUME NEW u \in T, OverPlace(entries, u, p)
        PROVE  FALSE
    <3>1. u[2] = p[1] /\ IsPrefix(entries[u[1]].path, p[2]) /\ entries[u[1]].path \in AnyPaths
      BY <2>1, AimsAre DEF OverPlace
    <3>2. row = p[1] /\ IsPrefix(p[2], path) /\ p[2] # path
      BY <1>7, <1>11 DEF IsStrictPrefix
    <3>3. Len(path) = 2 /\ p[2] = <<path[1]>>
      BY <1>2, <1>8, <3>2, LeadsTo
    <3>4. Len(p[2]) # 2
      BY <3>3
    <3>5. entries[u[1]].path = p[2]
      BY <1>8, <3>1, <3>4, LeadsTo
    <3>6. Overlapping(entries[u[1]].path, path)
      BY <3>2, <3>5 DEF Overlapping
    <3>7. u # t /\ u[2] = t[2]
      BY <3>1, <3>2 DEF row
    <3> QED
      BY <3>6, <3>7, AimsApart DEF path
  <2>2. \A u \in T \cup {t} : ~OverPlace(entries, u, p)
    BY <1>11, <2>1
  <2> QED
    BY <1>11, <2>2 DEF Lands
<1>12. CASE path = ListPath
  <2>1. p[1] = 0 /\ put.at[p] = doc.at[p]
    BY <1>3, <1>4, <1>12
  <2>2. ~IsPrefix(path, p[2]) /\ ~IsStrictPrefix(p[2], path)
    BY <1>8, <1>12, ListCovers DEF IsStrictPrefix
  <2> QED
    BY <1>6, <1>7, <1>9, <2>1, <2>2
<1>13. CASE path # ListPath /\ row # 0 /\ doc.list # "rows"
  <2>1. Relists(entries) /\ p[1] = 0
    BY <1>2, <1>13
  <2> QED
    BY <1>3, <1>6, <1>7, <1>9, <1>13, <2>1
<1>14. CASE path # ListPath /\ (row = 0 \/ doc.list = "rows")
  <2>1. put.at[p] = IF p[1] # row THEN doc.at[p]
                    ELSE IF IsPrefix(path, p[2]) THEN value[SubSeq(p[2], Len(path) + 1, Len(p[2]))]
                    ELSE IF IsStrictPrefix(p[2], path) THEN Object
                    ELSE doc.at[p]
    BY <1>3, <1>14
  <2>2. CASE p[1] # row
    BY <1>6, <1>7, <1>9, <2>1, <2>2
  <2>3. CASE p[1] = row /\ IsPrefix(path, p[2])
    BY <1>6, <1>10, <2>1, <2>3
  <2>4. CASE p[1] = row /\ ~IsPrefix(path, p[2]) /\ IsStrictPrefix(p[2], path)
    BY <1>6, <1>7, <1>11, <2>1, <2>4
  <2>5. CASE p[1] = row /\ ~IsPrefix(path, p[2]) /\ ~IsStrictPrefix(p[2], path)
    BY <1>6, <1>7, <1>9, <2>1, <2>5
  <2> QED
    BY <2>2, <2>3, <2>4, <2>5
<1> QED
  BY <1>12, <1>13, <1>14

\* What is left to write after the next.
LEMMA PendingNext ==
  ASSUME NEW entries \in Seq(Writes), NEW held, WritesWellFormed(entries),
         NEW X, NEW doc \in [list : Lists, at : [Places -> X]], doc.list = held.list \/ Relists(entries),
         NEW todo \in Seq(AllWrites(entries, held)), todo # << >>,
         NEW aim, Pending(entries, held, todo, doc.at, aim)
  PROVE  \E next : Pending(entries, held, Tail(todo), PutValue(doc, Head(todo).place, Head(todo).value).at, next)
<1> DEFINE rest == Tail(todo)
           next == [i \in 1 .. Len(Tail(todo)) |-> aim[i + 1]]
           T == Aims(entries, held) \ {aim[i] : i \in 1 .. Len(todo)}
           put == PutValue(doc, Head(todo).place, Head(todo).value)
<1>1. /\ rest \in Seq(AllWrites(entries, held)) /\ Len(rest) \in Nat /\ Len(todo) = Len(rest) + 1
      /\ 1 \in 1 .. Len(todo) /\ Head(todo) = todo[1]
      /\ \A i \in 1 .. Len(rest) : i + 1 \in 1 .. Len(todo) /\ rest[i] = todo[i + 1]
  OBVIOUS
<1>2. /\ aim \in [1 .. Len(todo) -> Aims(entries, held)]
      /\ \A i, j \in 1 .. Len(todo) : aim[i] = aim[j] => i = j
      /\ \A i \in 1 .. Len(todo) : todo[i] = WriteOf(entries, held, aim[i])
      /\ Landed(entries, held, T, doc.at)
  BY DEF Pending
<1>3. next \in [1 .. Len(rest) -> Aims(entries, held)] /\ \A i \in 1 .. Len(rest) : next[i] = aim[i + 1]
  BY <1>1, <1>2
<1> HIDE DEF rest, next, T, put
<1>4. \A i, j \in 1 .. Len(rest) : next[i] = next[j] => i = j
  <2> SUFFICES ASSUME NEW i \in 1 .. Len(rest), NEW j \in 1 .. Len(rest), next[i] = next[j]
               PROVE  i = j
    OBVIOUS
  <2>1. i + 1 = j + 1
    BY <1>1, <1>2, <1>3
  <2> QED
    BY <2>1
<1>5. \A i \in 1 .. Len(rest) : rest[i] = WriteOf(entries, held, next[i])
  BY <1>1, <1>2, <1>3
<1>6. aim[1] \in Aims(entries, held) /\ aim[1] \notin T /\ T \in SUBSET Aims(entries, held)
  BY <1>1, <1>2 DEF T
<1>7. Landed(entries, held, T \cup {aim[1]}, put.at)
  <2>1. Head(todo) = WriteOf(entries, held, aim[1])
    BY <1>1, <1>2
  <2> DEFINE t == aim[1]
  <2>2. t \in Aims(entries, held) /\ t \notin T /\ T \in SUBSET Aims(entries, held) /\ Landed(entries, held, T, doc.at)
    BY <1>2, <1>6
  <2> HIDE DEF t
  <2>3. Landed(entries, held, T \cup {t}, PutValue(doc, WriteOf(entries, held, t).place, WriteOf(entries, held, t).value).at)
    BY <2>2, LandsNext
  <2> QED
    BY <2>1, <2>3 DEF put, t
<1>8. Aims(entries, held) \ {next[i] : i \in 1 .. Len(rest)} = T \cup {aim[1]}
  <2>1. ASSUME NEW i \in 1 .. Len(rest)
        PROVE  next[i] # aim[1] /\ next[i] \notin T
    <3>1. i + 1 # 1
      OBVIOUS
    <3> QED
      BY <1>1, <1>2, <1>3, <3>1 DEF T
  <2>2. ASSUME NEW t \in Aims(entries, held), t # aim[1], t \notin T
        PROVE  \E i \in 1 .. Len(rest) : t = next[i]
    <3>1. PICK i \in 1 .. Len(todo) : t = aim[i]
      BY <2>2 DEF T
    <3>2. i # 1 /\ i - 1 \in 1 .. Len(rest) /\ (i - 1) + 1 = i
      BY <1>1, <2>2, <3>1
    <3> QED
      BY <1>3, <3>1, <3>2
  <2> QED
    BY <1>6, <2>1, <2>2
<1>9. Pending(entries, held, rest, put.at, next)
  BY <1>3, <1>4, <1>5, <1>7, <1>8 DEF Pending
<1>10. \E f : Pending(entries, held, rest, put.at, f)
  BY <1>9
<1> QED
  BY <1>10 DEF rest, put

\* The writes of one entry.
RowOf(e, r) == IF e.each THEN r ELSE 0
Collected(c, entries, held, i) ==
  /\ c \in Seq(AllWrites(entries, held))
  /\ \A r \in 1 .. Len(c) :
       /\ <<i, RowOf(entries[i], r)>> \in Aims(entries, held)
       /\ c[r] = WriteOf(entries, held, <<i, RowOf(entries[i], r)>>)
  /\ ~entries[i].each => Len(c) = 1
  /\ entries[i].each /\ held.list = "rows" => Len(c) = Cardinality(Elements)

LEMMA CollectedIs ==
  ASSUME NEW entries \in Seq(Writes), NEW held, NEW i \in 1 .. Len(entries)
  PROVE  Collected(CollectWrites(held, entries[i]), entries, held, i)
<1> DEFINE e == entries[i]
           m == Cardinality(RowsOf(e, held))
           c == CollectWrites(held, e)
<1>1. e \in Writes /\ i \in DOMAIN entries
  OBVIOUS
<1>2. e.each \in BOOLEAN
  BY <1>1 DEF Writes
<1>3. /\ ~e.each => m = 1
      /\ e.each /\ held.list = "rows" => m = Cardinality(Elements)
      /\ e.each /\ held.list # "rows" => m = 0
      /\ m \in Nat
  <2>1. CASE ~e.each
    <3>1. RowsOf(e, held) = {0}
      BY <2>1 DEF RowsOf
    <3>2. m = 1
      BY <3>1, FS_Singleton
    <3> QED
      BY <2>1, <3>2
  <2>2. CASE e.each /\ held.list = "rows"
    <3>1. m = Cardinality(Elements)
      BY <2>2 DEF RowsOf
    <3> QED
      BY <2>2, <3>1, FS_CardinalityType, RefIdsAssumption
  <2>3. CASE e.each /\ held.list # "rows"
    <3>1. RowsOf(e, held) = {}
      BY <2>3 DEF RowsOf
    <3>2. m = 0
      BY <3>1, FS_EmptySet
    <3> QED
      BY <2>3, <3>2
  <2> QED
    BY <1>2, <2>1, <2>2, <2>3
<1>4. c = [r \in 1 .. m |-> [place |-> <<RowOf(e, r), e.path>>, value |-> ValueOf(held, e, RowOf(e, r))]]
  BY DEF CollectWrites, RowOf
<1>5. ASSUME NEW r \in 1 .. m
      PROVE  /\ <<i, RowOf(e, r)>> \in Aims(entries, held)
             /\ c[r] = WriteOf(entries, held, <<i, RowOf(e, r)>>)
             /\ c[r] \in AllWrites(entries, held)
  <2>1. RowOf(e, r) \in RowsOf(e, held) /\ RowOf(e, r) \in Elements \cup {0}
    <3>1. CASE ~e.each
      BY <3>1 DEF RowOf, RowsOf
    <3>2. CASE e.each
      <4>1. held.list = "rows" /\ r \in Elements
        BY <1>3, <3>2, RefIdsAssumption
      <4> QED
        BY <3>2, <4>1 DEF RowOf, RowsOf
    <3> QED
      BY <3>1, <3>2
  <2> DEFINE t == <<i, RowOf(e, r)>>
  <2>2. t \in Aims(entries, held) /\ t[1] = i /\ t[2] = RowOf(e, r)
    BY <1>1, <2>1 DEF Aims
  <2>3. c[r] = [place |-> <<RowOf(e, r), e.path>>, value |-> ValueOf(held, e, RowOf(e, r))]
    BY <1>4
  <2> HIDE DEF t, c
  <2>4. c[r] = WriteOf(entries, held, t)
    BY <2>2, <2>3 DEF WriteOf
  <2> QED
    BY <2>2, <2>4 DEF AllWrites, t
<1> HIDE DEF m, c
<1>6. c \in Seq(AllWrites(entries, held)) /\ Len(c) = m
  <2> DEFINE S == AllWrites(entries, held)
             v(r) == [place |-> <<RowOf(e, r), e.path>>, value |-> ValueOf(held, e, RowOf(e, r))]
  <2>1. c = [r \in 1 .. m |-> v(r)] /\ \A r \in 1 .. m : c[r] \in S
    BY <1>4, <1>5
  <2> HIDE DEF S, v
  <2>2. c \in [1 .. m -> S]
    BY <2>1
  <2>3. m \in Nat
    BY <1>3
  <2>4. c \in Seq(S) /\ Len(c) = m
    BY <2>2, <2>3
  <2> QED
    BY <2>4 DEF S
<1>7. Collected(c, entries, held, i)
  BY <1>3, <1>5, <1>6 DEF Collected
<1> QED
  BY <1>7 DEF c

WholeList(entries, held) == FlattenSeq([i \in DOMAIN entries |-> CollectWrites(held, entries[i])])

\* At first every field is left to write.
LEMMA PendingFirst ==
  ASSUME NEW entries \in Seq(Writes), NEW held
  PROVE  /\ WholeList(entries, held) \in Seq(AllWrites(entries, held))
         /\ \E aim : Pending(entries, held, WholeList(entries, held), held.at, aim)
<1> DEFINE ss == [i \in DOMAIN entries |-> CollectWrites(held, entries[i])]
           k == WholeList(entries, held)
<1>1. \A i \in 1 .. Len(entries) : Collected(CollectWrites(held, entries[i]), entries, held, i)
  BY CollectedIs
<1>2. \A i \in 1 .. Len(entries) : ss[i] = CollectWrites(held, entries[i]) /\ ss[i] \in Seq(AllWrites(entries, held))
  BY <1>1 DEF Collected
<1>3. ss \in Seq(Seq(AllWrites(entries, held))) /\ Len(ss) = Len(entries)
  <2> DEFINE S == Seq(AllWrites(entries, held))
  <2>1. DOMAIN entries = 1 .. Len(entries) /\ Len(entries) \in Nat
    OBVIOUS
  <2>2. ss \in [1 .. Len(entries) -> S]
    BY <1>2, <2>1
  <2> HIDE DEF S, ss
  <2>3. ss \in Seq(S) /\ Len(ss) = Len(entries)
    BY <2>1, <2>2
  <2> QED
    BY <2>3 DEF S
<1>4. k = FlattenSeq(ss)
  BY DEF WholeList
<1> HIDE DEF ss, k
<1>5. k \in Seq(AllWrites(entries, held)) /\ \E of, nth : Joins(of, nth, k, ss, Len(ss))
  BY <1>3, <1>4, FlattenIs
<1>6. PICK of, nth : Joins(of, nth, k, ss, Len(ss))
  BY <1>5
<1> DEFINE aim == [r \in 1 .. Len(k) |-> <<of[r], RowOf(entries[of[r]], nth[r])>>]
<1>7. ASSUME NEW r \in 1 .. Len(k)
      PROVE  /\ of[r] \in 1 .. Len(entries) /\ nth[r] \in 1 .. Len(ss[of[r]]) /\ nth[r] \in Nat
             /\ Collected(ss[of[r]], entries, held, of[r])
             /\ aim[r] = <<of[r], RowOf(entries[of[r]], nth[r])>>
             /\ aim[r] \in Aims(entries, held) /\ k[r] = WriteOf(entries, held, aim[r])
  <2>1. of[r] \in 1 .. Len(entries) /\ nth[r] \in 1 .. Len(ss[of[r]]) /\ k[r] = ss[of[r]][nth[r]] /\ nth[r] \in Nat
    BY <1>3, <1>6 DEF Joins
  <2>2. Collected(ss[of[r]], entries, held, of[r])
    BY <1>1, <1>2, <2>1
  <2>3. aim[r] = <<of[r], RowOf(entries[of[r]], nth[r])>>
    OBVIOUS
  <2> HIDE DEF aim
  <2> QED
    BY <2>1, <2>2, <2>3 DEF Collected
<1>8. aim \in [1 .. Len(k) -> Aims(entries, held)]
  BY <1>7
<1> HIDE DEF aim
<1>9. \A i \in 1 .. Len(entries) : entries[i].each \in BOOLEAN
  <2> SUFFICES ASSUME NEW i \in 1 .. Len(entries)
               PROVE  entries[i].each \in BOOLEAN
    OBVIOUS
  <2>1. entries[i] \in Writes
    OBVIOUS
  <2> QED
    BY <2>1 DEF Writes
<1>10. ASSUME NEW q \in 1 .. Len(k), NEW r \in 1 .. Len(k), aim[q] = aim[r]
       PROVE  q = r
  <2> DEFINE e == entries[of[q]]
  <2>1. of[q] = of[r] /\ RowOf(e, nth[q]) = RowOf(e, nth[r])
    BY <1>7, <1>10
  <2>2. CASE e.each
    <3>1. nth[q] = nth[r]
      BY <2>1, <2>2 DEF RowOf
    <3> QED
      BY <1>6, <2>1, <3>1 DEF Joins
  <2>3. CASE ~e.each
    <3>1. Len(ss[of[q]]) = 1
      BY <1>7, <2>3 DEF Collected
    <3>2. nth[q] = 1 /\ nth[r] = 1
      <4>1. nth[q] \in 1 .. Len(ss[of[q]]) /\ nth[r] \in 1 .. Len(ss[of[r]])
        BY <1>7
      <4>2. nth[q] \in 1 .. 1 /\ nth[r] \in 1 .. 1
        BY <2>1, <3>1, <4>1
      <4> QED
        BY <4>2
    <3> QED
      BY <1>6, <2>1, <3>2 DEF Joins
  <2> QED
    BY <2>2, <2>3
<1>11. ASSUME NEW t \in Aims(entries, held)
       PROVE  \E r \in 1 .. Len(k) : aim[r] = t
  <2> DEFINE e == entries[t[1]]
             n == IF e.each THEN t[2] ELSE 1
  <2>1. /\ t[1] \in 1 .. Len(entries) /\ t[2] \in Elements \cup {0} /\ t = <<t[1], t[2]>>
        /\ e.each \in BOOLEAN /\ (e.each <=> t[2] # 0) /\ (t[2] # 0 => held.list = "rows")
    BY AimsAre
  <2>2. Collected(ss[t[1]], entries, held, t[1])
    BY <1>1, <1>2, <2>1
  <2>3. n \in 1 .. Len(ss[t[1]]) /\ RowOf(e, n) = t[2]
    <3>1. CASE e.each
      <4>1. t[2] \in 1 .. Cardinality(Elements) /\ Len(ss[t[1]]) = Cardinality(Elements)
        BY <2>1, <2>2, <3>1, RefIdsAssumption DEF Collected
      <4> QED
        BY <3>1, <4>1 DEF RowOf
    <3>2. CASE ~e.each
      <4>1. Len(ss[t[1]]) = 1 /\ n = 1 /\ t[2] = 0
        BY <2>1, <2>2, <3>2 DEF Collected
      <4>2. 1 \in 1 .. 1 /\ RowOf(e, 1) = 0
        BY <3>2 DEF RowOf
      <4> HIDE DEF n
      <4> QED
        BY <4>1, <4>2
    <3> QED
      BY <3>1, <3>2
  <2> HIDE DEF n
  <2>4. PICK r \in 1 .. Len(k) : of[r] = t[1] /\ nth[r] = n
    BY <1>3, <1>6, <2>1, <2>3 DEF Joins
  <2> QED
    BY <1>7, <2>1, <2>3, <2>4
<1>12. Landed(entries, held, Aims(entries, held) \ {aim[r] : r \in 1 .. Len(k)}, held.at)
  <2>1. Aims(entries, held) \ {aim[r] : r \in 1 .. Len(k)} = {}
    BY <1>11
  <2>2. Landed(entries, held, {}, held.at)
    BY DEF Landed, Lands
  <2> QED
    BY <2>1, <2>2
<1>13. Pending(entries, held, k, held.at, aim)
  BY <1>7, <1>8, <1>10, <1>12 DEF Pending
<1>14. \E f : Pending(entries, held, k, held.at, f)
  BY <1>13
<1> QED
  BY <1>5, <1>14 DEF k

WritesInv ==
  /\ \E X : writer \in [pc : {"idle", "write", "saved", "refused"}, writes : Seq(Writes), inputs : HeldDocuments,
                        doc : [list : Lists, at : [Places -> X]], todo : Seq(AllWrites(writer.writes, writer.inputs))]
  /\ writer.pc \in {"write", "saved"} =>
       /\ WritesWellFormed(writer.writes)
       /\ writer.doc.list = writer.inputs.list \/ Relists(writer.writes)
       /\ \E aim : Pending(writer.writes, writer.inputs, writer.todo, writer.doc.at, aim)
  /\ writer.pc = "saved" => writer.todo = << >>

\* What the writer's record holds, by field.
WriterHolds(w, pc, entries, held, doc, todo) ==
  /\ pc \in {"idle", "write", "saved", "refused"} /\ entries \in Seq(Writes) /\ held \in HeldDocuments
  /\ \E X : doc \in [list : Lists, at : [Places -> X]]
  /\ todo \in Seq(AllWrites(entries, held))
  /\ w = [pc |-> pc, writes |-> entries, inputs |-> held, doc |-> doc, todo |-> todo]

LEMMA WriterIs ==
  ASSUME WritesInv
  PROVE  WriterHolds(writer, writer.pc, writer.writes, writer.inputs, writer.doc, writer.todo)
BY DEF WritesInv, WriterHolds

LEMMA WriterTyped ==
  ASSUME NEW w, NEW pc, NEW entries, NEW held, NEW doc, NEW todo, WriterHolds(w, pc, entries, held, doc, todo)
  PROVE  \E X : w \in [pc : {"idle", "write", "saved", "refused"}, writes : Seq(Writes), inputs : HeldDocuments,
                       doc : [list : Lists, at : [Places -> X]], todo : Seq(AllWrites(w.writes, w.inputs))]
<1>1. PICK X : doc \in [list : Lists, at : [Places -> X]]
  BY DEF WriterHolds
<1>2. /\ w = [pc |-> pc, writes |-> entries, inputs |-> held, doc |-> doc, todo |-> todo]
      /\ pc \in {"idle", "write", "saved", "refused"} /\ entries \in Seq(Writes) /\ held \in HeldDocuments
      /\ todo \in Seq(AllWrites(entries, held))
  BY DEF WriterHolds
<1>3. w.writes = entries /\ w.inputs = held
  BY <1>2
<1> QED
  BY <1>1, <1>2, <1>3

LEMMA WritesInitially == WritesInit(Seq(Writes), HeldDocuments) => WritesInv
<1> SUFFICES ASSUME NEW entries \in Seq(Writes), NEW held \in HeldDocuments,
                    writer = [pc |-> "idle", writes |-> entries, inputs |-> held, doc |-> held, todo |-> << >>]
             PROVE  WritesInv
  BY DEF WritesInit
<1>1. << >> \in Seq(AllWrites(entries, held))
  OBVIOUS
<1>2. \E X : held \in [list : Lists, at : [Places -> X]]
  BY DEF HeldDocuments
<1>3. WriterHolds(writer, "idle", entries, held, held, << >>)
  BY <1>1, <1>2 DEF WriterHolds
<1> QED
  BY <1>3, WriterTyped DEF WritesInv

LEMMA ReadValuesKeeps == ASSUME WritesInv, ReadValues PROVE WritesInv'
<1> DEFINE entries == writer.writes
           held == writer.inputs
           sound == /\ WritesWellFormed(entries)
                    /\ \A i \in DOMAIN entries :
                         LET e == entries[i]
                         IN (e.each => held.list # "other") /\ \A row \in RowsOf(e, held) : Writable(held, e, row)
           todo == WholeList(entries, held)
<1>1. /\ ~sound => writer' = [writer EXCEPT !.pc = "refused"]
      /\ sound => writer' = [writer EXCEPT !.pc = "write", !.doc = held, !.todo = todo]
  BY DEF ReadValues, WholeList
<1>2. WriterHolds(writer, writer.pc, entries, held, writer.doc, writer.todo)
  BY WriterIs
<1>3. CASE ~sound
  <2>1. WriterHolds(writer', "refused", entries, held, writer.doc, writer.todo) /\ writer'.pc = "refused"
    <3> DEFINE doc == writer.doc
               rest == writer.todo
               pc == writer.pc
    <3>1. WriterHolds(writer, pc, entries, held, doc, rest) /\ writer' = [writer EXCEPT !.pc = "refused"]
      BY <1>1, <1>2, <1>3
    <3> HIDE DEF sound, entries, held, doc, rest, pc
    <3>2. writer' = [pc |-> "refused", writes |-> entries, inputs |-> held, doc |-> doc, todo |-> rest]
      BY <3>1 DEF WriterHolds
    <3>3. WriterHolds(writer', "refused", entries, held, doc, rest) /\ writer'.pc = "refused"
      BY <3>1, <3>2 DEF WriterHolds
    <3> QED
      BY <3>3 DEF doc, rest
  <2> QED
    BY <2>1, WriterTyped DEF WritesInv
<1>4. CASE sound
  <2>1. todo \in Seq(AllWrites(entries, held)) /\ \E aim : Pending(entries, held, todo, held.at, aim)
    BY <1>2, PendingFirst DEF WriterHolds
  <2>2. WritesWellFormed(entries)
    BY <1>4
  <2>3. \E X : held \in [list : Lists, at : [Places -> X]]
    BY <1>2 DEF WriterHolds, HeldDocuments
  <2> DEFINE doc == writer.doc
             rest == writer.todo
             pc == writer.pc
  <2>6. WriterHolds(writer, pc, entries, held, doc, rest)
    BY <1>2
  <2> HIDE DEF sound, entries, held, todo, doc, rest, pc
  <2>4. writer' = [pc |-> "write", writes |-> entries, inputs |-> held, doc |-> held, todo |-> todo]
    <3>1. writer' = [[[writer EXCEPT !.pc = "write"] EXCEPT !.doc = held] EXCEPT !.todo = todo]
      BY <1>1, <1>4
    <3>2. writer = [pc |-> pc, writes |-> entries, inputs |-> held, doc |-> doc, todo |-> rest]
      BY <2>6 DEF WriterHolds
    <3>3. [writer EXCEPT !.pc = "write"] = [pc |-> "write", writes |-> entries, inputs |-> held, doc |-> doc, todo |-> rest]
      BY <3>2
    <3> QED
      BY <3>1, <3>3
  <2>5. WriterHolds(writer', "write", entries, held, held, todo)
    BY <1>2, <2>1, <2>3, <2>4 DEF WriterHolds
  <2> QED
    BY <2>1, <2>2, <2>4, <2>5, WriterTyped DEF WritesInv
<1> QED
  BY <1>3, <1>4

LEMMA WriteFieldKeeps == ASSUME WritesInv, WriteField PROVE WritesInv'
<1> DEFINE entries == writer.writes
           held == writer.inputs
           doc == writer.doc
           todo == writer.todo
           put == PutValue(doc, Head(todo).place, Head(todo).value)
<1>1. /\ writer.pc = "write" /\ todo # << >>
      /\ writer' = [writer EXCEPT !.todo = Tail(todo), !.doc = put]
  BY DEF WriteField, WritesInv
<1>2. WriterHolds(writer, "write", entries, held, doc, todo)
  BY <1>1, WriterIs
<1>3. WritesWellFormed(entries) /\ (doc.list = held.list \/ Relists(entries))
  BY <1>1 DEF WritesInv
<1>4. PICK aim : Pending(entries, held, todo, doc.at, aim)
  BY <1>1 DEF WritesInv
<1> HIDE DEF entries, held, doc, todo
<1>5. PICK X : doc \in [list : Lists, at : [Places -> X]]
  BY <1>2 DEF WriterHolds
<1>6. entries \in Seq(Writes) /\ todo \in Seq(AllWrites(entries, held))
  BY <1>2 DEF WriterHolds
<1>7. \E next : Pending(entries, held, Tail(todo), put.at, next)
  <2>1. todo # << >>
    BY <1>1
  <2> HIDE DEF put
  <2>2. \E next : Pending(entries, held, Tail(todo), PutValue(doc, Head(todo).place, Head(todo).value).at, next)
    BY <1>3, <1>4, <1>5, <1>6, <2>1, PendingNext
  <2> QED
    BY <2>2 DEF put
<1>8. (\E Y : put \in [list : Lists, at : [Places -> Y]]) /\ (put.list = held.list \/ Relists(entries))
  <2>1. PICK t \in Aims(entries, held) : Head(todo) = WriteOf(entries, held, t)
    <3>1. Head(todo) \in AllWrites(entries, held)
      BY <1>1, <1>6
    <3> QED
      BY <3>1 DEF AllWrites
  <2>2. put = PutValue(doc, <<t[2], entries[t[1]].path>>, ValueOf(held, entries[t[1]], t[2]))
    BY <2>1 DEF WriteOf
  <2>3. Puts(put, doc, t[2], entries[t[1]].path, ValueOf(held, entries[t[1]], t[2]))
    BY <1>5, <2>2, PutIs
  <2>4. t[1] \in DOMAIN entries
    BY DEF Aims
  <2>5. entries[t[1]].path = ListPath => Relists(entries)
    BY <2>4 DEF Relists
  <2> HIDE DEF put
  <2> QED
    BY <1>3, <2>3, <2>5 DEF Puts
<1>9. Tail(todo) \in Seq(AllWrites(entries, held))
  BY <1>1, <1>6
<1> HIDE DEF put
<1>10. writer' = [pc |-> "write", writes |-> entries, inputs |-> held, doc |-> put, todo |-> Tail(todo)]
  BY <1>1, <1>2 DEF WriterHolds
<1>11. WriterHolds(writer', "write", entries, held, put, Tail(todo))
  BY <1>2, <1>8, <1>9, <1>10 DEF WriterHolds
<1> QED
  BY <1>3, <1>7, <1>8, <1>10, <1>11, WriterTyped DEF WritesInv

LEMMA SaveWrittenKeeps == ASSUME WritesInv, SaveWritten PROVE WritesInv'
<1>1. writer.pc = "write" /\ writer.todo = << >> /\ writer' = [writer EXCEPT !.pc = "saved"]
  BY DEF SaveWritten
<1>2. WriterHolds(writer, writer.pc, writer.writes, writer.inputs, writer.doc, writer.todo)
  BY WriterIs
<1>3. WriterHolds(writer', "saved", writer.writes, writer.inputs, writer.doc, writer.todo)
  BY <1>1, <1>2 DEF WriterHolds
<1>4. /\ writer'.pc = "saved" /\ writer'.writes = writer.writes /\ writer'.inputs = writer.inputs
      /\ writer'.doc = writer.doc /\ writer'.todo = writer.todo
  BY <1>3 DEF WriterHolds
<1> QED
  BY <1>1, <1>3, <1>4, WriterTyped DEF WritesInv

LEMMA WriterAgainKeeps == ASSUME WritesInv, WriterAgain PROVE WritesInv'
<1>1. writer' = [writer EXCEPT !.pc = "idle", !.todo = << >>]
  BY DEF WriterAgain
<1>2. WriterHolds(writer, writer.pc, writer.writes, writer.inputs, writer.doc, writer.todo)
  BY WriterIs
<1>3. << >> \in Seq(AllWrites(writer.writes, writer.inputs))
  OBVIOUS
<1>4. WriterHolds(writer', "idle", writer.writes, writer.inputs, writer.doc, << >>) /\ writer'.pc = "idle"
  BY <1>1, <1>2, <1>3 DEF WriterHolds
<1> QED
  BY <1>4, WriterTyped DEF WritesInv

LEMMA WritesStay == ASSUME WritesInv, UNCHANGED writer PROVE WritesInv'
<1>1. WritesInv' = WritesInv
  BY DEF WritesInv
<1> QED
  BY <1>1

LEMMA WritesStep == WritesInv /\ [WritesNext]_writer => WritesInv'
BY ReadValuesKeeps, WriteFieldKeeps, SaveWrittenKeeps, WriterAgainKeeps, WritesStay DEF WritesNext

\* When nothing is left to write, every field is written.
LEMMA LandedAsRead == WritesInv => ValuesLandAsRead
<1> SUFFICES ASSUME WritesInv, writer.pc = "saved", NEW p \in Places,
                    ~ (p[1] # 0 /\ \E i \in DOMAIN writer.writes : writer.writes[i].path = ListPath)
             PROVE  \/ \E t \in WriteTargets :
                         /\ Covers(t, p)
                         /\ writer.doc.at[p] =
                              ValueOf(writer.inputs, writer.writes[t[1]], t[2])
                                [SubSeq(p[2], Len(writer.writes[t[1]].path) + 1, Len(p[2]))]
                    \/ /\ \A t \in WriteTargets : ~Covers(t, p)
                       /\ writer.doc.at[p] =
                            IF \E t \in WriteTargets : Enters(t, p) THEN Object ELSE writer.inputs.at[p]
  BY DEF ValuesLandAsRead
<1>1. writer.todo = << >> /\ \E aim : Pending(writer.writes, writer.inputs, writer.todo, writer.doc.at, aim)
  BY DEF WritesInv
<1>2. PICK aim : Pending(writer.writes, writer.inputs, writer.todo, writer.doc.at, aim)
  BY <1>1
<1>3. WriteTargets = Aims(writer.writes, writer.inputs)
  BY DEF WriteTargets, Aims
<1>4. {aim[i] : i \in 1 .. Len(writer.todo)} = {}
  BY <1>1
<1>5. Landed(writer.writes, writer.inputs, WriteTargets \ {}, writer.doc.at)
  BY <1>2, <1>3, <1>4 DEF Pending
<1>6. WriteTargets \ {} = WriteTargets
  OBVIOUS
<1>7. Lands(writer.writes, writer.inputs, WriteTargets, writer.doc.at, p)
  BY <1>5, <1>6 DEF Landed, Relists
<1> QED
  BY <1>7 DEF Lands, OverPlace, WithinPlace, Covers, Enters

LEMMA WriterHasType == WritesInv => WriterType
<1> SUFFICES ASSUME WritesInv PROVE WriterType
  OBVIOUS
<1>1. WriterHolds(writer, writer.pc, writer.writes, writer.inputs, writer.doc, writer.todo)
  BY WriterIs
<1> QED
  BY <1>1 DEF WriterHolds, HeldDocuments, WriterType

\* The record of a step that writes values has its type.
THEOREM WriterTypeCorrect == WritesSpec => []WriterType
<1> QED
  BY WritesInitially, WritesStep, WriterHasType, PTL DEF WritesSpec

\* A step that fills its inputs fills what it was configured to, with what was meant for the place:
\* of any number of steps that draw numbers, with any entries, rows and interleavings, each number in
\* one place of its own record; of any writes, each value as its sources were read.
THEOREM StepsFilledAsAsked == FilledSpec => []FilledAsAsked
<1>1. RefIdsInit(Seq(Entries), GivenDocuments) /\ WritesInit(Seq(Writes), HeldDocuments) => RefIdsInv /\ WritesInv
  BY RefIdsInitially, WritesInitially
<1>2. RefIdsInv /\ WritesInv
      /\ [\/ RefIdsNext /\ UNCHANGED writer
          \/ WritesNext /\ UNCHANGED refIdVars]_<<refIdVars, writer>>
      => RefIdsInv' /\ WritesInv'
  BY RefIdsStep, WritesStep
<1>3. RefIdsInv /\ WritesInv => FilledAsAsked
  BY LandedOnce, LandedAsRead DEF FilledAsAsked
<1> QED
  BY <1>1, <1>2, <1>3, PTL DEF FilledSpec
==============================================================================
