--------------------------- MODULE ProfilesProofs ---------------------------
(***************************************************************************)
(* Proofs about the directory and its file, for any number of users,       *)
(* requests and crashes: what reloading a file, even a torn one, can make  *)
(* of the lists of followers; and, for handlers that do not overlap, that  *)
(* what Sync wrote is read back as it was.                                 *)
(***************************************************************************)
EXTENDS Profiles, VectorProofs

-----------------------------------------------------------------------------
(* FoldLeft, one element at a time.                                        *)

\* The greatest number of a set of positions.
LEMMA MaxPosition ==
    ASSUME NEW k \in Nat, NEW s \in SUBSET (1 .. k + 1), k + 1 \in s
    PROVE  Max(s) = k + 1
<1>1. \A y \in s : k + 1 >= y
  OBVIOUS
<1>2. \A x \in s : (\A y \in s : x >= y) => x = k + 1
  OBVIOUS
<1> QED BY <1>1, <1>2 DEF Max

LEMMA TwoOf ==
    ASSUME NEW a \in Int, NEW b \in Int
    PROVE  /\ Min({a, b}) = IF a <= b THEN a ELSE b
           /\ Max({a, b}) = IF a <= b THEN b ELSE a
BY DEF Min, Max

\* The tokens of the first k words.
LEMMA TokensUnroll ==
    ASSUME NEW S, NEW words \in Seq(S), NEW n \in Nat, Len(words) = n,
           NEW lines, words = AllWords(lines)
    PROVE  \E f : /\ f[0] = <<>>
                  /\ \A k \in 1 .. n : f[k] = SkipBlank(f[k - 1], words[k])
                  /\ Tokens(lines) = f[n]
<1> DEFINE IsFold(g, m) ==
        g = [s \in SUBSET (1 .. m) |->
                IF s = {} THEN <<>> ELSE SkipBlank(g[s \ {Max(s)}], words[Max(s)])]
           P == {m \in Nat : \E g : IsFold(g, m - 1)}
<1>1. 1 \in P
  <2>1. PICK g : g = [s \in SUBSET (1 .. 0) |-> <<>>]
    OBVIOUS
  <2>2. \A s \in SUBSET (1 .. 0) : s = {}
    OBVIOUS
  <2>3. IsFold(g, 0)
    BY <2>1, <2>2
  <2> HIDE DEF IsFold
  <2> QED BY <2>3
<1>2. ASSUME NEW k \in 1 .. n, k \in P
      PROVE  k + 1 \in P
  <2>1. PICK j : j = k - 1
    OBVIOUS
  <2>2. j \in Nat /\ k = j + 1 /\ (k + 1) - 1 = k /\ k + 1 \in Nat
    BY <2>1
  <2>3. PICK g : IsFold(g, j)
    BY <1>2, <2>1
  <2>4. PICK h : h = [s \in SUBSET (1 .. k) |->
                        IF k \in s THEN SkipBlank(g[s \ {k}], words[k]) ELSE g[s]]
    OBVIOUS
  <2>5. ASSUME NEW s \in SUBSET (1 .. k)
        PROVE  h[s] = IF s = {} THEN <<>> ELSE SkipBlank(h[s \ {Max(s)}], words[Max(s)])
    <3>1. CASE k \in s
      <4>1. Max(s) = k
        BY <2>2, <3>1, MaxPosition
      <4>2. s \ {k} \in SUBSET (1 .. k) /\ k \notin s \ {k} /\ s # {}
        BY <3>1
      <4>3. h[s \ {k}] = g[s \ {k}]
        BY <2>4, <4>2
      <4>4. h[s] = SkipBlank(g[s \ {k}], words[k])
        BY <2>4, <3>1
      <4> QED BY <4>1, <4>2, <4>3, <4>4
    <3>2. CASE k \notin s
      <4>1. s \in SUBSET (1 .. j)
        BY <2>2, <3>2
      <4>2. h[s] = g[s]
        BY <2>4, <3>2
      <4>3. g[s] = IF s = {} THEN <<>> ELSE SkipBlank(g[s \ {Max(s)}], words[Max(s)])
        BY <2>3, <4>1
      <4>4. CASE s = {}
        BY <4>2, <4>3, <4>4
      <4>5. CASE s # {}
        <5>1. PICK r : r = s \ {Max(s)}
          OBVIOUS
        <5>2. r \in SUBSET (1 .. k) /\ k \notin r
          BY <3>2, <5>1
        <5>3. h[r] = g[r]
          BY <2>4, <5>2
        <5> QED BY <4>2, <4>3, <4>5, <5>1, <5>3
      <4> QED BY <4>4, <4>5
    <3> QED BY <3>1, <3>2
  <2>6. IsFold(h, k)
    <3>1. h = [s \in SUBSET (1 .. k) |-> h[s]]
      BY <2>4
    <3>2. [s \in SUBSET (1 .. k) |-> h[s]]
            = [s \in SUBSET (1 .. k) |->
                IF s = {} THEN <<>> ELSE SkipBlank(h[s \ {Max(s)}], words[Max(s)])]
      BY <2>5
    <3> QED BY <3>1, <3>2
  <2> HIDE DEF IsFold
  <2> QED BY <2>2, <2>6
<1>3. n + 1 \in P
  <2>1. P \in SUBSET Nat /\ n + 1 \in Nat
    OBVIOUS
  <2> HIDE DEF P
  <2>2. \A k \in 1 .. (n + 1) - 1 : k \in P => k + 1 \in P
    <3>1. (n + 1) - 1 = n
      OBVIOUS
    <3>2. \A k \in 1 .. n : k \in P => k + 1 \in P
      BY <1>2
    <3> QED BY <3>1, <3>2
  <2>3. PICK m : m = n + 1
    OBVIOUS
  <2>4. 1 .. m \subseteq P
    BY <1>1, <2>1, <2>2, <2>3, UpTo
  <2>5. m \in 1 .. m
    BY <2>3
  <2> QED BY <2>3, <2>4, <2>5
<1>4. PICK g : g = CHOOSE h : IsFold(h, n)
  OBVIOUS
<1>5. IsFold(g, n)
  <2>1. \E h : IsFold(h, n)
    <3>1. (n + 1) - 1 = n
      OBVIOUS
    <3> HIDE DEF IsFold
    <3>2. \E h : IsFold(h, (n + 1) - 1)
      BY <1>3
    <3> QED BY <3>1, <3>2
  <2> HIDE DEF IsFold, P
  <2> QED BY <1>4, <2>1
<1>6. DOMAIN words = 1 .. n
  BY LenProperties
<1>7. Tokens(lines) = g[1 .. n]
  BY <1>4, <1>6 DEF Tokens, FoldLeft, MapThenFoldSet
<1>8. PICK f : f = [k \in 0 .. n |-> g[1 .. k]]
  OBVIOUS
<1>9. f[0] = <<>> /\ Tokens(lines) = f[n]
  <2>1. 1 .. 0 = {} /\ {} \in SUBSET (1 .. n) /\ 0 \in 0 .. n /\ n \in 0 .. n
    OBVIOUS
  <2>2. g[{}] = <<>>
    BY <1>5, <2>1
  <2> QED BY <1>7, <1>8, <2>1, <2>2
<1>10. ASSUME NEW k \in 1 .. n
       PROVE  f[k] = SkipBlank(f[k - 1], words[k])
  <2>1. PICK j : j = k - 1
    OBVIOUS
  <2>0. j \in Nat /\ k = j + 1 /\ k \in 0 .. n /\ j \in 0 .. n /\ k \in 1 .. k
    BY <2>1
  <2>a. 1 .. k \in SUBSET (1 .. n)
    BY <2>0
  <2>b. (1 .. k) \ {k} = 1 .. j
    BY <2>0
  <2>2. /\ j \in Nat /\ k = j + 1 /\ k \in 0 .. n /\ j \in 0 .. n
        /\ 1 .. k \in SUBSET (1 .. n) /\ 1 .. k # {} /\ (1 .. k) \ {k} = 1 .. j
        /\ k \in 1 .. k
    BY <2>0, <2>a, <2>b
  <2>3. Max(1 .. k) = k
    BY <2>2, MaxPosition
  <2>4. g[1 .. k] = SkipBlank(g[1 .. j], words[k])
    BY <1>5, <2>2, <2>3
  <2> QED BY <1>8, <2>1, <2>2, <2>4
<1> QED BY <1>9, <1>10

ReadAll(names, edges) == FoldLeft(ReadEdge, names, edges)

\* f[k] is the directory after the first k of n edges.
Unrolls(f, names, edges, n) ==
    /\ f[0] = names
    /\ \A k \in 1 .. n : f[k] = ReadEdge(f[k - 1], edges[k])
    /\ ReadAll(names, edges) = f[n]

LEMMA FollowersUnroll ==
    ASSUME NEW S, NEW names, NEW edges \in Seq(S), NEW n \in Nat, Len(edges) = n
    PROVE  \E f : Unrolls(f, names, edges, n)
<1> DEFINE IsFold(g, m) ==
        g = [s \in SUBSET (1 .. m) |->
                IF s = {} THEN names ELSE ReadEdge(g[s \ {Max(s)}], edges[Max(s)])]
           P == {m \in Nat : \E g : IsFold(g, m - 1)}
<1>1. 1 \in P
  <2>1. PICK g : g = [s \in SUBSET (1 .. 0) |-> names]
    OBVIOUS
  <2>2. \A s \in SUBSET (1 .. 0) : s = {}
    OBVIOUS
  <2>3. IsFold(g, 0)
    BY <2>1, <2>2
  <2> HIDE DEF IsFold
  <2> QED BY <2>3
<1>2. ASSUME NEW k \in 1 .. n, k \in P
      PROVE  k + 1 \in P
  <2>1. PICK j : j = k - 1
    OBVIOUS
  <2>2. j \in Nat /\ k = j + 1 /\ (k + 1) - 1 = k /\ k + 1 \in Nat
    BY <2>1
  <2>3. PICK g : IsFold(g, j)
    BY <1>2, <2>1
  <2>4. PICK h : h = [s \in SUBSET (1 .. k) |->
                        IF k \in s THEN ReadEdge(g[s \ {k}], edges[k]) ELSE g[s]]
    OBVIOUS
  <2>5. ASSUME NEW s \in SUBSET (1 .. k)
        PROVE  h[s] = IF s = {} THEN names ELSE ReadEdge(h[s \ {Max(s)}], edges[Max(s)])
    <3>1. CASE k \in s
      <4>1. Max(s) = k
        BY <2>2, <3>1, MaxPosition
      <4>2. s \ {k} \in SUBSET (1 .. k) /\ k \notin s \ {k} /\ s # {}
        BY <3>1
      <4>3. h[s \ {k}] = g[s \ {k}]
        BY <2>4, <4>2
      <4>4. h[s] = ReadEdge(g[s \ {k}], edges[k])
        BY <2>4, <3>1
      <4> QED BY <4>1, <4>2, <4>3, <4>4
    <3>2. CASE k \notin s
      <4>1. s \in SUBSET (1 .. j)
        BY <2>2, <3>2
      <4>2. h[s] = g[s]
        BY <2>4, <3>2
      <4>3. g[s] = IF s = {} THEN names ELSE ReadEdge(g[s \ {Max(s)}], edges[Max(s)])
        BY <2>3, <4>1
      <4>4. CASE s = {}
        BY <4>2, <4>3, <4>4
      <4>5. CASE s # {}
        <5>1. PICK r : r = s \ {Max(s)}
          OBVIOUS
        <5>2. r \in SUBSET (1 .. k) /\ k \notin r
          BY <3>2, <5>1
        <5>3. h[r] = g[r]
          BY <2>4, <5>2
        <5> QED BY <4>2, <4>3, <4>5, <5>1, <5>3
      <4> QED BY <4>4, <4>5
    <3> QED BY <3>1, <3>2
  <2>6. IsFold(h, k)
    <3>1. h = [s \in SUBSET (1 .. k) |-> h[s]]
      BY <2>4
    <3>2. [s \in SUBSET (1 .. k) |-> h[s]]
            = [s \in SUBSET (1 .. k) |->
                IF s = {} THEN names ELSE ReadEdge(h[s \ {Max(s)}], edges[Max(s)])]
      BY <2>5
    <3> QED BY <3>1, <3>2
  <2> HIDE DEF IsFold
  <2> QED BY <2>2, <2>6
<1>3. n + 1 \in P
  <2>1. P \in SUBSET Nat /\ n + 1 \in Nat
    OBVIOUS
  <2> HIDE DEF P
  <2>2. \A k \in 1 .. (n + 1) - 1 : k \in P => k + 1 \in P
    <3>1. (n + 1) - 1 = n
      OBVIOUS
    <3>2. \A k \in 1 .. n : k \in P => k + 1 \in P
      BY <1>2
    <3> QED BY <3>1, <3>2
  <2>3. PICK m : m = n + 1
    OBVIOUS
  <2>4. 1 .. m \subseteq P
    BY <1>1, <2>1, <2>2, <2>3, UpTo
  <2>5. m \in 1 .. m
    BY <2>3
  <2> QED BY <2>3, <2>4, <2>5
<1>4. PICK g : g = CHOOSE h : IsFold(h, n)
  OBVIOUS
<1>5. IsFold(g, n)
  <2>1. \E h : IsFold(h, n)
    <3>1. (n + 1) - 1 = n
      OBVIOUS
    <3> HIDE DEF IsFold
    <3>2. \E h : IsFold(h, (n + 1) - 1)
      BY <1>3
    <3> QED BY <3>1, <3>2
  <2> HIDE DEF IsFold, P
  <2> QED BY <1>4, <2>1
<1>6. DOMAIN edges = 1 .. n
  BY LenProperties
<1>7. ReadAll(names, edges) = g[1 .. n]
  BY <1>4, <1>6 DEF ReadAll, FoldLeft, MapThenFoldSet
<1>8. PICK f : f = [k \in 0 .. n |-> g[1 .. k]]
  OBVIOUS
<1>9. f[0] = names /\ ReadAll(names, edges) = f[n]
  <2>1. 1 .. 0 = {} /\ {} \in SUBSET (1 .. n) /\ 0 \in 0 .. n /\ n \in 0 .. n
    OBVIOUS
  <2>2. g[{}] = names
    BY <1>5, <2>1
  <2> QED BY <1>7, <1>8, <2>1, <2>2
<1>10. ASSUME NEW k \in 1 .. n
       PROVE  f[k] = ReadEdge(f[k - 1], edges[k])
  <2>1. PICK j : j = k - 1
    OBVIOUS
  <2>0. j \in Nat /\ k = j + 1 /\ k \in 0 .. n /\ j \in 0 .. n /\ k \in 1 .. k
    BY <2>1
  <2>a. 1 .. k \in SUBSET (1 .. n)
    BY <2>0
  <2>b. (1 .. k) \ {k} = 1 .. j
    BY <2>0
  <2>2. /\ j \in Nat /\ k = j + 1 /\ k \in 0 .. n /\ j \in 0 .. n
        /\ 1 .. k \in SUBSET (1 .. n) /\ 1 .. k # {} /\ (1 .. k) \ {k} = 1 .. j
        /\ k \in 1 .. k
    BY <2>0, <2>a, <2>b
  <2>3. Max(1 .. k) = k
    BY <2>2, MaxPosition
  <2>4. g[1 .. k] = ReadEdge(g[1 .. j], edges[k])
    BY <1>5, <2>2, <2>3
  <2> QED BY <1>8, <2>1, <2>2, <2>4
<1> QED BY <1>9, <1>10 DEF Unrolls

-----------------------------------------------------------------------------
(* FlattenSeq.                                                             *)

\* FlattenSeq, one part at a time.
LEMMA FlattenStep ==
    ASSUME NEW E, NEW i \in Nat
    PROVE  /\ FlattenSeq([j \in 1 .. 0 |-> E[j]]) = <<>>
           /\ FlattenSeq([j \in 1 .. 1 |-> E[j]]) = E[1]
           /\ i > 0 => FlattenSeq([j \in 1 .. i + 1 |-> E[j]])
                        = FlattenSeq([j \in 1 .. i |-> E[j]]) \o E[i + 1]
<1>1. FlattenSeq([j \in 1 .. 0 |-> E[j]]) = <<>>
  <2>1. PICK p : p = [j \in 1 .. 0 |-> E[j]]
    OBVIOUS
  <2>2. p = <<>> /\ Len(p) = 0
    <3>1. p \in [1 .. 0 -> {0}]
      BY <2>1
    <3>2. p \in Seq({0}) /\ Len(p) = 0
      BY <3>1, IsASeq, LenProperties
    <3> QED BY <3>2, EmptySeq
  <2> QED BY <2>1, <2>2 DEF FlattenSeq
<1>2. FlattenSeq([j \in 1 .. 1 |-> E[j]]) = E[1]
  <2>1. PICK p : p = [j \in 1 .. 1 |-> E[j]]
    OBVIOUS
  <2>2. Len(p) = 1 /\ 1 \in Nat \ {0} /\ p[1] = E[1]
    BY <2>1
  <2>3. PICK f : /\ f = [k \in 1 .. 1 |-> IF k = 1 THEN p[k] ELSE f[k - 1] \o p[k]]
                 /\ FlattenSeq(p) = f[1]
    BY <2>2, Flatten
  <2>4. f[1] = p[1]
    BY <2>3
  <2> QED BY <2>1, <2>2, <2>3, <2>4
<1>3. ASSUME i > 0
      PROVE  FlattenSeq([j \in 1 .. i + 1 |-> E[j]])
                = FlattenSeq([j \in 1 .. i |-> E[j]]) \o E[i + 1]
  <2>1. PICK p, q : p = [j \in 1 .. i |-> E[j]] /\ q = [j \in 1 .. i + 1 |-> E[j]]
    OBVIOUS
  <2>2. PICK m : m = i + 1
    OBVIOUS
  <2>3. /\ Len(p) = i /\ i \in Nat \ {0} /\ Len(q) = m /\ m \in Nat \ {0}
        /\ \A j \in 1 .. i : p[j] = E[j] /\ q[j] = E[j]
        /\ q[m] = E[m]
    BY <1>3, <2>1, <2>2
  <2>4. PICK f : /\ f = [k \in 1 .. i |-> IF k = 1 THEN p[k] ELSE f[k - 1] \o p[k]]
                 /\ FlattenSeq(p) = f[i]
    <3>1. Len(p) = i /\ i \in Nat \ {0}
      BY <2>3
    <3> QED BY <3>1, Flatten, Zenon
  <2>5. PICK g : /\ g = [k \in 1 .. m |-> IF k = 1 THEN q[k] ELSE g[k - 1] \o q[k]]
                 /\ FlattenSeq(q) = g[m]
    <3>1. Len(q) = m /\ m \in Nat \ {0}
      BY <2>3
    <3> QED BY <3>1, Flatten, Zenon
  <2>6. PICK P : P = {k \in Nat : f[k] = g[k]}
    OBVIOUS
  <2>7. 1 \in P
    <3>1. f[1] = p[1]
      BY <2>3, <2>4
    <3>2. g[1] = q[1]
      BY <2>3, <2>5
    <3> QED BY <2>3, <2>6, <3>1, <3>2
  <2>8. ASSUME NEW k \in 1 .. i - 1, k \in P
        PROVE  k + 1 \in P
    <3>1. PICK l : l = k + 1
      OBVIOUS
    <3>2. l \in 1 .. i /\ l \in 1 .. m /\ l # 1 /\ l - 1 = k /\ l \in Nat
      BY <2>2, <2>3, <3>1
    <3>3. f[l] = f[k] \o p[l]
      BY <2>4, <3>2
    <3>4. g[l] = g[k] \o q[l]
      BY <2>5, <3>2
    <3> QED BY <2>3, <2>6, <2>8, <3>1, <3>2, <3>3, <3>4
  <2>9. 1 .. i \subseteq P
    <3>1. P \in SUBSET Nat
      BY <2>6
    <3> QED BY <2>7, <2>8, <3>1, UpTo
  <2>10. f[i] = g[i]
    BY <2>3, <2>6, <2>9
  <2>11. g[m] = g[i] \o q[m]
    <3>1. m \in 1 .. m /\ m # 1 /\ m - 1 = i
      BY <2>2, <2>3
    <3> QED BY <2>5, <3>1
  <2>12. FlattenSeq(q) = FlattenSeq(p) \o E[m]
    BY <2>3, <2>4, <2>5, <2>10, <2>11
  <2> QED BY <2>1, <2>2, <2>12
<1> QED BY <1>1, <1>2, <1>3

\* A function on the first k positions is a sequence that grows at its end.
LEMMA FirstOf ==
    ASSUME NEW S, NEW s, NEW k \in Nat, \A j \in 1 .. k + 1 : s[j] \in S
    PROVE  /\ [j \in 1 .. k |-> s[j]] \in Seq(S) /\ Len([j \in 1 .. k |-> s[j]]) = k
           /\ Append([j \in 1 .. k |-> s[j]], s[k + 1]) = [j \in 1 .. k + 1 |-> s[j]]
           /\ [j \in 1 .. 0 |-> s[j]] = <<>>
<1>1. PICK a, b, e : /\ a = [j \in 1 .. k |-> s[j]] /\ b = [j \in 1 .. k + 1 |-> s[j]]
                     /\ e = s[k + 1]
  OBVIOUS
<1>2. k + 1 \in Nat /\ k + 1 \in 1 .. k + 1 /\ \A j \in 1 .. k : j \in 1 .. k + 1
  OBVIOUS
<1>3. a \in Seq(S) /\ Len(a) = k /\ \A j \in 1 .. k : a[j] = s[j]
  BY <1>1, <1>2, IsASeq
<1>4. b \in Seq(S) /\ Len(b) = k + 1 /\ \A j \in 1 .. k + 1 : b[j] = s[j]
  BY <1>1, <1>2, IsASeq
<1>5. PICK c : c = Append(a, e)
  OBVIOUS
<1>6. /\ c \in Seq(S) /\ Len(c) = k + 1 /\ c[k + 1] = e
      /\ \A j \in 1 .. k : c[j] = a[j]
  BY <1>1, <1>2, <1>3, <1>5, AppendProperties
<1>7. \A j \in 1 .. Len(c) : c[j] = b[j]
  <2> TAKE j \in 1 .. Len(c)
  <2>1. j \in 1 .. k \/ j = k + 1
    BY <1>6
  <2> QED BY <1>1, <1>2, <1>3, <1>4, <1>6, <2>1
<1>8. c = b
  BY <1>4, <1>6, <1>7, SeqEqual
<1>9. [j \in 1 .. 0 |-> s[j]] = <<>>
  <2>1. PICK p : p = [j \in 1 .. 0 |-> s[j]]
    OBVIOUS
  <2>2. p \in Seq(S) /\ Len(p) = 0
    BY <2>1, IsASeq
  <2> QED BY <2>1, <2>2, EmptySeq
<1> QED BY <1>1, <1>3, <1>5, <1>8, <1>9

LEMMA FlattenType ==
    ASSUME NEW S, NEW n \in Nat, NEW E, \A j \in 1 .. n : E[j] \in Seq(S)
    PROVE  FlattenSeq([j \in 1 .. n |-> E[j]]) \in Seq(S)
<1> DEFINE F(i) == FlattenSeq([j \in 1 .. i |-> E[j]])
<1>1. F(0) = <<>> /\ F(1) = E[1]
  <2>1. 0 \in Nat
    OBVIOUS
  <2> QED BY <2>1, FlattenStep
<1>2. \A i \in 1 .. n - 1 : F(i + 1) = F(i) \o E[i + 1]
  <2> TAKE i \in 1 .. n - 1
  <2>1. i \in Nat /\ i > 0
    OBVIOUS
  <2> QED BY <2>1, FlattenStep
<1> HIDE DEF F
<1>3. PICK P : P = {i \in Nat : F(i) \in Seq(S)}
  OBVIOUS
<1>4. n > 0 => 1 \in P
  <2> HAVE n > 0
  <2>1. 1 \in 1 .. n
    OBVIOUS
  <2> QED BY <1>1, <1>3, <2>1
<1>5. \A i \in 1 .. n - 1 : i \in P => i + 1 \in P
  <2> TAKE i \in 1 .. n - 1
  <2> HAVE i \in P
  <2>1. i + 1 \in 1 .. n /\ i + 1 \in Nat
    OBVIOUS
  <2>2. F(i) \in Seq(S) /\ E[i + 1] \in Seq(S)
    BY <1>3, <2>1
  <2>3. F(i) \o E[i + 1] \in Seq(S)
    BY <2>2, ConcatProperties
  <2> QED BY <1>2, <1>3, <2>1, <2>3
<1>6. 1 .. n \subseteq P
  <2>1. P \in SUBSET Nat
    BY <1>3
  <2> QED BY <1>4, <1>5, <2>1, UpTo
<1>7. F(n) \in Seq(S)
  <2>1. n = 0 \/ n \in 1 .. n
    OBVIOUS
  <2> QED BY <1>1, <1>3, <1>6, <2>1, EmptySeq
<1> QED BY <1>7 DEF F

\* Parts of one element each.
Ones(E, w, n) == \A j \in 1 .. n : E[j] = <<w[j]>>

LEMMA FlattenOnes ==
    ASSUME NEW S, NEW n \in Nat, NEW E, NEW w \in Seq(S), Len(w) = n, Ones(E, w, n)
    PROVE  FlattenSeq([j \in 1 .. n |-> E[j]]) = w
<1>0. \A j \in 1 .. n : E[j] = <<w[j]>> /\ w[j] \in S
  BY ElementOfSeq DEF Ones
<1> DEFINE F(i) == FlattenSeq([j \in 1 .. i |-> E[j]])
           Q(i) == [j \in 1 .. i |-> w[j]]
<1>1. F(0) = <<>> /\ F(1) = E[1]
  <2>1. 0 \in Nat
    OBVIOUS
  <2> QED BY <2>1, FlattenStep
<1>2. \A i \in 1 .. n - 1 : F(i + 1) = F(i) \o E[i + 1]
  <2> TAKE i \in 1 .. n - 1
  <2>1. i \in Nat /\ i > 0
    OBVIOUS
  <2> QED BY <2>1, FlattenStep
<1>3. \A i \in 0 .. n - 1 : /\ Q(i) \in Seq(S) /\ Append(Q(i), w[i + 1]) = Q(i + 1)
                            /\ Q(0) = <<>>
  <2> TAKE i \in 0 .. n - 1
  <2>1. i \in Nat /\ \A j \in 1 .. i + 1 : j \in 1 .. n
    OBVIOUS
  <2>2. \A j \in 1 .. i + 1 : w[j] \in S
    BY <1>0, <2>1
  <2> QED BY <2>1, <2>2, FirstOf
<1>4. n = 0 => Q(n) = <<>>
  <2> HAVE n = 0
  <2>1. PICK p : p = Q(n)
    OBVIOUS
  <2>2. p \in [1 .. 0 -> {0}]
    BY <2>1
  <2>3. p \in Seq({0}) /\ Len(p) = 0
    BY <2>2, IsASeq, LenProperties
  <2> QED BY <2>1, <2>3, EmptySeq
<1> HIDE DEF F, Q
<1>5. PICK P : P = {i \in Nat : F(i) = Q(i)}
  OBVIOUS
<1>6. n > 0 => 1 \in P
  <2> HAVE n > 0
  <2>1. 1 \in 1 .. n /\ 0 \in 0 .. n - 1 /\ 0 + 1 = 1
    OBVIOUS
  <2>2. F(1) = <<w[1]>>
    BY <1>0, <1>1, <2>1
  <2>3. Append(<<>>, w[1]) = Q(1)
    BY <1>3, <2>1
  <2>4. Append(<<>>, w[1]) = <<w[1]>>
    OBVIOUS
  <2> QED BY <1>5, <2>2, <2>3, <2>4
<1>7. \A i \in 1 .. n - 1 : i \in P => i + 1 \in P
  <2> TAKE i \in 1 .. n - 1
  <2> HAVE i \in P
  <2>1. i + 1 \in 1 .. n /\ i + 1 \in Nat /\ i \in 0 .. n - 1
    OBVIOUS
  <2>2. F(i + 1) = Q(i) \o E[i + 1]
    BY <1>2, <1>5
  <2>3. PICK q, e : q = Q(i) /\ e = w[i + 1]
    OBVIOUS
  <2>4. q \in Seq(S) /\ e \in S /\ Append(q, e) = Q(i + 1) /\ E[i + 1] = <<e>>
    BY <1>0, <1>3, <2>1, <2>3
  <2>5. q \o <<e>> = Append(q, e)
    BY <2>4, AppendIsConcat
  <2> QED BY <1>5, <2>1, <2>2, <2>3, <2>4, <2>5
<1>8. 1 .. n \subseteq P
  <2>1. P \in SUBSET Nat
    BY <1>5
  <2> QED BY <1>6, <1>7, <2>1, UpTo
<1>9. F(n) = Q(n)
  <2>1. n = 0 \/ n \in 1 .. n
    OBVIOUS
  <2> QED BY <1>1, <1>4, <1>5, <1>8, <2>1
<1>10. Q(n) = w
  <2>1. w \in [1 .. n -> S]
    BY LenProperties
  <2> QED BY <2>1 DEF Q
<1> QED BY <1>9, <1>10 DEF F

-----------------------------------------------------------------------------
(* The reload.                                                             *)

NameLine == [kind : {"name"}, handle : Texts]
EdgeLine == [kind : {"edge"}, user : Texts, follower : Texts]

LEMMA NoNameType ==
    NoName \in Texts
<1>1. <<Empty>> \in Word
  BY ProfilesAssumption DEF Word
<1>2. PICK w : w = <<Empty>>
  OBVIOUS
<1>3. <<w>> \in Texts
  <2>1. w \in Word
    BY <1>1, <1>2
  <2> HIDE DEF Word
  <2> QED BY <2>1 DEF Texts
<1> QED BY <1>2, <1>3 DEF NoName, Lone

LEMMA FrontType ==
    ASSUME NEW S, NEW s \in Seq(S), s # <<>>
    PROVE  /\ Front(s) \in Seq(S) /\ Last(s) \in S /\ Head(s) \in S /\ Tail(s) \in Seq(S)
           /\ Len(Front(s)) = Len(s) - 1 /\ Len(s) \in Nat \ {0}
           /\ \A k \in 1 .. Len(s) - 1 : Front(s)[k] = s[k]
<1>1. PICK n : n = Len(s)
  OBVIOUS
<1>2. n \in Nat \ {0} /\ \A k \in 1 .. n : s[k] \in S
  BY <1>1, EmptySeq, LenProperties, ElementOfSeq
<1>3. PICK m : m = n - 1
  OBVIOUS
<1>4. m \in Nat /\ n \in 1 .. n /\ \A k \in 1 .. m : k \in 1 .. n
  BY <1>2, <1>3
<1>5. 1 \in Int /\ m \in Int /\ \A k \in 1 .. m : s[k] \in S
  BY <1>2, <1>4
<1>6. PICK t : t = SubSeq(s, 1, m)
  OBVIOUS
<1>7. /\ t \in Seq(S) /\ Len(t) = IF 1 <= m THEN m - 1 + 1 ELSE 0
      /\ \A k \in 1 .. m - 1 + 1 : t[k] = s[1 + k - 1]
  BY <1>5, <1>6, SubSeqProperties
<1>8. Len(t) = m /\ \A k \in 1 .. m : t[k] = s[k]
  <2>1. m - 1 + 1 = m /\ (~(1 <= m) => m = 0) /\ \A k \in 1 .. m : 1 + k - 1 = k
    BY <1>4
  <2> QED BY <1>7, <2>1
<1>9. Front(s) = t
  BY <1>1, <1>3, <1>6 DEF Front
<1>10. Last(s) \in S
  BY <1>1, <1>2, <1>4 DEF Last
<1>11. Head(s) \in S /\ Tail(s) \in Seq(S)
  BY HeadTailProperties
<1> QED BY <1>1, <1>2, <1>3, <1>7, <1>8, <1>9, <1>10, <1>11

LEMMA WordsType ==
    ASSUME NEW line \in NameLine \cup EdgeLine
    PROVE  Words(line) \in Seq(Word)
<1>1. CASE line \in NameLine
  <2>1. line.kind = "name" /\ line.handle \in Texts
    BY <1>1 DEF NameLine
  <2> QED BY <2>1 DEF Words, Texts
<1>2. CASE line \in EdgeLine
  <2>1. line.kind # "name" /\ line.user \in Texts /\ line.follower \in Texts
    BY <1>2 DEF EdgeLine
  <2>2. PICK W, u, f : W = Word /\ u = line.user /\ f = line.follower
    OBVIOUS
  <2>3. u \in Seq(W) /\ u # <<>> /\ f \in Seq(W) /\ f # <<>>
    BY <2>1, <2>2 DEF Texts
  <2>4. PICK a, b, c, d : a = Front(u) /\ b = Last(u) /\ c = Head(f) /\ d = Tail(f)
    OBVIOUS
  <2>5. a \in Seq(W) /\ b \in W /\ c \in W /\ d \in Seq(W)
    BY <2>3, <2>4, FrontType
  <2>6. PICK w : w = b \o c
    OBVIOUS
  <2>7. w \in W
    <3>1. b \in Seq(Strings) /\ c \in Seq(Strings) /\ b # <<>>
      BY <2>2, <2>5 DEF Word
    <3>2. w \in Seq(Strings) /\ Len(w) = Len(b) + Len(c)
      BY <2>6, <3>1, ConcatProperties
    <3>3. Len(b) \in Nat \ {0} /\ Len(c) \in Nat
      BY <3>1, EmptySeq, LenProperties
    <3>4. Len(w) # 0
      BY <3>2, <3>3
    <3>5. w # <<>>
      BY <3>4, EmptySeq
    <3> QED BY <2>2, <3>2, <3>5 DEF Word
  <2>8. PICK ww : ww = <<w>>
    OBVIOUS
  <2>9. ww \in Seq(W)
    BY <2>7, <2>8
  <2>10. a \o ww \in Seq(W)
    BY <2>5, <2>9, ConcatProperties
  <2>11. (a \o ww) \o d \in Seq(W)
    BY <2>5, <2>10, ConcatProperties
  <2>12. Words(line) = (a \o ww) \o d
    BY <2>1, <2>2, <2>4, <2>6, <2>8 DEF Words
  <2> QED BY <2>2, <2>11, <2>12
<1> QED BY <1>1, <1>2

\* Whatever the lines behind the count are, tokens are words.
LEMMA TokensType ==
    ASSUME file \in Seq(Line), FileShape, file # <<>>
    PROVE  /\ Tokens(file) \in Seq(Word) /\ file[1].n \in Nat
<1>1. PICK m : m = Len(file) - 1
  OBVIOUS
<1>2. m \in Nat /\ DOMAIN file = 1 .. m + 1
  <2>1. Len(file) \in Nat \ {0} /\ DOMAIN file = 1 .. Len(file)
    BY LenProperties, EmptySeq
  <2> QED BY <1>1, <2>1
<1>3. ASSUME NEW k \in 1 .. m
      PROVE  Words(file[k + 1]) \in Seq(Word)
  <2>1. k + 1 \in DOMAIN file /\ k + 1 # 1
    BY <1>2
  <2>2. file[k + 1] \in Line /\ file[k + 1].kind \in {"name", "edge"}
    BY <2>1 DEF FileShape
  <2>3. PICK e : e = file[k + 1]
    OBVIOUS
  <2>4. e \in NameLine \cup EdgeLine
    <3>1. \A c \in [kind : {"count"}, n : Nat] : c.kind = "count"
      OBVIOUS
    <3>2. Hole.kind = "hole"
      BY DEF Hole
    <3>3. e \in [kind : {"count"}, n : Nat] \cup NameLine \cup EdgeLine \cup {Hole}
      BY <2>2, <2>3 DEF Line, NameLine, EdgeLine
    <3> QED BY <2>2, <2>3, <3>1, <3>2, <3>3
  <2> QED BY <2>3, <2>4, WordsType
<1>4. PICK E, words : /\ E = [k \in 1 .. m |-> Words(file[k + 1])]
                      /\ words = AllWords(file)
  OBVIOUS
<1>5. words = FlattenSeq([k \in 1 .. m |-> E[k]])
  <2>1. [k \in 1 .. m |-> E[k]] = [k \in 1 .. m |-> Words(file[k + 1])]
    BY <1>4
  <2> QED BY <1>1, <1>4, <2>1 DEF AllWords
<1>6. words \in Seq(Word)
  <2>1. PICK W : W = Word
    OBVIOUS
  <2>2. \A k \in 1 .. m : E[k] \in Seq(W)
    BY <1>3, <1>4, <2>1
  <2>3. FlattenSeq([k \in 1 .. m |-> E[k]]) \in Seq(W)
    BY <1>2, <2>2, FlattenType
  <2> QED BY <1>5, <2>1, <2>3
<1>7. PICK n : n = Len(words)
  OBVIOUS
<1>8. n \in Nat /\ \A k \in 1 .. n : words[k] \in Word
  BY <1>6, <1>7, LenProperties, ElementOfSeq
<1>9. PICK f : /\ f[0] = <<>>
               /\ \A k \in 1 .. n : f[k] = SkipBlank(f[k - 1], words[k])
               /\ Tokens(file) = f[n]
  BY <1>4, <1>6, <1>7, <1>8, TokensUnroll
<1>10. PICK P : P = {k \in Nat : f[k] \in Seq(Word)}
  OBVIOUS
<1>11. ASSUME NEW k \in 1 .. n, f[k - 1] \in Seq(Word)
       PROVE  f[k] \in Seq(Word)
  <2>1. PICK g, w : g = f[k - 1] /\ w = words[k]
    OBVIOUS
  <2>2. w \in Word /\ g \in Seq(Word) /\ f[k] = SkipBlank(g, w)
    BY <1>8, <1>9, <1>11, <2>1
  <2>3. Append(g, w) \in Seq(Word)
    BY <2>2, AppendProperties
  <2> QED BY <2>2, <2>3 DEF SkipBlank
<1>12. n > 0 => 1 \in P
  <2> HAVE n > 0
  <2>1. 1 \in 1 .. n /\ 1 - 1 = 0
    BY <1>8
  <2>2. f[1 - 1] \in Seq(Word)
    BY <1>9, <2>1, EmptySeq
  <2> QED BY <1>10, <1>11, <2>1, <2>2
<1>13. \A k \in 1 .. n - 1 : k \in P => k + 1 \in P
  <2> TAKE k \in 1 .. n - 1
  <2> HAVE k \in P
  <2>1. k + 1 \in 1 .. n /\ (k + 1) - 1 = k /\ k + 1 \in Nat
    BY <1>8
  <2> QED BY <1>10, <1>11, <2>1
<1>14. 1 .. n \subseteq P
  <2>1. P \in SUBSET Nat
    BY <1>10
  <2> QED BY <1>8, <1>12, <1>13, <2>1, UpTo
<1>15. f[n] \in Seq(Word)
  <2>1. n = 0 \/ n \in 1 .. n
    BY <1>8
  <2> QED BY <1>9, <1>10, <1>14, <2>1, EmptySeq
<1>16. file[1].n \in Nat
  <2>1. 1 \in DOMAIN file
    BY <1>2
  <2> QED BY <2>1 DEF FileShape
<1> QED BY <1>9, <1>15, <1>16

\* The push of a follower that was found, in FOLLOW and in the reload.
LEMMA PushKeeps ==
    ASSUME NEW dir \in Seq(Profile), ListsOK(dir), NEW edge,
           GetProfileByName(dir, edge.follower) # 0
    PROVE  /\ Push(dir, edge) \in Seq(Profile)
           /\ ListsOK(Push(dir, edge))
           /\ ListsOnce(dir) /\ IsNew(dir, edge) => ListsOnce(Push(dir, edge))
           /\ Extends(Push(dir, edge), dir)
           /\ Len(Push(dir, edge)) = Len(dir)
<1>1. PICK i : i = GetProfileByName(dir, edge.user)
  OBVIOUS
<1>2. PICK g : g = GetProfileByName(dir, edge.follower)
  OBVIOUS
<1>3. PICK n : n = Len(dir)
  OBVIOUS
<1>4. /\ n \in Nat /\ DOMAIN dir = 1 .. n
      /\ \A k \in 1 .. n : dir[k] \in Profile
  BY <1>3, LenProperties, ElementOfSeq
<1>5. \/ i = 0
      \/ i \in 1 .. n /\ dir[i].handle = edge.user
  BY <1>1, <1>3, Lookup
<1>6. \/ g = 0
      \/ g \in 1 .. n /\ dir[g].handle = edge.follower
  BY <1>2, <1>3, Lookup
<1>7. PICK new : new = Push(dir, edge)
  OBVIOUS
<1>8. new = [dir EXCEPT ![i].followers = Append(@, g)] /\ g # 0
  BY <1>1, <1>2, <1>7 DEF Push
<1>9. CASE new = dir
  BY <1>3, <1>4, <1>7, <1>9 DEF Extends
<1>10. CASE new # dir
  <2>1. g \in 1 .. n /\ dir[g].handle = edge.follower
    BY <1>6, <1>8
  <2>2. i \in 1 .. n /\ dir[i].handle = edge.user
    <3>1. i # 0
      <4> SUFFICES ASSUME i = 0 PROVE FALSE
        OBVIOUS
      <4>1. i \notin DOMAIN dir
        BY <1>4
      <4>2. [dir EXCEPT ![i].followers = Append(@, g)] = dir
        BY <1>4, <4>1
      <4> QED BY <1>8, <1>10, <4>2
    <3> QED BY <1>5, <3>1
  <2>4. PICK old : old = dir[i].followers
    OBVIOUS
  <2>5. dir[i] \in Profile /\ old \in Seq(Nat \ {0})
    BY <1>4, <2>2, <2>4 DEF Profile
  <2>6. PICK fs : fs = Append(old, g)
    OBVIOUS
  <2>7. g \in Nat \ {0} /\ fs \in Seq(Nat \ {0})
    BY <2>1, <2>5, <2>6, AppendProperties
  <2>8. IsNew(dir, edge) => g \notin Range(old)
    <3>1. DOMAIN old = 1 .. Len(old)
      BY <2>5, LenProperties
    <3> QED BY <1>1, <1>2, <2>4, <3>1 DEF IsNew, Contains, Range
  <2>9. /\ ListsOnce(dir) /\ IsNew(dir, edge) => IsInjective(fs)
        /\ Range(fs) = Range(old) \cup {g}
    <3>1. ListsOnce(dir) => IsInjective(old)
      BY <1>4, <2>2, <2>4 DEF ListsOnce
    <3>2. PICK S : S = Nat \ {0}
      OBVIOUS
    <3>3. old \in Seq(S) /\ g \in S
      BY <2>5, <2>7, <3>2
    <3> QED BY <2>6, <2>8, <3>1, <3>3, AppendOnce
  <2>10. PICK rec : rec = [dir[i] EXCEPT !.followers = fs]
    OBVIOUS
  <2>11. rec \in Profile /\ rec.handle = dir[i].handle /\ rec.followers = fs
    BY <2>5, <2>7, <2>10 DEF Profile
  <2>12. new = [dir EXCEPT ![i] = rec]
    BY <1>8, <2>4, <2>6, <2>10
  <2>13. /\ new \in Seq(Profile) /\ Len(new) = n
         /\ \A k \in 1 .. n : new[k] = IF k = i THEN rec ELSE dir[k]
    <3>1. new \in Seq(Profile)
      BY <2>11, <2>12, AssignType
    <3>2. DOMAIN new = 1 .. n
      BY <1>4, <2>12
    <3>3. Len(new) = n
      BY <1>4, <3>1, <3>2, LenProperties
    <3> QED BY <1>4, <2>12, <3>1, <3>3
  <2>14. \A k \in 1 .. n : new[k].handle = dir[k].handle
    BY <2>11, <2>13
  <2>15. Extends(new, dir) /\ Extends(dir, new)
    BY <1>3, <1>4, <2>13, <2>14 DEF Extends
  <2>16. \A h : GetProfileByName(dir, h) # 0 => GetProfileByName(new, h) = GetProfileByName(dir, h)
    BY <2>13, <2>15, LookupStays
  <2>17. DOMAIN new = 1 .. n
    BY <2>13, LenProperties
  <2>18. ListsOK(new)
    <3>1. ASSUME NEW k \in 1 .. n, NEW f \in Range(new[k].followers)
          PROVE  f \in 1 .. n /\ GetProfileByName(new, new[f].handle) = f
      <4>1. CASE f \in Range(dir[k].followers)
        <5>1. f \in 1 .. n /\ GetProfileByName(dir, dir[f].handle) = f
          BY <1>4, <4>1 DEF ListsOK
        <5>2. f # 0
          BY <5>1
        <5>3. GetProfileByName(new, dir[f].handle) = f
          BY <2>16, <5>1, <5>2
        <5> QED BY <2>14, <5>1, <5>3
      <4>2. CASE f = g
        <5>1. new[g].handle = edge.follower
          BY <2>1, <2>14
        <5>2. GetProfileByName(new, edge.follower) = g
          BY <1>2, <1>8, <2>16
        <5> QED BY <2>1, <4>2, <5>1, <5>2
      <4>3. f \in Range(dir[k].followers) \/ f = g
        <5>1. CASE k = i
          <6>1. new[k].followers = fs /\ dir[k].followers = old
            BY <2>4, <2>11, <2>13, <5>1
          <6> QED BY <2>9, <3>1, <6>1
        <5>2. CASE k # i
          BY <2>13, <3>1, <5>2
        <5> QED BY <5>1, <5>2
      <4> QED BY <4>1, <4>2, <4>3
    <3> QED BY <2>17, <3>1 DEF ListsOK
  <2>19. ASSUME ListsOnce(dir), IsNew(dir, edge)
         PROVE  ListsOnce(new)
    <3>1. ASSUME NEW k \in 1 .. n
          PROVE  IsInjective(new[k].followers)
      <4>1. CASE k = i
        BY <2>9, <2>11, <2>13, <2>19, <4>1
      <4>2. CASE k # i
        BY <1>4, <2>13, <2>19, <4>2 DEF ListsOnce
      <4> QED BY <4>1, <4>2
    <3> QED BY <2>17, <3>1 DEF ListsOnce
  <2> QED BY <1>3, <1>7, <2>13, <2>15, <2>18, <2>19
<1> QED BY <1>9, <1>10

LEMMA SameLists ==
    ASSUME NEW dir \in Seq(Profile)
    PROVE  Extends(dir, dir)
<1>1. Len(dir) \in Nat
  BY LenProperties
<1> QED BY <1>1 DEF Extends

\* AddFollower and the loop of the reload.
LEMMA ReadEdgeKeeps ==
    ASSUME NEW dir \in Seq(Profile), ListsOK(dir), ListsOnce(dir), NEW token
    PROVE  /\ ReadEdge(dir, token) \in Seq(Profile)
           /\ ListsOK(ReadEdge(dir, token)) /\ ListsOnce(ReadEdge(dir, token))
<1>1. CASE ReadEdge(dir, token) = dir
  BY <1>1
<1>2. CASE ReadEdge(dir, token) # dir
  <2>1. PICK edge : ReadEdge(dir, token) = AddFollower(dir, edge)
    BY <1>2 DEF ReadEdge
  <2>2. IsNew(dir, edge) /\ ReadEdge(dir, token) = Push(dir, edge)
    BY <1>2, <2>1 DEF AddFollower
  <2>3. GetProfileByName(dir, edge.follower) # 0
    BY <2>2 DEF IsNew
  <2> QED BY <2>2, <2>3, PushKeeps
<1> QED BY <1>1, <1>2

\* Profiles without followers.
LEMMA FreshLists ==
    ASSUME NEW dir, \A i \in DOMAIN dir : dir[i].followers = <<>>
    PROVE  ListsOK(dir) /\ ListsOnce(dir)
<1>1. IsInjective(<<>>) /\ Range(<<>>) = {}
  BY DEF IsInjective, Range
<1> QED BY <1>1 DEF ListsOK, ListsOnce

LEMMA FreshProfiles ==
    ASSUME NEW n \in Nat, NEW hs \in [1 .. n -> Texts],
           NEW dir, dir = [i \in 1 .. n |-> NewProfile(hs[i])]
    PROVE  dir \in Seq(Profile) /\ ListsOK(dir) /\ ListsOnce(dir) /\ Len(dir) = n
<1>1. <<>> \in Seq(Nat \ {0})
  BY EmptySeq
<1>2. \A i \in 1 .. n : NewProfile(hs[i]) \in Profile /\ NewProfile(hs[i]).followers = <<>>
  BY <1>1 DEF NewProfile, Profile
<1>3. dir \in Seq(Profile)
  BY <1>2, IsASeq
<1>4. DOMAIN dir = 1 .. n /\ \A i \in DOMAIN dir : dir[i].followers = <<>>
  BY <1>2
<1>5. ListsOK(dir) /\ ListsOnce(dir)
  BY <1>4, FreshLists
<1> QED BY <1>3, <1>4, <1>5, LenProperties

\* Whatever file a crash leaves, its reload is a directory with proper lists.
LEMMA ReloadKeeps ==
    ASSUME file \in Seq(Line), FileShape, MaxGarbage \in Nat, NEW dir \in ReadProfilesFromFile
    PROVE  dir \in Seq(Profile) /\ ListsOK(dir) /\ ListsOnce(dir)
<1>1. CASE ~exists
  <2>1. dir = <<>>
    BY <1>1 DEF ReadProfilesFromFile
  <2>2. DOMAIN dir = {} /\ dir \in Seq(Profile)
    BY <2>1, EmptySeq
  <2> QED BY <2>2, FreshLists
<1>2. CASE exists /\ file = <<>>
  <2>1. PICK n \in 0 .. MaxGarbage : dir = [i \in 1 .. n |-> NewProfile(NoName)]
    BY <1>2 DEF ReadProfilesFromFile
  <2>2. PICK hs : hs = [i \in 1 .. n |-> NoName]
    OBVIOUS
  <2>3. n \in Nat /\ hs \in [1 .. n -> Texts] /\ dir = [i \in 1 .. n |-> NewProfile(hs[i])]
    BY <2>1, <2>2, NoNameType
  <2> QED BY <2>3, FreshProfiles
<1>3. CASE exists /\ file # <<>>
  <2>1. dir = ReadProfiles(file)
    BY <1>3 DEF ReadProfilesFromFile
  <2>2. PICK tokens, last, num : tokens = Tokens(file) /\ last = Len(tokens) /\ num = file[1].n
    OBVIOUS
  <2>3. tokens \in Seq(Word) /\ num \in Nat
    BY <1>3, <2>2, TokensType
  <2>4. last \in Nat /\ \A k \in 1 .. last : tokens[k] \in Word
    BY <2>2, <2>3, LenProperties, ElementOfSeq
  <2> DEFINE Handle(i) == IF tokens = <<>> THEN NoName ELSE <<tokens[Min({i, last})]>>
  <2>5. PICK hs, names, edges : /\ hs = [i \in 1 .. num |-> Handle(i)]
                                /\ names = ReadNames(file) /\ edges = ReadEdges(file)
    OBVIOUS
  <2>6. dir = ReadAll(names, edges)
    BY <2>1, <2>5 DEF ReadProfiles, ReadAll
  <2>7. ASSUME NEW i \in 1 .. num
        PROVE  Handle(i) \in Texts
    <3>1. CASE tokens = <<>>
      BY <3>1, NoNameType
    <3>2. CASE tokens # <<>>
      <4>1. last # 0
        BY <2>2, <2>3, <3>2, EmptySeq
      <4>2. PICK k : k = Min({i, last})
        OBVIOUS
      <4>3. i \in Int /\ last \in Int
        BY <2>3, <2>4
      <4>4. k = IF i <= last THEN i ELSE last
        BY <4>2, <4>3, TwoOf
      <4>5. k \in 1 .. last
        BY <2>3, <2>4, <4>1, <4>4
      <4>6. PICK w \in Word : w = tokens[k]
        BY <2>4, <4>5
      <4>7. <<w>> \in Texts
        <5> HIDE DEF Word
        <5> QED BY DEF Texts
      <4> QED BY <3>2, <4>2, <4>6, <4>7
    <3> QED BY <3>1, <3>2
  <2>8. names = [i \in 1 .. num |-> NewProfile(Handle(i))]
    BY <2>2, <2>5 DEF ReadNames
  <2> HIDE DEF Handle
  <2>9. hs \in [1 .. num -> Texts] /\ names = [i \in 1 .. num |-> NewProfile(hs[i])]
    BY <2>5, <2>7, <2>8
  <2>10. names \in Seq(Profile) /\ ListsOK(names) /\ ListsOnce(names)
    BY <2>3, <2>9, FreshProfiles
  <2>11. edges \in Seq(Word)
    <3>1. PICK a : a = num + 1
      OBVIOUS
    <3>2. a \in Int /\ last \in Int /\ \A k \in a .. last : tokens[k] \in Word
      BY <2>3, <2>4, <3>1
    <3>3. SubSeq(tokens, a, last) \in Seq(Word)
      BY <3>2, SubSeqProperties
    <3>4. edges = SubSeq(tokens, a, last) \/ edges = <<>>
      BY <2>2, <2>5, <3>1 DEF ReadEdges
    <3> QED BY <3>3, <3>4, EmptySeq
  <2>12. PICK n : n = Len(edges)
    OBVIOUS
  <2>13. n \in Nat
    BY <2>11, <2>12, LenProperties
  <2>14. PICK f : /\ f[0] = names
                  /\ \A k \in 1 .. n : f[k] = ReadEdge(f[k - 1], edges[k])
                  /\ dir = f[n]
    <3>1. PICK S : S = Word
      OBVIOUS
    <3>2. edges \in Seq(S) /\ Len(edges) = n /\ n \in Nat
      BY <2>11, <2>12, <2>13, <3>1
    <3>3. PICK f : Unrolls(f, names, edges, n)
      BY <3>2, FollowersUnroll, Zenon
    <3> QED BY <2>6, <3>3 DEF Unrolls
  <2> DEFINE Q(k) == f[k] \in Seq(Profile) /\ ListsOK(f[k]) /\ ListsOnce(f[k])
             P == {k \in Nat : k - 1 \in 0 .. n => Q(k - 1)}
  <2>15. 1 \in P
    <3>1. Q(0) /\ 1 - 1 = 0
      BY <2>10, <2>14
    <3> HIDE DEF Q
    <3> QED BY <3>1
  <2>16. ASSUME NEW k \in 1 .. n, k \in P
         PROVE  k + 1 \in P
    <3>1. k \in Nat /\ k - 1 \in 0 .. n /\ (k + 1) - 1 = k /\ k + 1 \in Nat
      BY <2>13
    <3>2. Q(k - 1)
      BY <2>16, <3>1
    <3>3. f[k] = ReadEdge(f[k - 1], edges[k])
      BY <2>14
    <3>4. Q(k)
      BY <3>2, <3>3, ReadEdgeKeeps
    <3> HIDE DEF Q
    <3> QED BY <3>1, <3>4
  <2>17. Q(n)
    <3>1. PICK m : m = n + 1
      OBVIOUS
    <3>2. P \in SUBSET Nat /\ m \in Nat /\ m \in 1 .. m /\ m - 1 = n /\ n \in 0 .. n
      BY <2>13, <3>1
    <3> HIDE DEF P
    <3>3. \A k \in 1 .. m - 1 : k \in P => k + 1 \in P
      BY <2>16, <3>2
    <3>4. 1 .. m \subseteq P
      BY <2>15, <3>2, <3>3, UpTo
    <3>5. m \in P
      BY <3>2, <3>4
    <3> HIDE DEF Q
    <3> QED BY <3>2, <3>5 DEF P
  <2> QED BY <2>14, <2>17
<1> QED BY <1>1, <1>2, <1>3

-----------------------------------------------------------------------------
(* Steps.                                                                  *)

Handler == [pc : SyncPC \cup {"idle", "new", "push", "open", "done"}, i : Nat, end : Nat,
            left : Seq(Nat \ {0}), pos : Nat]

LEMMA AtFields ==
    ASSUME NEW pc \in SyncPC \cup {"idle", "new", "push", "open", "done"}
    PROVE  /\ At(pc) \in Handler /\ At(pc).pc = pc /\ At(pc).left = <<>>
BY EmptySeq DEF At, Handler

\* A line is written at the end of the file, or, with overlap, anywhere.
LEMMA WriteAtEffect ==
    ASSUME file \in Seq(Line), NEW pos \in Nat, NEW line \in Line, WriteAt(pos, line)
    PROVE  /\ file' \in Seq(Line)
           /\ pos = Len(file) + 1 =>
                /\ Len(file') = pos /\ file'[pos] = line
                /\ \A k \in 1 .. Len(file) : file'[k] = file[k]
<1>1. PICK l : l = Len(file)
  OBVIOUS
<1>2. l \in Nat /\ \A k \in 1 .. l : file[k] \in Line
  BY <1>1, LenProperties, ElementOfSeq
<1>3. PICK m : m = Max({pos, l})
  OBVIOUS
<1>4. m = IF pos <= l THEN l ELSE pos
  <2>1. pos \in Int /\ l \in Int
    BY <1>2
  <2> QED BY <1>3, <2>1, TwoOf
<1>5. m \in Nat
  BY <1>2, <1>4
<1>6. file' = [k \in 1 .. m |-> IF k = pos THEN line ELSE IF k > l THEN Hole ELSE file[k]]
  BY <1>1, <1>3 DEF WriteAt
<1>7. \A k \in 1 .. m : (IF k = pos THEN line ELSE IF k > l THEN Hole ELSE file[k]) \in Line
  <2> TAKE k \in 1 .. m
  <2>1. Hole \in Line
    BY DEF Line
  <2>2. ~(k > l) => k \in 1 .. l
    BY <1>2, <1>5
  <2> QED BY <1>2, <2>1, <2>2
<1>8. file' \in Seq(Line)
  BY <1>5, <1>6, <1>7, IsASeq
<1>9. DOMAIN file' = 1 .. m
  BY <1>6
<1>10. Len(file') = m
  BY <1>5, <1>8, <1>9, LenProperties
<1>11. ASSUME pos = l + 1
       PROVE  m = pos /\ file'[pos] = line /\ \A k \in 1 .. l : file'[k] = file[k]
  <2>1. m = pos
    BY <1>2, <1>4, <1>11
  <2>2. pos \in 1 .. m /\ \A k \in 1 .. l : k \in 1 .. m /\ k # pos /\ ~(k > l)
    BY <1>2, <1>11, <2>1
  <2> QED BY <1>6, <2>1, <2>2
<1> QED BY <1>1, <1>8, <1>10, <1>11

\* A handler may go on alone, or overlap.
LEMMA OthersRest ==
    ASSUME ListsInv, NEW t \in Threads, MayStart(t) \/ (Running(t) /\ up)
    PROVE  up /\ (~Overlap => \A s \in Threads \ {t} : ~Running(s))
BY DEF ListsInv, FileInv, Alone, MayStart

\* The other handlers do not notice a step of one of them.
LEMMA HandlerStep ==
    ASSUME ListsInv, NEW t \in Threads, NEW rec \in Handler, th' = [th EXCEPT ![t] = rec],
           up' = up, up, ~Overlap => \A s \in Threads \ {t} : ~Running(s),
           profiles' \in Seq(Profile), ListsOK(profiles'), Extends(profiles', profiles),
           ~Overlap => ListsOnce(profiles'),
           file' \in Seq(Line), exists' \in BOOLEAN, online' \subseteq Texts,
           crashes' \in 0 .. MaxCrashes, saved' \subseteq Line, torn' \in BOOLEAN,
           Inside(t)', ~Overlap => FileShape' /\ Writing(t)'
    PROVE  ListsInv'
<1>1. th \in [Threads -> Handler] /\ profiles \in Seq(Profile)
  BY DEF ListsInv, TypeOK, Handler
<1>2. th' \in [Threads -> Handler] /\ th'[t] = rec /\ \A s \in Threads \ {t} : th'[s] = th[s]
  BY <1>1
<1>3. TypeOK'
  BY <1>2 DEF ListsInv, TypeOK, Handler
<1>4. /\ Len(profiles) \in Nat /\ Len(profiles') \in Nat /\ Len(profiles) <= Len(profiles')
      /\ DOMAIN profiles = 1 .. Len(profiles) /\ DOMAIN profiles' = 1 .. Len(profiles')
      /\ \A i \in DOMAIN profiles : i \in DOMAIN profiles' /\ profiles'[i].handle = profiles[i].handle
      /\ (profiles # <<>> => profiles' # <<>>)
  <2>1. /\ Len(profiles) \in Nat /\ Len(profiles') \in Nat
        /\ DOMAIN profiles = 1 .. Len(profiles) /\ DOMAIN profiles' = 1 .. Len(profiles')
    BY <1>1, LenProperties
  <2>2. Len(profiles) <= Len(profiles')
        /\ \A i \in 1 .. Len(profiles) : profiles'[i].handle = profiles[i].handle
    BY DEF Extends
  <2>3. profiles # <<>> => Len(profiles) # 0
    BY <1>1, EmptySeq
  <2>4. profiles # <<>> => profiles' # <<>>
    <3>1. profiles # <<>> => Len(profiles') # 0
      BY <2>1, <2>2, <2>3
    <3> QED BY <3>1, EmptySeq
  <2> QED BY <2>1, <2>2, <2>4
<1>5. ASSUME NEW s \in Threads, s # t
      PROVE  Inside(s)' /\ (Running(s)' <=> Running(s)) /\ (~Overlap => Writing(s)')
  <2>1. th'[s] = th[s] /\ Inside(s)
    BY <1>2, <1>5 DEF ListsInv, HandlersInside
  <2>2. Running(s)' <=> Running(s)
    BY <2>1 DEF Running
  <2>3. th[s].i \in Nat /\ th[s].end \in Nat
    BY <1>1 DEF Handler
  <2>4. th[s].pc \in {"name", "edge"} =>
            th[s].i \in 1 .. th[s].end /\ th[s].end <= Len(profiles') /\ th[s].i \in DOMAIN profiles
    BY <1>4, <2>1, <2>3 DEF Inside
  <2>5. th[s].pc = "edge" => Range(th[s].left) \subseteq DOMAIN profiles'
    BY <1>4, <2>1 DEF Inside
  <2>8. th[s].pc = "push" => /\ GetProfileByName(profiles', Whom[s]) # 0
                             /\ GetProfileByName(profiles', Who[s]) # 0
    <3>1. \A name : GetProfileByName(profiles, name) # 0 => GetProfileByName(profiles', name) # 0
      <4> TAKE name
      <4> HAVE GetProfileByName(profiles, name) # 0
      <4>1. PICK new : new = profiles'
        OBVIOUS
      <4>2. GetProfileByName(new, name) = GetProfileByName(profiles, name)
        BY <1>1, <4>1, LookupStays
      <4> QED BY <4>1, <4>2
    <3> QED BY <2>1, <3>1 DEF Inside
  <2>6. Inside(s)'
    BY <1>4, <2>1, <2>2, <2>4, <2>5, <2>8 DEF Inside
  <2>7. ~Overlap => Writing(s)'
    <3> SUFFICES ASSUME ~Overlap PROVE Writing(s)'
      OBVIOUS
    <3>1. th'[s].pc \in {"idle", "done"}
      BY <1>5, <2>1 DEF Running
    <3> QED BY <3>1 DEF Writing, SyncPC
  <2> QED BY <2>2, <2>6, <2>7
<1>6. HandlersInside'
  BY <1>5 DEF HandlersInside
<1>7. FileInv'
  BY <1>5 DEF FileInv, Alone
<1>8. ListsOK(profiles)' /\ (Overlap => up)'
  OBVIOUS
<1> QED BY <1>3, <1>6, <1>7, <1>8 DEF ListsInv

LEMMA SameDirectory ==
    ASSUME TypeOK, ListsOK(profiles), FileInv, profiles' = profiles
    PROVE  /\ profiles' \in Seq(Profile) /\ ListsOK(profiles') /\ Extends(profiles', profiles)
           /\ ~Overlap => ListsOnce(profiles')
<1>1. Extends(profiles, profiles)
  BY SameLists DEF TypeOK
<1> QED BY <1>1 DEF TypeOK, FileInv

LEMMA SameFile ==
    ASSUME TypeOK, FileInv, file' = file
    PROVE  file' \in Seq(Line) /\ (~Overlap => FileShape')
BY DEF TypeOK, FileInv, FileShape

\* Steps of handlers outside Sync.
LEMMA DirectoryStep ==
    ASSUME ListsInv,
           \/ \E c \in Connects : ConnectLookup(c) \/ ConnectNewProfile(c)
           \/ \E f \in Follows : Follow(f) \/ FollowPush(f)
    PROVE  ListsInv'
<1>0. /\ TypeOK /\ ListsOK(profiles) /\ FileInv /\ th \in [Threads -> Handler]
      /\ profiles \in Seq(Profile) /\ exists \in BOOLEAN /\ online \subseteq Texts
      /\ crashes \in 0 .. MaxCrashes /\ saved \subseteq Line /\ torn \in BOOLEAN
      /\ Connects \subseteq Threads /\ Follows \subseteq Threads
  BY DEF ListsInv, TypeOK, Handler, Threads
<1>1. ASSUME NEW c \in Connects, ConnectLookup(c)
      PROVE  ListsInv'
  <2>1. /\ MayStart(c) /\ (Goto(c, At("new")) \/ Goto(c, Done))
        /\ online' \in {online, online \cup {NameOf[c]}}
        /\ UNCHANGED <<up, profiles, exists, file, history>>
    BY <1>1 DEF ConnectLookup
  <2>2. PICK pc \in {"new", "done"} : th' = [th EXCEPT ![c] = At(pc)]
    BY <2>1 DEF Goto, Done
  <2>3. up /\ (~Overlap => \A s \in Threads \ {c} : ~Running(s))
    BY <1>0, <2>1, OthersRest
  <2>4. At(pc) \in Handler /\ At(pc).pc = pc
    BY AtFields
  <2>5. th'[c].pc = pc
    BY <1>0, <2>2, <2>4
  <2>6. Inside(c)' /\ Writing(c)'
    BY <2>1, <2>3, <2>5 DEF Inside, Writing, SyncPC
  <2>7. online' \subseteq Texts
    BY <1>0, <2>1, ProfilesAssumption
  <2>8. /\ profiles' \in Seq(Profile) /\ ListsOK(profiles') /\ Extends(profiles', profiles)
        /\ ~Overlap => ListsOnce(profiles')
    BY <1>0, <2>1, SameDirectory
  <2>9. file' \in Seq(Line) /\ (~Overlap => FileShape')
    BY <1>0, <2>1, SameFile
  <2>10. /\ exists' \in BOOLEAN /\ crashes' \in 0 .. MaxCrashes /\ saved' \subseteq Line
         /\ torn' \in BOOLEAN /\ up' = up
    BY <1>0, <2>1 DEF history
  <2> QED BY <1>0, <2>2, <2>3, <2>4, <2>6, <2>7, <2>8, <2>9, <2>10, HandlerStep
<1>2. ASSUME NEW c \in Connects, ConnectNewProfile(c)
      PROVE  ListsInv'
  <2>1. /\ up /\ th[c].pc = "new" /\ th' = [th EXCEPT ![c] = At("open")]
        /\ profiles' = Append(profiles, NewProfile(NameOf[c]))
        /\ UNCHANGED <<up, exists, file, online, history>>
    BY <1>2 DEF ConnectNewProfile, Continue, Goto
  <2>2. Running(c)
    BY <2>1 DEF Running
  <2>3. up /\ (~Overlap => \A s \in Threads \ {c} : ~Running(s))
    BY <1>0, <2>1, <2>2, OthersRest
  <2>4. At("open") \in Handler /\ At("open").pc = "open"
    BY AtFields
  <2>5. th'[c].pc = "open"
    BY <1>0, <2>1, <2>4
  <2>6. PICK e : e = NewProfile(NameOf[c])
    OBVIOUS
  <2>7. e \in Profile /\ e.followers = <<>>
    BY <2>6, ProfilesAssumption, EmptySeq DEF NewProfile, Profile
  <2>8. PICK n : n = Len(profiles)
    OBVIOUS
  <2>9. /\ n \in Nat /\ DOMAIN profiles = 1 .. n /\ DOMAIN profiles' = 1 .. n + 1
        /\ profiles' \in Seq(Profile) /\ Len(profiles') = n + 1
        /\ profiles'[n + 1] = e
        /\ \A k \in 1 .. n : profiles'[k] = profiles[k]
    <3>1. n \in Nat /\ DOMAIN profiles = 1 .. n
      BY <1>0, <2>8, LenProperties
    <3>2. /\ profiles' \in Seq(Profile) /\ Len(profiles') = n + 1
          /\ profiles'[n + 1] = e
          /\ \A k \in 1 .. n : profiles'[k] = profiles[k]
      BY <1>0, <2>1, <2>6, <2>7, <2>8, AppendProperties
    <3>3. DOMAIN profiles' = 1 .. n + 1
      BY <3>2, LenProperties
    <3> QED BY <3>1, <3>2, <3>3
  <2>10. Extends(profiles', profiles)
    BY <2>8, <2>9 DEF Extends
  <2>11. ListsOK(profiles') /\ (~Overlap => ListsOnce(profiles'))
    <3>0. IsInjective(<<>>) /\ Range(<<>>) = {}
      BY DEF IsInjective, Range
    <3>1. ASSUME NEW i \in 1 .. n + 1, NEW f \in Range(profiles'[i].followers)
          PROVE  f \in 1 .. n + 1 /\ GetProfileByName(profiles', profiles'[f].handle) = f
      <4>1. i \in 1 .. n
        <5>1. i \notin 1 .. n => i = n + 1
          BY <2>9
        <5> QED BY <2>7, <2>9, <3>0, <3>1, <5>1
      <4>2. profiles'[i] = profiles[i]
        BY <2>9, <4>1
      <4>3. f \in 1 .. n /\ GetProfileByName(profiles, profiles[f].handle) = f
        BY <1>0, <2>9, <3>1, <4>1, <4>2 DEF ListsOK
      <4>4. f # 0 /\ f \in 1 .. n + 1 /\ profiles'[f] = profiles[f]
        BY <2>9, <4>3
      <4>5. GetProfileByName(profiles', profiles[f].handle) = f
        BY <1>0, <2>9, <2>10, <4>3, <4>4, LookupStays
      <4> QED BY <4>4, <4>5
    <3>2. ASSUME ListsOnce(profiles), NEW i \in 1 .. n + 1
          PROVE  IsInjective(profiles'[i].followers)
      <4>1. i \notin 1 .. n => i = n + 1
        BY <2>9
      <4> QED BY <2>7, <2>9, <3>0, <3>2, <4>1 DEF ListsOnce
    <3>3. ListsOK(profiles')
      BY <2>9, <3>1 DEF ListsOK
    <3>4. ListsOnce(profiles) => ListsOnce(profiles')
      BY <2>9, <3>2 DEF ListsOnce
    <3> QED BY <1>0, <3>3, <3>4 DEF FileInv
  <2>12. profiles' # <<>>
    <3>1. Len(profiles') # 0
      BY <2>9
    <3> QED BY <3>1, EmptySeq
  <2>13. Inside(c)' /\ Writing(c)'
    BY <2>1, <2>3, <2>5, <2>12 DEF Inside, Writing, SyncPC
  <2>14. file' \in Seq(Line) /\ (~Overlap => FileShape')
    BY <1>0, <2>1, SameFile
  <2>15. /\ exists' \in BOOLEAN /\ crashes' \in 0 .. MaxCrashes /\ saved' \subseteq Line
         /\ torn' \in BOOLEAN /\ up' = up /\ online' \subseteq Texts
    BY <1>0, <2>1 DEF history
  <2> QED BY <1>0, <2>1, <2>3, <2>4, <2>9, <2>10, <2>11, <2>13, <2>14, <2>15, HandlerStep
<1>3. ASSUME NEW f \in Follows, Follow(f)
      PROVE  ListsInv'
  <2>1. /\ MayStart(f)
        /\ Goto(f, Done) \/ (MayFollow(f) /\ IsNew(profiles, Following(f)) /\ Goto(f, At("push")))
        /\ UNCHANGED <<up, profiles, exists, file, online, history>>
    BY <1>3 DEF Follow
  <2>2. PICK pc \in {"push", "done"} : /\ th' = [th EXCEPT ![f] = At(pc)]
                                       /\ pc = "push" => MayFollow(f) /\ IsNew(profiles, Following(f))
    BY <2>1 DEF Goto, Done
  <2>3. up /\ (~Overlap => \A s \in Threads \ {f} : ~Running(s))
    BY <1>0, <2>1, OthersRest
  <2>4. At(pc) \in Handler /\ At(pc).pc = pc
    BY AtFields
  <2>5. th'[f].pc = pc
    BY <1>0, <2>2, <2>4
  <2>6. pc = "push" => /\ GetProfileByName(profiles, Whom[f]) # 0
                       /\ GetProfileByName(profiles, Who[f]) # 0
    BY <2>2 DEF MayFollow, IsNew, Following, Edge
  <2>7. Inside(f)'
    BY <2>1, <2>3, <2>5, <2>6 DEF Inside, SyncPC
  <2>8. Writing(f)'
    <3>1. IsNew(profiles', Following(f)) <=> IsNew(profiles, Following(f))
      BY <2>1
    <3> QED BY <2>2, <2>5, <3>1 DEF Writing, SyncPC, Following
  <2>9. /\ profiles' \in Seq(Profile) /\ ListsOK(profiles') /\ Extends(profiles', profiles)
        /\ ~Overlap => ListsOnce(profiles')
    BY <1>0, <2>1, SameDirectory
  <2>10. file' \in Seq(Line) /\ (~Overlap => FileShape')
    BY <1>0, <2>1, SameFile
  <2>11. /\ exists' \in BOOLEAN /\ crashes' \in 0 .. MaxCrashes /\ saved' \subseteq Line
         /\ torn' \in BOOLEAN /\ up' = up /\ online' \subseteq Texts
    BY <1>0, <2>1 DEF history
  <2> QED BY <1>0, <2>2, <2>3, <2>4, <2>7, <2>8, <2>9, <2>10, <2>11, HandlerStep
<1>4. ASSUME NEW f \in Follows, FollowPush(f)
      PROVE  ListsInv'
  <2>1. /\ up /\ th[f].pc = "push" /\ th' = [th EXCEPT ![f] = At("open")]
        /\ profiles' = Push(profiles, Following(f))
        /\ UNCHANGED <<up, exists, file, online, history>>
    BY <1>4 DEF FollowPush, Continue, Goto
  <2>2. Running(f)
    BY <2>1 DEF Running
  <2>3. up /\ (~Overlap => \A s \in Threads \ {f} : ~Running(s))
    BY <1>0, <2>1, <2>2, OthersRest
  <2>4. At("open") \in Handler /\ At("open").pc = "open"
    BY AtFields
  <2>5. th'[f].pc = "open"
    BY <1>0, <2>1, <2>4
  <2>6. Inside(f) /\ (~Overlap => Writing(f) /\ ListsOnce(profiles))
    BY <1>0 DEF ListsInv, HandlersInside, FileInv
  <2>7. PICK edge : edge = Following(f)
    OBVIOUS
  <2>8. /\ GetProfileByName(profiles, edge.follower) # 0
        /\ ~Overlap => IsNew(profiles, edge) /\ ListsOnce(profiles)
    BY <2>1, <2>6, <2>7 DEF Inside, Writing, Following, Edge
  <2>9. /\ profiles' \in Seq(Profile) /\ ListsOK(profiles') /\ Extends(profiles', profiles)
        /\ ~Overlap => ListsOnce(profiles')
        /\ Len(profiles') = Len(profiles)
    BY <1>0, <2>1, <2>7, <2>8, PushKeeps
  <2>10. profiles' # <<>>
    <3>1. profiles # <<>>
      <4>1. GetProfileByName(profiles, edge.follower) \in 1 .. Len(profiles)
        BY <1>0, <2>8, Lookup
      <4>2. Len(profiles) # 0
        BY <4>1
      <4> QED BY <4>2, EmptySeq
    <3>2. Len(profiles) # 0
      BY <1>0, <3>1, EmptySeq
    <3> QED BY <2>9, <3>2, EmptySeq
  <2>11. Inside(f)' /\ Writing(f)'
    BY <2>1, <2>3, <2>5, <2>10 DEF Inside, Writing, SyncPC
  <2>12. file' \in Seq(Line) /\ (~Overlap => FileShape')
    BY <1>0, <2>1, SameFile
  <2>13. /\ exists' \in BOOLEAN /\ crashes' \in 0 .. MaxCrashes /\ saved' \subseteq Line
         /\ torn' \in BOOLEAN /\ up' = up /\ online' \subseteq Texts
    BY <1>0, <2>1 DEF history
  <2> QED BY <1>0, <2>1, <2>3, <2>4, <2>9, <2>11, <2>12, <2>13, HandlerStep
<1> QED BY <1>1, <1>2, <1>3, <1>4

\* The file grows by a line of the right kind.
LEMMA ShapeGrows ==
    ASSUME file \in Seq(Line), file # <<>>, FileShape, file' \in Seq(Line),
           Len(file') = Len(file) + 1, \A k \in 1 .. Len(file) : file'[k] = file[k],
           file'[Len(file')] \in NameLine \cup EdgeLine
    PROVE  FileShape' /\ file'[1] = file[1] /\ file' # <<>>
<1>1. PICK l : l = Len(file)
  OBVIOUS
<1>2. /\ l \in Nat \ {0} /\ DOMAIN file = 1 .. l /\ DOMAIN file' = 1 .. l + 1
  BY <1>1, LenProperties, EmptySeq
<1>3. 1 \in 1 .. l /\ file'[1] = file[1]
  BY <1>1, <1>2
<1>4. ASSUME NEW k \in 1 .. l + 1
      PROVE  IF k = 1 THEN file'[k] \in [kind : {"count"}, n : Nat]
             ELSE file'[k] \in Line /\ file'[k].kind \in {"name", "edge"}
  <2>1. CASE k \in 1 .. l
    BY <1>1, <1>2, <1>3, <2>1 DEF FileShape
  <2>2. CASE k \notin 1 .. l
    <3>1. k = l + 1 /\ k # 1 /\ k = Len(file')
      BY <1>1, <1>2, <2>2
    <3>2. PICK e : e = file'[k]
      OBVIOUS
    <3>3. e \in NameLine \cup EdgeLine
      BY <3>1, <3>2
    <3>4. e \in Line
      BY <3>3 DEF Line, NameLine, EdgeLine
    <3>5. e.kind \in {"name", "edge"}
      BY <3>3 DEF NameLine, EdgeLine
    <3> QED BY <3>1, <3>2, <3>4, <3>5
  <2> QED BY <2>1, <2>2
<1>5. FileShape'
  BY <1>2, <1>4 DEF FileShape
<1>6. file' # <<>>
  <2>1. Len(file') # 0
    BY <1>1, <1>2
  <2> QED BY <2>1, EmptySeq
<1> QED BY <1>3, <1>5, <1>6

\* What a handler in Sync knows.
LEMMA SyncFacts ==
    ASSUME ListsInv, NEW t \in Threads, up, th[t].pc \in SyncPC \cup {"open"}
    PROVE  /\ th[t] \in Handler /\ th \in [Threads -> Handler]
           /\ ~Overlap => \A s \in Threads \ {t} : ~Running(s)
           /\ Inside(t) /\ (~Overlap => Writing(t) /\ FileShape)
           /\ TypeOK /\ ListsOK(profiles) /\ FileInv
           /\ profiles \in Seq(Profile) /\ profiles # <<>> /\ Len(profiles) \in Nat \ {0}
           /\ DOMAIN profiles = 1 .. Len(profiles)
           /\ \A k \in 1 .. Len(profiles) : profiles[k] \in Profile
           /\ file \in Seq(Line) /\ Len(file) \in Nat
           /\ exists \in BOOLEAN /\ online \subseteq Texts /\ crashes \in 0 .. MaxCrashes
           /\ saved \subseteq Line /\ torn \in BOOLEAN
<1>1. Running(t)
  BY DEF Running, SyncPC
<1>2. ~Overlap => \A s \in Threads \ {t} : ~Running(s)
  BY <1>1, OthersRest
<1>3. /\ TypeOK /\ Inside(t) /\ (~Overlap => Writing(t) /\ FileShape) /\ FileInv
      /\ ListsOK(profiles)
  BY DEF ListsInv, HandlersInside, FileInv
<1>4. profiles \in Seq(Profile) /\ file \in Seq(Line) /\ profiles # <<>>
  BY <1>3 DEF TypeOK, Inside
<1>5. /\ Len(profiles) \in Nat \ {0} /\ Len(file) \in Nat
      /\ DOMAIN profiles = 1 .. Len(profiles)
      /\ \A k \in 1 .. Len(profiles) : profiles[k] \in Profile
  BY <1>4, LenProperties, EmptySeq, ElementOfSeq
<1>6. th \in [Threads -> Handler] /\ th[t] \in Handler
  BY <1>3 DEF TypeOK, Handler
<1> QED BY <1>2, <1>3, <1>4, <1>5, <1>6 DEF TypeOK

LEMMA SyncOpenStep ==
    ASSUME ListsInv, NEW t \in Threads, SyncOpen(t)
    PROVE  ListsInv'
<1>1. /\ up /\ th[t].pc = "open" /\ exists' = TRUE /\ file' = <<>>
      /\ th' = [th EXCEPT ![t] = [At("count") EXCEPT !.pos = 1]]
      /\ UNCHANGED <<up, profiles, online, history>>
  BY DEF SyncOpen, Continue, Goto
<1>2. /\ th \in [Threads -> Handler]
      /\ ~Overlap => \A s \in Threads \ {t} : ~Running(s)
      /\ TypeOK /\ ListsOK(profiles) /\ FileInv /\ profiles # <<>>
      /\ online \subseteq Texts /\ crashes \in 0 .. MaxCrashes
      /\ saved \subseteq Line /\ torn \in BOOLEAN
  BY <1>1, SyncFacts
<1>3. PICK rec : rec = [At("count") EXCEPT !.pos = 1]
  OBVIOUS
<1>4. rec \in Handler /\ rec.pc = "count" /\ rec.pos = 1
  BY <1>3, EmptySeq DEF At, Handler, SyncPC
<1>5. th'[t] = rec /\ th' = [th EXCEPT ![t] = rec]
  BY <1>1, <1>2, <1>3
<1>6. file' \in Seq(Line) /\ FileShape' /\ Len(file') = 0
  BY <1>1, EmptySeq DEF FileShape
<1>7. Inside(t)' /\ Writing(t)'
  <2>1. th'[t].pc = "count" /\ th'[t].pos = 1
    BY <1>4, <1>5
  <2>2. Inside(t)'
    BY <1>1, <1>2, <2>1 DEF Inside
  <2>3. th'[t].pos = Len(file') + 1
    BY <1>6, <2>1
  <2>4. Writing(t)'
    BY <2>1, <2>3 DEF Writing
  <2> QED BY <2>2, <2>4
<1>8. /\ profiles' \in Seq(Profile) /\ ListsOK(profiles') /\ Extends(profiles', profiles)
      /\ ~Overlap => ListsOnce(profiles')
  BY <1>1, <1>2, SameDirectory
<1>9. /\ exists' \in BOOLEAN /\ crashes' \in 0 .. MaxCrashes /\ saved' \subseteq Line
      /\ torn' \in BOOLEAN /\ up' = up /\ online' \subseteq Texts
  BY <1>1, <1>2 DEF history
<1> QED BY <1>1, <1>2, <1>4, <1>5, <1>6, <1>7, <1>8, <1>9, HandlerStep

LEMMA SyncCountStep ==
    ASSUME ListsInv, NEW t \in Threads, SyncCount(t)
    PROVE  ListsInv'
<1>0. PICK h, n : h = th[t] /\ n = Len(profiles)
  OBVIOUS
<1>1. /\ up /\ h.pc = "count" /\ WriteAt(h.pos, Count(n))
      /\ th' = [th EXCEPT ![t] = [At("name") EXCEPT !.i = 1, !.end = n, !.pos = h.pos + 1]]
      /\ UNCHANGED <<up, profiles, exists, online, history>>
  BY <1>0 DEF SyncCount, Continue, Goto
<1>2. /\ th \in [Threads -> Handler] /\ h \in Handler
      /\ ~Overlap => \A s \in Threads \ {t} : ~Running(s)
      /\ ~Overlap => Writing(t) /\ FileShape
      /\ TypeOK /\ ListsOK(profiles) /\ FileInv /\ profiles # <<>> /\ n \in Nat \ {0}
      /\ file \in Seq(Line) /\ Len(file) \in Nat
      /\ exists \in BOOLEAN /\ online \subseteq Texts /\ crashes \in 0 .. MaxCrashes
      /\ saved \subseteq Line /\ torn \in BOOLEAN
  BY <1>0, <1>1, SyncFacts DEF SyncPC
<1>3. PICK rec : rec = [At("name") EXCEPT !.i = 1, !.end = n, !.pos = h.pos + 1]
  OBVIOUS
<1>4. h.pos \in Nat
  BY <1>2 DEF Handler
<1>5. /\ rec \in Handler /\ rec.pc = "name" /\ rec.i = 1 /\ rec.end = n /\ rec.pos = h.pos + 1
  <2>1. rec = [pc |-> "name", i |-> 1, end |-> n, left |-> <<>>, pos |-> h.pos + 1]
    BY <1>3 DEF At
  <2>2. n \in Nat /\ 1 \in Nat /\ h.pos + 1 \in Nat /\ <<>> \in Seq(Nat \ {0})
    BY <1>2, <1>4, EmptySeq
  <2> QED BY <2>1, <2>2 DEF Handler, SyncPC
<1>6. th'[t] = rec /\ th' = [th EXCEPT ![t] = rec]
  BY <1>1, <1>2, <1>3
<1>7. PICK line : line = Count(n)
  OBVIOUS
<1>8. line \in [kind : {"count"}, n : Nat] /\ line.n = n /\ line \in Line
  BY <1>2, <1>7 DEF Count, Line
<1>9. /\ file' \in Seq(Line)
      /\ h.pos = Len(file) + 1 => /\ Len(file') = h.pos /\ file'[h.pos] = line
                                  /\ \A k \in 1 .. Len(file) : file'[k] = file[k]
  BY <1>1, <1>2, <1>4, <1>7, <1>8, WriteAtEffect
<1>10. Inside(t)'
  <2>1. rec.i \in 1 .. rec.end /\ rec.end <= Len(profiles)
    BY <1>0, <1>2, <1>5
  <2> QED BY <1>1, <1>2, <1>5, <1>6, <2>1 DEF Inside
<1>11. ~Overlap => FileShape' /\ Writing(t)'
  <2> SUFFICES ASSUME ~Overlap PROVE FileShape' /\ Writing(t)'
    OBVIOUS
  <2>1. h.pos = Len(file) + 1 /\ h.pos = 1
    BY <1>0, <1>1, <1>2 DEF Writing, SyncPC
  <2>2. Len(file') = 1 /\ file'[1] = line
    BY <1>9, <2>1
  <2>3. DOMAIN file' = {1}
    <3>1. DOMAIN file' = 1 .. 1
      BY <1>9, <2>2, LenProperties
    <3> QED BY <3>1
  <2>4. FileShape'
    BY <1>8, <2>2, <2>3 DEF FileShape
  <2>5. file' # <<>>
    BY <2>2, EmptySeq
  <2>6. rec.pos = 2 /\ rec.pos = Len(file') + 1 /\ rec.pos = rec.i + 1
    BY <1>5, <2>1, <2>2
  <2>7. Writing(t)'
    BY <1>0, <1>1, <1>5, <1>6, <1>8, <2>2, <2>5, <2>6 DEF Writing, SyncPC
  <2> QED BY <2>4, <2>7
<1>12. /\ profiles' \in Seq(Profile) /\ ListsOK(profiles') /\ Extends(profiles', profiles)
       /\ ~Overlap => ListsOnce(profiles')
  BY <1>1, <1>2, SameDirectory
<1>13. /\ exists' \in BOOLEAN /\ crashes' \in 0 .. MaxCrashes /\ saved' \subseteq Line
       /\ torn' \in BOOLEAN /\ up' = up /\ online' \subseteq Texts
  BY <1>1, <1>2 DEF history
<1> QED BY <1>1, <1>2, <1>5, <1>6, <1>9, <1>10, <1>11, <1>12, <1>13, HandlerStep

LEMMA SyncNameStep ==
    ASSUME ListsInv, NEW t \in Threads, SyncName(t)
    PROVE  ListsInv'
<1>0. PICK h, n : h = th[t] /\ n = Len(profiles)
  OBVIOUS
<1>1. /\ up /\ h.pc = "name" /\ WriteAt(h.pos, Name(profiles[h.i].handle))
      /\ IF h.i < h.end
         THEN th' = [th EXCEPT ![t] = [h EXCEPT !.i = @ + 1, !.pos = @ + 1]]
         ELSE th' = [th EXCEPT ![t] = [pc |-> "edge", i |-> 1, end |-> n,
                                       left |-> profiles[1].followers, pos |-> h.pos + 1]]
      /\ UNCHANGED <<up, profiles, exists, online, history>>
  BY <1>0 DEF SyncName, Continue, Goto
<1>2. /\ th \in [Threads -> Handler] /\ h \in Handler
      /\ ~Overlap => \A s \in Threads \ {t} : ~Running(s)
      /\ Inside(t) /\ (~Overlap => Writing(t) /\ FileShape)
      /\ TypeOK /\ ListsOK(profiles) /\ FileInv /\ profiles # <<>> /\ n \in Nat \ {0}
      /\ \A k \in 1 .. n : profiles[k] \in Profile
      /\ DOMAIN profiles = 1 .. n
      /\ file \in Seq(Line) /\ Len(file) \in Nat
      /\ exists \in BOOLEAN /\ online \subseteq Texts /\ crashes \in 0 .. MaxCrashes
      /\ saved \subseteq Line /\ torn \in BOOLEAN
  BY <1>0, <1>1, SyncFacts DEF SyncPC
<1>3. /\ h.pos \in Nat /\ h.i \in Nat /\ h.end \in Nat /\ h.left \in Seq(Nat \ {0})
      /\ h = [pc |-> h.pc, i |-> h.i, end |-> h.end, left |-> h.left, pos |-> h.pos]
  BY <1>2 DEF Handler
<1>4. h.i \in 1 .. h.end /\ h.end <= n
  BY <1>0, <1>1, <1>2 DEF Inside
<1>5. h.i \in 1 .. n /\ 1 \in 1 .. n
  BY <1>2, <1>3, <1>4
<1>6. /\ profiles[h.i].handle \in Texts
      /\ profiles[1].followers \in Seq(Nat \ {0})
  BY <1>2, <1>5 DEF Profile
<1>7. PICK line : line = Name(profiles[h.i].handle)
  OBVIOUS
<1>8. line \in NameLine /\ line \in Line
  BY <1>6, <1>7 DEF Name, Line, NameLine
<1>9. /\ file' \in Seq(Line)
      /\ h.pos = Len(file) + 1 => /\ Len(file') = h.pos /\ file'[h.pos] = line
                                  /\ \A k \in 1 .. Len(file) : file'[k] = file[k]
  BY <1>1, <1>2, <1>3, <1>7, <1>8, WriteAtEffect
<1>10. PICK rec : /\ rec \in Handler /\ th' = [th EXCEPT ![t] = rec] /\ rec.pos = h.pos + 1
                  /\ \/ /\ h.i < h.end /\ rec.pc = "name" /\ rec.i = h.i + 1 /\ rec.end = h.end
                     \/ /\ ~(h.i < h.end) /\ rec.pc = "edge" /\ rec.i = 1 /\ rec.end = n
                        /\ rec.left = profiles[1].followers
  <2>1. h.pos + 1 \in Nat /\ h.i + 1 \in Nat /\ n \in Nat /\ 1 \in Nat
    BY <1>2, <1>3
  <2>2. CASE h.i < h.end
    <3>1. PICK rec : rec = [h EXCEPT !.i = @ + 1, !.pos = @ + 1]
      OBVIOUS
    <3>2. rec = [pc |-> "name", i |-> h.i + 1, end |-> h.end, left |-> h.left, pos |-> h.pos + 1]
      BY <1>1, <1>3, <3>1
    <3>3. rec \in Handler
      BY <1>3, <2>1, <3>2 DEF Handler, SyncPC
    <3> QED BY <1>1, <2>2, <3>1, <3>2, <3>3
  <2>3. CASE ~(h.i < h.end)
    <3>1. PICK rec : rec = [pc |-> "edge", i |-> 1, end |-> n,
                            left |-> profiles[1].followers, pos |-> h.pos + 1]
      OBVIOUS
    <3>2. rec \in Handler
      BY <1>6, <2>1, <3>1 DEF Handler, SyncPC
    <3> QED BY <1>1, <2>3, <3>1, <3>2
  <2> QED BY <2>2, <2>3
<1>11. th'[t] = rec
  BY <1>2, <1>10
<1>12. Inside(t)'
  <2>1. rec.pc \in {"name", "edge"} /\ rec.i \in 1 .. rec.end /\ rec.end <= n
    BY <1>2, <1>3, <1>4, <1>10
  <2>2. rec.pc = "edge" => Range(rec.left) \subseteq DOMAIN profiles
    <3>1. 1 \in DOMAIN profiles
      BY <1>2, <1>5
    <3> QED BY <1>2, <1>10, <3>1 DEF ListsOK
  <2> QED BY <1>0, <1>1, <1>2, <1>11, <2>1, <2>2 DEF Inside
<1>13. ~Overlap => FileShape' /\ Writing(t)'
  <2> SUFFICES ASSUME ~Overlap PROVE FileShape' /\ Writing(t)'
    OBVIOUS
  <2>1. /\ h.pos = Len(file) + 1 /\ h.pos = h.i + 1
        /\ file # <<>> /\ file[1].n = h.end /\ h.end = n
    BY <1>0, <1>1, <1>2 DEF Writing, SyncPC
  <2>2. /\ Len(file') = Len(file) + 1 /\ file'[Len(file')] = line
        /\ \A k \in 1 .. Len(file) : file'[k] = file[k]
    BY <1>9, <2>1
  <2>4. FileShape' /\ file'[1] = file[1] /\ file' # <<>>
    BY <1>2, <1>8, <1>9, <2>1, <2>2, ShapeGrows
  <2>5. rec.pos = Len(file') + 1 /\ rec.end = n
    BY <1>3, <1>10, <2>1, <2>2
  <2>6. CASE rec.pc = "name"
    <3>1. rec.pos = rec.i + 1
      BY <1>3, <1>10, <2>1, <2>6
    <3> QED BY <1>0, <1>1, <1>11, <2>1, <2>4, <2>5, <2>6, <3>1 DEF Writing
  <2>7. CASE rec.pc = "edge"
    <3>1. rec.pos >= rec.end + 2
      BY <1>2, <1>3, <1>4, <1>10, <2>1, <2>7
    <3> QED BY <1>0, <1>1, <1>11, <2>1, <2>4, <2>5, <2>7, <3>1 DEF Writing
  <2> QED BY <1>10, <2>4, <2>6, <2>7
<1>14. /\ profiles' \in Seq(Profile) /\ ListsOK(profiles') /\ Extends(profiles', profiles)
       /\ ~Overlap => ListsOnce(profiles')
  BY <1>1, <1>2, SameDirectory
<1>15. /\ exists' \in BOOLEAN /\ crashes' \in 0 .. MaxCrashes /\ saved' \subseteq Line
       /\ torn' \in BOOLEAN /\ up' = up /\ online' \subseteq Texts
  BY <1>1, <1>2 DEF history
<1> QED BY <1>1, <1>2, <1>9, <1>10, <1>12, <1>13, <1>14, <1>15, HandlerStep

LEMMA SyncEdgeStep ==
    ASSUME ListsInv, NEW t \in Threads, SyncEdge(t)
    PROVE  ListsInv'
<1>0. PICK h, n : h = th[t] /\ n = Len(profiles)
  OBVIOUS
<1>1. /\ up /\ h.pc = "edge" /\ h.left # <<>>
      /\ WriteAt(h.pos, Edge(profiles[h.i].handle, profiles[Head(h.left)].handle))
      /\ th' = [th EXCEPT ![t] = [h EXCEPT !.left = Tail(@), !.pos = @ + 1]]
      /\ UNCHANGED <<up, profiles, exists, online, history>>
  BY <1>0 DEF SyncEdge, Continue, Goto
<1>2. /\ th \in [Threads -> Handler] /\ h \in Handler
      /\ ~Overlap => \A s \in Threads \ {t} : ~Running(s)
      /\ Inside(t) /\ (~Overlap => Writing(t) /\ FileShape)
      /\ TypeOK /\ ListsOK(profiles) /\ FileInv /\ profiles # <<>> /\ n \in Nat \ {0}
      /\ \A k \in 1 .. n : profiles[k] \in Profile
      /\ DOMAIN profiles = 1 .. n
      /\ file \in Seq(Line) /\ Len(file) \in Nat
      /\ exists \in BOOLEAN /\ online \subseteq Texts /\ crashes \in 0 .. MaxCrashes
      /\ saved \subseteq Line /\ torn \in BOOLEAN
  BY <1>0, <1>1, SyncFacts DEF SyncPC
<1>3. /\ h.pos \in Nat /\ h.i \in Nat /\ h.end \in Nat /\ h.left \in Seq(Nat \ {0})
      /\ h = [pc |-> h.pc, i |-> h.i, end |-> h.end, left |-> h.left, pos |-> h.pos]
  BY <1>2 DEF Handler
<1>4. PICK P, s, r : P = Nat \ {0} /\ s = h.left /\ r = Tail(h.left)
  OBVIOUS
<1>5. s \in Seq(P) /\ s # <<>>
  BY <1>1, <1>3, <1>4
<1>6. r \in Seq(P) /\ Head(s) \in Range(s) /\ Range(r) \subseteq Range(s)
  <2>1. /\ Len(s) \in Nat \ {0} /\ DOMAIN s = 1 .. Len(s)
        /\ Head(s) = s[1] /\ r \in Seq(P) /\ Len(r) = Len(s) - 1
        /\ \A k \in 1 .. Len(r) : r[k] = s[k + 1]
        /\ DOMAIN r = 1 .. Len(r)
    BY <1>4, <1>5, EmptySeq, LenProperties, HeadTailProperties
  <2>2. 1 \in DOMAIN s
    BY <2>1
  <2>3. \A k \in DOMAIN r : k + 1 \in DOMAIN s /\ r[k] = s[k + 1]
    BY <2>1
  <2> QED BY <2>1, <2>2, <2>3 DEF Range
<1>7. /\ h.i \in 1 .. h.end /\ h.end <= n
      /\ Range(s) \subseteq DOMAIN profiles
  BY <1>0, <1>1, <1>2, <1>4 DEF Inside
<1>8. PICK line : line = Edge(profiles[h.i].handle, profiles[Head(h.left)].handle)
  OBVIOUS
<1>9. line \in EdgeLine /\ line \in Line
  <2>1. h.i \in 1 .. n /\ Head(h.left) \in 1 .. n
    BY <1>2, <1>3, <1>4, <1>6, <1>7
  <2>2. profiles[h.i].handle \in Texts /\ profiles[Head(h.left)].handle \in Texts
    BY <1>2, <2>1 DEF Profile
  <2> QED BY <1>8, <2>2 DEF Edge, Line, EdgeLine
<1>10. /\ file' \in Seq(Line)
       /\ h.pos = Len(file) + 1 => /\ Len(file') = h.pos /\ file'[h.pos] = line
                                   /\ \A k \in 1 .. Len(file) : file'[k] = file[k]
  BY <1>1, <1>2, <1>3, <1>8, <1>9, WriteAtEffect
<1>11. PICK rec : rec = [h EXCEPT !.left = Tail(@), !.pos = @ + 1]
  OBVIOUS
<1>12. rec = [pc |-> "edge", i |-> h.i, end |-> h.end, left |-> r, pos |-> h.pos + 1]
  BY <1>1, <1>3, <1>4, <1>11
<1>13. rec \in Handler
  <2>1. h.pos + 1 \in Nat /\ r \in Seq(Nat \ {0})
    BY <1>3, <1>4, <1>6
  <2> QED BY <1>3, <1>12, <2>1 DEF Handler, SyncPC
<1>14. th'[t] = rec /\ th' = [th EXCEPT ![t] = rec]
  BY <1>1, <1>2, <1>11
<1>15. Inside(t)'
  <2>1. /\ rec.pc = "edge" /\ rec.i \in 1 .. rec.end /\ rec.end <= n /\ rec.i = h.i
        /\ rec.left = r
    BY <1>7, <1>12
  <2>2. Range(rec.left) \subseteq DOMAIN profiles
    BY <1>6, <1>7, <2>1
  <2> QED BY <1>0, <1>1, <1>2, <1>14, <2>1, <2>2 DEF Inside
<1>16. ~Overlap => FileShape' /\ Writing(t)'
  <2> SUFFICES ASSUME ~Overlap PROVE FileShape' /\ Writing(t)'
    OBVIOUS
  <2>1. /\ h.pos = Len(file) + 1 /\ h.pos >= h.end + 2
        /\ file # <<>> /\ file[1].n = h.end /\ h.end = n
    BY <1>0, <1>1, <1>2 DEF Writing, SyncPC
  <2>2. /\ Len(file') = Len(file) + 1 /\ file'[Len(file')] = line
        /\ \A k \in 1 .. Len(file) : file'[k] = file[k]
    BY <1>10, <2>1
  <2>4. FileShape' /\ file'[1] = file[1] /\ file' # <<>>
    BY <1>2, <1>9, <1>10, <2>1, <2>2, ShapeGrows
  <2>5. /\ rec.pc = "edge" /\ rec.pos = Len(file') + 1 /\ rec.end = n
        /\ rec.pos >= rec.end + 2
    BY <1>2, <1>3, <1>12, <2>1, <2>2
  <2>6. Writing(t)'
    BY <1>0, <1>1, <1>14, <2>1, <2>4, <2>5 DEF Writing
  <2> QED BY <2>4, <2>6
<1>17. /\ profiles' \in Seq(Profile) /\ ListsOK(profiles') /\ Extends(profiles', profiles)
       /\ ~Overlap => ListsOnce(profiles')
  BY <1>1, <1>2, SameDirectory
<1>18. /\ exists' \in BOOLEAN /\ crashes' \in 0 .. MaxCrashes /\ saved' \subseteq Line
       /\ torn' \in BOOLEAN /\ up' = up /\ online' \subseteq Texts
  BY <1>1, <1>2 DEF history
<1> QED BY <1>1, <1>2, <1>10, <1>13, <1>14, <1>15, <1>16, <1>17, <1>18, HandlerStep

LEMMA SyncNextProfileStep ==
    ASSUME ListsInv, NEW t \in Threads, SyncNextProfile(t)
    PROVE  ListsInv'
<1>0. PICK h, n : h = th[t] /\ n = Len(profiles)
  OBVIOUS
<1>1. /\ up /\ h.pc = "edge" /\ h.i < h.end /\ file' = file
      /\ th' = [th EXCEPT ![t] = [h EXCEPT !.i = @ + 1, !.left = profiles[h.i + 1].followers]]
      /\ UNCHANGED <<up, profiles, exists, online, history>>
  BY <1>0 DEF SyncNextProfile, Continue, Goto
<1>2. /\ th \in [Threads -> Handler] /\ h \in Handler
      /\ ~Overlap => \A s \in Threads \ {t} : ~Running(s)
      /\ Inside(t) /\ (~Overlap => Writing(t) /\ FileShape)
      /\ TypeOK /\ ListsOK(profiles) /\ FileInv /\ profiles # <<>> /\ n \in Nat \ {0}
      /\ \A k \in 1 .. n : profiles[k] \in Profile
      /\ DOMAIN profiles = 1 .. n
      /\ exists \in BOOLEAN /\ online \subseteq Texts /\ crashes \in 0 .. MaxCrashes
      /\ saved \subseteq Line /\ torn \in BOOLEAN
  BY <1>0, <1>1, SyncFacts DEF SyncPC
<1>3. /\ h.pos \in Nat /\ h.i \in Nat /\ h.end \in Nat
      /\ h = [pc |-> h.pc, i |-> h.i, end |-> h.end, left |-> h.left, pos |-> h.pos]
  BY <1>2 DEF Handler
<1>4. h.i \in 1 .. h.end /\ h.end <= n
  BY <1>0, <1>1, <1>2 DEF Inside
<1>5. PICK j : j = h.i + 1
  OBVIOUS
<1>6. j \in 1 .. n /\ j \in 1 .. h.end /\ j \in Nat
  BY <1>1, <1>2, <1>3, <1>4, <1>5
<1>7. PICK rec : rec = [h EXCEPT !.i = @ + 1, !.left = profiles[h.i + 1].followers]
  OBVIOUS
<1>8. rec = [pc |-> "edge", i |-> j, end |-> h.end, left |-> profiles[j].followers,
             pos |-> h.pos]
  BY <1>1, <1>3, <1>5, <1>7
<1>9. rec \in Handler
  <2>1. profiles[j].followers \in Seq(Nat \ {0})
    BY <1>2, <1>6 DEF Profile
  <2> QED BY <1>3, <1>6, <1>8, <2>1 DEF Handler, SyncPC
<1>10. th'[t] = rec /\ th' = [th EXCEPT ![t] = rec]
  BY <1>1, <1>2, <1>7
<1>11. Inside(t)'
  <2>1. /\ rec.pc = "edge" /\ rec.i \in 1 .. rec.end /\ rec.end <= n /\ rec.i = j
        /\ rec.left = profiles[j].followers
    BY <1>4, <1>6, <1>8
  <2>2. Range(rec.left) \subseteq DOMAIN profiles
    BY <1>2, <1>6, <2>1 DEF ListsOK
  <2> QED BY <1>0, <1>1, <1>2, <1>10, <2>1, <2>2 DEF Inside
<1>12. ~Overlap => Writing(t)'
  <2> SUFFICES ASSUME ~Overlap PROVE Writing(t)'
    OBVIOUS
  <2>1. /\ h.pos = Len(file) + 1 /\ h.pos >= h.end + 2
        /\ file # <<>> /\ file[1].n = h.end /\ h.end = n
    BY <1>0, <1>1, <1>2 DEF Writing, SyncPC
  <2>2. rec.pc = "edge" /\ rec.pos = h.pos /\ rec.end = h.end
    BY <1>8
  <2> QED BY <1>0, <1>1, <1>10, <2>1, <2>2 DEF Writing
<1>13. file' \in Seq(Line) /\ (~Overlap => FileShape')
  BY <1>1, <1>2, SameFile
<1>14. /\ profiles' \in Seq(Profile) /\ ListsOK(profiles') /\ Extends(profiles', profiles)
       /\ ~Overlap => ListsOnce(profiles')
  BY <1>1, <1>2, SameDirectory
<1>15. /\ exists' \in BOOLEAN /\ crashes' \in 0 .. MaxCrashes /\ saved' \subseteq Line
       /\ torn' \in BOOLEAN /\ up' = up /\ online' \subseteq Texts
  BY <1>1, <1>2 DEF history
<1> QED BY <1>1, <1>2, <1>9, <1>10, <1>11, <1>12, <1>13, <1>14, <1>15, HandlerStep

LEMMA SyncCloseStep ==
    ASSUME ListsInv, NEW t \in Threads, SyncClose(t)
    PROVE  ListsInv'
<1>1. /\ up /\ th[t].pc = "edge" /\ file' = file
      /\ th' = [th EXCEPT ![t] = At("done")]
      /\ IF t \in Connects
         THEN online' = online \cup {NameOf[t]} /\ saved' = saved \cup {Name(NameOf[t])}
         ELSE online' = online /\ saved' = saved \cup {Following(t)}
      /\ UNCHANGED <<up, profiles, exists, crashes, torn>>
  BY DEF SyncClose, Continue, Goto, Done
<1>2. /\ th \in [Threads -> Handler]
      /\ ~Overlap => \A s \in Threads \ {t} : ~Running(s)
      /\ TypeOK /\ ListsOK(profiles) /\ FileInv
      /\ exists \in BOOLEAN /\ online \subseteq Texts /\ crashes \in 0 .. MaxCrashes
      /\ saved \subseteq Line /\ torn \in BOOLEAN
  BY <1>1, SyncFacts DEF SyncPC
<1>3. At("done") \in Handler /\ At("done").pc = "done"
  BY AtFields
<1>4. th'[t].pc = "done"
  BY <1>1, <1>2, <1>3
<1>5. Inside(t)' /\ Writing(t)'
  BY <1>1, <1>4 DEF Inside, Writing, SyncPC
<1>6. online' \subseteq Texts /\ saved' \subseteq Line
  <2>1. CASE t \in Connects
    <3>1. NameOf[t] \in Texts
      BY <2>1, ProfilesAssumption
    <3>2. Name(NameOf[t]) \in Line
      BY <3>1 DEF Name, Line
    <3> QED BY <1>1, <1>2, <2>1, <3>1, <3>2
  <2>2. CASE t \notin Connects
    <3>1. Whom[t] \in Texts /\ Who[t] \in Texts
      BY <2>2, ProfilesAssumption DEF Threads
    <3>2. Following(t) \in Line
      BY <3>1 DEF Following, Edge, Line
    <3> QED BY <1>1, <1>2, <2>2, <3>2
  <2> QED BY <2>1, <2>2
<1>7. file' \in Seq(Line) /\ (~Overlap => FileShape')
  BY <1>1, <1>2, SameFile
<1>8. /\ profiles' \in Seq(Profile) /\ ListsOK(profiles') /\ Extends(profiles', profiles)
      /\ ~Overlap => ListsOnce(profiles')
  BY <1>1, <1>2, SameDirectory
<1>9. exists' \in BOOLEAN /\ crashes' \in 0 .. MaxCrashes /\ torn' \in BOOLEAN /\ up' = up
  BY <1>1, <1>2
<1> QED BY <1>1, <1>2, <1>3, <1>5, <1>6, <1>7, <1>8, <1>9, HandlerStep

\* The process dies: no handler is left running.
LEMMA CrashStep ==
    ASSUME ListsInv, Crash
    PROVE  ListsInv'
<1>1. /\ crashes < MaxCrashes /\ up' = FALSE /\ crashes' = crashes + 1
      /\ torn' = (torn \/ InSync) /\ profiles' = <<>> /\ online' = {}
      /\ th' = [t \in Threads |-> IF Running(t) THEN At("done") ELSE th[t]]
      /\ exists' = exists /\ file' = file /\ saved' = saved
  BY DEF Crash, Done
<1>2. /\ TypeOK /\ FileInv /\ th \in [Threads -> Handler]
      /\ crashes \in 0 .. MaxCrashes /\ exists \in BOOLEAN /\ saved \subseteq Line
      /\ torn \in BOOLEAN
  BY DEF ListsInv, TypeOK, Handler
<1>3. ~Overlap /\ MaxCrashes \in Nat
  BY <1>1, <1>2, ProfilesAssumption
<1>4. At("done") \in Handler /\ At("done").pc = "done"
  BY AtFields
<1>5. th' \in [Threads -> Handler] /\ \A t \in Threads : th'[t].pc \in {"idle", "done"}
  BY <1>1, <1>2, <1>4 DEF Running
<1>6. crashes' \in 0 .. MaxCrashes
  BY <1>1, <1>2, <1>3
<1>7. torn' \in BOOLEAN
  BY <1>1, <1>2 DEF InSync
<1>8. profiles' \in Seq(Profile) /\ DOMAIN profiles' = {}
  BY <1>1, EmptySeq
<1>9. ListsOK(profiles') /\ ListsOnce(profiles')
  BY <1>8 DEF ListsOK, ListsOnce
<1>10. file' \in Seq(Line) /\ FileShape'
  BY <1>1, <1>2, <1>3, SameFile
<1>11. TypeOK'
  BY <1>1, <1>2, <1>5, <1>6, <1>7, <1>8, <1>10 DEF TypeOK, Handler
<1>12. HandlersInside'
  BY <1>5 DEF HandlersInside, Inside, Running, SyncPC
<1>13. Alone' /\ \A t \in Threads : Writing(t)'
  BY <1>5 DEF Alone, Running, Writing, SyncPC
<1> QED BY <1>3, <1>9, <1>10, <1>11, <1>12, <1>13 DEF ListsInv, FileInv

\* The constructor reads the file back, which may be torn.
LEMMA RestartStep ==
    ASSUME ListsInv, Restart
    PROVE  ListsInv'
<1>1. /\ ~up /\ up' = TRUE /\ profiles' \in ReadProfilesFromFile
      /\ UNCHANGED <<exists, file, online, th, crashes, saved, torn>>
  BY DEF Restart, history
<1>2. TypeOK /\ FileInv /\ HandlersInside /\ ~Overlap
  BY <1>1 DEF ListsInv
<1>3. file \in Seq(Line) /\ FileShape
  BY <1>2 DEF TypeOK, FileInv
<1>4. profiles' \in Seq(Profile) /\ ListsOK(profiles') /\ ListsOnce(profiles')
  <2>1. PICK dir : dir = profiles'
    OBVIOUS
  <2>2. dir \in Seq(Profile) /\ ListsOK(dir) /\ ListsOnce(dir)
    BY <1>1, <1>3, <2>1, ProfilesAssumption, ReloadKeeps
  <2> QED BY <2>1, <2>2
<1>5. TypeOK'
  BY <1>1, <1>2, <1>4 DEF TypeOK
<1>6. \A t \in Threads : ~Running(t)
  BY <1>1, <1>2 DEF HandlersInside, Inside
<1>7. \A t \in Threads : th'[t].pc \in {"idle", "done"}
  BY <1>1, <1>6 DEF Running
<1>8. HandlersInside'
  BY <1>7 DEF HandlersInside, Inside, Running, SyncPC
<1>9. Alone' /\ \A t \in Threads : Writing(t)'
  BY <1>7 DEF Alone, Running, Writing, SyncPC
<1>10. FileShape'
  BY <1>1, <1>2, <1>3, SameFile
<1> QED BY <1>1, <1>4, <1>5, <1>8, <1>9, <1>10 DEF ListsInv, FileInv

LEMMA ListsInit ==
    Init => ListsInv
<1> SUFFICES ASSUME Init PROVE ListsInv
  OBVIOUS
<1>1. At("idle") \in Handler /\ At("idle").pc = "idle"
  BY AtFields
<1>2. th \in [Threads -> Handler] /\ \A t \in Threads : th[t].pc = "idle"
  BY <1>1 DEF Init
<1>3. /\ up = TRUE /\ profiles = <<>> /\ exists = FALSE /\ file = <<>> /\ online = {}
      /\ crashes = 0 /\ saved = {} /\ torn = FALSE
  BY DEF Init
<1>4. profiles \in Seq(Profile) /\ file \in Seq(Line) /\ DOMAIN profiles = {} /\ DOMAIN file = {}
  BY <1>3, EmptySeq
<1>5. TypeOK
  <2>1. crashes \in 0 .. MaxCrashes
    BY <1>3, ProfilesAssumption
  <2> QED BY <1>2, <1>3, <1>4, <2>1 DEF TypeOK, Handler
<1>6. ListsOK(profiles) /\ ListsOnce(profiles) /\ FileShape
  BY <1>4 DEF ListsOK, ListsOnce, FileShape
<1>7. HandlersInside /\ Alone /\ \A t \in Threads : Writing(t)
  BY <1>2 DEF HandlersInside, Inside, Alone, Writing, Running, SyncPC
<1> QED BY <1>3, <1>5, <1>6, <1>7 DEF ListsInv, FileInv

LEMMA ListsNext ==
    ListsInv /\ [Next]_vars => ListsInv'
<1> SUFFICES ASSUME ListsInv, [Next]_vars PROVE ListsInv'
  OBVIOUS
<1>1. CASE \/ \E c \in Connects : ConnectLookup(c) \/ ConnectNewProfile(c)
           \/ \E f \in Follows : Follow(f) \/ FollowPush(f)
  BY <1>1, DirectoryStep
<1>2. ASSUME NEW t \in Threads,
             \/ SyncOpen(t) \/ SyncCount(t) \/ SyncName(t)
             \/ SyncEdge(t) \/ SyncNextProfile(t) \/ SyncClose(t)
      PROVE  ListsInv'
  BY <1>2, SyncOpenStep, SyncCountStep, SyncNameStep, SyncEdgeStep, SyncNextProfileStep,
     SyncCloseStep
<1>3. CASE Crash
  BY <1>3, CrashStep
<1>4. CASE Restart
  BY <1>4, RestartStep
<1>5. CASE UNCHANGED vars
  BY <1>5 DEF vars, ListsInv, TypeOK, ListsOK, ListsOnce, HandlersInside, Inside, FileInv,
              Alone, FileShape, Writing, IsNew, Running
<1> QED BY <1>1, <1>2, <1>3, <1>4, <1>5 DEF Next, Quiescent

LEMMA ListsAlways ==
    Spec => []ListsInv
BY ListsInit, ListsNext, PTL DEF Spec

-----------------------------------------------------------------------------

\* Every variable keeps its type, through any order of handlers, of the lines of
\* Syncs that overlap, of crashes and of reloads: the reload of a torn file
\* yields a directory too (ProfileManager.cpp).
THEOREM ProfilesTypes ==
    Spec => []TypeOK
<1>1. ListsInv => TypeOK
  BY DEF ListsInv
<1> QED BY <1>1, ListsAlways, PTL

\* "Check if it's already a follower" (Profile.cpp:22) suffices for handlers that
\* do not overlap: however often a FOLLOW is repeated, and whatever file was
\* reloaded, nobody is twice in a list of followers.  Two FOLLOWs of one user
\* between the check and the push (Profile.cpp:23-27) do repeat him.
THEOREM FollowersAreUnique ==
    ASSUME ~Overlap
    PROVE  Spec => []FollowersUnique
<1>1. ListsInv => FollowersUnique
  BY DEF ListsInv, FileInv, ListsOnce, FollowersUnique
<1> QED BY <1>1, ListsAlways, PTL

\* A follower in a list is the profile GetProfileByName finds for its name, with
\* overlapping CONNECTs that add a name twice and after the reload of a torn file
\* that repeats one: the directory a server starts with is as Server assumes it.
THEOREM FollowersAreFound ==
    Spec => []FollowersFound
<1>1. ListsInv => FollowersFound
  BY DEF ListsInv, ListsOK, FollowersFound
<1> QED BY <1>1, ListsAlways, PTL

-----------------------------------------------------------------------------
(* The lines of a saved directory.                                         *)

\* How many lines the followers of the first profiles take.
Off(dir, i) == Len(EdgesUpTo(dir, i))

LEMMA EdgesType ==
    ASSUME NEW dir \in Seq(Profile), ListsOK(dir), NEW i \in 1 .. Len(dir)
    PROVE  /\ EdgesOf(dir, i) \in Seq(EdgeLine)
           /\ Len(EdgesOf(dir, i)) = Len(dir[i].followers)
           /\ Len(dir[i].followers) \in Nat
           /\ dir[i].followers \in Seq(Nat \ {0})
           /\ \A k \in 1 .. Len(dir[i].followers) :
                /\ EdgesOf(dir, i)[k] = Edge(dir[i].handle, dir[dir[i].followers[k]].handle)
                /\ dir[i].followers[k] \in Range(dir[i].followers)
<1>1. PICK s : s = dir[i].followers
  OBVIOUS
<1>2. PICK P : P = Nat \ {0}
  OBVIOUS
<1>3. s \in Seq(P)
  <2>1. dir[i] \in Profile
    BY ElementOfSeq
  <2> QED BY <1>1, <1>2, <2>1 DEF Profile
<1>4. PICK l : l = Len(s)
  OBVIOUS
<1>5. l \in Nat /\ DOMAIN s = 1 .. l
  BY <1>3, <1>4, LenProperties
<1>6. i \in DOMAIN dir
  BY LenProperties
<1>7. \A k \in 1 .. l : /\ s[k] \in Range(s)
                        /\ dir[s[k]].handle \in Texts /\ dir[i].handle \in Texts
  <2>0. \A j \in DOMAIN dir : dir[j].handle \in Texts
    <3>1. DOMAIN dir = 1 .. Len(dir) /\ \A j \in 1 .. Len(dir) : dir[j] \in Profile
      BY LenProperties, ElementOfSeq
    <3> QED BY <3>1 DEF Profile
  <2> TAKE k \in 1 .. l
  <2>1. s[k] \in Range(s)
    BY <1>5 DEF Range
  <2>2. s[k] \in DOMAIN dir
    BY <1>1, <1>6, <2>1 DEF ListsOK
  <2> QED BY <1>6, <2>0, <2>1, <2>2
<1>8. PICK t : t = [k \in 1 .. l |-> Edge(dir[i].handle, dir[s[k]].handle)]
  OBVIOUS
<1>9. t = EdgesOf(dir, i)
  BY <1>1, <1>5, <1>8 DEF EdgesOf
<1>10. \A k \in 1 .. l : Edge(dir[i].handle, dir[s[k]].handle) \in EdgeLine
  BY <1>7 DEF Edge, EdgeLine
<1>11. t \in Seq(EdgeLine) /\ Len(t) = l
  BY <1>5, <1>8, <1>10, IsASeq
<1> QED BY <1>1, <1>2, <1>3, <1>4, <1>5, <1>7, <1>8, <1>9, <1>11

\* The followers of profile i come behind those of the profiles before it.
EdgesGrown(dir, i) ==
    /\ EdgesUpTo(dir, i) \in Seq(EdgeLine) /\ EdgesUpTo(dir, i - 1) \in Seq(EdgeLine)
    /\ Off(dir, i - 1) \in Nat /\ Off(dir, i) \in Nat
    /\ Off(dir, i) = Off(dir, i - 1) + Len(dir[i].followers)
    /\ \A m \in 1 .. Off(dir, i) :
        EdgesUpTo(dir, i)[m] = IF m <= Off(dir, i - 1) THEN EdgesUpTo(dir, i - 1)[m]
                               ELSE EdgesOf(dir, i)[m - Off(dir, i - 1)]

LEMMA EdgesGrow ==
    ASSUME NEW dir \in Seq(Profile), ListsOK(dir)
    PROVE  /\ EdgesUpTo(dir, 0) = <<>> /\ Off(dir, 0) = 0
           /\ \A i \in 1 .. Len(dir) : EdgesGrown(dir, i)
<1>1. PICK n : n = Len(dir)
  OBVIOUS
<1>2. n \in Nat
  BY <1>1, LenProperties
<1>3. PICK E : E = [j \in 1 .. n |-> EdgesOf(dir, j)]
  OBVIOUS
<1>4. \A j \in 1 .. n : /\ E[j] = EdgesOf(dir, j) /\ E[j] \in Seq(EdgeLine)
                        /\ Len(E[j]) = Len(dir[j].followers) /\ Len(E[j]) \in Nat
  BY <1>1, <1>3, EdgesType
<1>5. \A i \in 0 .. n : EdgesUpTo(dir, i) = FlattenSeq([j \in 1 .. i |-> E[j]])
  <2> TAKE i \in 0 .. n
  <2>1. \A j \in 1 .. i : E[j] = EdgesOf(dir, j)
    BY <1>2, <1>4
  <2>2. [j \in 1 .. i |-> EdgesOf(dir, j)] = [j \in 1 .. i |-> E[j]]
    BY <2>1
  <2> QED BY <2>2 DEF EdgesUpTo
<1>6. EdgesUpTo(dir, 0) = <<>>
  <2>1. 0 \in 0 .. n
    BY <1>2
  <2> QED BY <1>5, <2>1, FlattenStep
<1>7. <<>> \in Seq(EdgeLine) /\ Off(dir, 0) = 0
  BY <1>6, EmptySeq DEF Off
<1>8. n > 0 => EdgesUpTo(dir, 1) = E[1]
  <2>1. n > 0 => 1 \in 0 .. n
    BY <1>2
  <2> QED BY <1>5, <2>1, FlattenStep
<1>9. \A i \in 1 .. n - 1 : EdgesUpTo(dir, i + 1) = EdgesUpTo(dir, i) \o E[i + 1]
  <2> TAKE i \in 1 .. n - 1
  <2>1. i \in Nat /\ i > 0 /\ i \in 0 .. n /\ i + 1 \in 0 .. n
    BY <1>2
  <2>2. FlattenSeq([j \in 1 .. i + 1 |-> E[j]]) = FlattenSeq([j \in 1 .. i |-> E[j]]) \o E[i + 1]
    BY <2>1, FlattenStep
  <2> QED BY <1>5, <2>1, <2>2
<1>10. PICK P : P = {i \in Nat : EdgesUpTo(dir, i) \in Seq(EdgeLine)}
  OBVIOUS
<1>11. n > 0 => 1 \in P
  <2>1. n > 0 => 1 \in 1 .. n
    BY <1>2
  <2> QED BY <1>4, <1>8, <1>10, <2>1
<1>12. \A i \in 1 .. n - 1 : i \in P => i + 1 \in P
  <2> TAKE i \in 1 .. n - 1
  <2> HAVE i \in P
  <2>1. i + 1 \in 1 .. n /\ i + 1 \in Nat
    BY <1>2
  <2>2. EdgesUpTo(dir, i) \in Seq(EdgeLine) /\ E[i + 1] \in Seq(EdgeLine)
    BY <1>4, <1>10, <2>1
  <2>3. EdgesUpTo(dir, i) \o E[i + 1] \in Seq(EdgeLine)
    BY <2>2, ConcatProperties
  <2> QED BY <1>9, <1>10, <2>1, <2>3
<1>13. 1 .. n \subseteq P
  <2>1. P \in SUBSET Nat
    BY <1>10
  <2> QED BY <1>2, <1>11, <1>12, <2>1, UpTo
<1>14. ASSUME NEW i \in 1 .. n
       PROVE  EdgesGrown(dir, i)
  <2>1. PICK h : h = i - 1
    OBVIOUS
  <2>2. h \in Nat /\ i = h + 1 /\ (h = 0 \/ h \in 1 .. n)
    BY <1>2, <2>1
  <2>3. PICK a, b, e : a = EdgesUpTo(dir, h) /\ b = EdgesUpTo(dir, i) /\ e = EdgesOf(dir, i)
    OBVIOUS
  <2>4. b \in Seq(EdgeLine) /\ a \in Seq(EdgeLine) /\ e \in Seq(EdgeLine)
        /\ Len(e) = Len(dir[i].followers) /\ Len(e) \in Nat /\ e = E[i]
    <3>1. e = E[i] /\ e \in Seq(EdgeLine) /\ Len(e) = Len(dir[i].followers) /\ Len(e) \in Nat
      BY <1>4, <2>3
    <3>2. \A k \in 1 .. n : EdgesUpTo(dir, k) \in Seq(EdgeLine)
      BY <1>10, <1>13
    <3>3. b \in Seq(EdgeLine)
      BY <2>3, <3>2
    <3>4. a \in Seq(EdgeLine)
      BY <1>6, <1>7, <2>2, <2>3, <3>2
    <3> QED BY <3>1, <3>3, <3>4
  <2>5. Len(a) \in Nat
    BY <2>4, LenProperties
  <2>6. b = a \o e
    <3>1. CASE h = 0
      <4>1. i = 1 /\ n > 0 /\ a = <<>>
        BY <1>2, <1>6, <2>2, <2>3, <3>1
      <4>2. b = e
        BY <1>8, <2>3, <2>4, <4>1
      <4>3. <<>> \o e = e
        BY <2>4, ConcatEmptySeq
      <4> QED BY <4>1, <4>2, <4>3
    <3>2. CASE h \in 1 .. n
      <4>1. h \in 1 .. n - 1
        BY <1>2, <2>2, <3>2
      <4> QED BY <1>9, <2>2, <2>3, <2>4, <4>1
    <3> QED BY <2>2, <3>1, <3>2
  <2>7. /\ Len(b) = Len(a) + Len(e)
        /\ \A m \in 1 .. Len(a) + Len(e) : b[m] = IF m <= Len(a) THEN a[m] ELSE e[m - Len(a)]
    <3>1. /\ Len(a \o e) = Len(a) + Len(e)
          /\ \A m \in 1 .. Len(a) + Len(e) :
                (a \o e)[m] = IF m <= Len(a) THEN a[m] ELSE e[m - Len(a)]
      <4>1. a \in Seq(EdgeLine) /\ e \in Seq(EdgeLine)
        BY <2>4
      <4> QED BY <4>1, ConcatProperties, Zenon
    <3> QED BY <2>6, <3>1, Zenon
  <2>8. Off(dir, i) = Len(b) /\ Off(dir, h) = Len(a) /\ Len(b) \in Nat
    BY <2>3, <2>4, <2>5, <2>7 DEF Off
  <2> QED BY <2>1, <2>3, <2>4, <2>5, <2>7, <2>8 DEF EdgesGrown
<1> QED BY <1>1, <1>6, <1>7, <1>14

LEMMA EdgeAt ==
    ASSUME NEW dir \in Seq(Profile), ListsOK(dir), NEW i \in 1 .. Len(dir)
    PROVE  /\ Off(dir, Len(dir)) \in Nat /\ Off(dir, i) <= Off(dir, Len(dir))
           /\ \A k \in 1 .. Len(dir[i].followers) :
                /\ Off(dir, i - 1) + k \in 1 .. Off(dir, Len(dir))
                /\ EdgesUpTo(dir, Len(dir))[Off(dir, i - 1) + k]
                    = Edge(dir[i].handle, dir[dir[i].followers[k]].handle)
<1>1. PICK n : n = Len(dir)
  OBVIOUS
<1>2. n \in Nat /\ i \in Nat /\ i >= 1 /\ i <= n /\ n \in 1 .. n
  BY <1>1, LenProperties
<1>3. PICK a, l : a = Off(dir, i - 1) /\ l = Len(dir[i].followers)
  OBVIOUS
<1>4. PICK at : at = [k \in 1 .. l |-> Edge(dir[i].handle, dir[dir[i].followers[k]].handle)]
  OBVIOUS
<1>5. l \in Nat /\ \A k \in 1 .. l : EdgesOf(dir, i)[k] = at[k]
  BY <1>3, <1>4, EdgesType
<1>6. \A j \in 1 .. n : EdgesGrown(dir, j)
  BY <1>1, EdgesGrow
<1>7. a \in Nat /\ Off(dir, i) = a + l
  BY <1>1, <1>3, <1>6 DEF EdgesGrown
<1>8. ASSUME NEW k \in 1 .. l
      PROVE  EdgesUpTo(dir, i)[a + k] = at[k]
  <2>1. PICK m : m = a + k
    OBVIOUS
  <2>2. m \in 1 .. Off(dir, i) /\ ~(m <= a) /\ m - a = k
    BY <1>5, <1>7, <2>1
  <2>3. EdgesUpTo(dir, i)[m] = EdgesOf(dir, i)[m - a]
    BY <1>1, <1>3, <1>6, <2>2 DEF EdgesGrown
  <2> QED BY <1>5, <2>1, <2>2, <2>3
<1> DEFINE Q(j) == /\ Off(dir, j) \in Nat /\ a + l <= Off(dir, j)
                   /\ \A k \in 1 .. l : EdgesUpTo(dir, j)[a + k] = at[k]
<1>9. PICK P : P = {j \in Nat : j >= i => Q(j)}
  OBVIOUS
<1>10. Q(i)
  <2>1. Off(dir, i) \in Nat /\ a + l <= Off(dir, i)
    BY <1>5, <1>7
  <2> QED BY <1>8, <2>1
<1>11. ASSUME NEW j \in 1 .. n - 1, Q(j)
       PROVE  Q(j + 1)
  <2>1. PICK m : m = j + 1
    OBVIOUS
  <2>2. m \in 1 .. n /\ m - 1 = j
    BY <1>2, <2>1
  <2>3. EdgesGrown(dir, m)
    BY <1>6, <2>2
  <2>4. dir[m].followers \in Seq(Nat \ {0}) /\ Len(dir[m].followers) \in Nat
    BY <1>1, <2>2, EdgesType
  <2>5. /\ Off(dir, m) \in Nat /\ Off(dir, j) <= Off(dir, m)
        /\ \A q \in 1 .. Off(dir, m) : q <= Off(dir, j) =>
                EdgesUpTo(dir, m)[q] = EdgesUpTo(dir, j)[q]
    BY <1>11, <2>2, <2>3, <2>4 DEF EdgesGrown
  <2>6. Off(dir, m) \in Nat /\ a + l <= Off(dir, m)
    BY <1>5, <1>7, <1>11, <2>5
  <2>7. \A k \in 1 .. l : EdgesUpTo(dir, m)[a + k] = at[k]
    <3> TAKE k \in 1 .. l
    <3>1. a + k \in 1 .. Off(dir, m) /\ a + k <= Off(dir, j)
      BY <1>5, <1>7, <1>11, <2>5, <2>6
    <3> QED BY <1>11, <2>5, <3>1
  <2> QED BY <2>1, <2>6, <2>7
<1> HIDE DEF Q
<1>12. n > 0 => 1 \in P
  <2>1. 1 >= i => i = 1
    BY <1>2
  <2> QED BY <1>9, <1>10, <2>1
<1>13. \A j \in 1 .. n - 1 : j \in P => j + 1 \in P
  <2> TAKE j \in 1 .. n - 1
  <2> HAVE j \in P
  <2>1. j \in Nat /\ j + 1 \in Nat /\ (j + 1 >= i => j + 1 = i \/ j >= i)
    BY <1>2
  <2>2. j >= i => Q(j + 1)
    BY <1>9, <1>11
  <2>3. j + 1 >= i => Q(j + 1)
    BY <1>10, <2>1, <2>2
  <2> QED BY <1>9, <2>1, <2>3
<1>14. 1 .. n \subseteq P
  <2>1. P \in SUBSET Nat
    BY <1>9
  <2> QED BY <1>2, <1>12, <1>13, <2>1, UpTo
<1>15. Q(n)
  BY <1>2, <1>9, <1>14
<1>16. /\ Off(dir, n) \in Nat /\ a + l <= Off(dir, n)
       /\ \A k \in 1 .. l : EdgesUpTo(dir, n)[a + k] = at[k]
  BY <1>15 DEF Q
<1>17. \A k \in 1 .. l : a + k \in 1 .. Off(dir, n)
  BY <1>5, <1>7, <1>16
<1> QED BY <1>1, <1>3, <1>4, <1>7, <1>16, <1>17

\* The count, the names, then the followers.
LEMMA SavedShape ==
    ASSUME NEW dir \in Seq(Profile), ListsOK(dir)
    PROVE  LET n == Len(dir) IN
           /\ n \in Nat /\ Off(dir, n) \in Nat
           /\ Saved(dir) \in Seq(Line) /\ Len(Saved(dir)) = n + 1 + Off(dir, n)
           /\ Saved(dir)[1] = Count(n)
           /\ \A j \in 1 .. n : Saved(dir)[j + 1] = Name(dir[j].handle)
           /\ \A m \in 1 .. Off(dir, n) : Saved(dir)[n + 1 + m] = EdgesUpTo(dir, n)[m]
<1>1. PICK n : n = Len(dir)
  OBVIOUS
<1>2. n \in Nat /\ DOMAIN dir = 1 .. n /\ \A j \in 1 .. n : dir[j] \in Profile
  BY <1>1, LenProperties, ElementOfSeq
<1>3. PICK c, names, u : /\ c = Count(n) /\ names = [j \in 1 .. n |-> Name(dir[j].handle)]
                         /\ u = EdgesUpTo(dir, n)
  OBVIOUS
<1>4. c \in Line
  BY <1>2, <1>3 DEF Count, Line
<1>5. <<c>> \in Seq(Line) /\ Len(<<c>>) = 1 /\ <<c>>[1] = c
  BY <1>4
<1>6. \A j \in 1 .. n : Name(dir[j].handle) \in Line
  BY <1>2 DEF Name, Line, Profile
<1>7. names \in Seq(Line) /\ Len(names) = n /\ \A j \in 1 .. n : names[j] = Name(dir[j].handle)
  BY <1>2, <1>3, <1>6, IsASeq
<1>8. u \in Seq(EdgeLine) /\ Len(u) = Off(dir, n)
  <2>1. CASE n = 0
    BY <1>3, <2>1, EdgesGrow, EmptySeq DEF Off
  <2>2. CASE n # 0
    <3>1. n \in 1 .. n
      BY <1>2, <2>2
    <3> QED BY <1>1, <1>3, <3>1, EdgesGrow DEF EdgesGrown, Off
  <2> QED BY <2>1, <2>2
<1>9. EdgeLine \subseteq Line
  BY DEF EdgeLine, Line
<1>10. u \in Seq(Line) /\ Len(u) \in Nat
  <2>1. Len(u) \in Nat /\ u \in [1 .. Len(u) -> EdgeLine]
    BY <1>8, LenProperties
  <2> QED BY <1>9, <2>1
<1>11. PICK a, l : a = <<c>> \o names /\ l = 1 + n
  OBVIOUS
<1>12. /\ <<c>> \o names \in Seq(Line) /\ Len(<<c>> \o names) = 1 + n
       /\ \A k \in 1 .. 1 + n : (<<c>> \o names)[k] = IF k <= 1 THEN <<c>>[k] ELSE names[k - 1]
  <2>1. PICK s : s = <<c>>
    OBVIOUS
  <2>2. s \in Seq(Line) /\ names \in Seq(Line) /\ Len(s) = 1 /\ Len(names) = n
    BY <1>5, <1>7, <2>1
  <2>3. /\ s \o names \in Seq(Line) /\ Len(s \o names) = Len(s) + Len(names)
        /\ \A k \in 1 .. Len(s) + Len(names) :
                (s \o names)[k] = IF k <= Len(s) THEN s[k] ELSE names[k - Len(s)]
    BY <2>2, ConcatProperties, Zenon
  <2> QED BY <2>1, <2>2, <2>3, Zenon
<1>13. /\ a \in Seq(Line) /\ Len(a) = l /\ l \in Nat
       /\ a[1] = c /\ \A j \in 1 .. n : a[j + 1] = names[j]
  <2>1. 1 \in 1 .. 1 + n /\ l \in Nat /\ \A j \in 1 .. n : j + 1 \in 1 .. 1 + n /\ ~(j + 1 <= 1)
                                              /\ (j + 1) - 1 = j
    BY <1>2, <1>11
  <2> QED BY <1>5, <1>11, <1>12, <2>1
<1>14. /\ a \o u \in Seq(Line) /\ Len(a \o u) = Len(a) + Len(u)
       /\ \A k \in 1 .. Len(a) + Len(u) : (a \o u)[k] = IF k <= Len(a) THEN a[k] ELSE u[k - Len(a)]
  <2>1. a \in Seq(Line) /\ u \in Seq(Line)
    BY <1>10, <1>13
  <2> QED BY <2>1, ConcatProperties, Zenon
<1>15. Saved(dir) = a \o u
  BY <1>1, <1>2, <1>3, <1>11 DEF Saved
<1>16. PICK s, o : s = Saved(dir) /\ o = Off(dir, n)
  OBVIOUS
<1>17. /\ s \in Seq(Line) /\ Len(s) = l + o /\ o \in Nat
       /\ \A k \in 1 .. l + o : s[k] = IF k <= l THEN a[k] ELSE u[k - l]
  BY <1>8, <1>10, <1>13, <1>14, <1>15, <1>16
<1>18. Len(s) = n + 1 + o /\ n + 1 = l
  BY <1>2, <1>11, <1>17
<1>19. s[1] = c
  <2>1. 1 \in 1 .. l + o /\ 1 <= l
    BY <1>2, <1>11, <1>17
  <2> QED BY <1>13, <1>17, <2>1
<1>20. \A j \in 1 .. n : s[j + 1] = Name(dir[j].handle)
  <2> TAKE j \in 1 .. n
  <2>1. j + 1 \in 1 .. l + o /\ j + 1 <= l
    BY <1>2, <1>11, <1>17
  <2> QED BY <1>7, <1>13, <1>17, <2>1
<1>21. \A m \in 1 .. o : s[n + 1 + m] = u[m]
  <2> TAKE m \in 1 .. o
  <2>1. PICK k : k = n + 1 + m
    OBVIOUS
  <2>2. k \in 1 .. l + o /\ ~(k <= l) /\ k - l = m
    BY <1>2, <1>11, <1>17, <2>1
  <2> QED BY <1>17, <2>1, <2>2
<1> QED BY <1>1, <1>2, <1>3, <1>16, <1>17, <1>18, <1>19, <1>20, <1>21

-----------------------------------------------------------------------------
(* What was saved is read back.                                            *)

LEMMA NoBlank ==
    ASSUME NEW words \in Seq(Word), NEW file0, words = AllWords(file0),
           \A k \in 1 .. Len(words) : words[k] # <<Empty>>
    PROVE  Tokens(file0) = words
<1>1. PICK n : n = Len(words)
  OBVIOUS
<1>2. n \in Nat /\ words \in [1 .. n -> Word]
  BY <1>1, LenProperties
<1>3. PICK f : /\ f[0] = <<>>
               /\ \A k \in 1 .. n : f[k] = SkipBlank(f[k - 1], words[k])
               /\ Tokens(file0) = f[n]
  <2>1. PICK W : W = Word
    OBVIOUS
  <2>2. words \in Seq(W)
    BY <2>1
  <2> QED BY <1>1, <1>2, <2>2, TokensUnroll
<1>4. \A k \in 1 .. n : f[k] = Append(f[k - 1], words[k])
  BY <1>1, <1>3 DEF SkipBlank
<1> DEFINE Q(k) == [j \in 1 .. k |-> words[j]]
<1>5. \A k \in 0 .. n - 1 : Append(Q(k), words[k + 1]) = Q(k + 1)
  <2> TAKE k \in 0 .. n - 1
  <2>1. k \in Nat /\ \A j \in 1 .. k + 1 : words[j] \in Word
    BY <1>2
  <2>2. PICK W : W = Word
    OBVIOUS
  <2>3. \A j \in 1 .. k + 1 : words[j] \in W
    BY <2>1, <2>2
  <2> QED BY <2>1, <2>3, FirstOf
<1>6. Q(0) = <<>>
  <2>1. PICK p : p = [j \in 1 .. 0 |-> words[j]]
    OBVIOUS
  <2>2. p \in Seq(Word) /\ Len(p) = 0
    <3>1. PICK W : W = Word
      OBVIOUS
    <3>2. p \in Seq(W) /\ Len(p) = 0
      BY <2>1, IsASeq
    <3> QED BY <3>1, <3>2
  <2> QED BY <2>1, <2>2, EmptySeq
<1>7. Q(n) = words
  BY <1>2
<1> HIDE DEF Q
<1>8. PICK P : P = {k \in Nat : f[k] = Q(k)}
  OBVIOUS
<1>9. n > 0 => 1 \in P
  <2> HAVE n > 0
  <2>1. 1 \in 1 .. n /\ 1 - 1 = 0 /\ 0 \in 0 .. n - 1 /\ 0 + 1 = 1
    BY <1>2
  <2>2. f[1] = Append(f[0], words[1])
    BY <1>4, <2>1
  <2>3. Append(Q(0), words[1]) = Q(1)
    BY <1>5, <2>1
  <2> QED BY <1>3, <1>6, <1>8, <2>2, <2>3
<1>10. \A k \in 1 .. n - 1 : k \in P => k + 1 \in P
  <2> TAKE k \in 1 .. n - 1
  <2> HAVE k \in P
  <2>1. PICK m : m = k + 1
    OBVIOUS
  <2>2. m \in 1 .. n /\ m - 1 = k /\ k \in 0 .. n - 1 /\ m \in Nat
    BY <1>2, <2>1
  <2>3. f[m] = Append(f[k], words[m])
    BY <1>4, <2>2
  <2>4. Append(Q(k), words[m]) = Q(m)
    BY <1>5, <2>1, <2>2
  <2> QED BY <1>8, <2>1, <2>2, <2>3, <2>4
<1>11. 1 .. n \subseteq P
  <2>1. P \in SUBSET Nat
    BY <1>8
  <2> QED BY <1>2, <1>9, <1>10, <2>1, UpTo
<1>12. f[n] = Q(n)
  <2>1. n = 0 \/ n \in 1 .. n
    BY <1>2
  <2> QED BY <1>3, <1>6, <1>8, <1>11, <2>1
<1> QED BY <1>3, <1>7, <1>12

\* A name that is one word is read back as it is, and so is a follower's line.
Piece(name) == name[1][1]
NameWord(name) == <<Piece(name)>>
EdgeWord(edge) == <<Piece(edge.user), Piece(edge.follower)>>
PlainEdge == [kind : {"edge"}, user : PlainNames, follower : PlainNames]

LEMMA PlainWord ==
    ASSUME NEW name \in PlainNames
    PROVE  /\ Words(Name(name)) = <<NameWord(name)>>
           /\ NameWord(name) \in Word /\ NameWord(name) # <<Empty>>
           /\ <<NameWord(name)>> = name
           /\ Piece(name) \in Strings \ {Empty} /\ name = Lone(Piece(name))
<1>1. PICK p \in Strings \ {Empty} : name = Lone(p)
  BY DEF PlainNames
<1>2. name = <<<<p>>>>
  BY <1>1 DEF Lone
<1>3. Piece(name) = p
  BY <1>2 DEF Piece
<1>4. Words(Name(name)) = name
  BY DEF Words, Name
<1>5. <<p>> \in Word
  BY DEF Word
<1>6. <<p>> # <<Empty>>
  OBVIOUS
<1>7. NameWord(name) = <<p>>
  BY <1>3 DEF NameWord
<1> QED BY <1>1, <1>2, <1>3, <1>4, <1>5, <1>6, <1>7

LEMMA PlainEdgeWord ==
    ASSUME NEW edge \in PlainEdge
    PROVE  /\ Words(edge) = <<EdgeWord(edge)>>
           /\ EdgeWord(edge) \in Word /\ EdgeWord(edge) # <<Empty>>
           /\ \A dir : ReadEdge(dir, EdgeWord(edge)) = AddFollower(dir, edge)
<1>1. /\ edge.kind = "edge" /\ edge.user \in PlainNames /\ edge.follower \in PlainNames
      /\ edge = [kind |-> "edge", user |-> edge.user, follower |-> edge.follower]
  BY DEF PlainEdge
<1>2. PICK p, q : p = Piece(edge.user) /\ q = Piece(edge.follower)
  OBVIOUS
<1>3. /\ p \in Strings /\ p # Empty /\ q \in Strings /\ q # Empty
      /\ edge.user = Lone(p) /\ edge.follower = Lone(q)
  BY <1>1, <1>2, PlainWord
<1>4. EdgeWord(edge) = <<p, q>>
  BY <1>2 DEF EdgeWord
<1>5. PICK a, b, w : a = <<p>> /\ b = <<q>> /\ w = <<p, q>>
  OBVIOUS
<1>6. a \in Seq(Strings) /\ b \in Seq(Strings) /\ w \in Seq(Strings) /\ w # <<>> /\ Len(w) = 2
      /\ w[1] = p /\ w[2] = q
  BY <1>3, <1>5
<1>7. a \o b = w
  <2>1. Len(a) = 1 /\ Len(b) = 1 /\ a[1] = p /\ b[1] = q
    BY <1>5
  <2>2. /\ a \o b \in Seq(Strings) /\ Len(a \o b) = Len(a) + Len(b)
        /\ \A k \in 1 .. Len(a) + Len(b) :
                (a \o b)[k] = IF k <= Len(a) THEN a[k] ELSE b[k - Len(a)]
    BY <1>6, ConcatProperties, Zenon
  <2>3. PICK c : c = a \o b
    OBVIOUS
  <2>4. c \in Seq(Strings) /\ Len(c) = 2 /\ c[1] = p /\ c[2] = q
    BY <2>1, <2>2, <2>3
  <2>5. \A k \in 1 .. 2 : c[k] = w[k]
    <3>1. \A k \in 1 .. 2 : k = 1 \/ k = 2
      OBVIOUS
    <3> QED BY <1>6, <2>4, <3>1
  <2> QED BY <1>6, <2>3, <2>4, <2>5, SeqEqual
<1>8. w \in Word /\ w # <<Empty>>
  <2>1. Len(<<Empty>>) = 1
    OBVIOUS
  <2> QED BY <1>6, <2>1 DEF Word
<1>9. PICK u, v : u = <<a>> /\ v = <<b>>
  OBVIOUS
<1>10. edge.user = u /\ edge.follower = v
  BY <1>3, <1>5, <1>9 DEF Lone
<1>11. Front(u) = <<>> /\ Last(u) = a /\ Head(v) = b /\ Tail(v) = <<>>
  <2>1. Len(u) = 1 /\ u[1] = a /\ u \in Seq({a}) /\ v \in Seq({b}) /\ Len(v) = 1 /\ v[1] = b
    BY <1>9
  <2>2. u # <<>> /\ v # <<>>
    BY <2>1, EmptySeq
  <2>3. Front(u) \in Seq({a}) /\ Len(Front(u)) = 1 - 1
    BY <2>1, <2>2, FrontType
  <2>4. Len(Front(u)) = 0
    BY <2>3
  <2>5. Front(u) = <<>>
    BY <2>3, <2>4, EmptySeq
  <2>6. Last(u) = a
    BY <2>1 DEF Last
  <2>7. Head(v) = b /\ Tail(v) \in Seq({b}) /\ Len(Tail(v)) = 1 - 1
    BY <2>1, <2>2, HeadTailProperties
  <2>8. Len(Tail(v)) = 0
    BY <2>7
  <2>9. Tail(v) = <<>>
    BY <2>7, <2>8, EmptySeq
  <2> QED BY <2>5, <2>6, <2>7, <2>9
<1>12. Words(edge) = <<w>>
  <2>1. Words(edge) = (<<>> \o <<w>>) \o <<>>
    BY <1>1, <1>7, <1>10, <1>11 DEF Words
  <2>2. PICK ww : ww = <<w>>
    OBVIOUS
  <2>3. ww \in Seq({w})
    BY <2>2
  <2>4. (<<>> \o ww) \o <<>> = ww
    BY <2>3, ConcatEmptySeq
  <2> QED BY <2>1, <2>2, <2>4
<1>13. Split(w) = w
  <2>1. Last(w) = q
    BY <1>6 DEF Last
  <2> QED BY <1>3, <2>1 DEF Split
<1>14. ASSUME NEW dir
       PROVE  ReadEdge(dir, w) = AddFollower(dir, edge)
  <2>1. Edge(Lone(w[1]), Lone(w[2])) = edge
    BY <1>1, <1>3, <1>6 DEF Edge
  <2>2. ~(Len(w) < 2)
    BY <1>6
  <2>3. ReadEdge(dir, w) = IF Len(w) < 2 THEN dir
                           ELSE AddFollower(dir, Edge(Lone(w[1]), Lone(w[2])))
    BY <1>13, Zenon DEF ReadEdge
  <2> QED BY <2>1, <2>2, <2>3, Zenon
<1> QED BY <1>4, <1>5, <1>8, <1>12, <1>14

\* The followers that are saved of a directory with plain names.
LEMMA PlainEdges ==
    ASSUME NEW dir \in Seq(Profile), ListsOK(dir), OneEach(dir)
    PROVE  EdgesUpTo(dir, Len(dir)) \in Seq(PlainEdge)
<1>1. PICK n : n = Len(dir)
  OBVIOUS
<1>2. n \in Nat /\ DOMAIN dir = 1 .. n /\ \A j \in 1 .. n : dir[j].handle \in PlainNames
  BY <1>1, LenProperties DEF OneEach
<1>3. PICK E : E = [j \in 1 .. n |-> EdgesOf(dir, j)]
  OBVIOUS
<1>4. ASSUME NEW j \in 1 .. n
      PROVE  E[j] \in Seq(PlainEdge)
  <2>1. PICK fol, l : fol = dir[j].followers /\ l = Len(fol)
    OBVIOUS
  <2>2. /\ E[j] \in Seq(EdgeLine) /\ Len(E[j]) = l /\ l \in Nat
        /\ \A k \in 1 .. l : /\ E[j][k] = Edge(dir[j].handle, dir[fol[k]].handle)
                            /\ fol[k] \in Range(fol)
    BY <1>1, <1>3, <2>1, EdgesType
  <2>3. \A k \in 1 .. l : E[j][k] \in PlainEdge
    <3> TAKE k \in 1 .. l
    <3>1. fol[k] \in DOMAIN dir
      BY <1>2, <2>1, <2>2 DEF ListsOK
    <3>2. PICK x, y : x = dir[j].handle /\ y = dir[fol[k]].handle
      OBVIOUS
    <3>3. x \in PlainNames /\ y \in PlainNames /\ E[j][k] = Edge(x, y)
      BY <1>2, <2>2, <3>1, <3>2
    <3>4. Edge(x, y) \in PlainEdge
      BY <3>3 DEF Edge, PlainEdge
    <3> QED BY <3>3, <3>4
  <2>4. E[j] \in [1 .. l -> EdgeLine]
    BY <2>2, LenProperties
  <2>5. E[j] = [k \in 1 .. l |-> E[j][k]]
    BY <2>4
  <2> HIDE DEF PlainEdge
  <2> QED BY <2>2, <2>3, <2>5, IsASeq
<1>5. EdgesUpTo(dir, n) = FlattenSeq([j \in 1 .. n |-> E[j]])
  <2>1. [j \in 1 .. n |-> EdgesOf(dir, j)] = [j \in 1 .. n |-> E[j]]
    BY <1>3
  <2> QED BY <2>1 DEF EdgesUpTo
<1>6. PICK S : S = PlainEdge
  OBVIOUS
<1>7. FlattenSeq([j \in 1 .. n |-> E[j]]) \in Seq(S)
  <2>1. \A j \in 1 .. n : E[j] \in Seq(S)
    BY <1>4, <1>6
  <2> QED BY <1>2, <2>1, FlattenType
<1> QED BY <1>1, <1>5, <1>6, <1>7

\* The directory when the reload has read k followers of profile i.
Partial(dir, i, k) ==
    [j \in DOMAIN dir |->
        IF j < i THEN dir[j]
        ELSE IF j = i THEN [handle    |-> dir[j].handle,
                            followers |-> [m \in 1 .. k |-> dir[j].followers[m]]]
        ELSE NewProfile(dir[j].handle)]

LEMMA LookupOne ==
    ASSUME NEW dir \in Seq(Profile), OneEach(dir), NEW p \in Seq(Profile),
           Len(p) = Len(dir), \A j \in 1 .. Len(dir) : p[j].handle = dir[j].handle,
           NEW i \in 1 .. Len(dir)
    PROVE  GetProfileByName(p, dir[i].handle) = i
<1>1. PICK g, h : g = GetProfileByName(p, h) /\ h = dir[i].handle
  OBVIOUS
<1>2. \/ g = 0 /\ \A k \in 1 .. Len(p) : p[k].handle # h
      \/ /\ g \in 1 .. Len(p) /\ p[g].handle = h
         /\ \A k \in 1 .. Len(p) : p[k].handle = h => g <= k
  BY <1>1, Lookup
<1>3. g \in 1 .. Len(dir) /\ dir[g].handle = dir[i].handle
  BY <1>1, <1>2
<1>4. DOMAIN dir = 1 .. Len(dir)
  BY LenProperties
<1> QED BY <1>1, <1>3, <1>4 DEF OneEach

\* The next line adds the next follower.
LEMMA AddNext ==
    ASSUME NEW dir \in Seq(Profile), ListsOK(dir), ListsOnce(dir), OneEach(dir),
           NEW i \in 1 .. Len(dir), NEW k \in Nat, k < Len(dir[i].followers)
    PROVE  AddFollower(Partial(dir, i, k),
                       Edge(dir[i].handle, dir[dir[i].followers[k + 1]].handle))
            = Partial(dir, i, k + 1)
<1>1. PICK n, fol, l, f, p, q : /\ n = Len(dir) /\ fol = dir[i].followers /\ l = Len(fol)
                                /\ f = fol[k + 1]
                                /\ p = Partial(dir, i, k) /\ q = Partial(dir, i, k + 1)
  OBVIOUS
<1>2. /\ n \in Nat /\ DOMAIN dir = 1 .. n /\ i \in 1 .. n
      /\ \A j \in 1 .. n : dir[j] \in Profile
  BY <1>1, LenProperties, ElementOfSeq
<1>3. PICK Pos : Pos = Nat \ {0}
  OBVIOUS
<1>4. fol \in Seq(Pos) /\ l \in Nat /\ DOMAIN fol = 1 .. l
  <2>1. fol \in Seq(Pos)
    BY <1>1, <1>2, <1>3 DEF Profile
  <2> QED BY <1>1, <2>1, LenProperties
<1>5. k + 1 \in 1 .. l /\ \A j \in 1 .. k + 1 : j \in 1 .. l
  BY <1>1, <1>4
<1>6. \A j \in 1 .. l : fol[j] \in Pos
  BY <1>1, <1>4, ElementOfSeq
<1>7. PICK a, b : a = [m \in 1 .. k |-> fol[m]] /\ b = [m \in 1 .. k + 1 |-> fol[m]]
  OBVIOUS
<1>8. a \in Seq(Pos) /\ Len(a) = k /\ b = Append(a, f)
  <2>1. \A j \in 1 .. k + 1 : fol[j] \in Pos
    BY <1>5, <1>6
  <2>2. /\ [j \in 1 .. k |-> fol[j]] \in Seq(Pos) /\ Len([j \in 1 .. k |-> fol[j]]) = k
        /\ Append([j \in 1 .. k |-> fol[j]], fol[k + 1]) = [j \in 1 .. k + 1 |-> fol[j]]
    BY <2>1, FirstOf
  <2> QED BY <1>1, <1>7, <2>2
<1>9. p = [j \in 1 .. n |-> IF j < i THEN dir[j]
                            ELSE IF j = i THEN [handle |-> dir[j].handle, followers |-> a]
                            ELSE NewProfile(dir[j].handle)]
  BY <1>1, <1>2, <1>7 DEF Partial
<1>10. q = [j \in 1 .. n |-> IF j < i THEN dir[j]
                             ELSE IF j = i THEN [handle |-> dir[j].handle, followers |-> b]
                             ELSE NewProfile(dir[j].handle)]
  BY <1>1, <1>2, <1>7 DEF Partial
<1>11. \A j \in 1 .. n : p[j] \in Profile /\ p[j].handle = dir[j].handle
  <2> TAKE j \in 1 .. n
  <2>1. dir[j] \in Profile /\ dir[j].handle \in Texts
    BY <1>2 DEF Profile
  <2>2. <<>> \in Seq(Nat \ {0}) /\ a \in Seq(Nat \ {0})
    BY <1>3, <1>8, EmptySeq
  <2>3. CASE j < i
    BY <1>9, <2>1, <2>3
  <2>4. CASE j = i
    <3>1. p[j] = [handle |-> dir[j].handle, followers |-> a]
      BY <1>2, <1>9, <2>4
    <3> QED BY <2>1, <2>2, <3>1 DEF Profile
  <2>5. CASE ~(j < i) /\ j # i
    <3>1. p[j] = NewProfile(dir[j].handle)
      BY <1>9, <2>5
    <3> QED BY <2>1, <2>2, <3>1 DEF NewProfile, Profile
  <2> QED BY <2>3, <2>4, <2>5
<1>12. p \in Seq(Profile) /\ Len(p) = n /\ DOMAIN p = 1 .. n
  <2>1. p \in [1 .. n -> Profile]
    BY <1>9, <1>11
  <2> QED BY <1>2, <2>1
<1>13. f \in Range(fol) /\ f \in 1 .. n
  <2>1. f \in Range(fol)
    BY <1>1, <1>4, <1>5 DEF Range
  <2> QED BY <1>1, <1>2, <2>1 DEF ListsOK
<1>14. GetProfileByName(p, dir[i].handle) = i /\ GetProfileByName(p, dir[f].handle) = f
  BY <1>1, <1>2, <1>11, <1>12, <1>13, LookupOne
<1>15. p[i] = [handle |-> dir[i].handle, followers |-> a] /\ p[i].followers = a
  BY <1>2, <1>9
<1>16. ~Contains(a, f)
  <2>1. ASSUME NEW m \in 1 .. k, a[m] = f
        PROVE  FALSE
    <3>1. fol[m] = fol[k + 1] /\ m \in 1 .. l /\ m # k + 1
      BY <1>1, <1>5, <1>7, <2>1
    <3>2. IsInjective(fol)
      BY <1>1, <1>2 DEF ListsOnce
    <3> QED BY <1>4, <1>5, <3>1, <3>2 DEF IsInjective
  <2> QED BY <1>8, <2>1 DEF Contains
<1>17. PICK edge : edge = Edge(dir[i].handle, dir[f].handle)
  OBVIOUS
<1>18. edge.user = dir[i].handle /\ edge.follower = dir[f].handle
  BY <1>17 DEF Edge
<1>19. AddFollower(p, edge) = [p EXCEPT ![i].followers = Append(@, f)]
  <2>1. f # 0
    BY <1>2, <1>13
  <2> QED BY <1>14, <1>15, <1>16, <1>18, <2>1 DEF AddFollower, IsNew, Push
<1>20. [p EXCEPT ![i].followers = Append(@, f)] = q
  <2>1. [p EXCEPT ![i].followers = Append(@, f)]
            = [j \in 1 .. n |-> IF j = i THEN [p[i] EXCEPT !.followers = b] ELSE p[j]]
    BY <1>2, <1>8, <1>12, <1>15
  <2>2. [p[i] EXCEPT !.followers = b] = [handle |-> dir[i].handle, followers |-> b]
    BY <1>15
  <2>3. \A j \in 1 .. n : (IF j = i THEN [p[i] EXCEPT !.followers = b] ELSE p[j]) = q[j]
    BY <1>2, <1>9, <1>10, <2>2
  <2> QED BY <1>10, <2>1, <2>3
<1> QED BY <1>1, <1>17, <1>19, <1>20

\* After the last follower of a profile, and before the first of the next.
LEMMA PartialWhole ==
    ASSUME NEW dir \in Seq(Profile), NEW i \in 1 .. Len(dir)
    PROVE  /\ Partial(dir, i, Len(dir[i].followers)) = Partial(dir, i + 1, 0)
           /\ i = Len(dir) => Partial(dir, i, Len(dir[i].followers)) = dir
           /\ Partial(dir, 1, 0) = [j \in 1 .. Len(dir) |-> NewProfile(dir[j].handle)]
<1>1. PICK n, fol, l : n = Len(dir) /\ fol = dir[i].followers /\ l = Len(fol)
  OBVIOUS
<1>2. /\ n \in Nat /\ DOMAIN dir = 1 .. n /\ dir \in [1 .. n -> Profile]
  BY <1>1, LenProperties
<1>3. PICK Pos : Pos = Nat \ {0}
  OBVIOUS
<1>4. fol \in Seq(Pos)
  BY <1>1, <1>2, <1>3 DEF Profile
<1>5. [m \in 1 .. l |-> fol[m]] = fol
  <2>1. fol \in [1 .. l -> Pos]
    BY <1>1, <1>4, LenProperties
  <2> QED BY <2>1
<1>6. [handle |-> dir[i].handle, followers |-> fol] = dir[i]
  BY <1>1, <1>2 DEF Profile
<1>7. Partial(dir, i, l) = [j \in 1 .. n |-> IF j < i \/ j = i THEN dir[j]
                                             ELSE NewProfile(dir[j].handle)]
  <2>1. PICK p : p = Partial(dir, i, l)
    OBVIOUS
  <2>2. p = [j \in 1 .. n |->
                IF j < i THEN dir[j]
                ELSE IF j = i THEN [handle    |-> dir[j].handle,
                                    followers |-> [m \in 1 .. l |-> dir[j].followers[m]]]
                ELSE NewProfile(dir[j].handle)]
    BY <1>2, <2>1 DEF Partial
  <2>3. \A j \in 1 .. n : p[j] = IF j < i \/ j = i THEN dir[j] ELSE NewProfile(dir[j].handle)
    <3> TAKE j \in 1 .. n
    <3>1. CASE j = i
      <4>1. p[j] = [handle |-> dir[i].handle, followers |-> [m \in 1 .. l |-> fol[m]]]
        BY <1>1, <1>2, <2>2, <3>1
      <4> QED BY <1>5, <1>6, <3>1, <4>1
    <3>2. CASE j # i
      BY <2>2, <3>2
    <3> QED BY <3>1, <3>2
  <2> QED BY <2>1, <2>2, <2>3
<1>8. ASSUME NEW h \in Nat
      PROVE  Partial(dir, h, 0) = [j \in 1 .. n |-> IF j < h THEN dir[j]
                                                    ELSE NewProfile(dir[j].handle)]
  <2>1. \A s : [m \in 1 .. 0 |-> s[m]] = <<>>
    <3> TAKE s
    <3>1. \A j \in 1 .. 0 + 1 : s[j] \in {s[1]}
      OBVIOUS
    <3>2. 0 \in Nat
      OBVIOUS
    <3> QED BY <3>1, <3>2, FirstOf
  <2>2. \A j \in 1 .. n : [handle |-> dir[j].handle,
                           followers |-> [m \in 1 .. 0 |-> dir[j].followers[m]]]
                           = NewProfile(dir[j].handle)
    BY <2>1 DEF NewProfile
  <2> QED BY <1>2, <2>2 DEF Partial
<1>9. Partial(dir, i, l) = Partial(dir, i + 1, 0)
  <2>1. i \in Nat /\ i + 1 \in Nat /\ \A j \in 1 .. n : (j < i \/ j = i) <=> j < i + 1
    BY <1>1, <1>2
  <2>2. Partial(dir, i + 1, 0) = [j \in 1 .. n |-> IF j < i + 1 THEN dir[j]
                                                   ELSE NewProfile(dir[j].handle)]
    BY <1>8, <2>1
  <2> QED BY <1>7, <2>1, <2>2
<1>10. i = n => Partial(dir, i, l) = dir
  <2> HAVE i = n
  <2>1. \A j \in 1 .. n : j < i \/ j = i
    BY <1>2
  <2>2. Partial(dir, i, l) = [j \in 1 .. n |-> dir[j]]
    BY <1>7, <2>1
  <2> QED BY <1>2, <2>2
<1>11. Partial(dir, 1, 0) = [j \in 1 .. n |-> NewProfile(dir[j].handle)]
  <2>1. 1 \in Nat /\ \A j \in 1 .. n : ~(j < 1)
    BY <1>2
  <2> QED BY <1>8, <2>1
<1> QED BY <1>1, <1>9, <1>10, <1>11

\* The lines of the followers, added one by one to the names, make the directory.
LEMMA Rebuilt ==
    ASSUME NEW dir \in Seq(Profile), ListsOK(dir), ListsOnce(dir), OneEach(dir),
           NEW w \in Seq(Word), Len(w) = Off(dir, Len(dir)),
           \A m \in 1 .. Len(w) : w[m] = EdgeWord(EdgesUpTo(dir, Len(dir))[m])
    PROVE  ReadAll([j \in 1 .. Len(dir) |-> NewProfile(dir[j].handle)], w) = dir
<1>1. PICK n, names, u, o : /\ n = Len(dir) /\ u = EdgesUpTo(dir, n) /\ o = Off(dir, n)
                            /\ names = [j \in 1 .. n |-> NewProfile(dir[j].handle)]
  OBVIOUS
<1>2. n \in Nat
  BY <1>1, LenProperties
<1>3. u \in Seq(EdgeLine) /\ Len(u) = o /\ o \in Nat
  <2>1. CASE n = 0
    <3>1. u = <<>> /\ o = 0
      BY <1>1, <2>1, EdgesGrow
    <3> QED BY <3>1, EmptySeq
  <2>2. CASE n # 0
    <3>1. n \in 1 .. n
      BY <1>2, <2>2
    <3> QED BY <1>1, <3>1, EdgesGrow DEF EdgesGrown, Off
  <2> QED BY <2>1, <2>2
<1>4. \E f : Unrolls(f, names, w, o)
  <2>1. PICK W : W = Word
    OBVIOUS
  <2>2. w \in Seq(W) /\ Len(w) = o
    BY <1>1, <2>1
  <2> QED BY <1>3, <2>2, FollowersUnroll, Zenon
<1>5. PICK f : Unrolls(f, names, w, o)
  BY <1>4
<1>6. /\ f[0] = names /\ ReadAll(names, w) = f[o]
      /\ \A m \in 1 .. o : f[m] = AddFollower(f[m - 1], u[m])
  <2>1. /\ f[0] = names /\ ReadAll(names, w) = f[o]
        /\ \A m \in 1 .. o : f[m] = ReadEdge(f[m - 1], w[m])
    BY <1>5 DEF Unrolls
  <2>2. u \in Seq(PlainEdge)
    BY <1>1, PlainEdges
  <2>3. \A m \in 1 .. o : u[m] \in PlainEdge /\ w[m] = EdgeWord(u[m])
    BY <1>1, <1>3, <2>2, ElementOfSeq
  <2>4. \A m \in 1 .. o : ReadEdge(f[m - 1], w[m]) = AddFollower(f[m - 1], u[m])
    BY <2>3, PlainEdgeWord
  <2> QED BY <2>1, <2>4
\* The lines of one profile.
<1>7. ASSUME NEW i \in 1 .. n, f[Off(dir, i - 1)] = Partial(dir, i, 0)
      PROVE  f[Off(dir, i)] = Partial(dir, i, Len(dir[i].followers))
  <2>1. PICK a, l : a = Off(dir, i - 1) /\ l = Len(dir[i].followers)
    OBVIOUS
  <2>2. a \in Nat /\ Off(dir, i) = a + l
    BY <1>1, <2>1, EdgesGrow DEF EdgesGrown
  <2>3. l \in Nat
    BY <1>1, <2>1, EdgesType
  <2>4. \A k \in 1 .. l : /\ a + k \in 1 .. o
                          /\ u[a + k] = Edge(dir[i].handle, dir[dir[i].followers[k]].handle)
    BY <1>1, <2>1, EdgeAt
  <2>5. \A k \in Nat : k < l /\ f[a + k] = Partial(dir, i, k)
                        => f[a + (k + 1)] = Partial(dir, i, k + 1)
    <3> TAKE k \in Nat
    <3> HAVE k < l /\ f[a + k] = Partial(dir, i, k)
    <3>1. PICK m : m = a + (k + 1)
      OBVIOUS
    <3>2. k + 1 \in 1 .. l /\ m - 1 = a + k
      BY <2>2, <2>3, <3>1
    <3>3. m \in 1 .. o /\ u[m] = Edge(dir[i].handle, dir[dir[i].followers[k + 1]].handle)
      BY <2>4, <3>1, <3>2
    <3>4. f[m] = AddFollower(f[a + k], u[m])
      BY <1>6, <3>2, <3>3
    <3>5. AddFollower(Partial(dir, i, k),
                      Edge(dir[i].handle, dir[dir[i].followers[k + 1]].handle))
            = Partial(dir, i, k + 1)
      <4>1. k < Len(dir[i].followers) /\ i \in 1 .. Len(dir)
        BY <1>1, <2>1
      <4> QED BY <4>1, AddNext
    <3> QED BY <3>1, <3>3, <3>4, <3>5
  <2>6. PICK P : P = {k \in Nat : f[a + k] = Partial(dir, i, k)}
    OBVIOUS
  <2>7. 0 \in P
    <3>1. a + 0 = a
      BY <2>2
    <3> QED BY <1>7, <2>1, <2>6, <3>1
  <2>8. l > 0 => 1 \in P
    <3> HAVE l > 0
    <3>1. 0 \in Nat /\ 0 < l /\ f[a + 0] = Partial(dir, i, 0) /\ 0 + 1 = 1
      BY <2>6, <2>7
    <3>2. f[a + (0 + 1)] = Partial(dir, i, 0 + 1)
      BY <2>5, <3>1
    <3> QED BY <2>6, <3>1, <3>2
  <2>9. \A k \in 1 .. l - 1 : k \in P => k + 1 \in P
    <3> TAKE k \in 1 .. l - 1
    <3> HAVE k \in P
    <3>1. k \in Nat /\ k < l /\ k + 1 \in Nat
      BY <2>3
    <3>2. f[a + k] = Partial(dir, i, k)
      BY <2>6
    <3> QED BY <2>5, <2>6, <3>1, <3>2
  <2>10. 1 .. l \subseteq P
    <3>1. P \in SUBSET Nat
      BY <2>6
    <3> QED BY <2>3, <2>8, <2>9, <3>1, UpTo
  <2>11. l \in P
    <3>1. l = 0 \/ l \in 1 .. l
      BY <2>3
    <3> QED BY <2>7, <2>10, <3>1
  <2> QED BY <2>1, <2>2, <2>6, <2>11
\* One profile after the other.
<1>8. PICK P : P = {i \in Nat : f[Off(dir, i - 1)] = Partial(dir, i, 0)}
  OBVIOUS
<1>9. n > 0 => 1 \in P
  <2> HAVE n > 0
  <2>1. 1 - 1 = 0 /\ 1 \in 1 .. n
    BY <1>2
  <2>2. Off(dir, 0) = 0 /\ Partial(dir, 1, 0) = names
    BY <1>1, <2>1, EdgesGrow, PartialWhole
  <2> QED BY <1>6, <1>8, <2>1, <2>2
<1>10. \A i \in 1 .. n - 1 : i \in P => i + 1 \in P
  <2> TAKE i \in 1 .. n - 1
  <2> HAVE i \in P
  <2>1. PICK j : j = i + 1
    OBVIOUS
  <2>2. i \in 1 .. n /\ j \in Nat /\ j - 1 = i
    BY <1>2, <2>1
  <2>3. f[Off(dir, i)] = Partial(dir, i, Len(dir[i].followers))
    BY <1>7, <1>8, <2>2
  <2>4. Partial(dir, i, Len(dir[i].followers)) = Partial(dir, j, 0)
    BY <1>1, <2>1, <2>2, PartialWhole
  <2> QED BY <1>8, <2>1, <2>2, <2>3, <2>4
<1>11. 1 .. n \subseteq P
  <2>1. P \in SUBSET Nat
    BY <1>8
  <2> QED BY <1>2, <1>9, <1>10, <2>1, UpTo
<1>12. f[o] = dir
  <2>1. CASE n = 0
    <3>1. o = 0 /\ f[0] = names
      BY <1>1, <1>6, <2>1, EdgesGrow
    <3>2. dir = <<>>
      BY <1>1, <2>1, EmptySeq
    <3>3. names = <<>>
      <4>1. names = [j \in 1 .. 0 |-> NewProfile(dir[j].handle)]
        BY <1>1, <2>1
      <4>2. names \in [1 .. 0 -> {0}]
        BY <4>1
      <4>3. names \in Seq({0}) /\ Len(names) = 0
        BY <4>2
      <4> QED BY <4>3, EmptySeq
    <3> QED BY <3>1, <3>2, <3>3
  <2>2. CASE n # 0
    <3>1. n \in 1 .. n
      BY <1>2, <2>2
    <3>2. f[Off(dir, n)] = Partial(dir, n, Len(dir[n].followers))
      BY <1>7, <1>8, <1>11, <3>1
    <3>3. Partial(dir, n, Len(dir[n].followers)) = dir
      BY <1>1, <3>1, PartialWhole
    <3> QED BY <1>1, <3>2, <3>3
  <2> QED BY <2>1, <2>2
<1> QED BY <1>1, <1>6, <1>12

\* ReadProfilesFromFile reads what Sync wrote.
LEMMA RoundTrip ==
    ASSUME NEW dir \in Seq(Profile), ListsOK(dir), ListsOnce(dir), OneEach(dir)
    PROVE  /\ ReadProfiles(Saved(dir)) = dir
           /\ Saved(dir) \in Seq(Line) /\ Saved(dir) # <<>>
<1>1. PICK n, lines, o, u : /\ n = Len(dir) /\ lines = Saved(dir) /\ o = Off(dir, n)
                            /\ u = EdgesUpTo(dir, n)
  OBVIOUS
<1>2. /\ n \in Nat /\ o \in Nat /\ lines \in Seq(Line) /\ Len(lines) = n + 1 + o
      /\ lines[1] = Count(n)
      /\ \A j \in 1 .. n : lines[j + 1] = Name(dir[j].handle)
      /\ \A m \in 1 .. o : lines[n + 1 + m] = u[m]
  BY <1>1, SavedShape
<1>3. \A j \in 1 .. n : dir[j].handle \in PlainNames
  <2>1. DOMAIN dir = 1 .. n
    BY <1>1, LenProperties
  <2> QED BY <2>1 DEF OneEach
<1>4. \A m \in 1 .. o : u[m] \in PlainEdge
  <2>1. u \in Seq(PlainEdge) /\ Len(u) = o
    BY <1>1, PlainEdges DEF Off
  <2> QED BY <2>1, ElementOfSeq
\* One word for each line behind the count.
<1>5. PICK l, E, w : /\ l = n + o
                     /\ E = [k \in 1 .. l |-> Words(lines[k + 1])]
                     /\ w = [k \in 1 .. l |-> IF k <= n THEN NameWord(dir[k].handle)
                                              ELSE EdgeWord(u[k - n])]
  OBVIOUS
<1>6. ASSUME NEW k \in 1 .. l
      PROVE  E[k] = <<w[k]>> /\ w[k] \in Word /\ w[k] # <<Empty>>
  <2>0. E[k] = Words(lines[k + 1])
    BY <1>5
  <2>1. CASE k <= n
    <3>1. k \in 1 .. n
      BY <1>2, <1>5, <2>1
    <3>2. lines[k + 1] = Name(dir[k].handle) /\ dir[k].handle \in PlainNames
          /\ w[k] = NameWord(dir[k].handle)
      BY <1>2, <1>3, <1>5, <2>1, <3>1
    <3> QED BY <2>0, <3>2, PlainWord
  <2>2. CASE ~(k <= n)
    <3>1. PICK m : m = k - n
      OBVIOUS
    <3>2. m \in 1 .. o /\ k + 1 = n + 1 + m
      BY <1>2, <1>5, <2>2, <3>1
    <3>3. lines[k + 1] = u[m] /\ u[m] \in PlainEdge /\ w[k] = EdgeWord(u[m])
      BY <1>2, <1>4, <1>5, <2>2, <3>1, <3>2
    <3> QED BY <2>0, <3>3, PlainEdgeWord
  <2> QED BY <2>1, <2>2
<1>7. l \in Nat /\ Len(lines) - 1 = l
  BY <1>2, <1>5
<1>8. w \in Seq(Word) /\ Len(w) = l
  <2>1. PICK W : W = Word
    OBVIOUS
  <2>2. w = [k \in 1 .. l |-> w[k]]
    BY <1>5
  <2>3. \A k \in 1 .. l : w[k] \in W
    BY <1>6, <2>1
  <2>4. w \in Seq(W) /\ Len(w) = l
    BY <1>7, <2>2, <2>3, IsASeq
  <2> QED BY <2>1, <2>4
<1>9. AllWords(lines) = w
  <2>1. PICK W : W = Word
    OBVIOUS
  <2>2. Ones(E, w, l) /\ w \in Seq(W)
    BY <1>6, <1>8, <2>1 DEF Ones
  <2>3. FlattenSeq([k \in 1 .. l |-> E[k]]) = w
    <3>1. l \in Nat /\ Len(w) = l
      BY <1>7, <1>8
    <3> QED BY <2>2, <3>1, FlattenOnes
  <2>4. [k \in 1 .. l |-> E[k]] = [k \in 1 .. Len(lines) - 1 |-> Words(lines[k + 1])]
    BY <1>5, <1>7
  <2> QED BY <2>3, <2>4 DEF AllWords
<1>10. Tokens(lines) = w
  BY <1>6, <1>8, <1>9, NoBlank
<1>11. lines[1].n = n
  BY <1>2 DEF Count
<1>12. ReadNames(lines) = [i \in 1 .. n |-> NewProfile(dir[i].handle)]
  <2>1. ASSUME NEW i \in 1 .. n
        PROVE  (IF w = <<>> THEN NoName ELSE <<w[Min({i, l})]>>) = dir[i].handle
    <3>1. i \in Int /\ l \in Int /\ i <= l /\ l # 0 /\ i \in 1 .. l
      BY <1>2, <1>5, <1>7
    <3>2. Min({i, l}) = i
      BY <3>1, TwoOf
    <3>3. w # <<>>
      BY <1>8, <3>1, EmptySeq
    <3>4. w[i] = NameWord(dir[i].handle)
      BY <1>2, <1>5, <3>1
    <3>5. <<NameWord(dir[i].handle)>> = dir[i].handle
      BY <1>3, PlainWord
    <3> QED BY <3>2, <3>3, <3>4, <3>5
  <2>2. PICK a, b : /\ a = [i \in 1 .. n |->
                            NewProfile(IF w = <<>> THEN NoName ELSE <<w[Min({i, l})]>>)]
                    /\ b = [i \in 1 .. n |-> NewProfile(dir[i].handle)]
    OBVIOUS
  <2>3. \A i \in 1 .. n : a[i] = b[i]
    BY <2>1, <2>2
  <2>4. a = b
    BY <2>2, <2>3
  <2>5. ReadNames(lines) = a
    BY <1>8, <1>10, <1>11, <2>2 DEF ReadNames
  <2> QED BY <2>2, <2>4, <2>5
<1>13. PICK e : e = SubSeq(w, n + 1, l)
  OBVIOUS
<1>14. e \in Seq(Word) /\ Len(e) = o /\ \A m \in 1 .. o : e[m] = EdgeWord(u[m])
  <2>1. PICK b, W : b = n + 1 /\ W = Word
    OBVIOUS
  <2>2. b \in Int /\ l \in Int /\ \A k \in b .. l : k \in 1 .. l
    BY <1>2, <1>7, <2>1
  <2>3. \A k \in b .. l : w[k] \in W
    BY <1>6, <2>1, <2>2
  <2>4. /\ e \in Seq(W) /\ Len(e) = IF b <= l THEN l - b + 1 ELSE 0
        /\ \A i \in 1 .. l - b + 1 : e[i] = w[b + i - 1]
    BY <1>13, <2>1, <2>2, <2>3, SubSeqProperties
  <2>5. l - b + 1 = o /\ (~(b <= l) => o = 0)
    BY <1>2, <1>5, <2>1
  <2>6. Len(e) = o
    BY <2>4, <2>5
  <2>7. ASSUME NEW m \in 1 .. o
        PROVE  e[m] = EdgeWord(u[m])
    <3>1. PICK k : k = b + m - 1
      OBVIOUS
    <3>2. k \in 1 .. l /\ ~(k <= n) /\ k - n = m
      BY <1>2, <1>5, <2>1, <3>1
    <3>3. e[m] = w[k]
      BY <2>4, <2>5, <3>1
    <3> QED BY <1>5, <3>2, <3>3
  <2> QED BY <2>1, <2>4, <2>6, <2>7
<1>15. ReadEdges(lines) = e
  <2>1. Len(w) >= n
    BY <1>2, <1>5, <1>8
  <2> QED BY <1>8, <1>10, <1>11, <1>13, <2>1 DEF ReadEdges
<1>16. ReadAll([i \in 1 .. n |-> NewProfile(dir[i].handle)], e) = dir
  <2>1. Len(e) = Off(dir, Len(dir)) /\ e \in Seq(Word)
    BY <1>1, <1>14
  <2>2. \A m \in 1 .. Len(e) : e[m] = EdgeWord(EdgesUpTo(dir, Len(dir))[m])
    BY <1>1, <1>14
  <2> QED BY <1>1, <2>1, <2>2, Rebuilt
<1>17. ReadProfiles(lines) = dir
  BY <1>12, <1>15, <1>16 DEF ReadProfiles, ReadAll
<1>18. lines # <<>>
  <2>1. Len(lines) # 0
    BY <1>2
  <2> QED BY <2>1, EmptySeq
<1> QED BY <1>1, <1>2, <1>17, <1>18

-----------------------------------------------------------------------------
(* The directory between Syncs.                                            *)

LEMMA ContainsRange ==
    ASSUME NEW S, NEW s \in Seq(S), NEW e
    PROVE  Contains(s, e) <=> e \in Range(s)
<1>1. DOMAIN s = 1 .. Len(s)
  BY LenProperties
<1> QED BY <1>1 DEF Contains, Range

\* A directory that only grows holds what it held.
LEMMA HoldsGrow ==
    ASSUME NEW dir \in Seq(Profile), NEW new \in Seq(Profile), Extends(new, dir),
           \A i \in 1 .. Len(dir) : Range(dir[i].followers) \subseteq Range(new[i].followers),
           NEW lines, Holds(dir, lines)
    PROVE  Holds(new, lines)
<1> SUFFICES ASSUME NEW line \in lines
             PROVE  IF line.kind = "name" THEN GetProfileByName(new, line.handle) # 0
                    ELSE LET user == GetProfileByName(new, line.user) IN
                         /\ user # 0
                         /\ Contains(new[user].followers, GetProfileByName(new, line.follower))
  BY DEF Holds
<1>1. CASE line.kind = "name"
  <2>1. GetProfileByName(dir, line.handle) # 0
    BY <1>1 DEF Holds
  <2>2. GetProfileByName(new, line.handle) = GetProfileByName(dir, line.handle)
    BY <2>1, LookupStays
  <2> QED BY <1>1, <2>1, <2>2
<1>2. CASE line.kind # "name"
  <2>1. PICK i, g : i = GetProfileByName(dir, line.user) /\ g = GetProfileByName(dir, line.follower)
    OBVIOUS
  <2>2. i # 0 /\ Contains(dir[i].followers, g)
    BY <1>2, <2>1 DEF Holds
  <2>3. i \in 1 .. Len(dir)
    BY <2>1, <2>2, Lookup
  <2>4. PICK P : P = Nat \ {0}
    OBVIOUS
  <2>5. dir[i].followers \in Seq(P) /\ new[i].followers \in Seq(P)
    <3>1. i \in 1 .. Len(new)
      <4>1. Len(dir) <= Len(new)
        BY DEF Extends
      <4>2. Len(dir) \in Nat /\ Len(new) \in Nat
        BY LenProperties
      <4> QED BY <2>3, <4>1, <4>2
    <3>2. dir[i] \in Profile /\ new[i] \in Profile
      BY <2>3, <3>1, ElementOfSeq
    <3> QED BY <2>4, <3>2 DEF Profile
  <2>6. g \in Range(dir[i].followers)
    BY <2>2, <2>5, ContainsRange
  <2>7. g # 0
    <3>1. \A k \in 1 .. Len(dir[i].followers) : dir[i].followers[k] \in P
      BY <2>5, ElementOfSeq
    <3>2. DOMAIN dir[i].followers = 1 .. Len(dir[i].followers)
      BY <2>5, LenProperties
    <3>3. PICK k \in DOMAIN dir[i].followers : g = dir[i].followers[k]
      BY <2>6 DEF Range
    <3>4. g \in P
      BY <3>1, <3>2, <3>3
    <3> QED BY <2>4, <3>4
  <2>8. GetProfileByName(new, line.user) = i
    BY <2>1, <2>2, LookupStays
  <2>9. GetProfileByName(new, line.follower) = g
    BY <2>1, <2>7, LookupStays
  <2>10. Contains(new[i].followers, g)
    <3>1. g \in Range(new[i].followers)
      BY <2>3, <2>6
    <3> QED BY <2>5, <3>1, ContainsRange
  <2> QED BY <1>2, <2>2, <2>8, <2>9, <2>10
<1> QED BY <1>1, <1>2

\* The push adds a follower to a list.
LEMMA PushAdds ==
    ASSUME NEW dir \in Seq(Profile), ListsOK(dir), NEW user, NEW follower,
           GetProfileByName(dir, user) # 0, GetProfileByName(dir, follower) # 0,
           NEW new, new = Push(dir, Edge(user, follower))
    PROVE  /\ Holds(new, {Edge(user, follower)})
           /\ \A j \in 1 .. Len(dir) : Range(dir[j].followers) \subseteq Range(new[j].followers)
<1>1. PICK edge : edge = Edge(user, follower)
  OBVIOUS
<1>2. edge.user = user /\ edge.follower = follower /\ edge.kind = "edge"
  BY <1>1 DEF Edge
<1>3. PICK i, g, n : /\ i = GetProfileByName(dir, user) /\ g = GetProfileByName(dir, follower)
                     /\ n = Len(dir)
  OBVIOUS
<1>4. n \in Nat /\ DOMAIN dir = 1 .. n /\ \A j \in 1 .. n : dir[j] \in Profile
  BY <1>3, LenProperties, ElementOfSeq
<1>5. g # 0 /\ new = [dir EXCEPT ![i].followers = Append(@, g)]
  BY <1>1, <1>2, <1>3 DEF Push
<1>6. i \in 1 .. n
  BY <1>3, Lookup
<1>7. g \in 1 .. n
  BY <1>3, <1>5, Lookup
<1>8. PICK P, fol, app : P = Nat \ {0} /\ fol = dir[i].followers /\ app = Append(fol, g)
  OBVIOUS
<1>9. fol \in Seq(P) /\ g \in P
  BY <1>4, <1>6, <1>7, <1>8 DEF Profile
<1>10. app \in Seq(P) /\ Range(app) = Range(fol) \cup {g}
  BY <1>8, <1>9, AppendProperties, AppendOnce
<1>11. new[i].followers = app /\ \A j \in 1 .. n : j # i => new[j] = dir[j]
  <2>1. new[i] = [dir[i] EXCEPT !.followers = Append(@, g)]
    BY <1>4, <1>5, <1>6
  <2>2. new[i].followers = app
    BY <1>4, <1>6, <1>8, <2>1 DEF Profile
  <2> QED BY <1>4, <1>5, <2>2
<1>12. /\ new \in Seq(Profile) /\ Extends(new, dir)
  <2>1. new = Push(dir, edge) /\ GetProfileByName(dir, edge.follower) # 0
    BY <1>1, <1>2
  <2> QED BY <2>1, PushKeeps
<1>13. GetProfileByName(new, user) = i /\ GetProfileByName(new, follower) = g
  <2>1. i # 0
    BY <1>4, <1>6
  <2>2. GetProfileByName(dir, user) # 0 /\ GetProfileByName(dir, follower) # 0
    BY <1>3, <1>5, <2>1
  <2>3. GetProfileByName(new, user) = GetProfileByName(dir, user)
    BY <1>12, <2>2, LookupStays
  <2>4. GetProfileByName(new, follower) = GetProfileByName(dir, follower)
    BY <1>12, <2>2, LookupStays
  <2> QED BY <1>3, <2>3, <2>4
<1>14. Contains(app, g)
  BY <1>10, ContainsRange
<1>15. Holds(new, {edge})
  <2>1. i # 0
    BY <1>4, <1>6
  <2> QED BY <1>2, <1>11, <1>13, <1>14, <2>1 DEF Holds
<1>16. \A j \in 1 .. n : Range(dir[j].followers) \subseteq Range(new[j].followers)
  <2> TAKE j \in 1 .. n
  <2>1. CASE j = i
    BY <1>8, <1>10, <1>11, <2>1
  <2>2. CASE j # i
    BY <1>11, <2>2
  <2> QED BY <2>1, <2>2
<1> QED BY <1>1, <1>3, <1>15, <1>16

-----------------------------------------------------------------------------
(* Handlers that do not overlap: SavedInv.                                 *)

\* What the handler that runs knows, and what its step has to show.
LEMMA SavedFacts ==
    ASSUME ListsInv, Intact, ~Overlap, NEW t \in Threads,
           MayStart(t) \/ (up /\ Running(t))
    PROVE  /\ th \in [Threads -> Handler] /\ th[t] \in Handler
           /\ \A s \in Threads \ {t} : ~Running(s)
           /\ profiles \in Seq(Profile) /\ ListsOK(profiles) /\ ListsOnce(profiles)
           /\ OneEach(profiles)
           /\ up /\ Holds(profiles, saved) /\ Adding(t) /\ Prefix(t)
           /\ Inside(t) /\ Writing(t) /\ FileShape
           /\ file \in Seq(Line) /\ exists \in BOOLEAN
           /\ (~exists /\ th[t].pc # "open") => profiles = <<>>
           /\ ~exists => saved = {}
           /\ (exists /\ th[t].pc \notin SyncPC) => Reloads
<1>1. TypeOK /\ ListsOK(profiles) /\ HandlersInside /\ FileInv
  BY DEF ListsInv
<1>2. up /\ \A s \in Threads \ {t} : ~Running(s)
  BY OthersRest
<1>3. th \in [Threads -> Handler] /\ th[t] \in Handler
  BY <1>1 DEF TypeOK, Handler
<1>4. /\ Inside(t) /\ Writing(t) /\ FileShape /\ ListsOnce(profiles)
  BY <1>1 DEF HandlersInside, FileInv
<1>5. \A s \in Threads \ {t} : th[s].pc \in {"idle", "done"}
  BY <1>2 DEF Running
<1>6. (\A s \in Threads : th[s].pc # "open") <=> th[t].pc # "open"
  BY <1>5
<1>7. InSync <=> th[t].pc \in SyncPC
  BY <1>5 DEF InSync, SyncPC
<1>8. /\ OneEach(profiles) /\ Holds(profiles, saved) /\ Adding(t) /\ Prefix(t)
      /\ (~exists /\ \A s \in Threads : th[s].pc # "open") => profiles = <<>>
      /\ ~exists => saved = {}
      /\ (exists /\ ~InSync) => Reloads
  BY <1>2 DEF Intact
<1> QED BY <1>1, <1>2, <1>3, <1>4, <1>6, <1>7, <1>8 DEF TypeOK

LEMMA SavedStep ==
    ASSUME NEW t \in Threads, NEW rec, th \in [Threads -> Handler],
           th' = [th EXCEPT ![t] = rec], \A s \in Threads \ {t} : ~Running(s),
           OneEach(profiles'), Holds(profiles', saved'), Adding(t)', Prefix(t)',
           (~exists' /\ rec.pc # "open") => profiles' = <<>>,
           ~exists' => saved' = {},
           (exists' /\ rec.pc \notin SyncPC) => Reloads'
    PROVE  Intact'
<1>1. th'[t] = rec /\ \A s \in Threads \ {t} : th'[s].pc \in {"idle", "done"}
  BY DEF Running
<1>2. \A s \in Threads \ {t} : Adding(s)' /\ Prefix(s)'
  BY <1>1 DEF Adding, Prefix, SyncPC
<1>3. \A s \in Threads : Adding(s)' /\ Prefix(s)'
  BY <1>2
<1>4. (\A s \in Threads : th'[s].pc # "open") => rec.pc # "open"
  BY <1>1
<1>5. ~InSync' => rec.pc \notin SyncPC
  BY <1>1 DEF InSync
<1> QED BY <1>3, <1>4, <1>5 DEF Intact

\* A step that leaves the file alone, outside Sync.
LEMMA ReloadsStay ==
    ASSUME Reloads, UNCHANGED <<file, saved, up>>,
           ((\A s \in Threads : th'[s].pc # "open") /\ up') =>
                profiles' = profiles /\ \A s \in Threads : th[s].pc # "open"
    PROVE  Reloads'
BY DEF Reloads

LEMMA SavedDirectoryStep ==
    ASSUME ListsInv, ListsInv', Intact, ~Overlap, ~Odd,
           \/ \E c \in Connects : ConnectLookup(c) \/ ConnectNewProfile(c)
           \/ \E f \in Follows : Follow(f) \/ FollowPush(f)
    PROVE  Intact'
<1>0. Connects \subseteq Threads /\ Follows \subseteq Threads
      /\ profiles' \in Seq(Profile)
  BY DEF Threads, ListsInv, TypeOK
<1>1. ASSUME NEW c \in Connects, ConnectLookup(c)
      PROVE  Intact'
  <2>1. /\ MayStart(c) /\ th[c].pc = "idle"
        /\ \/ GetProfileByName(profiles, NameOf[c]) = 0 /\ th' = [th EXCEPT ![c] = At("new")]
           \/ th' = [th EXCEPT ![c] = At("done")]
        /\ UNCHANGED <<up, profiles, exists, file, crashes, saved, torn>>
    BY <1>1 DEF ConnectLookup, MayStart, Goto, Done, history
  <2>2. PICK pc \in {"new", "done"} :
            /\ th' = [th EXCEPT ![c] = At(pc)]
            /\ pc = "new" => GetProfileByName(profiles, NameOf[c]) = 0
    BY <2>1
  <2>3. At(pc).pc = pc
    BY AtFields
  <2>5. Intact'
    <3>1. /\ th \in [Threads -> Handler]
          /\ \A s \in Threads \ {c} : ~Running(s)
          /\ OneEach(profiles) /\ Holds(profiles, saved)
          /\ (~exists /\ th[c].pc # "open") => profiles = <<>>
          /\ ~exists => saved = {}
          /\ (exists /\ th[c].pc \notin SyncPC) => Reloads
      BY <1>0, <2>1, SavedFacts
    <3>2. th'[c].pc = pc
      BY <1>0, <2>2, <2>3, <3>1
    <3>3. Adding(c)' /\ Prefix(c)'
      BY <2>1, <2>2, <3>2 DEF Adding, Prefix, SyncPC
    <3>4. \A s \in Threads : th[s].pc # "open"
      BY <2>1, <3>1 DEF Running
    <3>5. exists' => Reloads'
      <4>1. exists => Reloads
        BY <2>1, <3>1 DEF SyncPC
      <4> QED BY <2>1, <3>4, <4>1, ReloadsStay
    <3>6. ~exists' => profiles' = <<>> /\ saved' = {}
      BY <2>1, <3>1
    <3> QED BY <1>0, <2>1, <2>2, <3>1, <3>3, <3>5, <3>6, SavedStep
  <2> QED BY <2>5
<1>2. ASSUME NEW c \in Connects, ConnectNewProfile(c)
      PROVE  Intact'
  <2>1. /\ up /\ th[c].pc = "new" /\ th' = [th EXCEPT ![c] = At("open")]
        /\ profiles' = Append(profiles, NewProfile(NameOf[c]))
        /\ UNCHANGED <<up, exists, file, crashes, saved, torn>>
    BY <1>2 DEF ConnectNewProfile, Continue, Goto, history
  <2>2. At("open").pc = "open"
    BY AtFields
  <2>4. Intact'
    <3>1. Running(c)
      BY <2>1 DEF Running
    <3>2. /\ th \in [Threads -> Handler]
          /\ \A s \in Threads \ {c} : ~Running(s)
          /\ profiles \in Seq(Profile) /\ OneEach(profiles) /\ Holds(profiles, saved) /\ Adding(c)
          /\ (~exists /\ th[c].pc # "open") => profiles = <<>>
          /\ ~exists => saved = {}
          /\ (exists /\ th[c].pc \notin SyncPC) => Reloads
      BY <1>0, <2>1, <3>1, SavedFacts
    <3>3. th'[c].pc = "open"
      BY <1>0, <2>1, <2>2, <3>2
    <3>4. PICK e, n, h : e = NewProfile(NameOf[c]) /\ n = Len(profiles) /\ h = NameOf[c]
      OBVIOUS
    <3>5. e \in Profile /\ e.handle = h /\ h \in PlainNames
      <4>1. h \in PlainNames
        BY <1>2, <2>1, <3>4 DEF Odd
      <4>2. e \in Profile /\ e.handle = h
        BY <1>2, <3>4, ProfilesAssumption, EmptySeq DEF NewProfile, Profile
      <4> QED BY <4>1, <4>2
    <3>6. /\ n \in Nat /\ DOMAIN profiles = 1 .. n /\ DOMAIN profiles' = 1 .. n + 1
          /\ Len(profiles') = n + 1 /\ profiles'[n + 1] = e
          /\ \A k \in 1 .. n : profiles'[k] = profiles[k]
      <4>1. n \in Nat /\ DOMAIN profiles = 1 .. n
        BY <3>2, <3>4, LenProperties
      <4>2. /\ profiles' \in Seq(Profile) /\ Len(profiles') = n + 1
            /\ profiles'[n + 1] = e
            /\ \A k \in 1 .. n : profiles'[k] = profiles[k]
        BY <2>1, <3>2, <3>4, <3>5, AppendProperties
      <4>3. DOMAIN profiles' = 1 .. n + 1
        BY <4>2, LenProperties
      <4> QED BY <4>1, <4>2, <4>3
    <3>7. Extends(profiles', profiles)
      BY <3>4, <3>6 DEF Extends
    <3>8. \A k \in 1 .. n : profiles[k].handle # h
      <4>1. GetProfileByName(profiles, h) = 0
        BY <2>1, <3>2, <3>4 DEF Adding
      <4> QED BY <3>2, <3>4, <4>1, Lookup
    <3>9. OneEach(profiles')
      <4>1. \A i \in 1 .. n + 1 : i \in 1 .. n \/ i = n + 1
        BY <3>6
      <4>2. \A i \in 1 .. n : profiles[i].handle \in PlainNames
        BY <3>2, <3>6 DEF OneEach
      <4>3. \A i, j \in 1 .. n : profiles[i].handle = profiles[j].handle => i = j
        BY <3>2, <3>6 DEF OneEach
      <4>4. \A i \in 1 .. n + 1 : profiles'[i].handle \in PlainNames
        BY <3>5, <3>6, <4>1, <4>2
      <4>5. \A i, j \in 1 .. n + 1 : profiles'[i].handle = profiles'[j].handle => i = j
        <5> TAKE i, j \in 1 .. n + 1
        <5>1. CASE i \in 1 .. n /\ j \in 1 .. n
          BY <3>6, <4>3, <5>1
        <5>2. CASE i \in 1 .. n /\ j = n + 1
          BY <3>5, <3>6, <3>8, <5>2
        <5>3. CASE i = n + 1 /\ j \in 1 .. n
          BY <3>5, <3>6, <3>8, <5>3
        <5> QED BY <4>1, <5>1, <5>2, <5>3
      <4> QED BY <3>6, <4>4, <4>5 DEF OneEach
    <3>10. Holds(profiles', saved')
      <4>1. PICK new : new = profiles'
        OBVIOUS
      <4>2. new \in Seq(Profile) /\ Extends(new, profiles)
            /\ \A k \in 1 .. Len(profiles) :
                    Range(profiles[k].followers) \subseteq Range(new[k].followers)
        BY <1>0, <3>4, <3>6, <3>7, <4>1
      <4>3. Holds(new, saved)
        BY <3>2, <4>2, HoldsGrow
      <4> QED BY <2>1, <4>1, <4>3
    <3>11. Adding(c)'
      <4>1. PICK new : new = profiles'
        OBVIOUS
      <4>2. new \in Seq(Profile) /\ Len(new) = n + 1 /\ n + 1 \in 1 .. Len(new)
            /\ new[n + 1].handle = h
        BY <1>0, <3>5, <3>6, <4>1
      <4>3. GetProfileByName(new, h) # 0
        BY <4>2, Lookup
      <4>4. Added(c) = Name(h) /\ Name(h).kind = "name" /\ Name(h).handle = h
        BY <1>2, <3>4 DEF Added, Name
      <4>5. Holds(new, {Added(c)})
        BY <4>3, <4>4 DEF Holds
      <4> QED BY <3>3, <4>1, <4>5 DEF Adding
    <3>12. Prefix(c)'
      BY <3>3 DEF Prefix, SyncPC
    <3>13. exists' => Reloads'
      <4>1. exists => Reloads
        BY <2>1, <3>2 DEF SyncPC
      <4>2. ~(\A s \in Threads : th'[s].pc # "open")
        BY <1>0, <3>3
      <4> QED BY <2>1, <4>1, <4>2, ReloadsStay
    <3> QED BY <1>0, <2>1, <2>2, <3>2, <3>9, <3>10, <3>11, <3>12, <3>13, SavedStep
  <2> QED BY <2>4
<1>3. ASSUME NEW f \in Follows, Follow(f)
      PROVE  Intact'
  <2>1. /\ MayStart(f) /\ th[f].pc = "idle"
        /\ th' = [th EXCEPT ![f] = At("push")] \/ th' = [th EXCEPT ![f] = At("done")]
        /\ UNCHANGED <<up, profiles, exists, file, crashes, saved, torn>>
    BY <1>3 DEF Follow, MayStart, Goto, Done, history
  <2>2. PICK pc \in {"push", "done"} : th' = [th EXCEPT ![f] = At(pc)]
    BY <2>1
  <2>3. At(pc).pc = pc
    BY AtFields
  <2>4. /\ th \in [Threads -> Handler]
        /\ \A s \in Threads \ {f} : ~Running(s)
        /\ OneEach(profiles) /\ Holds(profiles, saved)
        /\ (~exists /\ th[f].pc # "open") => profiles = <<>>
        /\ ~exists => saved = {}
        /\ (exists /\ th[f].pc \notin SyncPC) => Reloads
    BY <1>0, <2>1, SavedFacts
  <2>5. th'[f].pc = pc
    BY <1>0, <2>2, <2>3, <2>4
  <2>6. Adding(f)' /\ Prefix(f)'
    BY <2>5 DEF Adding, Prefix, SyncPC
  <2>7. \A s \in Threads : th[s].pc # "open"
    BY <2>1, <2>4 DEF Running
  <2>8. exists' => Reloads'
    <3>1. exists => Reloads
      BY <2>1, <2>4 DEF SyncPC
    <3> QED BY <2>1, <2>7, <3>1, ReloadsStay
  <2>9. ~exists' => profiles' = <<>> /\ saved' = {}
    BY <2>1, <2>4
  <2> QED BY <1>0, <2>1, <2>2, <2>4, <2>6, <2>8, <2>9, SavedStep
<1>4. ASSUME NEW f \in Follows, FollowPush(f)
      PROVE  Intact'
  <2>1. /\ up /\ th[f].pc = "push" /\ th' = [th EXCEPT ![f] = At("open")]
        /\ profiles' = Push(profiles, Following(f))
        /\ UNCHANGED <<up, exists, file, crashes, saved, torn>>
    BY <1>4 DEF FollowPush, Continue, Goto, history
  <2>2. At("open").pc = "open"
    BY AtFields
  <2>3. Running(f)
    BY <2>1 DEF Running
  <2>4. /\ th \in [Threads -> Handler]
        /\ \A s \in Threads \ {f} : ~Running(s)
        /\ profiles \in Seq(Profile) /\ ListsOK(profiles) /\ Inside(f)
        /\ OneEach(profiles) /\ Holds(profiles, saved)
        /\ ~exists => saved = {}
        /\ (exists /\ th[f].pc \notin SyncPC) => Reloads
    BY <1>0, <2>1, <2>3, SavedFacts
  <2>5. th'[f].pc = "open"
    BY <1>0, <2>1, <2>2, <2>4
  <2>6. PICK new, user, follower : new = profiles' /\ user = Whom[f] /\ follower = Who[f]
    OBVIOUS
  <2>7. GetProfileByName(profiles, user) # 0 /\ GetProfileByName(profiles, follower) # 0
    BY <2>1, <2>4, <2>6 DEF Inside
  <2>8. Following(f) = Edge(user, follower) /\ Added(f) = Edge(user, follower)
    BY <1>4, <2>6, ProfilesAssumption DEF Added, Following
  <2>9. new = Push(profiles, Edge(user, follower))
    BY <2>1, <2>6, <2>8
  <2>10. new \in Seq(Profile) /\ Extends(new, profiles) /\ Len(new) = Len(profiles)
    <3>1. PICK edge : edge = Edge(user, follower)
      OBVIOUS
    <3>2. GetProfileByName(profiles, edge.follower) # 0
      BY <2>7, <3>1 DEF Edge
    <3> QED BY <2>4, <2>9, <3>1, <3>2, PushKeeps
  <2>11. /\ Holds(new, {Edge(user, follower)})
         /\ \A j \in 1 .. Len(profiles) :
                Range(profiles[j].followers) \subseteq Range(new[j].followers)
    BY <2>4, <2>7, <2>9, PushAdds
  <2>12. Holds(new, saved)
    BY <2>4, <2>10, <2>11, HoldsGrow
  <2>13. OneEach(new)
    <3>1. DOMAIN new = 1 .. Len(profiles) /\ DOMAIN profiles = 1 .. Len(profiles)
      BY <2>4, <2>10, LenProperties
    <3>2. \A i \in 1 .. Len(profiles) : new[i].handle = profiles[i].handle
      BY <2>10 DEF Extends
    <3> QED BY <2>4, <3>1, <3>2 DEF OneEach
  <2>14. Holds(profiles', {Added(f)})
    BY <2>6, <2>8, <2>11
  <2>15. Adding(f)'
    BY <2>5, <2>14 DEF Adding
  <2>16. Prefix(f)'
    BY <2>5 DEF Prefix, SyncPC
  <2>17. exists' => Reloads'
    <3>1. exists => Reloads
      BY <2>1, <2>4 DEF SyncPC
    <3>2. ~(\A s \in Threads : th'[s].pc # "open")
      BY <1>0, <2>5
    <3> QED BY <2>1, <3>1, <3>2, ReloadsStay
  <2>18. OneEach(profiles') /\ Holds(profiles', saved')
    BY <2>1, <2>6, <2>12, <2>13
  <2> QED BY <1>0, <2>1, <2>2, <2>4, <2>15, <2>16, <2>17, <2>18, SavedStep
<1> QED BY <1>1, <1>2, <1>3, <1>4

\* A step from line to line changes only the file.
LEMMA SavedSyncStep ==
    ASSUME ListsInv, Intact, ~Overlap, NEW t \in Threads, up,
           th[t].pc \in SyncPC \cup {"open"}, NEW rec, rec.pc \in SyncPC,
           th' = [th EXCEPT ![t] = rec], UNCHANGED <<profiles, saved, torn>>,
           exists', Prefix(t)'
    PROVE  Intact'
<1>1. Running(t)
  BY DEF Running, SyncPC
<1>2. /\ th \in [Threads -> Handler] /\ \A s \in Threads \ {t} : ~Running(s)
      /\ OneEach(profiles) /\ Holds(profiles, saved) /\ Adding(t)
  BY <1>1, SavedFacts
<1>3. th'[t].pc \in SyncPC
  BY <1>2
<1>4. Holds(profiles, {Added(t)})
  BY <1>2 DEF Adding
<1>5. Adding(t)'
  BY <1>3, <1>4 DEF Adding, SyncPC
<1> QED BY <1>2, <1>5, SavedStep

LEMMA PrefixGrows ==
    ASSUME NEW new, NEW old, NEW l \in Nat, NEW all, NEW pos, pos = l + 1,
           \A k \in 1 .. l : old[k] = all[k], \A k \in 1 .. l : new[k] = old[k],
           new[pos] = all[pos]
    PROVE  \A k \in 1 .. pos : new[k] = all[k]
<1> TAKE k \in 1 .. pos
<1>1. k \in 1 .. l \/ k = pos
  OBVIOUS
<1> QED BY <1>1

LEMMA SavedOpenStep ==
    ASSUME ListsInv, Intact, ~Overlap, NEW t \in Threads, SyncOpen(t)
    PROVE  Intact'
<1>1. /\ up /\ th[t].pc = "open" /\ exists' = TRUE /\ file' = <<>>
      /\ th' = [th EXCEPT ![t] = [At("count") EXCEPT !.pos = 1]]
      /\ UNCHANGED <<profiles, saved, torn>>
  BY DEF SyncOpen, Continue, Goto, history
<1>2. PICK rec : rec = [At("count") EXCEPT !.pos = 1]
  OBVIOUS
<1>3. rec.pc = "count" /\ th' = [th EXCEPT ![t] = rec] /\ rec.pc \in SyncPC
  BY <1>1, <1>2 DEF At, SyncPC
<1>4. Prefix(t)'
  <2>1. Running(t)
    BY <1>1 DEF Running
  <2>2. th \in [Threads -> Handler] /\ profiles \in Seq(Profile) /\ ListsOK(profiles)
    BY <1>1, <2>1, SavedFacts
  <2>3. th'[t].pc = "count"
    BY <1>3, <2>2
  <2>4. Len(file') = 0
    BY <1>1, EmptySeq
  <2>5. PICK all : all = Saved(profiles)
    OBVIOUS
  <2>6. Len(all) \in Nat
    BY <2>2, <2>5, SavedShape, LenProperties
  <2>7. Len(file') <= Len(all) /\ \A k \in 1 .. Len(file') : file'[k] = all[k]
    BY <2>4, <2>6
  <2> QED BY <1>1, <2>3, <2>5, <2>7 DEF Prefix
<1> QED BY <1>1, <1>3, <1>4, SavedSyncStep

LEMMA SavedCountStep ==
    ASSUME ListsInv, Intact, ~Overlap, NEW t \in Threads, SyncCount(t)
    PROVE  Intact'
<1>0. PICK h, n : h = th[t] /\ n = Len(profiles)
  OBVIOUS
<1>1. /\ up /\ h.pc = "count" /\ WriteAt(h.pos, Count(n))
      /\ th' = [th EXCEPT ![t] = [At("name") EXCEPT !.i = 1, !.end = n, !.pos = h.pos + 1]]
      /\ UNCHANGED <<profiles, exists, saved, torn>>
  BY <1>0 DEF SyncCount, Continue, Goto, history
<1>2. PICK rec : rec = [At("name") EXCEPT !.i = 1, !.end = n, !.pos = h.pos + 1]
  OBVIOUS
<1>3. rec.pc = "name" /\ th' = [th EXCEPT ![t] = rec] /\ rec.pc \in SyncPC
  BY <1>1, <1>2 DEF At, SyncPC
<1>4. exists' /\ Prefix(t)'
  <2>1. Running(t)
    BY <1>0, <1>1 DEF Running
  <2>2. /\ th \in [Threads -> Handler] /\ h \in Handler
        /\ profiles \in Seq(Profile) /\ ListsOK(profiles)
        /\ file \in Seq(Line) /\ Prefix(t) /\ Writing(t)
    BY <1>0, <1>1, <2>1, SavedFacts
  <2>3. PICK all, l : all = Saved(profiles) /\ l = Len(file)
    OBVIOUS
  <2>4. n \in Nat /\ Len(all) \in Nat /\ Len(all) >= 1 /\ all[1] = Count(n)
    <3>1. n \in Nat /\ Off(profiles, n) \in Nat /\ Len(all) = n + 1 + Off(profiles, n)
          /\ all[1] = Count(n)
      BY <1>0, <2>2, <2>3, SavedShape
    <3> QED BY <3>1
  <2>5. l \in Nat /\ h.pos = l + 1 /\ h.pos = 1 /\ exists
    <3>1. l \in Nat
      BY <2>2, <2>3, LenProperties
    <3> QED BY <1>0, <1>1, <2>2, <2>3, <3>1 DEF Writing, Prefix, SyncPC
  <2>6. PICK line : line = Count(n)
    OBVIOUS
  <2>7. line \in Line
    BY <2>4, <2>6 DEF Count, Line
  <2>8. Len(file') = 1 /\ file'[1] = line
    <3>1. h.pos \in Nat /\ WriteAt(h.pos, line)
      BY <1>1, <2>5, <2>6
    <3>2. Len(file') = h.pos /\ file'[h.pos] = line
      BY <2>2, <2>3, <2>5, <2>7, <3>1, WriteAtEffect
    <3> QED BY <2>5, <3>2
  <2>9. th'[t].pc = "name"
    BY <1>3, <2>2
  <2>10. Len(file') <= Len(all) /\ \A k \in 1 .. Len(file') : file'[k] = all[k]
    BY <2>4, <2>6, <2>8
  <2> QED BY <1>1, <2>3, <2>5, <2>9, <2>10 DEF Prefix
<1>5. th[t].pc \in SyncPC \cup {"open"}
  BY <1>0, <1>1 DEF SyncPC
<1> QED BY <1>1, <1>3, <1>4, <1>5, SavedSyncStep

LEMMA SavedNameStep ==
    ASSUME ListsInv, Intact, ~Overlap, NEW t \in Threads, SyncName(t)
    PROVE  Intact'
<1>0. PICK h, n : h = th[t] /\ n = Len(profiles)
  OBVIOUS
<1>1. /\ up /\ h.pc = "name" /\ WriteAt(h.pos, Name(profiles[h.i].handle))
      /\ IF h.i < h.end
         THEN th' = [th EXCEPT ![t] = [h EXCEPT !.i = @ + 1, !.pos = @ + 1]]
         ELSE th' = [th EXCEPT ![t] = [pc |-> "edge", i |-> 1, end |-> n,
                                       left |-> profiles[1].followers, pos |-> h.pos + 1]]
      /\ UNCHANGED <<profiles, exists, saved, torn>>
  BY <1>0 DEF SyncName, Continue, Goto, history
<1>2. PICK rec :
        /\ th' = [th EXCEPT ![t] = rec]
        /\ IF h.i < h.end THEN rec = [h EXCEPT !.i = @ + 1, !.pos = @ + 1]
           ELSE rec = [pc |-> "edge", i |-> 1, end |-> n,
                       left |-> profiles[1].followers, pos |-> h.pos + 1]
  BY <1>1
<1>3. h \in Handler
  BY <1>0 DEF ListsInv, TypeOK, Handler
<1>4. /\ rec.pc \in SyncPC
      /\ rec.pc = "edge" => /\ ~(h.i < h.end) /\ rec.i = 1 /\ rec.left = profiles[1].followers
                            /\ rec.pos = h.pos + 1
  <2>1. CASE h.i < h.end
    <3>1. rec = [h EXCEPT !.i = @ + 1, !.pos = @ + 1]
      BY <1>2, <2>1
    <3>2. rec.pc = h.pc
      BY <1>3, <3>1 DEF Handler
    <3> QED BY <1>1, <3>2 DEF SyncPC
  <2>2. CASE ~(h.i < h.end)
    <3>1. rec = [pc |-> "edge", i |-> 1, end |-> n,
                 left |-> profiles[1].followers, pos |-> h.pos + 1]
      BY <1>2, <2>2
    <3> QED BY <2>2, <3>1 DEF SyncPC
  <2> QED BY <2>1, <2>2
<1>5. exists' /\ Prefix(t)'
  <2>1. Running(t)
    BY <1>0, <1>1 DEF Running
  <2>2. /\ th \in [Threads -> Handler]
        /\ profiles \in Seq(Profile) /\ ListsOK(profiles)
        /\ file \in Seq(Line) /\ Prefix(t) /\ Writing(t) /\ Inside(t)
    BY <1>0, <1>1, <2>1, SavedFacts
  <2>3. PICK all, l, o : all = Saved(profiles) /\ l = Len(file) /\ o = Off(profiles, n)
    OBVIOUS
  <2>4. /\ n \in Nat /\ o \in Nat /\ Len(all) = n + 1 + o
        /\ \A j \in 1 .. n : all[j + 1] = Name(profiles[j].handle)
    BY <1>0, <2>2, <2>3, SavedShape
  <2>5. l \in Nat
    BY <2>2, <2>3, LenProperties
  <2>6. /\ h.pos = l + 1 /\ h.pos = h.i + 1 /\ h.end = n
        /\ exists /\ \A k \in 1 .. l : file[k] = all[k]
    BY <1>0, <1>1, <2>2, <2>3 DEF Writing, Prefix, SyncPC
  <2>7. h.i \in 1 .. n /\ h.i = l
    <3>1. h.i \in 1 .. h.end /\ h.i \in Nat
      BY <1>0, <1>1, <1>3, <2>2 DEF Inside, Handler
    <3> QED BY <2>5, <2>6, <3>1
  <2>8. PICK line : line = Name(profiles[h.i].handle)
    OBVIOUS
  <2>9. line \in Line /\ line = all[h.pos]
    <3>1. profiles[h.i] \in Profile
      BY <1>0, <2>2, <2>7, ElementOfSeq
    <3>2. line \in Line
      BY <2>8, <3>1 DEF Name, Line, Profile
    <3> QED BY <2>4, <2>6, <2>7, <2>8, <3>2
  <2>10. h.pos \in Nat /\ h.pos <= Len(all) /\ h.pos <= n + 1
    BY <2>4, <2>5, <2>6, <2>7
  <2>11. /\ Len(file') = h.pos /\ file'[h.pos] = line
         /\ \A k \in 1 .. l : file'[k] = file[k]
    <3>1. WriteAt(h.pos, line)
      BY <1>1, <2>8
    <3> QED BY <2>2, <2>3, <2>6, <2>9, <2>10, <3>1, WriteAtEffect
  <2>12. \A k \in 1 .. h.pos : file'[k] = all[k]
    BY <2>5, <2>6, <2>9, <2>11, PrefixGrows
  <2>13. th'[t] = rec
    BY <1>2, <2>2
  <2>14. Len(file') <= Len(all) /\ \A k \in 1 .. Len(file') : file'[k] = all[k]
    BY <2>10, <2>11, <2>12
  <2>15. ASSUME rec.pc = "edge"
         PROVE  LET followers == profiles[rec.i].followers
                    skipped == Len(followers) - Len(rec.left)
                IN  /\ skipped >= 0
                    /\ \A j \in 1 .. Len(rec.left) : rec.left[j] = followers[skipped + j]
                    /\ rec.pos + Len(rec.left)
                        = Len(profiles) + 2 + Len(EdgesUpTo(profiles, rec.i))
    <3>1. rec.i = 1 /\ rec.left = profiles[1].followers /\ rec.pos = h.pos + 1 /\ ~(h.i < h.end)
      BY <1>4, <2>15
    <3>2. 1 \in 1 .. n /\ h.i = n
      BY <2>4, <2>6, <2>7, <3>1
    <3>3. PICK fol, f : fol = profiles[1].followers /\ f = Len(fol)
      OBVIOUS
    <3>4. f \in Nat
      BY <1>0, <2>2, <3>2, <3>3, EdgesType
    <3>5. Len(EdgesUpTo(profiles, 1)) = f
      <4>1. EdgesGrown(profiles, 1) /\ Off(profiles, 0) = 0
        BY <1>0, <2>2, <3>2, EdgesGrow
      <4>2. Off(profiles, 1) = Off(profiles, 1 - 1) + f /\ 1 - 1 = 0
        BY <3>3, <4>1 DEF EdgesGrown
      <4> QED BY <3>4, <4>1, <4>2 DEF Off
    <3>6. f - f = 0 /\ \A j \in 1 .. f : 0 + j = j
      BY <3>4
    <3>7. rec.pos + f = n + 2 + f
      BY <2>4, <2>5, <2>6, <2>7, <3>1, <3>2, <3>4
    <3>8. /\ profiles[rec.i].followers = fol /\ rec.left = fol /\ Len(fol) = f
          /\ Len(EdgesUpTo(profiles, rec.i)) = f
      BY <3>1, <3>3, <3>5
    <3>9. f - f >= 0 /\ \A j \in 1 .. f : fol[j] = fol[(f - f) + j]
      BY <3>4, <3>6
    <3> QED BY <1>0, <3>7, <3>8, <3>9
  <2> QED BY <1>1, <2>3, <2>6, <2>13, <2>14, <2>15 DEF Prefix
<1>6. th[t].pc \in SyncPC \cup {"open"}
  BY <1>0, <1>1 DEF SyncPC
<1> QED BY <1>1, <1>2, <1>4, <1>5, <1>6, SavedSyncStep

\* In the followers of a profile, the first that is left is the next one of the file.
LEMMA SavedEdgeStep ==
    ASSUME ListsInv, Intact, ~Overlap, NEW t \in Threads, SyncEdge(t)
    PROVE  Intact'
<1>0. PICK h, n : h = th[t] /\ n = Len(profiles)
  OBVIOUS
<1>1. /\ up /\ h.pc = "edge" /\ h.left # <<>>
      /\ WriteAt(h.pos, Edge(profiles[h.i].handle, profiles[Head(h.left)].handle))
      /\ th' = [th EXCEPT ![t] = [h EXCEPT !.left = Tail(@), !.pos = @ + 1]]
      /\ UNCHANGED <<profiles, exists, saved, torn>>
  BY <1>0 DEF SyncEdge, Continue, Goto, history
<1>2. PICK rec : rec = [h EXCEPT !.left = Tail(@), !.pos = @ + 1]
  OBVIOUS
<1>3. /\ h \in Handler
      /\ h.left \in Seq(Nat \ {0}) /\ h.pos \in Nat /\ h.i \in Nat /\ h.end \in Nat
  BY <1>0 DEF ListsInv, TypeOK, Handler
<1>4. /\ rec.pc = "edge" /\ rec.i = h.i /\ rec.left = Tail(h.left) /\ rec.pos = h.pos + 1
      /\ th' = [th EXCEPT ![t] = rec]
  BY <1>1, <1>2, <1>3 DEF Handler
<1>5. exists' /\ Prefix(t)'
  <2>1. Running(t)
    BY <1>0, <1>1 DEF Running
  <2>2. /\ th \in [Threads -> Handler]
        /\ profiles \in Seq(Profile) /\ ListsOK(profiles)
        /\ file \in Seq(Line) /\ Prefix(t) /\ Writing(t) /\ Inside(t)
    BY <1>0, <1>1, <2>1, SavedFacts
  <2>3. PICK all, l, o, left, q, fol, f, a, e :
            /\ all = Saved(profiles) /\ l = Len(file) /\ o = Off(profiles, n)
            /\ left = h.left /\ q = Len(left)
            /\ fol = profiles[h.i].followers /\ f = Len(fol)
            /\ a = Off(profiles, h.i - 1) /\ e = Off(profiles, h.i)
    OBVIOUS
  <2>4. h.i \in 1 .. n
    <3>1. h.i \in 1 .. h.end /\ h.end <= n
      BY <1>0, <1>1, <2>2 DEF Inside
    <3>2. n \in Nat
      BY <1>0, <2>2, LenProperties
    <3> QED BY <1>3, <3>1, <3>2
  <2>5. /\ n \in Nat /\ o \in Nat /\ Len(all) = n + 1 + o
        /\ \A m \in 1 .. o : all[n + 1 + m] = EdgesUpTo(profiles, n)[m]
    BY <1>0, <2>2, <2>3, SavedShape
  <2>6. l \in Nat
    BY <2>2, <2>3, LenProperties
  <2>7. f \in Nat
    BY <1>0, <2>2, <2>3, <2>4, EdgesType
  <2>8. a \in Nat /\ e = a + f
    <3>1. EdgesGrown(profiles, h.i)
      BY <1>0, <2>2, <2>4, EdgesGrow
    <3> QED BY <2>3, <3>1 DEF EdgesGrown
  <2>9. PICK P : P = Nat \ {0}
    OBVIOUS
  <2>10. /\ left \in Seq(P) /\ q \in Nat \ {0} /\ Head(left) = left[1]
         /\ Tail(left) \in Seq(P) /\ Len(Tail(left)) = q - 1
         /\ \A j \in 1 .. q - 1 : Tail(left)[j] = left[j + 1]
    <3>1. left \in Seq(P) /\ left # <<>>
      BY <1>1, <1>3, <2>3, <2>9
    <3>2. q \in Nat \ {0}
      BY <2>3, <3>1, EmptySeq
    <3>3. /\ Head(left) = left[1] /\ Tail(left) \in Seq(P) /\ Len(Tail(left)) = Len(left) - 1
          /\ \A j \in 1 .. Len(Tail(left)) : Tail(left)[j] = left[j + 1]
      BY <3>1, HeadTailProperties
    <3> QED BY <2>3, <3>1, <3>2, <3>3
  <2>11. /\ h.pos = l + 1 /\ exists /\ \A k \in 1 .. l : file[k] = all[k]
    BY <1>0, <1>1, <2>2, <2>3 DEF Writing, Prefix, SyncPC
  <2>12. /\ f - q >= 0 /\ \A j \in 1 .. q : left[j] = fol[(f - q) + j]
         /\ h.pos + q = n + 2 + e
    <3>1. LET followers == profiles[h.i].followers
              skipped == Len(followers) - Len(h.left)
          IN  /\ skipped >= 0 /\ \A j \in 1 .. Len(h.left) : h.left[j] = followers[skipped + j]
              /\ h.pos + Len(h.left) = Len(profiles) + 2 + Len(EdgesUpTo(profiles, h.i))
      BY <1>0, <1>1, <2>2 DEF Prefix
    <3> QED BY <1>0, <2>3, <3>1 DEF Off
  <2>13. PICK k : k = f - q + 1
    OBVIOUS
  <2>14. k \in 1 .. f /\ left[1] = fol[k] /\ h.pos = n + 1 + (a + k)
    <3>1. k \in 1 .. f /\ 1 \in 1 .. q /\ k = (f - q) + 1
      BY <2>7, <2>10, <2>12, <2>13
    <3>2. left[1] = fol[k]
      BY <2>12, <3>1
    <3>3. h.pos = n + 1 + (a + k)
      <4>1. h.pos + q = n + 2 + e
        BY <2>12
      <4>2. PICK p : p = h.pos
        OBVIOUS
      <4>3. /\ p \in Nat /\ n \in Nat /\ f \in Nat /\ q \in Nat /\ a \in Nat
            /\ p + q = n + 2 + (a + f) /\ k = (f - q) + 1
        BY <1>3, <2>5, <2>7, <2>8, <2>10, <3>1, <4>1, <4>2
      <4>4. p = n + 1 + (a + k)
        BY <4>3
      <4> QED BY <4>2, <4>4
    <3> QED BY <3>1, <3>2, <3>3
  <2>15. /\ a + k \in 1 .. o
         /\ EdgesUpTo(profiles, n)[a + k] = Edge(profiles[h.i].handle, profiles[fol[k]].handle)
    BY <1>0, <2>2, <2>3, <2>4, <2>14, EdgeAt
  <2>16. PICK line : line = Edge(profiles[h.i].handle, profiles[Head(h.left)].handle)
    OBVIOUS
  <2>17. line = all[h.pos]
    BY <2>3, <2>5, <2>10, <2>14, <2>15, <2>16
  <2>18. h.pos <= Len(all)
    BY <2>5, <2>8, <2>14, <2>15
  <2>19. line \in Line
    <3>1. all \in Seq(Line)
      BY <2>2, <2>3, SavedShape
    <3>2. h.pos \in 1 .. Len(all)
      BY <1>3, <2>5, <2>6, <2>11, <2>18
    <3> QED BY <2>17, <3>1, <3>2, ElementOfSeq
  <2>20. /\ Len(file') = h.pos /\ file'[h.pos] = line
         /\ \A j \in 1 .. l : file'[j] = file[j]
    <3>1. WriteAt(h.pos, line)
      BY <1>1, <2>16
    <3> QED BY <1>3, <2>2, <2>3, <2>11, <2>19, <3>1, WriteAtEffect
  <2>21. \A j \in 1 .. h.pos : file'[j] = all[j]
    BY <2>6, <2>11, <2>17, <2>20, PrefixGrows
  <2>22. Len(file') <= Len(all) /\ \A j \in 1 .. Len(file') : file'[j] = all[j]
    BY <2>18, <2>20, <2>21
  <2>23. th'[t] = rec
    BY <1>4, <2>2
  <2>24. PICK r : r = Tail(left)
    OBVIOUS
  <2>25. Len(r) = q - 1 /\ f - (q - 1) >= 0
    BY <2>7, <2>10, <2>12, <2>24
  <2>26. \A j \in 1 .. q - 1 : r[j] = fol[(f - (q - 1)) + j]
    <3> TAKE j \in 1 .. q - 1
    <3>1. j + 1 \in 1 .. q /\ (f - q) + (j + 1) = (f - (q - 1)) + j
      BY <2>7, <2>10
    <3>2. r[j] = left[j + 1]
      BY <2>10, <2>24
    <3> QED BY <2>12, <3>1, <3>2
  <2>27. rec.pos + (q - 1) = n + 2 + e
    <3>1. h.pos + q = n + 2 + e
      BY <2>12
    <3>2. PICK p : p = h.pos
      OBVIOUS
    <3>3. rec.pos = p + 1
      BY <1>4, <3>2
    <3>4. p \in Nat /\ n \in Nat /\ e \in Nat /\ q \in Nat /\ p + q = n + 2 + e
      BY <1>3, <2>5, <2>7, <2>8, <2>10, <3>1, <3>2
    <3>5. (p + 1) + (q - 1) = n + 2 + e
      BY <3>4
    <3> QED BY <3>3, <3>5
  <2>28. rec.left = r /\ profiles[rec.i].followers = fol /\ Len(fol) = f
         /\ Len(EdgesUpTo(profiles, rec.i)) = e
    BY <1>4, <2>3, <2>24 DEF Off
  <2>29. LET followers == profiles[rec.i].followers
             skipped == Len(followers) - Len(rec.left)
         IN  /\ skipped >= 0
             /\ \A j \in 1 .. Len(rec.left) : rec.left[j] = followers[skipped + j]
             /\ rec.pos + Len(rec.left) = Len(profiles) + 2 + Len(EdgesUpTo(profiles, rec.i))
    BY <1>0, <2>25, <2>26, <2>27, <2>28
  <2> QED BY <1>1, <2>3, <2>11, <2>22, <2>23, <2>29 DEF Prefix
<1>6. th[t].pc \in SyncPC \cup {"open"} /\ rec.pc \in SyncPC
  BY <1>0, <1>1, <1>4 DEF SyncPC
<1> QED BY <1>1, <1>4, <1>5, <1>6, SavedSyncStep

LEMMA SavedNextProfileStep ==
    ASSUME ListsInv, Intact, ~Overlap, NEW t \in Threads, SyncNextProfile(t)
    PROVE  Intact'
<1>0. PICK h, n : h = th[t] /\ n = Len(profiles)
  OBVIOUS
<1>1. /\ up /\ h.pc = "edge" /\ h.left = <<>> /\ h.i < h.end /\ file' = file
      /\ th' = [th EXCEPT ![t] = [h EXCEPT !.i = @ + 1, !.left = profiles[h.i + 1].followers]]
      /\ UNCHANGED <<profiles, exists, saved, torn>>
  BY <1>0 DEF SyncNextProfile, Continue, Goto, history
<1>2. PICK rec : rec = [h EXCEPT !.i = @ + 1, !.left = profiles[h.i + 1].followers]
  OBVIOUS
<1>3. /\ h \in Handler /\ h.pos \in Nat /\ h.i \in Nat /\ h.end \in Nat
  BY <1>0 DEF ListsInv, TypeOK, Handler
<1>4. /\ rec.pc = "edge" /\ rec.i = h.i + 1 /\ rec.left = profiles[h.i + 1].followers
      /\ rec.pos = h.pos /\ th' = [th EXCEPT ![t] = rec]
  BY <1>1, <1>2, <1>3 DEF Handler
<1>5. exists' /\ Prefix(t)'
  <2>1. Running(t)
    BY <1>0, <1>1 DEF Running
  <2>2. /\ th \in [Threads -> Handler]
        /\ profiles \in Seq(Profile) /\ ListsOK(profiles) /\ Prefix(t) /\ Inside(t)
    BY <1>0, <1>1, <2>1, SavedFacts
  <2>3. PICK j, fol, f, a, e :
            /\ j = h.i + 1 /\ fol = profiles[j].followers /\ f = Len(fol)
            /\ a = Off(profiles, h.i) /\ e = Off(profiles, j)
    OBVIOUS
  <2>4. n \in Nat /\ j \in 1 .. n /\ j - 1 = h.i
    <3>1. h.i \in 1 .. h.end /\ h.end <= n
      BY <1>0, <1>1, <2>2 DEF Inside
    <3>2. n \in Nat
      BY <1>0, <2>2, LenProperties
    <3>3. j = h.i + 1
      BY <2>3
    <3> QED BY <1>1, <1>3, <3>1, <3>2, <3>3
  <2>5. f \in Nat
    BY <1>0, <2>2, <2>3, <2>4, EdgesType
  <2>6. a \in Nat /\ e = a + f
    <3>1. EdgesGrown(profiles, j)
      BY <1>0, <2>2, <2>4, EdgesGrow
    <3> QED BY <2>3, <2>4, <3>1 DEF EdgesGrown
  <2>7. h.pos = n + 2 + a
    <3>1. h.pos + Len(h.left) = Len(profiles) + 2 + Len(EdgesUpTo(profiles, h.i))
      BY <1>0, <1>1, <2>2 DEF Prefix
    <3>2. Len(h.left) = 0
      BY <1>1, EmptySeq
    <3>3. Len(EdgesUpTo(profiles, h.i)) = a
      BY <2>3 DEF Off
    <3> QED BY <1>0, <1>3, <3>1, <3>2, <3>3
  <2>8. rec.pos + f = n + 2 + e
    BY <1>4, <2>4, <2>5, <2>6, <2>7
  <2>9. f - f >= 0 /\ \A m \in 1 .. f : fol[m] = fol[(f - f) + m]
    <3>1. f - f = 0 /\ \A m \in 1 .. f : 0 + m = m
      BY <2>5
    <3> QED BY <3>1
  <2>10. rec.left = fol /\ profiles[rec.i].followers = fol /\ Len(fol) = f
         /\ Len(EdgesUpTo(profiles, rec.i)) = e
    BY <1>4, <2>3 DEF Off
  <2>11. LET followers == profiles[rec.i].followers
             skipped == Len(followers) - Len(rec.left)
         IN  /\ skipped >= 0
             /\ \A m \in 1 .. Len(rec.left) : rec.left[m] = followers[skipped + m]
             /\ rec.pos + Len(rec.left) = Len(profiles) + 2 + Len(EdgesUpTo(profiles, rec.i))
    BY <1>0, <2>8, <2>9, <2>10
  <2>12. th'[t] = rec
    BY <1>4, <2>2
  <2>13. PICK all : all = Saved(profiles)
    OBVIOUS
  <2>14. exists /\ Len(file) <= Len(all) /\ \A k \in 1 .. Len(file) : file[k] = all[k]
    BY <1>0, <1>1, <2>2, <2>13 DEF Prefix, SyncPC
  <2> QED BY <1>1, <2>11, <2>12, <2>13, <2>14 DEF Prefix
<1>6. th[t].pc \in SyncPC \cup {"open"} /\ rec.pc \in SyncPC
  BY <1>0, <1>1, <1>4 DEF SyncPC
<1> QED BY <1>1, <1>4, <1>5, <1>6, SavedSyncStep

\* The last line is written: the file is the directory, and reads back as it.
LEMMA SavedCloseStep ==
    ASSUME ListsInv, Intact, ~Overlap, NEW t \in Threads, SyncClose(t)
    PROVE  Intact'
<1>0. PICK h, n : h = th[t] /\ n = Len(profiles)
  OBVIOUS
<1>1. /\ up /\ h.pc = "edge" /\ h.left = <<>> /\ h.i = h.end /\ file' = file
      /\ th' = [th EXCEPT ![t] = At("done")]
      /\ saved' = saved \cup {Added(t)}
      /\ UNCHANGED <<up, profiles, exists, torn>>
  BY <1>0 DEF SyncClose, Continue, Goto, Done, Added
<1>2. At("done").pc = "done"
  BY AtFields
<1>4. Intact'
  <2>1. Running(t)
    BY <1>0, <1>1 DEF Running
  <2>2. /\ th \in [Threads -> Handler] /\ h \in Handler
        /\ \A s \in Threads \ {t} : ~Running(s)
        /\ profiles \in Seq(Profile) /\ ListsOK(profiles) /\ ListsOnce(profiles)
        /\ OneEach(profiles) /\ Holds(profiles, saved) /\ Adding(t)
        /\ file \in Seq(Line) /\ Prefix(t) /\ Writing(t) /\ Inside(t)
    BY <1>0, <1>1, <2>1, SavedFacts
  <2>3. PICK all, l, o : all = Saved(profiles) /\ l = Len(file) /\ o = Off(profiles, n)
    OBVIOUS
  <2>4. /\ n \in Nat /\ o \in Nat /\ Len(all) = n + 1 + o /\ all \in Seq(Line)
    BY <1>0, <2>2, <2>3, SavedShape
  <2>5. /\ h.pos = l + 1 /\ h.i = n /\ exists /\ \A k \in 1 .. l : file[k] = all[k]
    BY <1>0, <1>1, <2>2, <2>3 DEF Writing, Prefix, SyncPC
  <2>6. h.pos = n + 2 + o
    <3>1. h.pos + Len(h.left) = Len(profiles) + 2 + Len(EdgesUpTo(profiles, h.i))
      BY <1>0, <1>1, <2>2 DEF Prefix
    <3>2. Len(h.left) = 0
      BY <1>1, EmptySeq
    <3>3. Len(EdgesUpTo(profiles, h.i)) = o
      BY <2>3, <2>5 DEF Off
    <3>4. h.pos \in Nat
      BY <2>2 DEF Handler
    <3> QED BY <1>0, <3>1, <3>2, <3>3, <3>4
  <2>7. l \in Nat /\ l = Len(all)
    <3>1. l \in Nat
      BY <2>2, <2>3, LenProperties
    <3> QED BY <2>4, <2>5, <2>6, <3>1
  <2>8. file = Saved(profiles)
    BY <2>2, <2>3, <2>4, <2>5, <2>7, SeqEqual
  <2>9. ReadProfiles(file) = profiles
    BY <2>2, <2>8, RoundTrip
  <2>10. Holds(profiles, saved')
    <3>1. Holds(profiles, {Added(t)})
      BY <1>0, <1>1, <2>2 DEF Adding, SyncPC
    <3> QED BY <1>1, <2>2, <3>1 DEF Holds
  <2>11. Reloads'
    BY <1>1, <2>2, <2>8, <2>9, <2>10 DEF Reloads
  <2>12. th'[t].pc = "done"
    BY <1>1, <1>2, <2>2
  <2>13. Adding(t)' /\ Prefix(t)'
    BY <2>12 DEF Adding, Prefix, SyncPC
  <2> QED BY <1>1, <2>2, <2>5, <2>10, <2>11, <2>13, SavedStep
<1> QED BY <1>4

\* A crash between two Syncs leaves the file whole.
LEMMA SavedCrashStep ==
    ASSUME ListsInv, Intact, Crash, ~torn'
    PROVE  Intact'
<1>1. /\ up' = FALSE /\ torn' = (torn \/ InSync) /\ profiles' = <<>>
      /\ th' = [t \in Threads |-> IF Running(t) THEN At("done") ELSE th[t]]
      /\ exists' = exists /\ file' = file /\ saved' = saved
  BY DEF Crash, Done
<1>2. ~torn /\ ~InSync
  BY <1>1
<1>3. /\ ~exists => saved = {}
      /\ exists => Reloads
  BY <1>2 DEF Intact
<1>4. At("done").pc = "done"
  BY AtFields
<1>5. \A t \in Threads : th'[t].pc \in {"idle", "done"}
  BY <1>1, <1>4 DEF Running
<1>6. \A t \in Threads : Adding(t)' /\ Prefix(t)'
  BY <1>5 DEF Adding, Prefix, SyncPC
<1>7. DOMAIN profiles' = {}
  BY <1>1, EmptySeq
<1>8. OneEach(profiles')
  BY <1>7 DEF OneEach
<1>9. exists' => Reloads'
  BY <1>1, <1>3 DEF Reloads
<1> QED BY <1>1, <1>3, <1>6, <1>8, <1>9 DEF Intact

\* The constructor reads back what the last Sync wrote.
LEMMA SavedRestartStep ==
    ASSUME ListsInv, Intact, Restart
    PROVE  Intact'
<1>1. /\ ~up /\ up' = TRUE /\ profiles' \in ReadProfilesFromFile
      /\ UNCHANGED <<exists, file, online, th, crashes, saved, torn>>
  BY DEF Restart, history
<1>2. \A t \in Threads : ~Running(t)
  BY <1>1 DEF ListsInv, HandlersInside, Inside
<1>3. \A t \in Threads : th[t].pc \in {"idle", "done"} /\ th'[t].pc \in {"idle", "done"}
  BY <1>1, <1>2 DEF Running
<1>4. ~InSync
  BY <1>3 DEF InSync, SyncPC
<1>5. /\ ~exists => saved = {}
      /\ exists => Reloads
  BY <1>1, <1>4 DEF Intact
<1>6. \A t \in Threads : Adding(t)' /\ Prefix(t)'
  BY <1>3 DEF Adding, Prefix, SyncPC
<1>7. CASE ~exists
  <2>1. profiles' = <<>> /\ DOMAIN profiles' = {}
    BY <1>1, <1>7, EmptySeq DEF ReadProfilesFromFile
  <2>2. OneEach(profiles')
    BY <2>1 DEF OneEach
  <2>3. Holds(profiles', saved')
    BY <1>1, <1>5, <1>7 DEF Holds
  <2> QED BY <1>1, <1>5, <1>6, <1>7, <2>1, <2>2, <2>3 DEF Intact
<1>8. CASE exists
  <2>1. PICK dir : dir = ReadProfiles(file)
    OBVIOUS
  <2>2. /\ file = Saved(dir) /\ dir \in Seq(Profile)
        /\ ListsOK(dir) /\ ListsOnce(dir) /\ OneEach(dir) /\ Holds(dir, saved)
    BY <1>5, <1>8, <2>1 DEF Reloads
  <2>3. file # <<>>
    <3>1. Saved(dir) # <<>>
      BY <2>2, RoundTrip
    <3> QED BY <2>2, <3>1
  <2>4. profiles' = dir
    BY <1>1, <1>8, <2>1, <2>3 DEF ReadProfilesFromFile
  <2>5. Reloads'
    BY <1>1, <2>1, <2>2, <2>4 DEF Reloads
  <2> QED BY <1>1, <1>6, <1>8, <2>2, <2>4, <2>5 DEF Intact
<1> QED BY <1>7, <1>8

LEMMA SavedInit ==
    Init => SavedInv
<1> SUFFICES ASSUME Init PROVE SavedInv
  OBVIOUS
<1>1. At("idle").pc = "idle"
  BY AtFields
<1>2. \A t \in Threads : th[t].pc = "idle"
  BY <1>1 DEF Init
<1>3. profiles = <<>> /\ exists = FALSE /\ saved = {}
  BY DEF Init
<1>4. DOMAIN profiles = {}
  BY <1>3, EmptySeq
<1>5. OneEach(profiles) /\ Holds(profiles, saved)
  BY <1>3, <1>4 DEF OneEach, Holds
<1>6. \A t \in Threads : Adding(t) /\ Prefix(t)
  BY <1>2 DEF Adding, Prefix, SyncPC
<1> QED BY <1>3, <1>5, <1>6 DEF SavedInv, Intact

\* A request that came has come.
LEMMA BusyStays ==
    ASSUME ListsInv, [Next]_vars, NEW t \in Threads, th[t].pc # "idle"
    PROVE  th'[t].pc # "idle"
<1>1. th \in [Threads -> Handler] /\ Connects \subseteq Threads /\ Follows \subseteq Threads
  BY DEF ListsInv, TypeOK, Handler, Threads
<1>2. \A pc \in {"new", "push", "open", "done"} : At(pc).pc # "idle"
  BY DEF At
<1>3. ASSUME NEW s \in Threads, NEW rec, rec.pc # "idle", th' = [th EXCEPT ![s] = rec]
      PROVE  th'[t].pc # "idle"
  BY <1>1, <1>3
<1>4. ASSUME NEW c \in Connects, ConnectLookup(c) \/ ConnectNewProfile(c)
      PROVE  th'[t].pc # "idle"
  <2>1. \E pc \in {"new", "open", "done"} : th' = [th EXCEPT ![c] = At(pc)]
    BY <1>4 DEF ConnectLookup, ConnectNewProfile, Goto, Done
  <2> QED BY <1>1, <1>2, <1>3, <2>1
<1>5. ASSUME NEW f \in Follows, Follow(f) \/ FollowPush(f)
      PROVE  th'[t].pc # "idle"
  <2>1. \E pc \in {"push", "open", "done"} : th' = [th EXCEPT ![f] = At(pc)]
    BY <1>5 DEF Follow, FollowPush, Goto, Done
  <2> QED BY <1>1, <1>2, <1>3, <2>1
<1>6. ASSUME NEW s \in Threads,
             \/ SyncOpen(s) \/ SyncCount(s) \/ SyncName(s)
             \/ SyncEdge(s) \/ SyncNextProfile(s) \/ SyncClose(s)
      PROVE  th'[t].pc # "idle"
  <2>1. th[s] \in Handler
    BY <1>1
  <2>2. CASE SyncOpen(s)
    <3>1. PICK rec : rec = [At("count") EXCEPT !.pos = 1]
      OBVIOUS
    <3>2. rec.pc # "idle" /\ th' = [th EXCEPT ![s] = rec]
      BY <2>2, <3>1 DEF SyncOpen, Goto, At
    <3> QED BY <1>3, <3>2
  <2>3. CASE SyncCount(s)
    <3>1. PICK rec : rec = [At("name") EXCEPT !.i = 1, !.end = Len(profiles), !.pos = th[s].pos + 1]
      OBVIOUS
    <3>2. rec.pc # "idle" /\ th' = [th EXCEPT ![s] = rec]
      BY <2>3, <3>1 DEF SyncCount, Goto, At
    <3> QED BY <1>3, <3>2
  <2>4. CASE SyncName(s)
    <3>1. PICK a, b : /\ a = [th[s] EXCEPT !.i = @ + 1, !.pos = @ + 1]
                      /\ b = [pc |-> "edge", i |-> 1, end |-> Len(profiles),
                              left |-> profiles[1].followers, pos |-> th[s].pos + 1]
      OBVIOUS
    <3>2. th[s].pc = "name" /\ (th' = [th EXCEPT ![s] = a] \/ th' = [th EXCEPT ![s] = b])
      BY <2>4, <3>1 DEF SyncName, Continue, Goto
    <3>3. a.pc # "idle" /\ b.pc # "idle"
      BY <2>1, <3>1, <3>2 DEF Handler
    <3> QED BY <1>3, <3>2, <3>3
  <2>5. CASE SyncEdge(s)
    <3>1. PICK rec : rec = [th[s] EXCEPT !.left = Tail(@), !.pos = @ + 1]
      OBVIOUS
    <3>2. th[s].pc = "edge" /\ th' = [th EXCEPT ![s] = rec]
      BY <2>5, <3>1 DEF SyncEdge, Continue, Goto
    <3>3. rec.pc # "idle"
      BY <2>1, <3>1, <3>2 DEF Handler
    <3> QED BY <1>3, <3>2, <3>3
  <2>6. CASE SyncNextProfile(s)
    <3>1. PICK rec : rec = [th[s] EXCEPT !.i = @ + 1, !.left = profiles[th[s].i + 1].followers]
      OBVIOUS
    <3>2. th[s].pc = "edge" /\ th' = [th EXCEPT ![s] = rec]
      BY <2>6, <3>1 DEF SyncNextProfile, Continue, Goto
    <3>3. rec.pc # "idle"
      BY <2>1, <3>1, <3>2 DEF Handler
    <3> QED BY <1>3, <3>2, <3>3
  <2>7. CASE SyncClose(s)
    <3>1. th' = [th EXCEPT ![s] = At("done")]
      BY <2>7 DEF SyncClose, Goto, Done
    <3> QED BY <1>2, <1>3, <3>1
  <2> QED BY <1>6, <2>2, <2>3, <2>4, <2>5, <2>6, <2>7
<1>7. CASE Crash
  <2>1. th'[t] = At("done") \/ th'[t] = th[t]
    BY <1>7 DEF Crash, Done
  <2> QED BY <1>2, <2>1
<1>8. CASE Restart \/ Quiescent \/ UNCHANGED vars
  BY <1>8 DEF Restart, Quiescent, vars
<1> QED BY <1>4, <1>5, <1>6, <1>7, <1>8 DEF Next

\* What excuses the file once excuses it for ever.
LEMMA ExcusedStays ==
    ASSUME ListsInv, [Next]_vars
    PROVE  (torn => torn') /\ (Odd => Odd')
<1>1. torn => torn'
  <2>1. CASE \E c \in Connects : ConnectLookup(c) \/ ConnectNewProfile(c)
    BY <2>1 DEF ConnectLookup, ConnectNewProfile, history
  <2>2. CASE \E f \in Follows : Follow(f) \/ FollowPush(f)
    BY <2>2 DEF Follow, FollowPush, history
  <2>3. CASE \E t \in Threads :
                \/ SyncOpen(t) \/ SyncCount(t) \/ SyncName(t)
                \/ SyncEdge(t) \/ SyncNextProfile(t) \/ SyncClose(t)
    BY <2>3 DEF SyncOpen, SyncCount, SyncName, SyncEdge, SyncNextProfile, SyncClose, history
  <2>4. CASE Crash \/ Restart \/ Quiescent \/ UNCHANGED vars
    BY <2>4 DEF Crash, Restart, Quiescent, vars, history
  <2> QED BY <2>1, <2>2, <2>3, <2>4 DEF Next
<1>2. Odd => Odd'
  <2>1. Connects \subseteq Threads /\ Follows \subseteq Threads
    BY DEF Threads
  <2>2. \A t \in Threads : th[t].pc # "idle" => th'[t].pc # "idle"
    BY BusyStays
  <2> QED BY <2>1, <2>2 DEF Odd
<1> QED BY <1>1, <1>2

LEMMA SavedNext ==
    ASSUME ~Overlap
    PROVE  ListsInv /\ ListsInv' /\ SavedInv /\ [Next]_vars => SavedInv'
<1> SUFFICES ASSUME ListsInv, ListsInv', SavedInv, [Next]_vars, ~torn', ~Odd'
             PROVE  Intact'
  BY DEF SavedInv
<1>0. Intact /\ ~Odd
  BY ExcusedStays DEF SavedInv
<1>1. CASE \/ \E c \in Connects : ConnectLookup(c) \/ ConnectNewProfile(c)
           \/ \E f \in Follows : Follow(f) \/ FollowPush(f)
  BY <1>0, <1>1, SavedDirectoryStep
<1>2. ASSUME NEW t \in Threads,
             \/ SyncOpen(t) \/ SyncCount(t) \/ SyncName(t)
             \/ SyncEdge(t) \/ SyncNextProfile(t) \/ SyncClose(t)
      PROVE  Intact'
  BY <1>0, <1>2, SavedOpenStep, SavedCountStep, SavedNameStep, SavedEdgeStep,
     SavedNextProfileStep, SavedCloseStep
<1>3. CASE Crash
  BY <1>0, <1>3, SavedCrashStep
<1>4. CASE Restart
  BY <1>0, <1>4, SavedRestartStep
<1>5. CASE UNCHANGED vars
  BY <1>0, <1>5 DEF vars, Intact, Adding, Prefix, InSync, Reloads
<1> QED BY <1>1, <1>2, <1>3, <1>4, <1>5 DEF Next, Quiescent

LEMMA SavedAlways ==
    ASSUME ~Overlap
    PROVE  Spec => []SavedInv
BY ListsAlways, SavedInit, SavedNext, PTL DEF Spec

-----------------------------------------------------------------------------

\* What Sync wrote is the directory in memory whenever no handler runs, no crash
\* has torn the file and every name that came was one word, without a blank or a
\* comma: after any number of handlers, crashes between two Syncs and reloads,
\* ReadProfilesFromFile returned what Sync was called with.  The reload splits
\* other names (ProfileManager.cpp:52,64), and handlers that overlap mix lines.
THEOREM FilesMatch ==
    ASSUME ~Overlap
    PROVE  Spec => []FileMatches
<1>1. SavedInv => FileMatches
  <2> SUFFICES ASSUME SavedInv, up, exists, ~torn, ~Odd, \A t \in Threads : ~Running(t)
               PROVE  file = Saved(profiles)
    BY DEF FileMatches
  <2>1. \A t \in Threads : th[t].pc \in {"idle", "done"}
    BY DEF Running
  <2>2. Reloads /\ \A t \in Threads : th[t].pc # "open"
    BY <2>1 DEF SavedInv, Intact, InSync, SyncPC
  <2> QED BY <2>2 DEF Reloads
<1> QED BY <1>1, SavedAlways, PTL

\* A user has one profile, in memory and, unless a crash tore the file or a name
\* is no single word, after a reload: CONNECT's lookup and NewProfile
\* (ProfileManager.cpp) need no lock between them as long as handlers do not
\* overlap.  With overlap a second profile of the name is possible, as in Server.
THEOREM HandlesAreUnique ==
    ASSUME ~Overlap
    PROVE  Spec => []HandlesUnique
<1>1. SavedInv => HandlesUnique
  BY DEF SavedInv, Intact, OneEach, HandlesUnique
<1> QED BY <1>1, SavedAlways, PTL

\* A profile or a follower whose handler finished is in the directory of every
\* later process, unless a crash came in the middle of a Sync (Sync truncates
\* profiles.dat and writes it anew) or some name had a blank or a comma in it or
\* was empty (the reload splits it).
THEOREM ForgetsOnlyIfTorn ==
    ASSUME ~Overlap
    PROVE  Spec => []ForgottenOnlyIfTorn
<1>1. SavedInv => ForgottenOnlyIfTorn
  BY DEF SavedInv, Intact, ForgottenOnlyIfTorn, NothingForgotten
<1> QED BY <1>1, SavedAlways, PTL

=============================================================================
