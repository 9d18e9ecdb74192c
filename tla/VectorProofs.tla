---------------------------- MODULE VectorProofs ----------------------------
(***************************************************************************)
(* Lemmas about the operators on vectors that the other proofs share: the  *)
(* erasure of an element, assignment to an element, and the lookup of a    *)
(* profile by name.                                                        *)
(***************************************************************************)
EXTENDS ProfileManager, SessionManager, SequenceTheorems, FiniteSetTheorems,
        WellFoundedInduction, TLAPS

\* A non-empty set of positions has a least element.
LEMMA MinPosition ==
    ASSUME NEW I \in SUBSET Nat, I # {}
    PROVE  Min(I) \in I /\ \A y \in I : Min(I) <= y
<1> DEFINE Less == {ss \in Nat \X Nat : ss[1] < ss[2]}
<1>1. IsWellFoundedOn(Less, Nat)
  BY NatLessThanWellFounded, Zenon DEF OpToRel
<1> HIDE DEF Less
<1>2. PICK x \in I : \A y \in I : <<y, x>> \notin Less
  BY <1>1, WFMin, Zenon
<1>3. \A y \in I : x <= y
  <2> SUFFICES ASSUME NEW y \in I, ~(x <= y) PROVE FALSE
    OBVIOUS
  <2>1. x \in Nat /\ y \in Nat
    OBVIOUS
  <2>2. <<y, x>> \in Less
    BY <2>1 DEF Less
  <2> QED BY <1>2, <2>2
<1> QED BY <1>3 DEF Min

\* erase() on the first match: the elements behind it move up by one.
LEMMA RemoveFirstShape ==
    ASSUME NEW S, NEW s \in Seq(S), NEW e, Contains(s, e)
    PROVE  /\ RemoveFirst(s, e) \in Seq(S)
           /\ \E m \in 1 .. Len(s) :
                /\ s[m] = e
                /\ Len(RemoveFirst(s, e)) = Len(s) - 1
                /\ \A k \in 1 .. Len(s) - 1 :
                    RemoveFirst(s, e)[k] = IF k < m THEN s[k] ELSE s[k + 1]
<1> DEFINE I == {i \in 1 .. Len(s) : s[i] = e}
           m == SelectInSeq(s, LAMBDA v : v = e)
<1>0. \E i \in 1 .. Len(s) : s[i] = e
  BY DEF Contains
<1>1. m = Min(I)
  BY <1>0 DEF SelectInSeq
<1>2. m \in 1 .. Len(s) /\ s[m] = e
  <2>1. I \in SUBSET Nat /\ I # {}
    BY <1>0
  <2>2. Min(I) \in I
    BY <2>1, MinPosition, Zenon
  <2> QED BY <1>1, <2>2
<1>3. RemoveFirst(s, e) = RemoveAt(s, m)
  BY <1>0, Zenon DEF RemoveFirst, m
<1> HIDE DEF m
<1> DEFINE front == SubSeq(s, 1, m - 1)
           back  == SubSeq(s, m + 1, Len(s))
<1>4. /\ front \in Seq(S) /\ Len(front) = m - 1
      /\ \A k \in 1 .. m - 1 : front[k] = s[k]
  <2>1. \A i \in 1 .. m - 1 : s[i] \in S
    BY <1>2
  <2> QED BY <1>2, <2>1, SubSeqProperties
<1>5. /\ back \in Seq(S) /\ Len(back) = Len(s) - m
      /\ \A k \in 1 .. Len(s) - m : back[k] = s[m + k]
  <2>1. \A i \in m + 1 .. Len(s) : s[i] \in S
    BY <1>2
  <2>2. \A k \in 1 .. Len(s) - (m + 1) + 1 : back[k] = s[(m + 1) + k - 1]
    BY <1>2, <2>1, SubSeqProperties
  <2>3. back \in Seq(S) /\ Len(back) = Len(s) - m
    BY <1>2, <2>1, SubSeqProperties
  <2>4. \A k \in 1 .. Len(s) - m : (m + 1) + k - 1 = m + k
    BY <1>2
  <2> QED BY <1>2, <2>2, <2>3, <2>4
<1> HIDE DEF front, back
<1>6. RemoveFirst(s, e) = front \o back
  BY <1>3 DEF RemoveAt, front, back
<1>7. /\ RemoveFirst(s, e) \in Seq(S)
      /\ Len(RemoveFirst(s, e)) = Len(s) - 1
      /\ \A k \in 1 .. Len(s) - 1 :
            RemoveFirst(s, e)[k] = IF k <= m - 1 THEN front[k] ELSE back[k - (m - 1)]
  <2>1. /\ front \o back \in Seq(S)
        /\ Len(front \o back) = Len(front) + Len(back)
        /\ \A k \in 1 .. Len(front) + Len(back) :
            (front \o back)[k] = IF k <= Len(front) THEN front[k] ELSE back[k - Len(front)]
    BY <1>4, <1>5, ConcatProperties
  <2>2. Len(front) + Len(back) = Len(s) - 1
    BY <1>2, <1>4, <1>5
  <2> QED BY <1>4, <1>6, <2>1, <2>2
<1>8. \A k \in 1 .. Len(s) - 1 :
        RemoveFirst(s, e)[k] = IF k < m THEN s[k] ELSE s[k + 1]
  <2> SUFFICES ASSUME NEW k \in 1 .. Len(s) - 1
               PROVE  RemoveFirst(s, e)[k] = IF k < m THEN s[k] ELSE s[k + 1]
    OBVIOUS
  <2>1. CASE k < m
    BY <2>1, <1>2, <1>4, <1>7
  <2>2. CASE ~(k < m)
    <3>1. k - (m - 1) \in 1 .. Len(s) - m /\ m + (k - (m - 1)) = k + 1
      BY <2>2, <1>2
    <3>2. RemoveFirst(s, e)[k] = back[k - (m - 1)]
      BY <2>2, <1>2, <1>7
    <3> QED BY <2>2, <3>1, <3>2, <1>5
  <2> QED BY <2>1, <2>2
<1> QED BY <1>2, <1>7, <1>8

\* erase() adds nothing.
LEMMA RemoveFirstRange ==
    ASSUME NEW S, NEW s \in Seq(S), NEW e
    PROVE  Range(RemoveFirst(s, e)) \subseteq Range(s)
<1>1. CASE Contains(s, e)
  <2> DEFINE t == RemoveFirst(s, e)
  <2>1. PICK m \in 1 .. Len(s) :
            /\ s[m] = e
            /\ Len(t) = Len(s) - 1
            /\ \A k \in 1 .. Len(s) - 1 : t[k] = IF k < m THEN s[k] ELSE s[k + 1]
    BY <1>1, RemoveFirstShape
  <2>2. t \in Seq(S) /\ Len(s) \in Nat
    BY <1>1, RemoveFirstShape, LenProperties
  <2> HIDE DEF t
  <2>3. DOMAIN t = 1 .. Len(s) - 1 /\ DOMAIN s = 1 .. Len(s)
    BY <2>1, <2>2, LenProperties
  <2>4. \A k \in DOMAIN t : \E j \in DOMAIN s : t[k] = s[j]
    <3> SUFFICES ASSUME NEW k \in 1 .. Len(s) - 1
                 PROVE  \E j \in 1 .. Len(s) : t[k] = s[j]
      BY <2>3
    <3>1. k \in 1 .. Len(s) /\ k + 1 \in 1 .. Len(s)
      BY <2>2
    <3>2. t[k] = s[k] \/ t[k] = s[k + 1]
      BY <2>1
    <3> QED BY <3>1, <3>2
  <2>5. Range(t) \subseteq Range(s)
    BY <2>4 DEF Range
  <2> QED BY <2>5 DEF t
<1>2. CASE ~Contains(s, e)
  BY <1>2 DEF RemoveFirst, Contains
<1> QED BY <1>1, <1>2

\* erase() leaves a vector of sockets.
LEMMA RemoveFirstType ==
    ASSUME NEW S, NEW s \in Seq(S), NEW e
    PROVE  RemoveFirst(s, e) \in Seq(S)
<1>1. CASE Contains(s, e)
  BY <1>1, RemoveFirstShape
<1>2. CASE ~Contains(s, e)
  BY <1>2 DEF RemoveFirst, Contains
<1> QED BY <1>1, <1>2

\* Assigning to an element of a vector gives a vector.
LEMMA AssignType ==
    ASSUME NEW S, NEW s \in Seq(S), NEW i, NEW e, i \in 1 .. Len(s) => e \in S
    PROVE  [s EXCEPT ![i] = e] \in Seq(S)
<1>1. CASE i \in 1 .. Len(s)
  BY <1>1, ExceptSeq
<1>2. CASE i \notin 1 .. Len(s)
  <2>1. [s EXCEPT ![i] = e] = s
    BY <1>2, LenProperties
  <2> QED BY <2>1
<1> QED BY <1>1, <1>2

\* StartSession and EndSession keep a session map.
LEMMA SessionType ==
    ASSUME NEW S, NEW U, NEW ss \in [U -> Seq(S)], NEW u \in U, NEW x \in S
    PROVE  /\ StartSession(ss, u, x) \in [U -> Seq(S)]
           /\ EndSession(ss, u, x) \in [U -> Seq(S)]
BY RemoveFirstType DEF StartSession, EndSession

\* A lookup returns the first profile of that name, or 0 if there is none.
LEMMA Lookup ==
    ASSUME NEW S, NEW dir \in Seq(S), NEW handle
    PROVE  LET i == GetProfileByName(dir, handle) IN
           \/ i = 0 /\ \A k \in 1 .. Len(dir) : dir[k].handle # handle
           \/ /\ i \in 1 .. Len(dir) /\ dir[i].handle = handle
              /\ \A k \in 1 .. Len(dir) : dir[k].handle = handle => i <= k
<1> DEFINE I == {k \in 1 .. Len(dir) : dir[k].handle = handle}
<1>1. GetProfileByName(dir, handle) = IF I # {} THEN Min(I) ELSE 0
  BY DEF GetProfileByName, SelectInSeq
<1>2. CASE I = {}
  BY <1>1, <1>2
<1>3. CASE I # {}
  <2>1. I \in SUBSET Nat
    OBVIOUS
  <2>2. Min(I) \in I /\ \A y \in I : Min(I) <= y
    BY <1>3, <2>1, MinPosition, Zenon
  <2> QED BY <1>1, <1>3, <2>2
<1> QED BY <1>2, <1>3

\* What a lookup has found it finds ever after.
LEMMA LookupStays ==
    ASSUME NEW S, NEW T, NEW old \in Seq(S), NEW dir \in Seq(T), Extends(dir, old),
           NEW handle, GetProfileByName(old, handle) # 0
    PROVE  GetProfileByName(dir, handle) = GetProfileByName(old, handle)
<1> DEFINE i == GetProfileByName(old, handle)
           j == GetProfileByName(dir, handle)
<1>1. /\ i \in 1 .. Len(old) /\ old[i].handle = handle
      /\ \A k \in 1 .. Len(old) : old[k].handle = handle => i <= k
  BY Lookup
<1>2. \/ j = 0 /\ \A k \in 1 .. Len(dir) : dir[k].handle # handle
      \/ /\ j \in 1 .. Len(dir) /\ dir[j].handle = handle
         /\ \A k \in 1 .. Len(dir) : dir[k].handle = handle => j <= k
  BY Lookup
<1> HIDE DEF i, j
<1>3. i \in 1 .. Len(dir) /\ dir[i].handle = handle
  BY <1>1 DEF Extends
<1>4. j \in 1 .. Len(dir) /\ dir[j].handle = handle /\ j <= i
  BY <1>2, <1>3
<1>5. j \in 1 .. Len(old) /\ old[j].handle = handle
  BY <1>1, <1>4 DEF Extends
<1>6. i <= j
  BY <1>1, <1>5
<1> QED BY <1>1, <1>4, <1>6 DEF i, j

\* push_back adds one element, which may repeat an earlier one.
LEMMA AppendOnce ==
    ASSUME NEW S, NEW s \in Seq(S), NEW e \in S
    PROVE  /\ Range(Append(s, e)) = Range(s) \cup {e}
           /\ IsInjective(s) /\ e \notin Range(s) => IsInjective(Append(s, e))
<1> DEFINE t == Append(s, e)
<1>1. /\ Len(s) \in Nat /\ DOMAIN s = 1 .. Len(s) /\ DOMAIN t = 1 .. Len(s) + 1
      /\ t[Len(s) + 1] = e /\ \A k \in 1 .. Len(s) : t[k] = s[k]
  BY AppendProperties, LenProperties
<1> HIDE DEF t
<1>2. Range(t) = Range(s) \cup {e}
  BY <1>1 DEF Range
<1>3. ASSUME IsInjective(s), e \notin Range(s)
      PROVE  IsInjective(t)
  <2> SUFFICES ASSUME NEW a \in 1 .. Len(s) + 1, NEW b \in 1 .. Len(s) + 1, t[a] = t[b]
               PROVE  a = b
    BY <1>1 DEF IsInjective
  <2>1. \A k \in 1 .. Len(s) : s[k] # e
    BY <1>1, <1>3 DEF Range
  <2>2. CASE a \in 1 .. Len(s) /\ b \in 1 .. Len(s)
    BY <1>1, <1>3, <2>2 DEF IsInjective
  <2>3. CASE a \notin 1 .. Len(s)
    <3>1. a = Len(s) + 1
      BY <1>1, <2>3
    <3> QED BY <1>1, <2>1, <3>1
  <2>4. CASE b \notin 1 .. Len(s)
    <3>1. b = Len(s) + 1
      BY <1>1, <2>4
    <3> QED BY <1>1, <2>1, <3>1
  <2> QED BY <2>2, <2>3, <2>4
<1> QED BY <1>2, <1>3 DEF t

\* pop() takes the first element away.
LEMMA TailOnce ==
    ASSUME NEW S, NEW s \in Seq(S), s # <<>>
    PROVE  /\ Range(s) = {Head(s)} \cup Range(Tail(s))
           /\ IsInjective(s) => IsInjective(Tail(s)) /\ Head(s) \notin Range(Tail(s))
<1> DEFINE t == Tail(s)
<1>1. /\ Len(s) \in Nat \ {0} /\ DOMAIN s = 1 .. Len(s) /\ DOMAIN t = 1 .. Len(s) - 1
      /\ Head(s) = s[1] /\ \A k \in 1 .. Len(s) - 1 : t[k] = s[k + 1]
  BY HeadTailProperties, LenProperties, EmptySeq
<1> HIDE DEF t
<1>2. Range(s) = {s[1]} \cup Range(t)
  <2>1. \A k \in 1 .. Len(s) : k = 1 \/ (k - 1 \in 1 .. Len(s) - 1 /\ t[k - 1] = s[k])
    <3> TAKE k \in 1 .. Len(s)
    <3>1. k # 1 => k - 1 \in 1 .. Len(s) - 1 /\ (k - 1) + 1 = k
      BY <1>1
    <3> QED BY <1>1, <3>1
  <2>2. \A k \in 1 .. Len(s) - 1 : k + 1 \in 1 .. Len(s)
    BY <1>1
  <2>3. 1 \in 1 .. Len(s)
    BY <1>1
  <2>4. Range(s) \subseteq {s[1]} \cup Range(t)
    BY <1>1, <2>1 DEF Range
  <2>5. {s[1]} \cup Range(t) \subseteq Range(s)
    BY <1>1, <2>2, <2>3 DEF Range
  <2> QED BY <2>4, <2>5
<1>3. ASSUME IsInjective(s)
      PROVE  IsInjective(t) /\ s[1] \notin Range(t)
  <2>1. \A a, b \in 1 .. Len(s) : s[a] = s[b] => a = b
    BY <1>1, <1>3 DEF IsInjective
  <2>2. \A a, b \in 1 .. Len(s) - 1 : t[a] = t[b] => a = b
    <3> TAKE a, b \in 1 .. Len(s) - 1
    <3>1. a + 1 \in 1 .. Len(s) /\ b + 1 \in 1 .. Len(s)
      BY <1>1
    <3>2. a + 1 = b + 1 => a = b
      BY <1>1
    <3> QED BY <1>1, <2>1, <3>1, <3>2
  <2>3. \A a \in 1 .. Len(s) - 1 : t[a] # s[1]
    <3> TAKE a \in 1 .. Len(s) - 1
    <3>1. a + 1 \in 1 .. Len(s) /\ 1 \in 1 .. Len(s) /\ a + 1 # 1
      BY <1>1
    <3> QED BY <1>1, <2>1, <3>1
  <2> QED BY <1>1, <2>2, <2>3 DEF IsInjective, Range
<1> QED BY <1>1, <1>2, <1>3 DEF t

\* An element that is not in a vector may overwrite one that is.
LEMMA AssignOnce ==
    ASSUME NEW S, NEW s \in Seq(S), NEW i, NEW e \in S, IsInjective(s), e \notin Range(s)
    PROVE  IsInjective([s EXCEPT ![i] = e])
<1>1. \A k \in DOMAIN s : s[k] # e
  BY DEF Range
<1>2. \A a, b \in DOMAIN s : s[a] = s[b] => a = b
  BY DEF IsInjective
<1> QED BY <1>1, <1>2 DEF IsInjective

\* erase() does not make elements equal.
LEMMA RemoveFirstOnce ==
    ASSUME NEW S, NEW s \in Seq(S), NEW e, IsInjective(s)
    PROVE  IsInjective(RemoveFirst(s, e))
<1>1. CASE Contains(s, e)
  <2> DEFINE t == RemoveFirst(s, e)
  <2>1. PICK m \in 1 .. Len(s) :
            /\ s[m] = e
            /\ Len(t) = Len(s) - 1
            /\ \A k \in 1 .. Len(s) - 1 : t[k] = IF k < m THEN s[k] ELSE s[k + 1]
    BY <1>1, RemoveFirstShape
  <2>2. t \in Seq(S) /\ Len(s) \in Nat
    BY <1>1, RemoveFirstShape, LenProperties
  <2> HIDE DEF t
  <2>3. DOMAIN t = 1 .. Len(s) - 1 /\ DOMAIN s = 1 .. Len(s)
    BY <2>1, <2>2, LenProperties
  <2>4. \A a, b \in 1 .. Len(s) : s[a] = s[b] => a = b
    BY <2>3 DEF IsInjective
  <2>5. \A a, b \in 1 .. Len(s) - 1 : t[a] = t[b] => a = b
    <3> TAKE a, b \in 1 .. Len(s) - 1
    <3>1. /\ a \in 1 .. Len(s) /\ b \in 1 .. Len(s)
          /\ a + 1 \in 1 .. Len(s) /\ b + 1 \in 1 .. Len(s)
      BY <2>2
    <3>2. CASE a < m /\ b < m
      BY <2>1, <2>4, <3>1, <3>2
    <3>3. CASE a < m /\ ~(b < m)
      <4>1. a # b + 1 /\ t[a] = s[a] /\ t[b] = s[b + 1]
        BY <2>1, <2>2, <3>3
      <4> QED BY <2>4, <3>1, <4>1
    <3>4. CASE ~(a < m) /\ b < m
      <4>1. b # a + 1 /\ t[b] = s[b] /\ t[a] = s[a + 1]
        BY <2>1, <2>2, <3>4
      <4> QED BY <2>4, <3>1, <4>1
    <3>5. CASE ~(a < m) /\ ~(b < m)
      <4>1. t[a] = s[a + 1] /\ t[b] = s[b + 1]
        BY <2>1, <3>5
      <4>2. a + 1 = b + 1 => a = b
        BY <2>2
      <4> QED BY <2>4, <3>1, <4>1, <4>2
    <3> QED BY <3>2, <3>3, <3>4, <3>5
  <2>6. IsInjective(t)
    BY <2>3, <2>5 DEF IsInjective
  <2> QED BY <2>6 DEF t
<1>2. CASE ~Contains(s, e)
  BY <1>2 DEF RemoveFirst, Contains
<1> QED BY <1>1, <1>2

\* A property that holds at 1 and carries over to the next number holds up to n.
\* (A set of numbers stands for the property.)
LEMMA UpTo ==
    ASSUME NEW n \in Nat, NEW P \in SUBSET Nat, n > 0 => 1 \in P,
           \A k \in 1 .. n - 1 : k \in P => k + 1 \in P
    PROVE  1 .. n \subseteq P
<1> SUFFICES ASSUME ~(1 .. n \subseteq P) PROVE FALSE
  OBVIOUS
<1> DEFINE I == (1 .. n) \ P
<1>1. I \in SUBSET Nat /\ I # {}
  OBVIOUS
<1>2. PICK m : m = Min(I)
  OBVIOUS
<1>3. m \in I /\ \A y \in I : m <= y
  BY <1>1, <1>2, MinPosition, Zenon
<1>4. m \in 1 .. n /\ m \notin P
  BY <1>3
<1>5. m # 1
  BY <1>4
<1>6. PICK k : k = m - 1
  OBVIOUS
<1>7. k \in 1 .. n - 1 /\ m = k + 1 /\ k \in 1 .. n /\ ~(m <= k)
  BY <1>4, <1>5, <1>6
<1>8. k \in P
  BY <1>3, <1>7
<1> QED BY <1>4, <1>7, <1>8

\* Concatenating vectors one after the other: there are vectors f[1] to f[n], each
\* the one before it and one more part, and the last is the result.
LEMMA Flatten ==
    ASSUME NEW parts, NEW n \in Nat \ {0}, Len(parts) = n
    PROVE  \E f : /\ f = [i \in 1 .. n |-> IF i = 1 THEN parts[i] ELSE f[i - 1] \o parts[i]]
                  /\ FlattenSeq(parts) = f[n]
<1> DEFINE IsFlatten(f, m) ==
        f = [i \in 1 .. m |-> IF i = 1 THEN parts[i] ELSE f[i - 1] \o parts[i]]
           P == {m \in Nat : \E f : IsFlatten(f, m)}
<1>1. 1 \in P
  <2>1. PICK f : f = [i \in 1 .. 1 |-> parts[i]]
    OBVIOUS
  <2>2. IsFlatten(f, 1)
    BY <2>1
  <2> QED BY <2>2
<1>2. ASSUME NEW k \in 1 .. n - 1, k \in P
      PROVE  k + 1 \in P
  <2>0. k \in Nat /\ k >= 1
    OBVIOUS
  <2>1. PICK f : IsFlatten(f, k)
    BY <1>2
  <2>2. PICK g : g = [i \in 1 .. k + 1 |-> IF i <= k THEN f[i] ELSE f[k] \o parts[k + 1]]
    OBVIOUS
  <2>3. ASSUME NEW i \in 1 .. k + 1
        PROVE  g[i] = IF i = 1 THEN parts[i] ELSE g[i - 1] \o parts[i]
    <3>1. CASE i = 1
      BY <2>0, <2>1, <2>2, <3>1
    <3>2. CASE i # 1 /\ i <= k
      <4>1. i \in 1 .. k /\ i - 1 \in 1 .. k + 1 /\ i - 1 <= k
        BY <2>0, <3>2
      <4>2. g[i] = f[i] /\ g[i - 1] = f[i - 1]
        BY <2>2, <3>2, <4>1
      <4>3. f[i] = f[i - 1] \o parts[i]
        BY <2>1, <3>2, <4>1
      <4> QED BY <3>2, <4>2, <4>3
    <3>3. CASE i # 1 /\ ~(i <= k)
      <4>1. i = k + 1 /\ i - 1 = k /\ k \in 1 .. k + 1 /\ k <= k
            /\ k + 1 \in 1 .. k + 1 /\ ~(k + 1 <= k)
        BY <2>0, <3>3
      <4>2. g[k] = f[k]
        BY <2>2, <4>1
      <4>3. g[k + 1] = f[k] \o parts[k + 1]
        BY <2>2, <4>1
      <4> QED BY <3>3, <4>1, <4>2, <4>3
    <3> QED BY <3>1, <3>2, <3>3
  <2>4. IsFlatten(g, k + 1)
    <3>1. g = [i \in 1 .. k + 1 |-> g[i]]
      BY <2>2
    <3>2. [i \in 1 .. k + 1 |-> g[i]]
            = [i \in 1 .. k + 1 |-> IF i = 1 THEN parts[i] ELSE g[i - 1] \o parts[i]]
      BY <2>3
    <3> QED BY <3>1, <3>2
  <2>5. \E h : IsFlatten(h, k + 1)
    BY <2>4
  <2> HIDE DEF IsFlatten
  <2>6. k + 1 \in Nat
    BY <2>0
  <2> QED BY <2>5, <2>6
<1>3. n \in P
  <2>1. P \in SUBSET Nat
    OBVIOUS
  <2> HIDE DEF P
  <2>2. 1 .. n \subseteq P
    BY <1>1, <1>2, <2>1, UpTo
  <2> QED BY <2>2
<1>4. PICK f : f = CHOOSE h : IsFlatten(h, n)
  OBVIOUS
<1>5. IsFlatten(f, n)
  <2>1. \E h : IsFlatten(h, n)
    BY <1>3
  <2> HIDE DEF IsFlatten, P
  <2> QED BY <1>4, <2>1
<1>6. FlattenSeq(parts) = f[n]
  BY <1>4 DEF FlattenSeq
<1> QED BY <1>5, <1>6

=============================================================================
