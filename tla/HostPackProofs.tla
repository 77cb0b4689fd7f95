--------------------------- MODULE HostPackProofs ---------------------------
(***************************************************************************)
(* Every step of HostPack keeps the invariant of HostPackInvariant, and    *)
(* with it the safety properties of HostPack hold in every history, for    *)
(* every pack, every number of releases and every mishap.                  *)
(***************************************************************************)
EXTENDS HostPackInvariant, SequenceTheorems, FiniteSetTheorems, WellFoundedInduction, TLAPS

-----------------------------------------------------------------------------
(* Sequences selected from the manifest *)

\* Every nonempty set of naturals has a least element.
LEMMA Least == ASSUME NEW S \in SUBSET Nat, S # {} PROVE \E n \in S : \A m \in S : n <= m
<1> DEFINE T == {1 .. n : n \in S}
<1>1. IsWellFoundedOn(StrictSubsetOrdering(Nat), FiniteSubsetsOf(Nat))
  BY FS_StrictSubsetOrderingWellFounded
<1>2. T \subseteq FiniteSubsetsOf(Nat)
  <2> SUFFICES ASSUME NEW n \in S PROVE 1 .. n \in FiniteSubsetsOf(Nat)
    OBVIOUS
  <2>1. IsFiniteSet(1 .. n)
    BY FS_Interval
  <2> QED BY <2>1 DEF FiniteSubsetsOf
<1>3. PICK t \in T : \A u \in T : <<u, t>> \notin StrictSubsetOrdering(Nat)
  <2> HIDE DEF T
  <2>1. T # {}
    BY DEF T
  <2> QED BY <1>1, <1>2, <2>1, WFMin
<1>4. PICK n \in S : t = 1 .. n
  OBVIOUS
<1>5. ASSUME NEW m \in S PROVE n <= m
  <2>1. SUFFICES ASSUME m < n PROVE FALSE
    OBVIOUS
  <2>2. 1 .. m \in SUBSET Nat /\ 1 .. n \in SUBSET Nat /\ 1 .. m \subseteq 1 .. n /\ 1 .. m # 1 .. n
    <3>1. n \in 1 .. n /\ n \notin 1 .. m
      BY <2>1
    <3> QED BY <2>1, <3>1
  <2>3. <<1 .. m, 1 .. n>> \in StrictSubsetOrdering(Nat)
    BY <2>2, Zenon DEF StrictSubsetOrdering
  <2> QED BY <1>3, <1>4, <2>3
<1> QED BY <1>5

\* A set of naturals that holds 0, and with each number the next, holds them all.
LEMMA Induct ==
  ASSUME NEW S \in SUBSET Nat, 0 \in S, \A n \in S : n + 1 \in S
  PROVE  S = Nat
<1> SUFFICES ASSUME Nat \ S # {} PROVE FALSE
  OBVIOUS
<1>1. PICK n \in Nat \ S : \A m \in Nat \ S : n <= m
  BY Least
<1>2. n # 0 /\ n - 1 \in Nat
  BY <1>1
<1>3. n - 1 \in S
  BY <1>1, <1>2
<1>4. n - 1 + 1 \in S
  BY <1>3
<1> QED BY <1>1, <1>4
\* The function behind InOrder, up to n, is the one its recursion describes.
SelectsUpTo(order, f, some, n) ==
  f = [k \in 0 .. n |-> IF k = 0 THEN <<>> ELSE IF order[k] \in some THEN Append(f[k - 1], order[k]) ELSE f[k - 1]]

\* Each of the two orders has every file, once.
LEMMA Orders ==
  ASSUME NEW order \in {Dests, Sorted}
  PROVE  /\ order \in Seq(Files) /\ Range(order) = Files
         /\ Len(order) \in Nat /\ DOMAIN order = 1 .. Len(order)
         /\ \A i, j \in DOMAIN order : order[i] = order[j] => i = j
<1>1. order \in Seq(Files) /\ \A i, j \in DOMAIN order : order[i] = order[j] => i = j
  BY DestsAssumption
<1>2. Range(order) = Files
  BY DestsAssumption DEF Files
<1>3. Len(order) \in Nat /\ DOMAIN order = 1 .. Len(order)
  BY <1>1
<1> QED BY <1>1, <1>2, <1>3

\* The recursion of InOrder has a solution.
LEMMA SelectExists ==
  ASSUME NEW order, NEW some
  PROVE  \A n \in Nat : \E f : SelectsUpTo(order, f, some, n)
<1> DEFINE S == {n \in Nat : \E f : SelectsUpTo(order, f, some, n)}
<1>1. 0 \in S
  <2>1. SelectsUpTo(order, [n \in 0 .. 0 |-> <<>>], some, 0)
    BY DEF SelectsUpTo
  <2> QED BY <2>1
<1>2. ASSUME NEW N \in S PROVE N + 1 \in S
  <2>1. PICK f : SelectsUpTo(order, f, some, N)
    OBVIOUS
  <2> DEFINE last == IF order[N + 1] \in some THEN Append(f[N], order[N + 1]) ELSE f[N]
             g == [n \in 0 .. N + 1 |-> IF n <= N THEN f[n] ELSE last]
  <2>2. N \in Nat /\ N + 1 \in Nat
    OBVIOUS
  <2>3. \A n \in 0 .. N : g[n] = f[n]
    BY <2>2
  <2>4. g[N + 1] = last
    BY <2>2
  <2>5. ASSUME NEW n \in 0 .. N + 1
        PROVE  g[n] = IF n = 0 THEN <<>> ELSE IF order[n] \in some THEN Append(g[n - 1], order[n]) ELSE g[n - 1]
    <3> HIDE DEF g, last
    <3>1. CASE n = 0
      <4>1. f[0] = <<>>
        BY <2>1, <2>2 DEF SelectsUpTo
      <4> QED BY <2>2, <2>3, <3>1, <4>1
    <3>2. CASE n \in 1 .. N
      <4>1. n \in 0 .. N /\ n - 1 \in 0 .. N /\ n # 0
        BY <2>2, <3>2
      <4>2. f[n] = IF order[n] \in some THEN Append(f[n - 1], order[n]) ELSE f[n - 1]
        BY <2>1, <4>1 DEF SelectsUpTo
      <4>3. g[n] = f[n] /\ g[n - 1] = f[n - 1]
        BY <2>3, <4>1
      <4> QED BY <4>1, <4>2, <4>3
    <3>3. CASE n = N + 1
      <4>1. n # 0 /\ n - 1 = N /\ N \in 0 .. N
        BY <2>2, <3>3
      <4>2. g[n - 1] = f[N]
        BY <2>3, <4>1
      <4> QED BY <2>4, <3>3, <4>1, <4>2 DEF last
    <3> QED BY <2>2, <3>1, <3>2, <3>3
  <2>6. g = [n \in 0 .. N + 1 |-> g[n]]
    OBVIOUS
  <2> HIDE DEF g
  <2>7. SelectsUpTo(order, g, some, N + 1)
    BY <2>5, <2>6 DEF SelectsUpTo
  <2> QED BY <2>2, <2>7
<1> HIDE DEF S
<1>3. S \in SUBSET Nat
  BY DEF S
<1>4. S = Nat
  BY <1>1, <1>2, <1>3, Induct
<1> QED BY <1>4 DEF S

\* A sequence has the first n destinations that are among some, each once.
Selected(order, s, some, n) ==
  /\ s \in Seq(some)
  /\ \A k \in 1 .. n : order[k] \in some => \E i \in 1 .. Len(s) : s[i] = order[k]
  /\ \A i \in 1 .. Len(s) : \E k \in 1 .. n : s[i] = order[k]
  /\ \A i, j \in 1 .. Len(s) : s[i] = s[j] => i = j

\* One destination more.
LEMMA SelectNext ==
  ASSUME NEW order \in {Dests, Sorted}, NEW some, NEW n \in Nat, n + 1 \in 1 .. Len(order), NEW s, Selected(order, s, some, n)
  PROVE  Selected(order, IF order[n + 1] \in some THEN Append(s, order[n + 1]) ELSE s, some, n + 1)
<1> DEFINE d == order[n + 1]
           t == Append(s, d)
<1>1. s \in Seq(some) /\ Len(s) \in Nat
  BY DEF Selected
<1>2. \A k \in 1 .. n + 1 : k \in 1 .. n \/ k = n + 1
  OBVIOUS
<1>3. \A k \in 1 .. n : k \in 1 .. n + 1 /\ order[k] # d
  <2>1. Len(order) \in Nat /\ DOMAIN order = 1 .. Len(order)
    BY Orders
  <2>2. ASSUME NEW k \in 1 .. n PROVE k \in DOMAIN order /\ n + 1 \in DOMAIN order /\ k # n + 1 /\ k \in 1 .. n + 1
    BY <2>1
  <2> QED BY <2>2, Orders
<1>4. n + 1 \in 1 .. n + 1
  OBVIOUS
<1> HIDE DEF d
<1>5. CASE d \notin some
  <2>1. Selected(order, s, some, n + 1)
    BY <1>1, <1>2, <1>3, <1>5 DEF Selected, d
  <2> QED BY <1>5, <2>1 DEF d
<1>6. CASE d \in some
  <2>1. /\ t \in Seq(some) /\ Len(t) = Len(s) + 1 /\ t[Len(s) + 1] = d
        /\ \A i \in 1 .. Len(s) : t[i] = s[i] /\ i \in 1 .. Len(t)
        /\ Len(s) + 1 \in 1 .. Len(t)
        /\ \A i \in 1 .. Len(t) : i \in 1 .. Len(s) \/ i = Len(s) + 1
    BY <1>1, <1>6
  <2> HIDE DEF t
  <2>2. \A i \in 1 .. Len(s) : s[i] # d
    BY <1>3 DEF Selected
  <2>3. ASSUME NEW k \in 1 .. n + 1, order[k] \in some PROVE \E i \in 1 .. Len(t) : t[i] = order[k]
    <3>1. CASE k \in 1 .. n
      <4>1. PICK i \in 1 .. Len(s) : s[i] = order[k]
        BY <2>3, <3>1 DEF Selected
      <4> QED BY <2>1, <4>1
    <3>2. CASE k = n + 1
      BY <2>1, <3>2 DEF d
    <3> QED BY <1>2, <3>1, <3>2
  <2>4. ASSUME NEW i \in 1 .. Len(t) PROVE \E k \in 1 .. n + 1 : t[i] = order[k]
    <3>1. CASE i \in 1 .. Len(s)
      <4>1. PICK k \in 1 .. n : s[i] = order[k]
        BY <3>1 DEF Selected
      <4> QED BY <1>3, <2>1, <3>1, <4>1
    <3>2. CASE i = Len(s) + 1
      BY <1>4, <2>1, <3>2 DEF d
    <3> QED BY <2>1, <3>1, <3>2
  <2>5. ASSUME NEW i \in 1 .. Len(t), NEW j \in 1 .. Len(t), t[i] = t[j] PROVE i = j
    <3>1. CASE i \in 1 .. Len(s) /\ j \in 1 .. Len(s)
      <4>1. s[i] = s[j]
        BY <2>1, <2>5, <3>1
      <4> QED BY <3>1, <4>1 DEF Selected
    <3>2. CASE i \in 1 .. Len(s) /\ j = Len(s) + 1
      BY <2>1, <2>2, <2>5, <3>2
    <3>3. CASE i = Len(s) + 1 /\ j \in 1 .. Len(s)
      BY <2>1, <2>2, <2>5, <3>3
    <3> QED BY <2>1, <3>1, <3>2, <3>3
  <2>6. Selected(order, t, some, n + 1)
    BY <2>1, <2>3, <2>4, <2>5 DEF Selected
  <2> QED BY <1>6, <2>6 DEF d, t
<1> QED BY <1>5, <1>6

\* The destinations among some, in their order, each once.
LEMMA InOrderSelects ==
  ASSUME NEW order \in {Dests, Sorted}, NEW some \in SUBSET Files
  PROVE  /\ InOrder(order, some) \in Seq(some) /\ Range(InOrder(order, some)) = some
         /\ \A i, j \in DOMAIN InOrder(order, some) : InOrder(order, some)[i] = InOrder(order, some)[j] => i = j
<1>1. Len(order) \in Nat /\ DOMAIN order = 1 .. Len(order)
  BY Orders
<1>2. \A d \in Files : \E k \in 1 .. Len(order) : d = order[k]
  BY <1>1, Orders DEF Range
<1>3. PICK f : SelectsUpTo(order, f, some, Len(order)) /\ InOrder(order, some) = f[Len(order)]
  <2> DEFINE F == CHOOSE f : SelectsUpTo(order, f, some, Len(order))
  <2>1. SelectsUpTo(order, F, some, Len(order))
    <3>1. \E f : SelectsUpTo(order, f, some, Len(order))
      BY <1>1, SelectExists
    <3> QED BY <3>1, Zenon
  <2>2. InOrder(order, some) = F[Len(order)]
    BY DEF InOrder, SelectsUpTo
  <2> HIDE DEF F
  <2> QED BY <2>1, <2>2
<1>4. f[0] = <<>>
  BY <1>1, <1>3 DEF SelectsUpTo
<1>5. ASSUME NEW n \in 1 .. Len(order)
      PROVE  f[n] = IF order[n] \in some THEN Append(f[n - 1], order[n]) ELSE f[n - 1]
  <2>1. n \in 0 .. Len(order) /\ n # 0
    BY <1>1
  <2> QED BY <1>3, <2>1 DEF SelectsUpTo
<1> DEFINE G == {n \in Nat : n <= Len(order) => Selected(order, f[n], some, n)}
<1>6. 0 \in G
  <2>1. Selected(order, <<>>, some, 0)
    BY DEF Selected
  <2> QED BY <1>4, <2>1
<1>7. ASSUME NEW n \in G PROVE n + 1 \in G
  <2>1. n \in Nat /\ (n <= Len(order) => Selected(order, f[n], some, n))
    OBVIOUS
  <2>2. CASE n + 1 <= Len(order)
    <3>1. n + 1 \in 1 .. Len(order) /\ n <= Len(order) /\ n + 1 - 1 = n
      BY <1>1, <2>1, <2>2
    <3>2. Selected(order, IF order[n + 1] \in some THEN Append(f[n], order[n + 1]) ELSE f[n], some, n + 1)
      BY <2>1, <3>1, SelectNext
    <3>3. f[n + 1] = IF order[n + 1] \in some THEN Append(f[n], order[n + 1]) ELSE f[n]
      BY <1>5, <3>1
    <3>4. Selected(order, f[n + 1], some, n + 1)
      BY <3>2, <3>3, Zenon
    <3> QED BY <2>1, <3>4
  <2>3. CASE ~(n + 1 <= Len(order))
    BY <2>1, <2>3
  <2> QED BY <2>2, <2>3
<1> HIDE DEF G
<1>8. G = Nat
  <2>1. G \in SUBSET Nat
    BY DEF G
  <2> QED BY <1>6, <1>7, <2>1, Induct
<1>9. Selected(order, f[Len(order)], some, Len(order))
  <2>1. Len(order) \in G
    BY <1>1, <1>8
  <2> QED BY <1>1, <2>1 DEF G
<1> DEFINE s == InOrder(order, some)
<1>10. Selected(order, s, some, Len(order))
  BY <1>3, <1>9
<1> HIDE DEF s
<1>11. s \in Seq(some) /\ DOMAIN s = 1 .. Len(s)
  BY <1>10 DEF Selected
<1>12. \A d \in some : \E i \in 1 .. Len(s) : s[i] = d
  BY <1>2, <1>10 DEF Selected
<1>13. \A i \in 1 .. Len(s) : s[i] \in some
  BY <1>11
<1>14. Range(s) = some
  BY <1>11, <1>12, <1>13 DEF Range
<1> QED BY <1>10, <1>11, <1>14 DEF Selected, s
-----------------------------------------------------------------------------
(* Sequences of writes *)

\* The first of a sequence, and the others.
LEMMA PopRange ==
  ASSUME NEW W, NEW s \in Seq(W), s # <<>>
  PROVE  /\ Head(s) \in W /\ Tail(s) \in Seq(W) /\ Len(s) \in Nat \ {0} /\ Len(Tail(s)) = Len(s) - 1
         /\ DOMAIN s = 1 .. Len(s) /\ DOMAIN Tail(s) = 1 .. Len(s) - 1
         /\ Head(s) = s[1] /\ \A i \in 1 .. Len(s) - 1 : Tail(s)[i] = s[i + 1]
         /\ Range(s) = {Head(s)} \cup Range(Tail(s))
<1>1. Len(s) \in Nat \ {0} /\ DOMAIN s = 1 .. Len(s) /\ Head(s) = s[1] /\ Head(s) \in W
  BY EmptySeq, LenProperties
<1>2. Tail(s) \in Seq(W) /\ Len(Tail(s)) = Len(s) - 1
  BY <1>1
<1>3. DOMAIN Tail(s) = 1 .. Len(s) - 1
  BY <1>2, LenProperties
<1>4. \A i \in 1 .. Len(s) - 1 : Tail(s)[i] = s[i + 1]
  BY <1>1, <1>2
<1>5. ASSUME NEW x \in Range(s) PROVE x \in {Head(s)} \cup Range(Tail(s))
  <2>1. PICK i \in 1 .. Len(s) : x = s[i]
    BY <1>1 DEF Range
  <2>2. CASE i = 1
    BY <1>1, <2>1, <2>2
  <2>3. CASE i # 1
    <3>1. i - 1 \in 1 .. Len(s) - 1 /\ i - 1 + 1 = i
      BY <1>1, <2>3
    <3>2. x = Tail(s)[i - 1]
      BY <1>4, <2>1, <3>1
    <3> QED BY <1>3, <3>1, <3>2 DEF Range
  <2> QED BY <2>2, <2>3
<1>6. ASSUME NEW x \in Range(Tail(s)) PROVE x \in Range(s)
  <2>1. PICK i \in 1 .. Len(s) - 1 : x = Tail(s)[i]
    BY <1>3 DEF Range
  <2>2. i + 1 \in 1 .. Len(s) /\ x = s[i + 1]
    BY <1>1, <1>4, <2>1
  <2> QED BY <1>1, <2>2 DEF Range
<1>7. Head(s) \in Range(s)
  BY <1>1 DEF Range
<1> QED BY <1>1, <1>2, <1>3, <1>4, <1>5, <1>6, <1>7

\* What is left is as distinct, and as ordered, as it was.
LEMMA PopDistinct ==
  ASSUME NEW W, NEW s \in Seq(W), s # <<>>, Distinct(s)
  PROVE  Distinct(Tail(s)) /\ Pending(s) = {Head(s).path} \cup Pending(Tail(s)) /\ Head(s).path \notin Pending(Tail(s))
<1>1. \A i \in 1 .. Len(s) - 1 : i + 1 \in DOMAIN s /\ 1 \in DOMAIN s /\ i + 1 # 1 /\ Tail(s)[i] = s[i + 1]
  BY PopRange
<1>2. DOMAIN Tail(s) = 1 .. Len(s) - 1 /\ Head(s) = s[1] /\ Len(s) \in Nat
  BY PopRange
<1>3. ASSUME NEW i \in DOMAIN Tail(s), NEW j \in DOMAIN Tail(s), Tail(s)[i].path = Tail(s)[j].path PROVE i = j
  <2>1. i \in 1 .. Len(s) - 1 /\ j \in 1 .. Len(s) - 1
    BY <1>2
  <2>2. i + 1 \in DOMAIN s /\ j + 1 \in DOMAIN s /\ s[i + 1].path = s[j + 1].path
    BY <1>1, <1>3, <2>1
  <2>3. i + 1 = j + 1
    BY <2>2 DEF Distinct
  <2> QED BY <1>2, <2>1, <2>3
<1>4. Head(s).path \notin Pending(Tail(s))
  <2> SUFFICES ASSUME NEW i \in DOMAIN Tail(s), Tail(s)[i].path = Head(s).path PROVE FALSE
    BY DEF Pending, Range
  <2>1. i + 1 \in DOMAIN s /\ 1 \in DOMAIN s /\ i + 1 # 1 /\ s[i + 1].path = s[1].path
    BY <1>1, <1>2
  <2> QED BY <2>1 DEF Distinct
<1>5. Pending(s) = {Head(s).path} \cup Pending(Tail(s))
  BY PopRange DEF Pending
<1>6. Distinct(Tail(s))
  BY <1>3 DEF Distinct
<1> QED BY <1>4, <1>5, <1>6

\* Once a path goes last, only such paths are left.
LEMMA PopLast ==
  ASSUME NEW W, NEW s \in Seq(W), s # <<>>, NEW some, GoLast(s, some)
  PROVE  GoLast(Tail(s), some) /\ (Head(s).path \in some => Pending(Tail(s)) \subseteq some)
<1>1. \A i \in 1 .. Len(s) - 1 : i + 1 \in DOMAIN s /\ 1 \in DOMAIN s /\ 1 <= i + 1 /\ Tail(s)[i] = s[i + 1]
  BY PopRange
<1>2. DOMAIN Tail(s) = 1 .. Len(s) - 1 /\ Head(s) = s[1] /\ Len(s) \in Nat
  BY PopRange
<1>3. ASSUME NEW i \in DOMAIN Tail(s), NEW j \in DOMAIN Tail(s), i <= j, Tail(s)[i].path \in some
      PROVE  Tail(s)[j].path \in some
  <2>1. i \in 1 .. Len(s) - 1 /\ j \in 1 .. Len(s) - 1
    BY <1>2
  <2>2. i + 1 \in DOMAIN s /\ j + 1 \in DOMAIN s /\ s[i + 1].path \in some /\ i + 1 <= j + 1
    BY <1>1, <1>2, <1>3, <2>1
  <2>3. s[j + 1].path \in some
    BY <2>2 DEF GoLast
  <2> QED BY <1>1, <2>1, <2>3
<1>4. ASSUME Head(s).path \in some, NEW i \in DOMAIN Tail(s) PROVE Tail(s)[i].path \in some
  <2>1. i \in 1 .. Len(s) - 1
    BY <1>2
  <2>2. i + 1 \in DOMAIN s /\ 1 \in DOMAIN s /\ 1 <= i + 1 /\ s[1].path \in some
    BY <1>1, <1>2, <1>4, <2>1
  <2>3. s[i + 1].path \in some
    BY <2>2 DEF GoLast
  <2> QED BY <1>1, <2>1, <2>3
<1>5. GoLast(Tail(s), some)
  BY <1>3 DEF GoLast
<1> QED BY <1>4, <1>5 DEF Pending, Range

\* One more in front.
LEMMA PushRange ==
  ASSUME NEW W, NEW s \in Seq(W), NEW w \in W
  PROVE  /\ <<w>> \o s \in Seq(W) /\ Range(<<w>> \o s) = {w} \cup Range(s)
         /\ Pending(<<w>> \o s) = {w.path} \cup Pending(s)
         /\ Distinct(s) /\ w.path \notin Pending(s) => Distinct(<<w>> \o s)
<1> DEFINE t == <<w>> \o s
<1>1. t \in Seq(W) /\ Len(t) = Len(s) + 1 /\ t[1] = w /\ Len(s) \in Nat /\ DOMAIN s = 1 .. Len(s)
  OBVIOUS
<1>2. DOMAIN t = 1 .. Len(s) + 1
  BY <1>1
<1>3. \A i \in 1 .. Len(s) : t[i + 1] = s[i] /\ i + 1 \in DOMAIN t
  BY <1>1, <1>2
<1>4. \A i \in DOMAIN t : i = 1 \/ (i - 1 \in 1 .. Len(s) /\ t[i] = s[i - 1])
  BY <1>1, <1>2
<1>5. 1 \in DOMAIN t
  BY <1>1, <1>2
<1> HIDE DEF t
<1>6. Range(t) = {w} \cup Range(s)
  <2>1. ASSUME NEW x \in Range(t) PROVE x \in {w} \cup Range(s)
    <3>1. PICK i \in DOMAIN t : x = t[i]
      BY DEF Range
    <3> QED BY <1>1, <1>4, <3>1 DEF Range
  <2>2. ASSUME NEW x \in Range(s) PROVE x \in Range(t)
    <3>1. PICK i \in 1 .. Len(s) : x = s[i]
      BY <1>1 DEF Range
    <3> QED BY <1>3, <3>1 DEF Range
  <2>3. w \in Range(t)
    BY <1>1, <1>5 DEF Range
  <2> QED BY <2>1, <2>2, <2>3
<1>7. ASSUME Distinct(s), w.path \notin Pending(s), NEW i \in DOMAIN t, NEW j \in DOMAIN t, t[i].path = t[j].path
      PROVE  i = j
  <2>1. \A k \in 1 .. Len(s) : s[k].path # w.path
    BY <1>1, <1>7 DEF Pending, Range
  <2>2. CASE i = 1
    BY <1>1, <1>4, <1>7, <2>1, <2>2
  <2>3. CASE j = 1
    BY <1>1, <1>4, <1>7, <2>1, <2>3
  <2>4. CASE i # 1 /\ j # 1
    <3>1. i - 1 \in DOMAIN s /\ j - 1 \in DOMAIN s /\ s[i - 1].path = s[j - 1].path
      BY <1>1, <1>4, <1>7, <2>4
    <3>2. i - 1 = j - 1
      BY <1>7, <3>1 DEF Distinct
    <3>3. i \in Nat /\ j \in Nat
      BY <1>1, <1>2
    <3> QED BY <3>2, <3>3
  <2> QED BY <2>2, <2>3, <2>4
<1>8. Distinct(s) /\ w.path \notin Pending(s) => Distinct(t)
  BY <1>7 DEF Distinct
<1>9. Pending(t) = {w.path} \cup Pending(s)
  BY <1>6 DEF Pending
<1> QED BY <1>1, <1>6, <1>8, <1>9 DEF t

\* Two plans, one after the other.
LEMMA JoinRange ==
  ASSUME NEW W, NEW s \in Seq(W), NEW t \in Seq(W)
  PROVE  /\ s \o t \in Seq(W) /\ Range(s \o t) = Range(s) \cup Range(t)
         /\ Pending(s \o t) = Pending(s) \cup Pending(t)
         /\ Distinct(s) /\ Distinct(t) /\ Pending(s) \cap Pending(t) = {} => Distinct(s \o t)
         /\ \A some : GoLast(t, some) /\ Pending(s) \cap some = {} => GoLast(s \o t, some)
<1> DEFINE u == s \o t
<1>1. u \in Seq(W) /\ Len(u) = Len(s) + Len(t) /\ Len(s) \in Nat /\ Len(t) \in Nat
      /\ DOMAIN s = 1 .. Len(s) /\ DOMAIN t = 1 .. Len(t)
  OBVIOUS
<1>2. DOMAIN u = 1 .. Len(s) + Len(t)
  BY <1>1
<1>3. \A i \in 1 .. Len(s) : u[i] = s[i] /\ i \in DOMAIN u
  BY <1>1, <1>2
<1>4. \A i \in 1 .. Len(t) : u[i + Len(s)] = t[i] /\ i + Len(s) \in DOMAIN u
  BY <1>1, <1>2
<1>5. \A i \in DOMAIN u : \/ i \in DOMAIN s /\ u[i] = s[i]
                          \/ i > Len(s) /\ i - Len(s) \in DOMAIN t /\ u[i] = t[i - Len(s)]
  BY <1>1, <1>2
<1> HIDE DEF u
<1>6. Range(u) = Range(s) \cup Range(t)
  <2>1. ASSUME NEW x \in Range(u) PROVE x \in Range(s) \cup Range(t)
    <3>1. PICK i \in DOMAIN u : x = u[i]
      BY DEF Range
    <3> QED BY <1>5, <3>1 DEF Range
  <2>2. ASSUME NEW x \in Range(s) PROVE x \in Range(u)
    BY <1>1, <1>3 DEF Range
  <2>3. ASSUME NEW x \in Range(t) PROVE x \in Range(u)
    <3>1. PICK i \in 1 .. Len(t) : x = t[i]
      BY <1>1 DEF Range
    <3> QED BY <1>4, <3>1 DEF Range
  <2> QED BY <2>1, <2>2, <2>3
<1>7. Pending(u) = Pending(s) \cup Pending(t)
  BY <1>6 DEF Pending
<1>8. (\A i \in DOMAIN s : s[i].path \in Pending(s)) /\ (\A i \in DOMAIN t : t[i].path \in Pending(t))
  BY DEF Pending, Range
<1>9. ASSUME Distinct(s), Distinct(t), Pending(s) \cap Pending(t) = {},
             NEW i \in DOMAIN u, NEW j \in DOMAIN u, u[i].path = u[j].path
      PROVE  i = j
  <2>1. CASE i \in DOMAIN s /\ u[i] = s[i] /\ j \in DOMAIN s /\ u[j] = s[j]
    BY <1>9, <2>1 DEF Distinct
  <2>2. CASE i - Len(s) \in DOMAIN t /\ u[i] = t[i - Len(s)] /\ j - Len(s) \in DOMAIN t /\ u[j] = t[j - Len(s)]
    <3>1. i - Len(s) = j - Len(s)
      BY <1>9, <2>2 DEF Distinct
    <3>2. i \in Nat /\ j \in Nat
      BY <1>1, <1>2
    <3> QED BY <1>1, <3>1, <3>2
  <2>3. CASE i \in DOMAIN s /\ u[i] = s[i] /\ j - Len(s) \in DOMAIN t /\ u[j] = t[j - Len(s)]
    BY <1>8, <1>9, <2>3
  <2>4. CASE j \in DOMAIN s /\ u[j] = s[j] /\ i - Len(s) \in DOMAIN t /\ u[i] = t[i - Len(s)]
    BY <1>8, <1>9, <2>4
  <2> QED BY <1>5, <2>1, <2>2, <2>3, <2>4
<1>10. Distinct(s) /\ Distinct(t) /\ Pending(s) \cap Pending(t) = {} => Distinct(u)
  BY <1>9 DEF Distinct
<1>11. ASSUME NEW some, GoLast(t, some), Pending(s) \cap some = {},
              NEW i \in DOMAIN u, NEW j \in DOMAIN u, i <= j, u[i].path \in some
       PROVE  u[j].path \in some
  <2>1. i > Len(s) /\ i - Len(s) \in DOMAIN t /\ u[i] = t[i - Len(s)]
    BY <1>5, <1>8, <1>11
  <2>2. i \in Nat /\ j \in Nat /\ j > Len(s) /\ j \notin DOMAIN s
    BY <1>1, <1>2, <1>11, <2>1
  <2>3. j - Len(s) \in DOMAIN t /\ u[j] = t[j - Len(s)] /\ i - Len(s) <= j - Len(s)
    BY <1>1, <1>5, <1>11, <2>2
  <2> QED BY <1>11, <2>1, <2>3 DEF GoLast
<1>12. \A some : GoLast(t, some) /\ Pending(s) \cap some = {} => GoLast(u, some)
  BY <1>11 DEF GoLast
<1> QED BY <1>1, <1>6, <1>7, <1>10, <1>12 DEF u
\* A plan of one write, and of none.
LEMMA OneRange ==
  ASSUME NEW W, NEW a \in W
  PROVE  /\ <<a>> \in Seq(W) /\ Range(<<a>>) = {a} /\ Pending(<<a>>) = {a.path} /\ Distinct(<<a>>)
         /\ <<>> \in Seq(W) /\ Range(<<>>) = {} /\ Pending(<<>>) = {} /\ Distinct(<<>>)
<1>1. <<a>> \in Seq(W) /\ DOMAIN <<a>> = {1} /\ <<a>>[1] = a
  OBVIOUS
<1>2. <<>> \in Seq(W) /\ DOMAIN <<>> = {}
  OBVIOUS
<1>3. Range(<<a>>) = {a} /\ Range(<<>>) = {}
  BY <1>1, <1>2 DEF Range
<1>4. Distinct(<<a>>) /\ Distinct(<<>>)
  BY <1>1, <1>2 DEF Distinct
<1> QED BY <1>1, <1>2, <1>3, <1>4 DEF Pending

\* A plan of three.
LEMMA ThreeRange ==
  ASSUME NEW s \in Seq(Writes), Len(s) = 3, s[1].path # s[2].path, s[1].path # s[3].path, s[2].path # s[3].path
  PROVE  /\ s # <<>> /\ Distinct(s) /\ GoLast(s, {s[3].path}) /\ GoLast(s, {s[2].path, s[3].path})
         /\ \A x : x \in Range(s) <=> x = s[1] \/ x = s[2] \/ x = s[3]
         /\ \A x : x \in Pending(s) <=> x = s[1].path \/ x = s[2].path \/ x = s[3].path
<1>1. s # <<>> /\ DOMAIN s = {1, 2, 3}
  OBVIOUS
<1>2. \A x : x \in Range(s) <=> x = s[1] \/ x = s[2] \/ x = s[3]
  BY <1>1 DEF Range
<1>3. Distinct(s)
  BY <1>1 DEF Distinct
<1>4. GoLast(s, {s[3].path}) /\ GoLast(s, {s[2].path, s[3].path})
  BY <1>1 DEF GoLast
<1>5. \A x : x \in Pending(s) <=> x = s[1].path \/ x = s[2].path \/ x = s[3].path
  BY <1>2 DEF Pending
<1> QED BY <1>1, <1>2, <1>3, <1>4, <1>5

\* The files of a plan.
LEMMA FilesRange ==
  ASSUME NEW order \in {Dests, Sorted}, NEW some \in SUBSET Files, NEW e, \A d \in some : Put(d, e) \in Writes
  PROVE  LET s == [i \in DOMAIN InOrder(order, some) |-> Put(InOrder(order, some)[i], e)] IN
         /\ s \in Seq(Writes) /\ Range(s) = {Put(d, e) : d \in some} /\ Pending(s) = some /\ Distinct(s)
<1> DEFINE f == InOrder(order, some)
           s == [i \in DOMAIN f |-> Put(f[i], e)]
<1>1. f \in Seq(some) /\ Range(f) = some /\ \A i, j \in DOMAIN f : f[i] = f[j] => i = j
  BY InOrderSelects
<1> HIDE DEF f
<1>2. Len(f) \in Nat /\ DOMAIN f = 1 .. Len(f) /\ \A i \in DOMAIN f : f[i] \in some
  BY <1>1
<1>3. s \in Seq(Writes) /\ DOMAIN s = DOMAIN f
  <2>1. s \in [1 .. Len(f) -> Writes]
    BY <1>2
  <2> HIDE DEF s
  <2>2. s \in Seq(Writes)
    BY <1>2, <2>1, SeqDef
  <2> QED BY <1>2, <2>1, <2>2
<1>4. \A i \in DOMAIN f : s[i] = Put(f[i], e)
  OBVIOUS
<1> HIDE DEF s
<1>5. Range(s) = {Put(d, e) : d \in some}
  <2>1. ASSUME NEW x \in Range(s) PROVE x \in {Put(d, e) : d \in some}
    BY <1>2, <1>3, <1>4 DEF Range
  <2>2. ASSUME NEW d \in some PROVE Put(d, e) \in Range(s)
    <3>1. PICK i \in DOMAIN f : f[i] = d
      BY <1>1 DEF Range
    <3> QED BY <1>3, <1>4, <3>1 DEF Range
  <2> QED BY <2>1, <2>2
<1>6. \A d : Put(d, e).path = d
  BY DEF Put
<1>7. Pending(s) = some
  BY <1>5, <1>6 DEF Pending
<1>8. Distinct(s)
  BY <1>1, <1>3, <1>4, <1>6 DEF Distinct
<1> QED BY <1>3, <1>5, <1>7, <1>8 DEF s, f

-----------------------------------------------------------------------------
(* What is at a path *)

\* The four paths that are no files of the pack.
LEMMA PathsAre ==
  /\ Files \cap {"settings", "ledger", "portable", "legacy"} = {}
  /\ Files \subseteq Paths /\ Paths = Files \cup {"settings", "ledger", "portable", "legacy"}
BY DestsAssumption DEF Paths, Others

\* What kind of entry each expression is.
LEMMA Kinds ==
  /\ Absent.kind = "absent" /\ Foreign.kind = "foreign" /\ Symlink.kind = "symlink"
  /\ \A v : Pack(v).kind = "pack" /\ Pack(v).version = v
  /\ \A R : Allow(R).kind = "allow" /\ Allow(R).rules = R
  /\ \A R : Claims(R).kind = "claims" /\ Claims(R).rules = R
  /\ \A h : Record(h).kind = "record" /\ Record(h).host = h
BY DEF Absent, Foreign, Symlink, Pack, Allow, Claims, Record

\* What may be at each path.
LEMMA EntriesAre ==
  /\ \A d \in Files : EntriesAt(d) = {Absent, Foreign, Symlink} \cup {Pack(v) : v \in Versions}
  /\ EntriesAt("settings") = {Absent, Symlink} \cup {Allow(rules) : rules \in SUBSET Rules}
  /\ EntriesAt("ledger") = {Absent} \cup {Claims(rules) : rules \in SUBSET Rules}
  /\ EntriesAt("portable") = {Absent, Symlink} \cup {Record(host) : host \in {"ours", "other"}}
  /\ EntriesAt("legacy") = {Absent} \cup {Record(host) : host \in {"ours", "other"}}
<1> USE PathsAre
<1>1. ASSUME NEW d \in Files PROVE EntriesAt(d) = {Absent, Foreign, Symlink} \cup {Pack(v) : v \in Versions}
  <2>1. d # "settings" /\ d # "ledger" /\ d # "portable" /\ d # "legacy"
    OBVIOUS
  <2> QED BY <2>1, Zenon DEF EntriesAt
<1>2. "settings" \notin Files /\ "ledger" \notin Files /\ "portable" \notin Files /\ "legacy" \notin Files
  OBVIOUS
<1>3. EntriesAt("settings") = {Absent, Symlink} \cup {Allow(rules) : rules \in SUBSET Rules}
  BY <1>2, Zenon DEF EntriesAt
<1>4. EntriesAt("ledger") = {Absent} \cup {Claims(rules) : rules \in SUBSET Rules}
  BY <1>2, Zenon DEF EntriesAt
<1>5. EntriesAt("portable") = {Absent, Symlink} \cup {Record(host) : host \in {"ours", "other"}}
  BY <1>2, Zenon DEF EntriesAt
<1>6. EntriesAt("legacy") = {Absent} \cup {Record(host) : host \in {"ours", "other"}}
  BY <1>2, Zenon DEF EntriesAt
<1> QED BY <1>1, <1>3, <1>4, <1>5, <1>6

\* A write of an entry that its path may have.
LEMMA PutIsWrite ==
  ASSUME NEW p \in Paths, NEW e \in EntriesAt(p)
  PROVE  Put(p, e) \in Writes /\ Put(p, e).path = p /\ Put(p, e).entry = e
BY DEF Put, Writes

\* And back.
LEMMA WriteIsPut ==
  ASSUME NEW x \in Writes
  PROVE  x.path \in Paths /\ x.entry \in EntriesAt(x.path) /\ x = Put(x.path, x.entry)
BY DEF Put, Writes
-----------------------------------------------------------------------------
(* Rules *)

\* The rules in an entry.
LEMMA RulesInEntries ==
  /\ \A e \in EntriesAt("settings") \cup EntriesAt("ledger") : RulesIn(e) \subseteq Rules
  /\ RulesIn(Absent) = {} /\ RulesIn(Symlink) = {}
  /\ \A R : RulesIn(Allow(R)) = R /\ RulesIn(Claims(R)) = R
<1>1. RulesIn(Absent) = {} /\ RulesIn(Symlink) = {}
  BY Kinds DEF RulesIn
<1>2. \A R : RulesIn(Allow(R)) = R /\ RulesIn(Claims(R)) = R
  BY Kinds DEF RulesIn
<1>3. ASSUME NEW e \in EntriesAt("settings") \cup EntriesAt("ledger") PROVE RulesIn(e) \subseteq Rules
  BY <1>1, <1>2, EntriesAre
<1> QED BY <1>1, <1>2, <1>3

\* Rules are typed, on disk and in what the command saw.
LEMMA RulesAreTyped ==
  ASSUME TypeOK
  PROVE  /\ RulesAt("settings") \subseteq Rules /\ RulesAt("ledger") \subseteq Rules
         /\ RulesSeen \subseteq Rules /\ ClaimsSeen \subseteq Rules
         /\ \A v \in Versions : Declared[v] \subseteq Rules /\ Declared[v] \subseteq Catalog[v]
         /\ cmd.v \in Versions => NewRules \subseteq Rules /\ NewClaims \subseteq Rules
<1>1. /\ disk["settings"] \in EntriesAt("settings") /\ disk["ledger"] \in EntriesAt("ledger")
      /\ seen["settings"] \in EntriesAt("settings") /\ seen["ledger"] \in EntriesAt("ledger")
  BY PathsAre DEF TypeOK, IsDisk
<1>2. /\ RulesAt("settings") \subseteq Rules /\ RulesAt("ledger") \subseteq Rules
      /\ RulesSeen \subseteq Rules /\ ClaimsSeen \subseteq Rules
  BY <1>1, RulesInEntries DEF RulesAt, RulesSeen, ClaimsSeen
<1>3. \A v \in Versions : Declared[v] \subseteq Rules /\ Declared[v] \subseteq Catalog[v]
  <2>1. \A v \in Versions : Declared[v] \subseteq Catalog[v]
    BY CatalogAssumption
  <2>2. \A v \in Versions : Catalog[v] \subseteq Rules
    BY DEF Rules
  <2> QED BY <2>1, <2>2
<1>4. ASSUME cmd.v \in Versions PROVE NewRules \subseteq Rules /\ NewClaims \subseteq Rules
  BY <1>2, <1>3, <1>4 DEF NewRules, NewClaims, MissingSeen
<1> QED BY <1>2, <1>3, <1>4

-----------------------------------------------------------------------------
(* Plans *)

\* What an install plans to write.
LEMMA InstallPlan ==
  ASSUME TypeOK, NEW v \in Versions
  PROVE  LET s == InstallSteps(v)
             rules == (RulesAt("settings") \ StaleOwnedRules(v)) \cup Missing(v)
         IN  /\ s \in Seq(Writes) /\ s # <<>> /\ Distinct(s) /\ GoLast(s, {"legacy"})
             /\ Range(s) \subseteq
                  {Put(d, Pack(v)) : d \in Files}
                  \cup {Put("settings", Allow(rules)), Put("ledger", Claims(Ownership(v))),
                        Put("portable", Record("ours")), Put("legacy", Absent)}
             /\ {"ledger", "portable", "legacy"} \subseteq Pending(s)
             /\ \A d \in Files : d \in Pending(s) \/ disk[d] = Pack(v)
             /\ "settings" \in Pending(s) \/ (Missing(v) = {} /\ StaleOwnedRules(v) = {})
<1> DEFINE some == {d \in Files : disk[d] # Pack(v)}
           rules == (RulesAt("settings") \ StaleOwnedRules(v)) \cup Missing(v)
           files == [i \in DOMAIN InOrder(Dests, some) |-> Put(InOrder(Dests, some)[i], Pack(v))]
           settings == SettingsToSave(v)
           records == <<Put("ledger", Claims(Ownership(v))), Put("portable", Record("ours")), Put("legacy", Absent)>>
<1>1. InstallSteps(v) = files \o settings \o records
  BY DEF InstallSteps, FilesToCopy
<1>2. rules \subseteq Rules /\ Ownership(v) \subseteq Rules
  BY RulesAreTyped DEF Missing, Ownership, OurRules
<1>3. /\ \A d \in Files : Put(d, Pack(v)) \in Writes
      /\ Put("settings", Allow(rules)) \in Writes /\ Put("ledger", Claims(Ownership(v))) \in Writes
      /\ Put("portable", Record("ours")) \in Writes /\ Put("legacy", Absent) \in Writes
  <2>1. \A d \in Files : Pack(v) \in EntriesAt(d)
    BY EntriesAre
  <2>2. Allow(rules) \in EntriesAt("settings")
    BY <1>2, EntriesAre
  <2>3. Claims(Ownership(v)) \in EntriesAt("ledger")
    BY <1>2, EntriesAre
  <2>4. Record("ours") \in EntriesAt("portable") /\ Absent \in EntriesAt("legacy")
    BY EntriesAre
  <2> QED BY <2>1, <2>2, <2>3, <2>4, PutIsWrite, PathsAre
<1>4. \A p, e : Put(p, e).path = p
  BY DEF Put
<1>5. files \in Seq(Writes) /\ Range(files) = {Put(d, Pack(v)) : d \in some} /\ Pending(files) = some /\ Distinct(files)
  <2>1. some \in SUBSET Files /\ \A d \in some : Put(d, Pack(v)) \in Writes
    BY <1>3
  <2> HIDE DEF some
  <2> QED BY <2>1, FilesRange
<1>6. settings \in Seq(Writes) /\ Range(settings) \subseteq {Put("settings", Allow(rules))} /\ Distinct(settings)
      /\ Pending(settings) \subseteq {"settings"}
      /\ ("settings" \in Pending(settings) \/ (Missing(v) = {} /\ StaleOwnedRules(v) = {}))
  <2>1. CASE Missing(v) = {} /\ StaleOwnedRules(v) = {}
    BY <1>3, <2>1, OneRange DEF SettingsToSave
  <2>2. CASE ~(Missing(v) = {} /\ StaleOwnedRules(v) = {})
    <3> DEFINE w == Put("settings", Allow(rules))
    <3>1. settings = <<w>>
      BY <2>2 DEF SettingsToSave
    <3>2. w \in Writes /\ w.path = "settings"
      BY <1>3, <1>4
    <3> HIDE DEF w, settings
    <3>3. settings \in Seq(Writes) /\ Range(settings) = {w} /\ Pending(settings) = {w.path} /\ Distinct(settings)
      BY <3>1, <3>2, OneRange
    <3> QED BY <3>2, <3>3 DEF w
  <2> QED BY <2>1, <2>2
<1>7. records \in Seq(Writes) /\ records # <<>> /\ Distinct(records) /\ GoLast(records, {"legacy"})
      /\ Range(records) = {Put("ledger", Claims(Ownership(v))), Put("portable", Record("ours")), Put("legacy", Absent)}
      /\ Pending(records) = {"ledger", "portable", "legacy"}
  <2>1. PICK a \in Writes, b \in Writes, c \in Writes :
          /\ a = Put("ledger", Claims(Ownership(v))) /\ b = Put("portable", Record("ours")) /\ c = Put("legacy", Absent)
    BY <1>3
  <2>2. a.path = "ledger" /\ b.path = "portable" /\ c.path = "legacy" /\ records = <<a, b, c>>
    BY <1>4, <2>1
  <2> HIDE DEF some, rules, files, settings, records
  <2>3. a.path # b.path /\ a.path # c.path /\ b.path # c.path
    BY <2>2
  <2>4. records \in Seq(Writes) /\ Len(records) = 3 /\ records[1] = a /\ records[2] = b /\ records[3] = c
    BY <2>2
  <2>5. /\ records # <<>> /\ Distinct(records) /\ GoLast(records, {"legacy"})
        /\ \A x : x \in Range(records) <=> x = a \/ x = b \/ x = c
        /\ \A x : x \in Pending(records) <=> x = "ledger" \/ x = "portable" \/ x = "legacy"
    BY <2>2, <2>3, <2>4, ThreeRange
  <2> QED BY <2>1, <2>4, <2>5
<1>8. Files \cap {"settings", "ledger", "portable", "legacy"} = {} /\ some \subseteq Files
  BY PathsAre
<1> HIDE DEF files, settings, records, rules
<1> DEFINE t == files \o settings
<1>9. t \in Seq(Writes) /\ Range(t) = Range(files) \cup Range(settings) /\ Distinct(t)
      /\ Pending(t) = some \cup Pending(settings)
  <2>1. Pending(files) \cap Pending(settings) = {}
    BY <1>5, <1>6, <1>8
  <2> QED BY <1>5, <1>6, <2>1, JoinRange
<1> HIDE DEF t
<1> DEFINE s == t \o records
<1>10. s \in Seq(Writes) /\ Range(s) = Range(t) \cup Range(records) /\ Distinct(s) /\ GoLast(s, {"legacy"})
       /\ Pending(s) = Pending(t) \cup Pending(records)
  <2>1. Pending(t) \cap Pending(records) = {} /\ Pending(t) \cap {"legacy"} = {}
    BY <1>6, <1>7, <1>8, <1>9
  <2> QED BY <1>7, <1>9, <2>1, JoinRange
<1>11. InstallSteps(v) = s
  BY <1>1 DEF t
<1> HIDE DEF s
<1>12. s # <<>>
  BY <1>7, <1>10, OneRange
<1>13. \A d \in Files : d \in Pending(s) \/ disk[d] = Pack(v)
  BY <1>9, <1>10
<1>14. Range(s) \subseteq {Put(d, Pack(v)) : d \in Files}
                  \cup {Put("settings", Allow(rules)), Put("ledger", Claims(Ownership(v))),
                        Put("portable", Record("ours")), Put("legacy", Absent)}
  <2>1. Range(files) \subseteq {Put(d, Pack(v)) : d \in Files}
    BY <1>5, <1>8
  <2> QED BY <1>6, <1>7, <1>9, <1>10, <2>1
<1>15. {"ledger", "portable", "legacy"} \subseteq Pending(s) /\ Pending(settings) \subseteq Pending(s)
  BY <1>7, <1>9, <1>10
<1> QED BY <1>6, <1>10, <1>11, <1>12, <1>13, <1>14, <1>15 DEF rules

\* What an uninstall plans to remove.
LEMMA UninstallPlan ==
  ASSUME TypeOK, NEW withdraw \in BOOLEAN
  PROVE  LET s == UninstallSteps(withdraw) IN
         /\ s \in Seq(Writes) /\ s # <<>> /\ Distinct(s) /\ GoLast(s, {"legacy", "portable"}) /\ GoLast(s, {"portable"})
         /\ {"ledger", "portable", "legacy"} \subseteq Pending(s)
         /\ \A d \in Files : d \in Pending(s) \/ disk[d] = Absent
         /\ "settings" \in Pending(s) <=> withdraw
<1> DEFINE some == {d \in Files : disk[d] # Absent}
           files == [i \in DOMAIN InOrder(Sorted, some) |-> Put(InOrder(Sorted, some)[i], Absent)]
           settings == IF withdraw THEN <<Put("settings", Allow({}))>> ELSE <<>>
           records == RecordsToRemove
<1>1. UninstallSteps(withdraw) = files \o settings \o records
  BY DEF UninstallSteps
<1>2. /\ \A p \in Files \cup {"ledger", "portable", "legacy"} : Put(p, Absent) \in Writes
      /\ Put("settings", Allow({})) \in Writes
  <2>1. \A p \in Files \cup {"ledger", "portable", "legacy"} : Absent \in EntriesAt(p)
    BY EntriesAre
  <2>2. Allow({}) \in EntriesAt("settings")
    BY EntriesAre
  <2> QED BY <2>1, <2>2, PutIsWrite, PathsAre
<1>3. \A p, e : Put(p, e).path = p
  BY DEF Put
<1>4. files \in Seq(Writes) /\ Pending(files) = some /\ Distinct(files)
  <2>1. some \in SUBSET Files /\ \A d \in some : Put(d, Absent) \in Writes
    BY <1>2
  <2> HIDE DEF some
  <2> QED BY <2>1, FilesRange
<1>5. settings \in Seq(Writes) /\ Distinct(settings) /\ Pending(settings) = IF withdraw THEN {"settings"} ELSE {}
  BY <1>2, <1>3, OneRange
<1>6. records \in Seq(Writes) /\ records # <<>> /\ Distinct(records) /\ GoLast(records, {"legacy", "portable"})
        /\ GoLast(records, {"portable"})
      /\ Pending(records) = {"ledger", "legacy", "portable"}
  <2> DEFINE a == Put("ledger", Absent)
             b == Put("legacy", Absent)
             c == Put("portable", Absent)
  <2>1. a \in Writes /\ b \in Writes /\ c \in Writes /\ a.path = "ledger" /\ b.path = "legacy" /\ c.path = "portable"
    BY <1>2, <1>3
  <2>2. records = <<a, b, c>>
    BY DEF RecordsToRemove
  <2> HIDE DEF a, b, c, records
  <2>3. "ledger" # "portable" /\ "ledger" # "legacy" /\ "portable" # "legacy"
    OBVIOUS
  <2>4. records \in Seq(Writes) /\ Len(records) = 3 /\ records[1] = a /\ records[2] = b /\ records[3] = c
    BY <2>1, <2>2
  <2>5. /\ records # <<>> /\ Distinct(records)
        /\ GoLast(records, {"legacy", "portable"}) /\ GoLast(records, {"portable"})
        /\ \A x : x \in Pending(records) <=> x = "ledger" \/ x = "legacy" \/ x = "portable"
    BY <2>1, <2>3, <2>4, ThreeRange
  <2> QED BY <2>4, <2>5
<1>7. Files \cap {"settings", "ledger", "portable", "legacy"} = {} /\ some \subseteq Files
  BY PathsAre
<1> HIDE DEF files, settings, records
<1> DEFINE t == files \o settings
<1>8. t \in Seq(Writes) /\ Distinct(t) /\ Pending(t) = some \cup Pending(settings)
  <2>1. Pending(files) \cap Pending(settings) = {}
    BY <1>4, <1>5, <1>7
  <2> QED BY <1>4, <1>5, <2>1, JoinRange
<1> HIDE DEF t
<1> DEFINE s == t \o records
<1>9. s \in Seq(Writes) /\ Distinct(s) /\ GoLast(s, {"legacy", "portable"}) /\ GoLast(s, {"portable"})
      /\ Pending(s) = Pending(t) \cup Pending(records)
  <2>1. /\ Pending(t) \cap Pending(records) = {}
        /\ Pending(t) \cap {"legacy", "portable"} = {} /\ Pending(t) \cap {"portable"} = {}
    BY <1>5, <1>6, <1>7, <1>8
  <2> QED BY <1>6, <1>8, <2>1, JoinRange
<1>10. UninstallSteps(withdraw) = s
  BY <1>1 DEF t
<1> HIDE DEF s
<1>11. s # <<>>
  BY <1>6, <1>9, OneRange
<1>12. \A d \in Files : d \in Pending(s) \/ disk[d] = Absent
  BY <1>8, <1>9
<1>13. {"ledger", "portable", "legacy"} \subseteq Pending(s) /\ ("settings" \in Pending(s) <=> withdraw)
  BY <1>5, <1>6, <1>7, <1>8, <1>9
<1> QED BY <1>9, <1>10, <1>11, <1>12, <1>13
-----------------------------------------------------------------------------
(* Steps keep the types *)

\* A write changes one path.
LEMMA ChangeOnePath ==
  ASSUME TypeOK, NEW p \in Paths, NEW e \in EntriesAt(p), disk' = [disk EXCEPT ![p] = e]
  PROVE  IsDisk(disk') /\ disk'[p] = e /\ \A q \in Paths : q # p => disk'[q] = disk[q]
<1>1. disk = [q \in Paths |-> disk[q]] /\ \A q \in Paths : disk[q] \in EntriesAt(q)
  BY DEF TypeOK, IsDisk
<1>2. disk' = [q \in Paths |-> IF q = p THEN e ELSE disk[q]]
  BY <1>1
<1>3. disk'[p] = e /\ \A q \in Paths : q # p => disk'[q] = disk[q]
  BY <1>2
<1>4. disk' = [q \in Paths |-> disk'[q]]
  BY <1>2
<1>5. \A q \in Paths : disk'[q] \in EntriesAt(q)
  BY <1>1, <1>3
<1> QED BY <1>3, <1>4, <1>5 DEF IsDisk

\* A command that waits for the next.
LEMMA IdleIsTyped ==
  /\ Idle \in [op : {"none", "install", "rollback", "uninstall"}, v : Versions \cup {1}, force : BOOLEAN,
               withdraw : BOOLEAN, claims : SUBSET Rules, replaced : SUBSET Files]
  /\ Idle.op = "none" /\ <<>> \in Seq(Writes)
BY DEF Idle

\* One more command, edit, crash or failure.
LEMMA SpentIsTyped ==
  ASSUME TypeOK, \/ spent' = spent
                 \/ spent' = [spent EXCEPT !.commands = @ + 1]
                 \/ spent' = [spent EXCEPT !.edits = @ + 1]
                 \/ spent' = [spent EXCEPT !.crashes = @ + 1]
                 \/ spent' = [spent EXCEPT !.fails = @ + 1]
  PROVE  spent' \in [commands : Nat, edits : Nat, crashes : Nat, fails : Nat]
<1>1. spent \in [commands : Nat, edits : Nat, crashes : Nat, fails : Nat]
  BY DEF TypeOK
<1>2. CASE spent' = [spent EXCEPT !.commands = @ + 1]
  BY <1>1, <1>2
<1>3. CASE spent' = [spent EXCEPT !.edits = @ + 1]
  BY <1>1, <1>3
<1>4. CASE spent' = [spent EXCEPT !.crashes = @ + 1]
  BY <1>1, <1>4
<1>5. CASE spent' = [spent EXCEPT !.fails = @ + 1]
  BY <1>1, <1>5
<1> QED BY <1>1, <1>2, <1>3, <1>4, <1>5

\* Beginning a command whose plan is a plan keeps the types.
LEMMA BeginIsTyped ==
  ASSUME TypeOK, NEW c, NEW s \in Seq(Writes), Begin(c, s), CountCommand, c.op # "none",
         c \in [op : {"none", "install", "rollback", "uninstall"}, v : Versions \cup {1}, force : BOOLEAN,
                withdraw : BOOLEAN, claims : SUBSET Rules, replaced : SUBSET Files]
  PROVE  TypeOK'
<1>1. spent' \in [commands : Nat, edits : Nat, crashes : Nat, fails : Nat]
  BY SpentIsTyped DEF CountCommand
<1>2. /\ cmd' = c /\ todo' = s /\ undo' = <<>> /\ out' = "running" /\ seen' = disk /\ touched' = {}
      /\ disk' = disk /\ put' = put /\ lost' = lost
  BY DEF Begin
<1>3. cmd' # Idle
  BY <1>2, IdleIsTyped
<1>4. /\ IsDisk(disk') /\ IsDisk(seen') /\ touched' \subseteq Paths /\ todo' \in Seq(Writes) /\ undo' \in Seq(Writes)
      /\ put' \subseteq Rules /\ lost' \in BOOLEAN
  BY <1>2, IdleIsTyped DEF TypeOK
<1> QED BY <1>1, <1>2, <1>3, <1>4 DEF TypeOK

\* So does refusing it.
LEMMA RefuseIsTyped ==
  ASSUME TypeOK, NEW why \in {"unreadable", "yours", "not installed"}, Refuse(why), CountCommand
  PROVE  TypeOK'
<1>1. spent' \in [commands : Nat, edits : Nat, crashes : Nat, fails : Nat]
  BY SpentIsTyped DEF CountCommand
<1>2. out' = why /\ UNCHANGED <<disk, cmd, todo, undo, seen, touched, put, lost>>
  BY DEF Refuse
<1> QED BY <1>1, <1>2 DEF TypeOK

\* So does ending it.
LEMMA FinishIsTyped ==
  ASSUME TypeOK, IsDisk(disk'), UNCHANGED <<seen, touched>>, put' \subseteq Rules, lost' \in BOOLEAN,
         spent' \in [commands : Nat, edits : Nat, crashes : Nat, fails : Nat],
         NEW how \in {"installed", "uninstalled", "failed", "killed", "undone", "half undone"}, Finish(how)
  PROVE  TypeOK'
<1>1. cmd' = Idle /\ undo' = <<>> /\ todo' = <<>> /\ out' = how
  BY DEF Finish
<1> QED BY <1>1, IdleIsTyped DEF TypeOK

\* What the settings add to the rules that were put, and take.
LEMMA PutIsTyped ==
  ASSUME TypeOK, NEW p \in Paths, NEW e \in EntriesAt(p), p = "settings" => e.kind = "allow"
  PROVE  PutWith(p, e) \subseteq Rules
<1>1. CASE p = "settings" /\ e.kind = "allow"
  <2>1. RulesIn(e) \subseteq Rules /\ RulesIn(e) = e.rules
    BY <1>1, RulesInEntries DEF RulesIn
  <2> QED BY <1>1, <2>1 DEF PutWith
<1>2. CASE p # "settings"
  BY <1>2 DEF PutWith, TypeOK
<1> QED BY <1>1, <1>2

\* The next write of an install, and the next of its undoing.
LEMMA InstallStepIsTyped ==
  ASSUME TypeOK, InstallGoesOn, InstallStep
  PROVE  TypeOK'
<1> DEFINE w == Head(todo)
           p == w.path
           e == w.entry
<1>1. w \in Writes /\ Tail(todo) \in Seq(Writes) /\ w \in Range(todo)
  <2>1. todo \in Seq(Writes) /\ todo # <<>>
    BY DEF TypeOK, InstallStep
  <2> QED BY <2>1, PopRange
<1>2. p \in Paths /\ e \in EntriesAt(p)
  BY <1>1, WriteIsPut
<1>3. p = "settings" => e.kind = "allow"
  <2>1. cmd.op = "install"
    BY DEF InstallStep
  <2>2. w \in {Put(d, Pack(cmd.v)) : d \in Files}
             \cup {Put("settings", Allow(NewRules)), Put("ledger", Claims(NewClaims)), Put("portable", Record("ours")),
                   Put("legacy", Absent)}
    BY <1>1, <2>1 DEF InstallGoesOn
  <2>3. \A q, f : Put(q, f).path = q /\ Put(q, f).entry = f
    BY DEF Put
  <2>4. "settings" \notin Files
    BY PathsAre
  <2> QED BY <2>2, <2>3, <2>4, Kinds
<1>4. disk' = [disk EXCEPT ![p] = e] /\ put' = PutWith(p, e) /\ UNCHANGED <<seen, touched, lost, spent>>
  BY DEF InstallStep
<1>5. IsDisk(disk') /\ put' \subseteq Rules
  <2> HIDE DEF p, e
  <2> QED BY <1>2, <1>3, <1>4, ChangeOnePath, PutIsTyped
<1>6. lost' \in BOOLEAN /\ spent' \in [commands : Nat, edits : Nat, crashes : Nat, fails : Nat]
  BY <1>4 DEF TypeOK
<1>7. CASE Len(todo) = 1
  <2>1. Finish("installed")
    BY <1>7 DEF InstallStep
  <2> QED BY <1>4, <1>5, <1>6, <2>1, FinishIsTyped
<1>8. CASE Len(todo) # 1
  <2>1. cmd' = cmd /\ todo' = Tail(todo) /\ undo' = Logged(w) /\ out' = out /\ cmd.op = "install"
    BY <1>8 DEF InstallStep
  <2>2. Logged(w) \in Seq(Writes)
    <3>1. Put(p, disk[p]) \in Writes
      BY <1>2, PutIsWrite DEF TypeOK, IsDisk
    <3>2. undo \in Seq(Writes)
      BY DEF TypeOK
    <3>3. <<Put(p, disk[p])>> \o undo \in Seq(Writes)
      BY <3>1, <3>2, PushRange
    <3> QED BY <3>2, <3>3 DEF Logged
  <2>3. cmd' # Idle
    BY <2>1, IdleIsTyped
  <2> QED BY <1>1, <1>4, <1>5, <1>6, <2>1, <2>2, <2>3 DEF TypeOK
<1> QED BY <1>7, <1>8

\* A failing write turns an install into its undoing.
LEMMA InstallFailsIsTyped ==
  ASSUME TypeOK, InstallFails
  PROVE  TypeOK'
<1>1. spent' \in [commands : Nat, edits : Nat, crashes : Nat, fails : Nat]
  BY SpentIsTyped DEF InstallFails
<1>2. /\ cmd' = [cmd EXCEPT !.op = "rollback"] /\ todo' = <<>>
      /\ UNCHANGED <<disk, undo, out, seen, touched, put, lost>>
  BY DEF InstallFails
<1>3. cmd' \in [op : {"none", "install", "rollback", "uninstall"}, v : Versions \cup {1}, force : BOOLEAN,
                withdraw : BOOLEAN, claims : SUBSET Rules, replaced : SUBSET Files] /\ cmd'.op = "rollback"
  <2>1. cmd \in [op : {"none", "install", "rollback", "uninstall"}, v : Versions \cup {1}, force : BOOLEAN,
                 withdraw : BOOLEAN, claims : SUBSET Rules, replaced : SUBSET Files]
    BY DEF TypeOK
  <2> QED BY <1>2, <2>1
<1>4. cmd' # Idle
  BY <1>3, IdleIsTyped
<1> QED BY <1>1, <1>2, <1>3, <1>4, IdleIsTyped DEF TypeOK

\* One path is put back, or cannot be.
LEMMA RollBackStepIsTyped ==
  ASSUME TypeOK, RollBackStep
  PROVE  TypeOK'
<1> DEFINE w == Head(undo)
           p == w.path
           e == w.entry
<1>1. w \in Writes /\ Tail(undo) \in Seq(Writes)
  BY PopRange DEF TypeOK, RollBackStep
<1>2. p \in Paths /\ e \in EntriesAt(p)
  BY <1>1, WriteIsPut
<1>3. undo' = Tail(undo) /\ UNCHANGED <<cmd, todo, seen, touched>> /\ cmd.op = "rollback" /\ cmd # Idle
  BY IdleIsTyped DEF RollBackStep
<1>4. CASE /\ disk' = [disk EXCEPT ![p] = e]
           /\ put' = IF p = "settings" THEN put \cap RulesIn(e) ELSE put
           /\ UNCHANGED <<out, lost, spent>>
  <2>1. IsDisk(disk')
    <3> HIDE DEF p, e
    <3> QED BY <1>2, <1>4, ChangeOnePath
  <2>2. put' \subseteq Rules
    BY <1>4 DEF TypeOK
  <2> QED BY <1>1, <1>3, <1>4, <2>1, <2>2 DEF TypeOK
<1>5. CASE /\ spent' = [spent EXCEPT !.fails = @ + 1]
           /\ out' = "half undone" /\ lost' = TRUE
           /\ UNCHANGED <<disk, put>>
  <2>1. spent' \in [commands : Nat, edits : Nat, crashes : Nat, fails : Nat]
    BY <1>5, SpentIsTyped
  <2> QED BY <1>1, <1>3, <1>5, <2>1 DEF TypeOK
<1> QED BY <1>4, <1>5 DEF RollBackStep

\* It is all put back.
LEMMA RollBackEndsIsTyped ==
  ASSUME TypeOK, RollBackEnds
  PROVE  TypeOK'
<1>1. UNCHANGED <<disk, seen, touched, put, lost, spent>>
  BY DEF RollBackEnds
<1>2. /\ IsDisk(disk') /\ put' \subseteq Rules /\ lost' \in BOOLEAN
      /\ spent' \in [commands : Nat, edits : Nat, crashes : Nat, fails : Nat]
  BY <1>1 DEF TypeOK
<1>3. Finish("half undone") \/ Finish("undone")
  BY DEF RollBackEnds
<1> QED BY <1>1, <1>2, <1>3, FinishIsTyped

\* What a command sees to be strange or its own.
LEMMA SightIsTyped ==
  ASSUME TypeOK, NEW v \in Versions
  PROVE  Strangers(v) \subseteq Files /\ OurRules(v, RulesAt("ledger")) \subseteq Rules
BY RulesAreTyped DEF Strangers, OurRules

\* Beginning or refusing an install.
LEMMA InstallIsTyped ==
  ASSUME TypeOK, Install
  PROVE  TypeOK'
<1>1. CountCommand
  BY DEF Install
<1>2. PICK v \in Versions, force \in BOOLEAN :
        \/ Refuse("unreadable") \/ Refuse("yours")
        \/ Begin([Idle EXCEPT !.op = "install", !.v = v, !.force = force, !.replaced = Strangers(v)], InstallSteps(v))
  BY DEF Install
<1>3. CASE Refuse("unreadable") \/ Refuse("yours")
  BY <1>1, <1>3, RefuseIsTyped
<1>4. CASE Begin([Idle EXCEPT !.op = "install", !.v = v, !.force = force, !.replaced = Strangers(v)], InstallSteps(v))
  <2> DEFINE c == [Idle EXCEPT !.op = "install", !.v = v, !.force = force, !.replaced = Strangers(v)]
             s == InstallSteps(v)
  <2>1. s \in Seq(Writes)
    BY InstallPlan
  <2>2. c \in [op : {"none", "install", "rollback", "uninstall"}, v : Versions \cup {1}, force : BOOLEAN,
               withdraw : BOOLEAN, claims : SUBSET Rules, replaced : SUBSET Files] /\ c.op # "none"
    <3>1. Strangers(v) \subseteq Files /\ OurRules(v, RulesAt("ledger")) \subseteq Rules
      BY SightIsTyped
    <3> QED BY <3>1 DEF Idle
  <2>3. Begin(c, s)
    BY <1>4
  <2> HIDE DEF c, s
  <2> QED BY <1>1, <2>1, <2>2, <2>3, BeginIsTyped
<1> QED BY <1>2, <1>3, <1>4

\* Beginning or refusing an uninstall.
LEMMA UninstallIsTyped ==
  ASSUME TypeOK, Uninstall
  PROVE  TypeOK'
<1>1. CountCommand
  BY DEF Uninstall
<1>2. PICK v \in Versions, force \in BOOLEAN, withdraw \in BOOLEAN :
        \/ Refuse("unreadable") \/ Refuse("not installed") \/ Refuse("yours")
        \/ Begin([Idle EXCEPT !.op = "uninstall", !.v = v, !.force = force, !.withdraw = withdraw,
                              !.claims = OurRules(v, RulesAt("ledger"))], UninstallSteps(withdraw))
  BY DEF Uninstall
<1>3. CASE Refuse("unreadable") \/ Refuse("not installed") \/ Refuse("yours")
  BY <1>1, <1>3, RefuseIsTyped
<1>4. CASE Begin([Idle EXCEPT !.op = "uninstall", !.v = v, !.force = force, !.withdraw = withdraw,
                              !.claims = OurRules(v, RulesAt("ledger"))], UninstallSteps(withdraw))
  <2> DEFINE c == [Idle EXCEPT !.op = "uninstall", !.v = v, !.force = force, !.withdraw = withdraw,
                               !.claims = OurRules(v, RulesAt("ledger"))]
             s == UninstallSteps(withdraw)
  <2>1. s \in Seq(Writes)
    BY UninstallPlan
  <2>2. c \in [op : {"none", "install", "rollback", "uninstall"}, v : Versions \cup {1}, force : BOOLEAN,
               withdraw : BOOLEAN, claims : SUBSET Rules, replaced : SUBSET Files] /\ c.op # "none"
    <3>1. Strangers(v) \subseteq Files /\ OurRules(v, RulesAt("ledger")) \subseteq Rules
      BY SightIsTyped
    <3> QED BY <3>1 DEF Idle
  <2>3. Begin(c, s)
    BY <1>4
  <2> HIDE DEF c, s
  <2> QED BY <1>1, <2>1, <2>2, <2>3, BeginIsTyped
<1> QED BY <1>2, <1>3, <1>4

\* What an uninstall makes of the settings.
LEMMA WithdrawnIsTyped ==
  ASSUME TypeOK
  PROVE  Withdrawn \in EntriesAt("settings")
<1>1. RulesAt("settings") \ cmd.claims \subseteq Rules
  BY RulesAreTyped
<1> QED BY <1>1, EntriesAre DEF Withdrawn

\* What a step of an uninstall does to the disk: one path goes, or the settings shrink.
LEMMA RemovesOnePath ==
  ASSUME TypeOK, UninstallGoesOn, UninstallStep, NEW w, w = Head(todo)
  PROVE  /\ w \in Writes /\ w \in Range(todo) /\ w.path \in Paths /\ Tail(todo) \in Seq(Writes) /\ IsDisk(disk')
         /\ \A q \in Paths : q # w.path => disk'[q] = disk[q]
         /\ w.path # "settings" => disk'[w.path] = Absent
         /\ w.path = "settings" => IF cmd.claims = {} THEN disk' = disk ELSE disk'["settings"] = Withdrawn
<1>1. todo \in Seq(Writes) /\ todo # <<>>
  BY DEF TypeOK, UninstallStep
<1>2. w \in Writes /\ Tail(todo) \in Seq(Writes) /\ w \in Range(todo)
  BY <1>1, PopRange
<1>3. w.path \in Paths
  BY <1>2, WriteIsPut
<1>4. disk' = IF w.path # "settings" THEN [disk EXCEPT ![w.path] = Absent]
              ELSE IF cmd.claims = {} THEN disk
              ELSE [disk EXCEPT !["settings"] = Withdrawn]
  BY DEF UninstallStep
<1>5. CASE w.path # "settings"
  <2> DEFINE p == w.path
  <2>1. disk' = [disk EXCEPT ![p] = Absent] /\ p \in Paths
    BY <1>3, <1>4, <1>5
  <2>2. Absent \in EntriesAt(p)
    BY <1>3, <1>5, EntriesAre, PathsAre
  <2> HIDE DEF p
  <2>3. IsDisk(disk') /\ disk'[p] = Absent /\ \A q \in Paths : q # p => disk'[q] = disk[q]
    BY <2>1, <2>2, ChangeOnePath
  <2> QED BY <1>2, <1>3, <1>5, <2>3 DEF p
<1>6. CASE w.path = "settings" /\ cmd.claims = {}
  <2>1. disk' = disk /\ IsDisk(disk)
    BY <1>4, <1>6 DEF TypeOK
  <2> QED BY <1>2, <1>3, <1>6, <2>1
<1>7. CASE w.path = "settings" /\ cmd.claims # {}
  <2>1. disk' = [disk EXCEPT !["settings"] = Withdrawn] /\ "settings" \in Paths
    BY <1>4, <1>7, PathsAre
  <2>2. IsDisk(disk') /\ disk'["settings"] = Withdrawn /\ \A q \in Paths : q # "settings" => disk'[q] = disk[q]
    BY <2>1, WithdrawnIsTyped, ChangeOnePath
  <2> QED BY <1>2, <1>3, <1>7, <2>2
<1> QED BY <1>5, <1>6, <1>7

\* One path is removed.
LEMMA UninstallStepIsTyped ==
  ASSUME TypeOK, UninstallGoesOn, UninstallStep
  PROVE  TypeOK'
<1> DEFINE w == Head(todo)
<1>1. Tail(todo) \in Seq(Writes) /\ IsDisk(disk')
  BY RemovesOnePath
<1>2. UNCHANGED <<seen, touched, spent>>
  BY DEF UninstallStep
<1>3. put' \subseteq Rules /\ lost' \in BOOLEAN
  <2>1. put' \subseteq put /\ lost' = (lost /\ w.path # "ledger")
    BY DEF UninstallStep
  <2>2. put \subseteq Rules
    BY DEF TypeOK
  <2> QED BY <2>1, <2>2
<1>4. spent' \in [commands : Nat, edits : Nat, crashes : Nat, fails : Nat]
  BY <1>2, SpentIsTyped
<1>5. CASE Len(todo) = 1
  <2>1. Finish("uninstalled")
    BY <1>5 DEF UninstallStep
  <2> QED BY <1>1, <1>2, <1>3, <1>4, <2>1, FinishIsTyped
<1>6. CASE Len(todo) # 1
  <2>1. cmd' = cmd /\ todo' = Tail(todo) /\ UNCHANGED <<undo, out>> /\ cmd.op = "uninstall"
    BY <1>6 DEF UninstallStep
  <2>2. cmd' # Idle
    BY <2>1, IdleIsTyped
  <2> QED BY <1>1, <1>2, <1>3, <1>4, <2>1, <2>2 DEF TypeOK
<1> QED BY <1>5, <1>6

\* An uninstall fails, or a command is killed.
LEMMA GivingUpIsTyped ==
  ASSUME TypeOK, UninstallFails \/ Crash
  PROVE  TypeOK'
<1>1. UNCHANGED <<disk, seen, touched, put>> /\ (lost' = lost \/ lost' = (lost \/ cmd.op # "uninstall"))
  BY DEF UninstallFails, Crash
<1>2. IsDisk(disk') /\ put' \subseteq Rules /\ lost' \in BOOLEAN
  BY <1>1 DEF TypeOK
<1>3. spent' = spent \/ spent' = [spent EXCEPT !.fails = @ + 1] \/ spent' = [spent EXCEPT !.crashes = @ + 1]
  BY DEF UninstallFails, Crash
<1>4. spent' \in [commands : Nat, edits : Nat, crashes : Nat, fails : Nat]
  BY <1>3, SpentIsTyped
<1>5. Finish("failed") \/ Finish("killed")
  BY DEF UninstallFails, Crash
<1> QED BY <1>1, <1>2, <1>4, <1>5, FinishIsTyped

\* Somebody's edit, as what it does to one path.
LEMMA EditsOnePath ==
  ASSUME TypeOK, Edit
  PROVE  \E p \in Paths : \E e \in EntriesAt(p) :
           /\ IsDisk(disk') /\ disk'[p] = e /\ \A q \in Paths : q # p => disk'[q] = disk[q]
           /\ touched' = touched \cup {p}
           /\ put' = IF p = "settings" THEN put \cap RulesIn(e) ELSE put
           /\ lost' = (lost \/ p = "ledger")
<1>1. DOMAIN disk = Paths
  BY DEF TypeOK, IsDisk
<1>2. PICK p \in Paths : \E e \in EditsOf(p) :
        /\ disk' = [disk EXCEPT ![p] = e]
        /\ touched' = touched \cup {p}
        /\ put' = IF p = "settings" THEN put \cap RulesIn(e) ELSE put
        /\ lost' = (lost \/ p = "ledger")
  BY <1>1 DEF Edit
<1>3. PICK e \in EditsOf(p) :
        /\ disk' = [disk EXCEPT ![p] = e]
        /\ touched' = touched \cup {p}
        /\ put' = IF p = "settings" THEN put \cap RulesIn(e) ELSE put
        /\ lost' = (lost \/ p = "ledger")
  BY <1>2
<1>4. e \in EntriesAt(p)
  <2>1. CASE p \in Files
    <3>1. EditsOf(p) = {Absent, Foreign, Symlink}
      <4>1. p # "settings" /\ p # "ledger" /\ p # "portable" /\ p # "legacy"
        BY <2>1, PathsAre
      <4> QED BY <2>1, <4>1, Zenon DEF EditsOf
    <3> QED BY <1>3, <2>1, <3>1, EntriesAre
  <2>2. CASE p = "settings"
    <3>1. EditsOf(p) = {Symlink} \cup {Allow(RulesAt(p) \cup {r}) : r \in Rules}
                                 \cup {Allow(RulesAt(p) \ {r}) : r \in Rules}
      BY <2>2, PathsAre, Zenon DEF EditsOf
    <3>2. RulesAt(p) \subseteq Rules
      BY <2>2, RulesAreTyped
    <3>3. \A r \in Rules : RulesAt(p) \cup {r} \subseteq Rules /\ RulesAt(p) \ {r} \subseteq Rules
      BY <3>2
    <3> QED BY <1>3, <2>2, <3>1, <3>3, EntriesAre
  <2>3. CASE p = "ledger"
    <3>1. EditsOf(p) = {Absent} \cup {Claims(RulesAt(p) \cup {r}) : r \in Rules}
      BY <2>3, PathsAre, Zenon DEF EditsOf
    <3>2. RulesAt(p) \subseteq Rules
      BY <2>3, RulesAreTyped
    <3>3. \A r \in Rules : RulesAt(p) \cup {r} \subseteq Rules
      BY <3>2
    <3> QED BY <1>3, <2>3, <3>1, <3>3, EntriesAre
  <2>4. CASE p = "portable"
    <3>1. EditsOf(p) = {Absent, Symlink, Record("other")}
      BY <2>4, PathsAre, Zenon DEF EditsOf
    <3> QED BY <1>3, <2>4, <3>1, EntriesAre
  <2>5. CASE p = "legacy"
    <3>1. EditsOf(p) = {Absent}
      BY <2>5, PathsAre, Zenon DEF EditsOf
    <3> QED BY <1>3, <2>5, <3>1, EntriesAre
  <2> QED BY <2>1, <2>2, <2>3, <2>4, <2>5, PathsAre
<1>5. IsDisk(disk') /\ disk'[p] = e /\ \A q \in Paths : q # p => disk'[q] = disk[q]
  BY <1>3, <1>4, ChangeOnePath
<1> QED BY <1>3, <1>4, <1>5

\* Somebody's edit keeps the types.
LEMMA EditIsTyped ==
  ASSUME TypeOK, Edit
  PROVE  TypeOK'
<1>1. PICK p \in Paths : \E e \in EntriesAt(p) :
        /\ IsDisk(disk') /\ touched' = touched \cup {p}
        /\ put' = IF p = "settings" THEN put \cap RulesIn(e) ELSE put
        /\ lost' = (lost \/ p = "ledger")
  BY EditsOnePath
<1>2. UNCHANGED <<cmd, todo, undo, out, seen>> /\ spent' = [spent EXCEPT !.edits = @ + 1]
  BY DEF Edit
<1>3. spent' \in [commands : Nat, edits : Nat, crashes : Nat, fails : Nat]
  BY <1>2, SpentIsTyped
<1>4. put' \subseteq Rules /\ lost' \in BOOLEAN /\ touched' \subseteq Paths
  BY <1>1 DEF TypeOK
<1> QED BY <1>1, <1>2, <1>3, <1>4 DEF TypeOK

\* Every step keeps the types.
LEMMA StepIsTyped ==
  ASSUME TypeOK, InstallGoesOn, UninstallGoesOn, [Next]_vars
  PROVE  TypeOK'
<1>1. CASE UNCHANGED vars
  BY <1>1 DEF vars, TypeOK
<1> QED BY <1>1, InstallIsTyped, InstallStepIsTyped, InstallFailsIsTyped, RollBackStepIsTyped, RollBackEndsIsTyped,
           UninstallIsTyped, UninstallStepIsTyped, GivingUpIsTyped, EditIsTyped DEF Next

-----------------------------------------------------------------------------
(* Steps keep the invariant *)

\* A sequence of writes with nothing pending.
LEMMA NothingPending == Distinct(<<>>) /\ Range(<<>>) = {} /\ Pending(<<>>) = {}
BY DEF Distinct, Range, Pending

\* What a command saw stays what it saw.
LEMMA SameCommand ==
  ASSUME cmd'.v = cmd.v, seen' = seen
  PROVE  /\ StrangersSeen' = StrangersSeen /\ MissingSeen' = MissingSeen /\ StaleSeen' = StaleSeen
         /\ NewRules' = NewRules /\ NewClaims' = NewClaims /\ RulesSeen' = RulesSeen /\ ClaimsSeen' = ClaimsSeen
<1>1. RulesSeen' = RulesSeen /\ ClaimsSeen' = ClaimsSeen /\ StrangersSeen' = StrangersSeen
  BY DEF RulesSeen, ClaimsSeen, StrangersSeen
<1>2. MissingSeen' = MissingSeen /\ StaleSeen' = StaleSeen
  BY <1>1 DEF MissingSeen, StaleSeen
<1> QED BY <1>1, <1>2 DEF NewRules, NewClaims

\* Between commands only the ledger has something to keep.
LEMMA CommandEnds ==
  ASSUME TypeOK', cmd' = Idle, todo' = <<>>, undo' = <<>>,
         ~lost' => \A r \in put' : Known(r) => r \in RulesAt("ledger")'
  PROVE  PackInv'
<1>1. cmd'.op = "none"
  BY IdleIsTyped
<1>2. PlanHolds'
  BY <1>1, NothingPending DEF PlanHolds
<1>3. InstallGoesOn' /\ UninstallGoesOn' /\ LedgerIsUntouched'
  BY <1>1 DEF InstallGoesOn, UninstallGoesOn, LedgerIsUntouched
<1>4. UndoHolds'
  BY <1>1, NothingPending DEF UndoHolds
<1>5. RulesAreClaimed'
  BY <1>1 DEF RulesAreClaimed
<1> QED BY <1>2, <1>3, <1>4, <1>5 DEF PackInv

\* Init has nothing to keep.
LEMMA InitIsConsistent == Init => PackInv
<1> SUFFICES ASSUME Init PROVE PackInv
  OBVIOUS
<1>1. /\ IsDisk(disk) /\ cmd = Idle /\ todo = <<>> /\ undo = <<>> /\ out = "none" /\ seen = disk /\ touched = {}
      /\ put = {} /\ lost = FALSE /\ spent = [commands |-> 0, edits |-> 0, crashes |-> 0, fails |-> 0]
  BY ProjectsAssumption DEF Init
<1>2. TypeOK
  BY <1>1, IdleIsTyped DEF TypeOK
<1>3. cmd.op = "none"
  BY <1>1, IdleIsTyped
<1>4. PlanHolds
  BY <1>1, <1>3, NothingPending DEF PlanHolds
<1>5. InstallGoesOn /\ UninstallGoesOn /\ LedgerIsUntouched /\ RulesAreClaimed
  BY <1>1, <1>3 DEF InstallGoesOn, UninstallGoesOn, LedgerIsUntouched, RulesAreClaimed
<1>6. UndoHolds
  BY <1>1, <1>3, NothingPending DEF UndoHolds
<1> QED BY <1>2, <1>4, <1>5, <1>6 DEF PackInv

\* A refused command changes nothing.
LEMMA Refused ==
  ASSUME PackInv, TypeOK', CountCommand, NEW why, Refuse(why)
  PROVE  PackInv'
<1>1. cmd = Idle /\ cmd.op = "none"
  BY IdleIsTyped DEF CountCommand
<1>2. cmd' = Idle /\ UNCHANGED <<disk, cmd, todo, undo, seen, touched, put, lost>>
  BY <1>1 DEF Refuse
<1>3. todo = <<>> /\ undo = <<>>
  BY <1>1 DEF PackInv, PlanHolds
<1>4. ~lost => \A r \in put : Known(r) => r \in RulesAt("ledger")
  BY <1>1 DEF PackInv, RulesAreClaimed
<1>5. RulesAt("ledger")' = RulesAt("ledger")
  BY <1>2 DEF RulesAt
<1> QED BY <1>2, <1>3, <1>4, <1>5, CommandEnds

\* An install begins, and sees what its plan was made of.
LEMMA InstallBegins ==
  ASSUME PackInv, TypeOK', CountCommand, NEW v \in Versions, NEW force \in BOOLEAN,
         disk["settings"] # Symlink, Strangers(v) # {} => force,
         Begin([Idle EXCEPT !.op = "install", !.v = v, !.force = force, !.replaced = Strangers(v)], InstallSteps(v))
  PROVE  PackInv'
<1> DEFINE rules == (RulesAt("settings") \ StaleOwnedRules(v)) \cup Missing(v)
           s == InstallSteps(v)
<1>1. /\ cmd' = [Idle EXCEPT !.op = "install", !.v = v, !.force = force, !.replaced = Strangers(v)]
      /\ todo' = s /\ undo' = <<>> /\ out' = "running" /\ seen' = disk /\ touched' = {}
      /\ UNCHANGED <<disk, put, lost>>
  BY DEF Begin
<1>2. cmd'.op = "install" /\ cmd'.v = v /\ cmd'.force = force /\ cmd'.replaced = Strangers(v)
  BY <1>1 DEF Idle
<1>3. TypeOK
  BY DEF PackInv
<1>4. /\ s \in Seq(Writes) /\ s # <<>> /\ Distinct(s) /\ GoLast(s, {"legacy"})
      /\ Range(s) \subseteq
           {Put(d, Pack(v)) : d \in Files}
           \cup {Put("settings", Allow(rules)), Put("ledger", Claims(Ownership(v))),
                 Put("portable", Record("ours")), Put("legacy", Absent)}
      /\ {"ledger", "portable", "legacy"} \subseteq Pending(s)
      /\ \A d \in Files : d \in Pending(s) \/ disk[d] = Pack(v)
      /\ "settings" \in Pending(s) \/ (Missing(v) = {} /\ StaleOwnedRules(v) = {})
  BY <1>3, InstallPlan
<1>5. /\ StrangersSeen' = Strangers(v) /\ MissingSeen' = Missing(v) /\ StaleSeen' = StaleOwnedRules(v)
      /\ RulesSeen' = RulesAt("settings") /\ ClaimsSeen' = RulesAt("ledger")
  <2>1. RulesSeen' = RulesAt("settings") /\ ClaimsSeen' = RulesAt("ledger")
    BY <1>1 DEF RulesSeen, ClaimsSeen, RulesAt
  <2>2. StrangersSeen' = Strangers(v)
    BY <1>1, <1>2 DEF StrangersSeen, Strangers
  <2>3. MissingSeen' = Missing(v)
    BY <1>2, <2>1 DEF MissingSeen, Missing
  <2>4. StaleSeen' = StaleOwnedRules(v)
    BY <1>2, <2>1 DEF StaleSeen, StaleOwnedRules, OurRules
  <2> QED BY <2>1, <2>2, <2>3, <2>4
<1>6. NewRules' = rules /\ NewClaims' = Ownership(v)
  BY <1>2, <1>5 DEF NewRules, NewClaims, Ownership, OurRules
<1>7. PlanHolds'
  <2>1. \A x \in Range(s) : disk'[x.path] = seen'[x.path]
    BY <1>1
  <2> HIDE DEF s
  <2> QED BY <1>1, <1>2, <1>4, <1>5, <2>1 DEF PlanHolds
<1>8. InstallGoesOn'
  <2>1. "settings" \in Pending(s) \/ (disk'["settings"] # Symlink /\ RulesAt("settings")' = rules)
    BY <1>1, <1>4 DEF RulesAt
  <2> HIDE DEF s, rules
  <2>2. /\ Range(todo') \subseteq
             {Put(d, Pack(cmd'.v)) : d \in Files}
             \cup {Put("settings", Allow(NewRules')), Put("ledger", Claims(NewClaims')), Put("portable", Record("ours")),
                   Put("legacy", Absent)}
    BY <1>1, <1>2, <1>4, <1>6
  <2>3. /\ "legacy" \in Pending(todo') /\ GoLast(todo', {"legacy"})
        /\ \A d \in Files \ touched' : d \in Pending(todo') \/ disk'[d] = Pack(cmd'.v)
        /\ "settings" \in Pending(todo') \cup touched'
           \/ (disk'["settings"] # Symlink /\ RulesAt("settings")' = NewRules')
        /\ "ledger" \in Pending(todo') /\ "portable" \in Pending(todo')
    BY <1>1, <1>2, <1>4, <1>6, <2>1
  <2> QED BY <2>2, <2>3 DEF InstallGoesOn
<1>9. UninstallGoesOn' /\ LedgerIsUntouched'
  BY <1>1, <1>2 DEF UninstallGoesOn, LedgerIsUntouched
<1>10. UndoHolds'
  BY <1>1, <1>2, NothingPending DEF UndoHolds
<1>11. RulesAreClaimed'
  <2> SUFFICES ASSUME ~lost', NEW r \in put', Known(r)
               PROVE  r \in ClaimsSeen' /\ ("settings" \in Pending(todo') \/ r \in NewClaims' \cap Declared[v])
    BY <1>2 DEF RulesAreClaimed
  <2>1. cmd.op = "none"
    BY IdleIsTyped DEF CountCommand
  <2>2. r \in RulesAt("ledger")
    BY <1>1, <2>1 DEF PackInv, RulesAreClaimed
  <2>3. r \in Catalog[v]
    BY DEF Known
  <2>4. ASSUME "settings" \notin Pending(s) PROVE r \in Ownership(v) \cap Declared[v]
    <3>1. StaleOwnedRules(v) = {}
      BY <1>4, <2>4
    <3> QED BY <2>2, <2>3, <3>1 DEF Ownership, StaleOwnedRules, OurRules
  <2> QED BY <1>1, <1>5, <1>6, <2>2, <2>4
<1> QED BY <1>7, <1>8, <1>9, <1>10, <1>11 DEF PackInv

\* An uninstall begins.
LEMMA UninstallBegins ==
  ASSUME PackInv, TypeOK', CountCommand, NEW v \in Versions, NEW force \in BOOLEAN, NEW withdraw \in BOOLEAN,
         Strangers(v) # {} => force,
         Begin([Idle EXCEPT !.op = "uninstall", !.v = v, !.force = force, !.withdraw = withdraw,
                            !.claims = OurRules(v, RulesAt("ledger"))], UninstallSteps(withdraw))
  PROVE  PackInv'
<1> DEFINE s == UninstallSteps(withdraw)
<1>1. /\ cmd' = [Idle EXCEPT !.op = "uninstall", !.v = v, !.force = force, !.withdraw = withdraw,
                             !.claims = OurRules(v, RulesAt("ledger"))]
      /\ todo' = s /\ undo' = <<>> /\ out' = "running" /\ seen' = disk /\ touched' = {}
      /\ UNCHANGED <<disk, put, lost>>
  BY DEF Begin
<1>2. cmd'.op = "uninstall" /\ cmd'.v = v /\ cmd'.force = force /\ cmd'.withdraw = withdraw
      /\ cmd'.claims = OurRules(v, RulesAt("ledger"))
  BY <1>1 DEF Idle
<1>3. TypeOK
  BY DEF PackInv
<1>4. /\ s \in Seq(Writes) /\ s # <<>> /\ Distinct(s) /\ GoLast(s, {"legacy", "portable"}) /\ GoLast(s, {"portable"})
      /\ {"ledger", "portable", "legacy"} \subseteq Pending(s)
      /\ \A d \in Files : d \in Pending(s) \/ disk[d] = Absent
      /\ "settings" \in Pending(s) <=> withdraw
  BY <1>3, UninstallPlan
<1>5. StrangersSeen' = Strangers(v) /\ cmd'.claims = ClaimsSeen' \cap Catalog[cmd'.v]
  <2>1. ClaimsSeen' = RulesAt("ledger")
    BY <1>1 DEF ClaimsSeen, RulesAt
  <2>2. StrangersSeen' = Strangers(v)
    BY <1>1, <1>2 DEF StrangersSeen, Strangers
  <2> QED BY <1>2, <2>1, <2>2 DEF OurRules
<1> HIDE DEF s
<1>6. PlanHolds'
  <2>1. \A x \in Range(s) : disk'[x.path] = seen'[x.path]
    BY <1>1
  <2> QED BY <1>1, <1>2, <1>4, <1>5, <2>1 DEF PlanHolds
<1>7. UninstallGoesOn'
  BY <1>1, <1>2, <1>4 DEF UninstallGoesOn
<1>8. InstallGoesOn' /\ LedgerIsUntouched'
  BY <1>2 DEF InstallGoesOn, LedgerIsUntouched
<1>9. UndoHolds'
  BY <1>1, <1>2, NothingPending DEF UndoHolds
<1>10. RulesAreClaimed'
  <2>1. cmd.op = "none"
    BY IdleIsTyped DEF CountCommand
  <2>2. ~lost => \A r \in put : Known(r) => r \in RulesAt("ledger")
    BY <2>1 DEF PackInv, RulesAreClaimed
  <2>3. RulesAt("ledger")' = RulesAt("ledger")
    BY <1>1 DEF RulesAt
  <2> QED BY <1>1, <1>2, <2>2, <2>3 DEF RulesAreClaimed
<1> QED BY <1>6, <1>7, <1>8, <1>9, <1>10 DEF PackInv

\* What a step of an install does to the disk: one path becomes what was planned.
LEMMA WritesOnePath ==
  ASSUME PackInv, InstallStep, NEW w, w = Head(todo)
  PROVE  /\ cmd.op = "install" /\ todo \in Seq(Writes) /\ todo # <<>> /\ w \in Writes /\ w \in Range(todo)
         /\ w.path \in Paths /\ w.path \in Pending(todo)
         /\ disk'[w.path] = w.entry /\ \A q \in Paths : q # w.path => disk'[q] = disk[q]
         /\ w.path \in Files => w.entry = Pack(cmd.v)
         /\ w.path = "settings" => w.entry = Allow(NewRules)
         /\ w.path = "ledger" => w.entry = Claims(NewClaims)
         /\ w.path = "portable" => w.entry = Record("ours")
         /\ put' = PutWith(w.path, w.entry) /\ UNCHANGED <<seen, touched, lost>>
<1>1. cmd.op = "install" /\ todo \in Seq(Writes) /\ todo # <<>> /\ TypeOK /\ InstallGoesOn
  BY DEF PackInv, TypeOK, InstallStep
<1>2. w \in Writes /\ w \in Range(todo)
  BY <1>1, PopRange
<1>3. w.path \in Paths /\ w.entry \in EntriesAt(w.path) /\ w.path \in Pending(todo)
  BY <1>2, WriteIsPut DEF Pending
<1>4. disk'[w.path] = w.entry /\ \A q \in Paths : q # w.path => disk'[q] = disk[q]
  <2> DEFINE p == w.path
             e == w.entry
  <2>1. disk' = [disk EXCEPT ![p] = e] /\ p \in Paths /\ e \in EntriesAt(p)
    BY <1>3 DEF InstallStep
  <2> HIDE DEF p, e
  <2>2. disk'[p] = e /\ \A q \in Paths : q # p => disk'[q] = disk[q]
    BY <1>1, <2>1, ChangeOnePath
  <2> QED BY <2>2 DEF p, e
<1>5. /\ w.path \in Files => w.entry = Pack(cmd.v)
      /\ w.path = "settings" => w.entry = Allow(NewRules)
      /\ w.path = "ledger" => w.entry = Claims(NewClaims)
      /\ w.path = "portable" => w.entry = Record("ours")
  <2>1. w \in {Put(d, Pack(cmd.v)) : d \in Files}
             \cup {Put("settings", Allow(NewRules)), Put("ledger", Claims(NewClaims)), Put("portable", Record("ours")),
                   Put("legacy", Absent)}
    BY <1>1, <1>2 DEF InstallGoesOn
  <2>2. \A q, f : Put(q, f).path = q /\ Put(q, f).entry = f
    BY DEF Put
  <2> QED BY <2>1, <2>2, PathsAre
<1>6. put' = PutWith(w.path, w.entry) /\ UNCHANGED <<seen, touched, lost>>
  BY DEF InstallStep
<1> QED BY <1>1, <1>2, <1>3, <1>4, <1>5, <1>6

\* The last write of an install takes the legacy record away, when all else is done.
LEMMA LastWrite ==
  ASSUME PackInv, InstallStep, Len(todo) = 1
  PROVE  /\ Head(todo).path = "legacy" /\ Pending(todo) = {"legacy"} /\ put' = put /\ cmd' = Idle
         /\ \A q \in Paths : q # "legacy" => disk'[q] = disk[q]
<1> DEFINE w == Head(todo)
<1>1. todo \in Seq(Writes) /\ todo # <<>> /\ cmd.op = "install"
  BY WritesOnePath
<1>2. Tail(todo) = <<>>
  <2>1. Len(Tail(todo)) = 0 /\ Tail(todo) \in Seq(Writes)
    BY <1>1, PopRange
  <2> QED BY <2>1, EmptySeq
<1>3. Pending(todo) = {w.path}
  <2>1. Distinct(todo)
    BY DEF PackInv, PlanHolds
  <2>2. Pending(todo) = {w.path} \cup Pending(Tail(todo))
    BY <1>1, <2>1, PopDistinct
  <2> QED BY <1>2, <2>2, NothingPending
<1>4. w.path = "legacy"
  BY <1>1, <1>3 DEF PackInv, InstallGoesOn
<1>5. put' = put
  BY <1>4, WritesOnePath DEF PutWith
<1>6. cmd' = Idle
  BY DEF InstallStep, Finish
<1> QED BY <1>3, <1>4, <1>5, <1>6, WritesOnePath

\* Until then it has more to write, and logs what it overwrites.
LEMMA WritesOn ==
  ASSUME PackInv, InstallStep, Len(todo) # 1, NEW w, w = Head(todo)
  PROVE  /\ w.path # "legacy" /\ cmd' = cmd /\ todo' = Tail(todo) /\ out' = out /\ todo' # <<>>
         /\ Distinct(todo') /\ Pending(todo) = {w.path} \cup Pending(todo') /\ w.path \notin Pending(todo')
         /\ Range(todo') \subseteq Range(todo) /\ GoLast(todo', {"legacy"})
         /\ Range(undo') = {Put(w.path, disk[w.path])} \cup Range(undo)
         /\ Pending(undo') = {w.path} \cup Pending(undo) /\ Distinct(undo')
<1>1. todo \in Seq(Writes) /\ todo # <<>> /\ cmd.op = "install" /\ w.path \in Pending(todo) /\ w.path \in Paths
  BY WritesOnePath
<1>2. cmd' = cmd /\ todo' = Tail(todo) /\ undo' = Logged(w) /\ out' = out
  BY DEF InstallStep
<1>3. Distinct(todo) /\ GoLast(todo, {"legacy"}) /\ Distinct(undo) /\ Pending(undo) \cap Pending(todo) = {}
      /\ undo \in Seq(Writes)
  BY <1>1 DEF PackInv, PlanHolds, InstallGoesOn, UndoHolds, TypeOK
<1>4. Tail(todo) # <<>> /\ Tail(todo) \in Seq(Writes) /\ Range(Tail(todo)) \subseteq Range(todo)
  <2>1. Len(Tail(todo)) = Len(todo) - 1 /\ Len(todo) \in Nat \ {0} /\ Tail(todo) \in Seq(Writes)
        /\ Range(todo) = {Head(todo)} \cup Range(Tail(todo))
    BY <1>1, PopRange
  <2>2. Len(Tail(todo)) # 0
    BY <2>1
  <2> QED BY <2>1, <2>2, EmptySeq
<1>5. Distinct(Tail(todo)) /\ Pending(todo) = {w.path} \cup Pending(Tail(todo)) /\ w.path \notin Pending(Tail(todo))
  BY <1>1, <1>3, PopDistinct
<1>6. GoLast(Tail(todo), {"legacy"}) /\ (w.path \in {"legacy"} => Pending(Tail(todo)) \subseteq {"legacy"})
  BY <1>1, <1>3, PopLast
<1>7. w.path # "legacy"
  <2>1. Head(Tail(todo)).path \in Pending(Tail(todo))
    BY <1>4, PopRange DEF Pending
  <2> QED BY <1>5, <1>6, <2>1
<1>8. /\ Range(undo') = {Put(w.path, disk[w.path])} \cup Range(undo)
      /\ Pending(undo') = {w.path} \cup Pending(undo) /\ Distinct(undo')
  <2>1. PICK u \in Writes : u = Put(w.path, disk[w.path]) /\ u.path = w.path
    <3>1. disk[w.path] \in EntriesAt(w.path)
      BY <1>1 DEF PackInv, TypeOK, IsDisk
    <3> QED BY <1>1, <3>1, PutIsWrite
  <2>2. undo' = <<u>> \o undo
    BY <1>2, <1>7, <2>1 DEF Logged
  <2>3. u.path \notin Pending(undo)
    BY <1>1, <1>3, <2>1
  <2> QED BY <1>3, <2>1, <2>2, <2>3, PushRange
<1> QED BY <1>2, <1>4, <1>5, <1>6, <1>7, <1>8

\* The last write of an install: what it added is claimed.
LEMMA InstallEnds ==
  ASSUME PackInv, TypeOK', InstallStep, Len(todo) = 1
  PROVE  PackInv'
<1>1. /\ Pending(todo) = {"legacy"} /\ put' = put /\ cmd' = Idle
      /\ \A q \in Paths : q # "legacy" => disk'[q] = disk[q]
  BY LastWrite
<1>2. todo' = <<>> /\ undo' = <<>>
  BY DEF InstallStep, Finish
<1>3. ASSUME ~lost', NEW r \in put', Known(r) PROVE r \in RulesAt("ledger")'
  <2>1. lost' = lost /\ cmd.op = "install" /\ "ledger" \in Paths
    BY WritesOnePath, PathsAre
  <2>2. r \in NewClaims
    BY <1>1, <1>3, <2>1 DEF PackInv, RulesAreClaimed
  <2>3. disk["ledger"] = Claims(NewClaims)
    BY <1>1, <1>3, <2>1 DEF PackInv, InstallGoesOn, LedgerIsUntouched
  <2>4. disk'["ledger"] = Claims(NewClaims)
    BY <1>1, <2>1, <2>3
  <2> QED BY <2>2, <2>4, RulesInEntries DEF RulesAt
<1> QED BY <1>1, <1>2, <1>3, CommandEnds

\* A write before it: the plan goes on.
LEMMA InstallGoesOnStep ==
  ASSUME PackInv, InstallStep, Len(todo) # 1
  PROVE  PlanHolds' /\ InstallGoesOn' /\ UninstallGoesOn' /\ LedgerIsUntouched'
<1> DEFINE w == Head(todo)
<1>1. /\ cmd.op = "install" /\ w \in Range(todo) /\ w.path \in Paths /\ w.path \in Pending(todo)
      /\ disk'[w.path] = w.entry /\ \A q \in Paths : q # w.path => disk'[q] = disk[q]
      /\ w.path \in Files => w.entry = Pack(cmd.v)
      /\ w.path = "settings" => w.entry = Allow(NewRules)
      /\ w.path = "ledger" => w.entry = Claims(NewClaims)
      /\ w.path = "portable" => w.entry = Record("ours")
      /\ UNCHANGED <<seen, touched, lost>>
  BY WritesOnePath
<1>2. /\ w.path # "legacy" /\ cmd' = cmd /\ todo' # <<>>
      /\ Distinct(todo') /\ Pending(todo) = {w.path} \cup Pending(todo') /\ w.path \notin Pending(todo')
      /\ Range(todo') \subseteq Range(todo) /\ GoLast(todo', {"legacy"})
  BY WritesOn
<1> HIDE DEF w
<1>3. /\ StrangersSeen' = StrangersSeen /\ MissingSeen' = MissingSeen /\ StaleSeen' = StaleSeen
      /\ NewRules' = NewRules /\ NewClaims' = NewClaims /\ ClaimsSeen' = ClaimsSeen
  BY <1>1, <1>2, SameCommand
<1>4. PlanHolds /\ InstallGoesOn /\ LedgerIsUntouched
  BY DEF PackInv
<1>5. PlanHolds'
  <2>1. \A x \in Range(todo') : x.path \notin touched' => disk'[x.path] = seen'[x.path]
    <3> SUFFICES ASSUME NEW x \in Range(todo'), x.path \notin touched PROVE disk'[x.path] = seen[x.path]
      BY <1>1
    <3>1. x \in Range(todo) /\ x.path \in Pending(todo')
      BY <1>2 DEF Pending
    <3>2. x.path # w.path /\ x.path \in Paths
      <4>1. x \in Writes
        <5>1. todo \in Seq(Writes)
          BY DEF PackInv, TypeOK
        <5> QED BY <3>1, <5>1 DEF Range
      <4> QED BY <1>2, <3>1, <4>1, WriteIsPut
    <3> QED BY <1>1, <1>4, <3>1, <3>2 DEF PlanHolds
  <2> QED BY <1>1, <1>2, <1>3, <1>4, <2>1 DEF PlanHolds
<1>6. InstallGoesOn'
  <2>1. Range(todo') \subseteq
          {Put(d, Pack(cmd'.v)) : d \in Files}
          \cup {Put("settings", Allow(NewRules')), Put("ledger", Claims(NewClaims')), Put("portable", Record("ours")),
                Put("legacy", Absent)}
    BY <1>1, <1>2, <1>3, <1>4 DEF InstallGoesOn
  <2>2. "legacy" \in Pending(todo')
    BY <1>1, <1>2, <1>4 DEF InstallGoesOn
  <2>3. \A d \in Files \ touched' : d \in Pending(todo') \/ disk'[d] = Pack(cmd'.v)
    <3> SUFFICES ASSUME NEW d \in Files \ touched, d \notin Pending(todo') PROVE disk'[d] = Pack(cmd.v)
      BY <1>1, <1>2
    <3>1. CASE d = w.path
      BY <1>1, <3>1
    <3>2. CASE d # w.path
      BY <1>1, <1>2, <1>4, <3>2, PathsAre DEF InstallGoesOn
    <3> QED BY <3>1, <3>2
  <2>4. "settings" \in Pending(todo') \cup touched'
        \/ (disk'["settings"] # Symlink /\ RulesAt("settings")' = NewRules')
    <3>1. CASE w.path = "settings"
      <4>1. disk'["settings"] = Allow(NewRules)
        BY <1>1, <3>1
      <4> QED BY <1>3, <4>1, Kinds, RulesInEntries DEF RulesAt
    <3>2. CASE w.path # "settings"
      <4>1. disk'["settings"] = disk["settings"]
        BY <1>1, <3>2, PathsAre
      <4>2. RulesAt("settings")' = RulesAt("settings")
        BY <4>1 DEF RulesAt
      <4> QED BY <1>1, <1>2, <1>3, <1>4, <3>2, <4>1, <4>2 DEF InstallGoesOn
    <3> QED BY <3>1, <3>2
  <2>5. "ledger" \in Pending(todo') \cup touched' \/ disk'["ledger"] = Claims(NewClaims')
    <3>1. CASE w.path = "ledger"
      BY <1>1, <1>3, <3>1
    <3>2. CASE w.path # "ledger"
      BY <1>1, <1>2, <1>3, <1>4, <3>2, PathsAre DEF InstallGoesOn
    <3> QED BY <3>1, <3>2
  <2>6. "portable" \in Pending(todo') \cup touched' \/ disk'["portable"] = Record("ours")
    <3>1. CASE w.path = "portable"
      BY <1>1, <3>1
    <3>2. CASE w.path # "portable"
      BY <1>1, <1>2, <1>4, <3>2, PathsAre DEF InstallGoesOn
    <3> QED BY <3>1, <3>2
  <2> QED BY <1>2, <2>1, <2>2, <2>3, <2>4, <2>5, <2>6 DEF InstallGoesOn
<1>7. UninstallGoesOn' /\ LedgerIsUntouched'
  BY <1>1, <1>2, <1>4 DEF UninstallGoesOn, LedgerIsUntouched
<1> QED BY <1>5, <1>6, <1>7

\* It can be undone.
LEMMA InstallLogs ==
  ASSUME PackInv, InstallStep, Len(todo) # 1
  PROVE  UndoHolds'
<1> DEFINE w == Head(todo)
<1>1. /\ cmd.op = "install" /\ w \in Range(todo) /\ w.path \in Paths /\ w.path \in Pending(todo)
      /\ disk'[w.path] = w.entry /\ \A q \in Paths : q # w.path => disk'[q] = disk[q]
      /\ w.path \in Files => w.entry = Pack(cmd.v)
      /\ UNCHANGED <<seen, touched, lost>>
  BY WritesOnePath
<1>2. /\ cmd' = cmd /\ out' = out /\ Pending(todo) = {w.path} \cup Pending(todo') /\ w.path \notin Pending(todo')
      /\ Range(undo') = {Put(w.path, disk[w.path])} \cup Range(undo)
      /\ Pending(undo') = {w.path} \cup Pending(undo) /\ Distinct(undo')
  BY WritesOn
<1> HIDE DEF w
<1>3. UndoHolds /\ PlanHolds
  BY DEF PackInv
<1>4. Pending(undo') \cap Pending(todo') = {} /\ out' = "running"
  BY <1>1, <1>2, <1>3 DEF UndoHolds
<1>5. ASSUME NEW x \in Range(undo'), x.path \notin touched' PROVE x.entry = seen'[x.path]
  <2>1. CASE x = Put(w.path, disk[w.path])
    <3>1. x.path = w.path /\ x.entry = disk[w.path]
      BY <2>1 DEF Put
    <3> QED BY <1>1, <1>3, <1>5, <3>1 DEF PlanHolds
  <2>2. CASE x \in Range(undo)
    BY <1>1, <1>3, <1>5, <2>2 DEF UndoHolds
  <2> QED BY <1>2, <2>1, <2>2
<1>6. ASSUME NEW p \in Paths \ touched' PROVE disk'[p] = seen'[p] \/ p \in Pending(undo') \/ out' = "half undone"
  BY <1>1, <1>2, <1>3 DEF UndoHolds
<1>7. ASSUME NEW d \in Files \ touched' PROVE disk'[d] \in {seen'[d], Pack(cmd'.v)}
  <2>1. d \in Paths /\ d \notin touched
    BY <1>1, PathsAre
  <2>2. CASE d = w.path
    BY <1>1, <1>2, <2>2
  <2>3. CASE d # w.path
    <3>1. disk[d] \in {seen[d], Pack(cmd.v)}
      BY <1>1, <1>3, <2>1 DEF UndoHolds
    <3> QED BY <1>1, <1>2, <2>1, <2>3, <3>1
  <2> QED BY <2>2, <2>3
<1> QED BY <1>1, <1>2, <1>4, <1>5, <1>6, <1>7 DEF UndoHolds

\* What it adds it is about to claim, and can take back.
LEMMA InstallAdds ==
  ASSUME PackInv, InstallStep, Len(todo) # 1
  PROVE  RulesAreClaimed'
<1> DEFINE w == Head(todo)
<1>1. /\ cmd.op = "install" /\ w.path \in Paths /\ w.path \in Pending(todo)
      /\ w.path = "settings" => w.entry = Allow(NewRules)
      /\ put' = PutWith(w.path, w.entry) /\ UNCHANGED <<seen, touched, lost>>
  BY WritesOnePath
<1>2. /\ cmd' = cmd /\ Pending(todo) = {w.path} \cup Pending(todo') /\ w.path \notin Pending(todo')
      /\ Range(undo') = {Put(w.path, disk[w.path])} \cup Range(undo)
  BY WritesOn
<1> HIDE DEF w
<1>3. NewClaims' = NewClaims /\ ClaimsSeen' = ClaimsSeen
  BY <1>1, <1>2, SameCommand
<1> SUFFICES ASSUME ~lost, NEW r \in put', Known(r)
             PROVE  /\ r \in ClaimsSeen \/ TakesBack(r)'
                    /\ IF "settings" \in Pending(todo') THEN r \in ClaimsSeen ELSE r \in NewClaims \cap Declared[cmd.v]
  BY <1>1, <1>2, <1>3 DEF RulesAreClaimed
<1>4. ASSUME r \in put
      PROVE  /\ r \in ClaimsSeen \/ TakesBack(r)
             /\ IF "settings" \in Pending(todo) THEN r \in ClaimsSeen ELSE r \in NewClaims \cap Declared[cmd.v]
  BY <1>1, <1>4 DEF PackInv, RulesAreClaimed
<1>5. TakesBack(r) => TakesBack(r)'
  BY <1>2 DEF TakesBack
<1>6. CASE w.path # "settings"
  <2>1. put' = put
    BY <1>1, <1>6 DEF PutWith
  <2> QED BY <1>2, <1>4, <1>5, <1>6, <2>1
<1>7. CASE w.path = "settings"
  <2>1. put' = (put \cup (NewRules \ (RulesSeen \cup RulesAt("settings")))) \cap NewRules
    BY <1>1, <1>7, Kinds DEF PutWith
  <2>2. r \in NewRules
    BY <2>1
  <2>3. cmd.v \in Versions /\ r \in Catalog[cmd.v]
    BY <1>1 DEF PackInv, PlanHolds, Known
  <2>4. CASE r \in put
    <3>1. r \in ClaimsSeen
      BY <1>1, <1>4, <1>7, <2>4
    <3>2. r \in Declared[cmd.v]
      BY <2>2, <2>3, <3>1 DEF NewRules, StaleSeen, MissingSeen
    <3>3. r \in NewClaims
      BY <2>3, <3>1, <3>2 DEF NewClaims, StaleSeen
    <3> QED BY <1>2, <1>7, <3>1, <3>2, <3>3
  <2>5. CASE r \notin put
    <3>1. r \notin RulesSeen /\ r \notin RulesAt("settings")
      BY <2>1, <2>5
    <3>2. r \in MissingSeen
      BY <2>2, <3>1 DEF NewRules
    <3>3. r \in Declared[cmd.v] /\ r \in NewClaims
      BY <3>2 DEF MissingSeen, NewClaims, StaleSeen
    <3>4. TakesBack(r)'
      <4>1. PICK x \in Range(undo') : x.path = "settings" /\ x.entry = disk["settings"]
        BY <1>2, <1>7 DEF Put
      <4>2. r \notin RulesIn(x.entry)
        BY <3>1, <4>1 DEF RulesAt
      <4> QED BY <4>1, <4>2 DEF TakesBack
    <3> QED BY <1>2, <1>7, <3>3, <3>4
  <2> QED BY <2>4, <2>5
<1> QED BY <1>6, <1>7

\* A failing write: what was written is to be undone.
LEMMA InstallTurnsBack ==
  ASSUME PackInv, TypeOK', InstallFails
  PROVE  PackInv'
<1>1. /\ cmd.op = "install" /\ cmd' = [cmd EXCEPT !.op = "rollback"] /\ todo' = <<>>
      /\ UNCHANGED <<disk, undo, out, seen, touched, put, lost>>
  BY DEF InstallFails
<1>2. /\ cmd'.op = "rollback" /\ cmd'.v = cmd.v /\ cmd'.force = cmd.force /\ cmd'.replaced = cmd.replaced
  <2>1. cmd \in [op : {"none", "install", "rollback", "uninstall"}, v : Versions \cup {1}, force : BOOLEAN,
                 withdraw : BOOLEAN, claims : SUBSET Rules, replaced : SUBSET Files]
    BY DEF PackInv, TypeOK
  <2> QED BY <1>1, <2>1
<1>3. /\ StrangersSeen' = StrangersSeen /\ ClaimsSeen' = ClaimsSeen
  BY <1>1, <1>2, SameCommand
<1>4. PlanHolds'
  BY <1>1, <1>2, <1>3, NothingPending DEF PackInv, PlanHolds
<1>5. InstallGoesOn' /\ UninstallGoesOn' /\ LedgerIsUntouched'
  BY <1>1, <1>2 DEF PackInv, InstallGoesOn, UninstallGoesOn, LedgerIsUntouched
<1>6. UndoHolds'
  <2>1. UndoHolds
    BY DEF PackInv
  <2> QED BY <1>1, <1>2, <2>1, NothingPending DEF UndoHolds
<1>7. RulesAreClaimed'
  <2>1. \A r : TakesBack(r)' <=> TakesBack(r)
    BY <1>1 DEF TakesBack
  <2>2. RulesAreClaimed
    BY DEF PackInv
  <2> QED BY <1>1, <1>2, <1>3, <2>1, <2>2 DEF RulesAreClaimed
<1> QED BY <1>4, <1>5, <1>6, <1>7 DEF PackInv

\* What a step of an undoing pops.
LEMMA PutsBackOnePath ==
  ASSUME PackInv, RollBackStep, NEW w, w = Head(undo)
  PROVE  /\ cmd.op = "rollback" /\ todo = <<>> /\ UNCHANGED <<cmd, todo, seen, touched>>
         /\ w \in Range(undo) /\ w.path \in Paths /\ Distinct(undo')
         /\ Range(undo) = {w} \cup Range(undo') /\ Pending(undo) = {w.path} \cup Pending(undo')
         /\ \/ /\ disk'[w.path] = w.entry /\ \A q \in Paths : q # w.path => disk'[q] = disk[q]
               /\ put' = IF w.path = "settings" THEN put \cap RulesIn(w.entry) ELSE put
               /\ UNCHANGED <<out, lost>>
            \/ out' = "half undone" /\ lost' = TRUE /\ UNCHANGED <<disk, put>>
<1>1. cmd.op = "rollback" /\ undo # <<>> /\ undo' = Tail(undo) /\ UNCHANGED <<cmd, todo, seen, touched>>
  BY DEF RollBackStep
<1>2. TypeOK /\ undo \in Seq(Writes) /\ Distinct(undo) /\ todo = <<>>
  BY <1>1 DEF PackInv, TypeOK, UndoHolds, PlanHolds
<1>3. w \in Writes /\ w \in Range(undo) /\ Range(undo) = {w} \cup Range(undo')
  BY <1>1, <1>2, PopRange
<1>4. Distinct(undo') /\ Pending(undo) = {w.path} \cup Pending(undo')
  BY <1>1, <1>2, PopDistinct
<1>5. w.path \in Paths /\ w.entry \in EntriesAt(w.path)
  BY <1>3, WriteIsPut
<1>6. CASE /\ disk' = [disk EXCEPT ![w.path] = w.entry]
           /\ put' = IF w.path = "settings" THEN put \cap RulesIn(w.entry) ELSE put
           /\ UNCHANGED <<out, lost, spent>>
  <2> DEFINE p == w.path
             e == w.entry
  <2>1. disk' = [disk EXCEPT ![p] = e] /\ p \in Paths /\ e \in EntriesAt(p)
    BY <1>5, <1>6
  <2> HIDE DEF p, e
  <2>2. disk'[p] = e /\ \A q \in Paths : q # p => disk'[q] = disk[q]
    BY <1>2, <2>1, ChangeOnePath
  <2> QED BY <1>1, <1>2, <1>3, <1>4, <1>5, <1>6, <2>2 DEF p, e
<1>7. CASE /\ spent' = [spent EXCEPT !.fails = @ + 1]
           /\ out' = "half undone" /\ lost' = TRUE
           /\ UNCHANGED <<disk, put>>
  BY <1>1, <1>2, <1>3, <1>4, <1>5, <1>7
<1> QED BY <1>6, <1>7 DEF RollBackStep

\* One path is put back, or cannot be.
LEMMA UndoGoesOn ==
  ASSUME PackInv, TypeOK', RollBackStep
  PROVE  PackInv'
<1> DEFINE w == Head(undo)
<1>1. /\ cmd.op = "rollback" /\ todo = <<>> /\ UNCHANGED <<cmd, todo, seen, touched>>
      /\ w \in Range(undo) /\ w.path \in Paths /\ Distinct(undo')
      /\ Range(undo) = {w} \cup Range(undo') /\ Pending(undo) = {w.path} \cup Pending(undo')
  BY PutsBackOnePath
<1>2. \/ /\ disk'[w.path] = w.entry /\ \A q \in Paths : q # w.path => disk'[q] = disk[q]
         /\ put' = IF w.path = "settings" THEN put \cap RulesIn(w.entry) ELSE put
         /\ UNCHANGED <<out, lost>>
      \/ out' = "half undone" /\ lost' = TRUE /\ UNCHANGED <<disk, put>>
  BY PutsBackOnePath
<1> HIDE DEF w
<1>3. PlanHolds /\ UndoHolds /\ RulesAreClaimed /\ LedgerIsUntouched
  BY DEF PackInv
<1>4. /\ StrangersSeen' = StrangersSeen /\ ClaimsSeen' = ClaimsSeen
  BY <1>1, SameCommand
<1>5. PlanHolds'
  BY <1>1, <1>3, <1>4, NothingPending DEF PlanHolds
<1>6. InstallGoesOn' /\ UninstallGoesOn' /\ LedgerIsUntouched'
  BY <1>1, <1>2, <1>3 DEF InstallGoesOn, UninstallGoesOn, LedgerIsUntouched
<1>7. /\ Distinct(undo') /\ Pending(undo') \cap Pending(todo') = {}
      /\ \A x \in Range(undo') : x.path \notin touched' => x.entry = seen'[x.path]
  <2>1. Pending(todo') = {}
    BY <1>1, NothingPending
  <2>2. \A x \in Range(undo) : x.path \notin touched => x.entry = seen[x.path]
    BY <1>1, <1>3 DEF UndoHolds
  <2> QED BY <1>1, <2>1, <2>2
<1>8. CASE /\ disk'[w.path] = w.entry /\ \A q \in Paths : q # w.path => disk'[q] = disk[q]
           /\ put' = IF w.path = "settings" THEN put \cap RulesIn(w.entry) ELSE put
           /\ UNCHANGED <<out, lost>>
  <2>1. w.path \notin touched => w.entry = seen[w.path]
    BY <1>1, <1>3 DEF UndoHolds
  <2>2. ASSUME NEW p \in Paths \ touched' PROVE disk'[p] = seen'[p] \/ p \in Pending(undo') \/ out' = "half undone"
    <3>1. disk[p] = seen[p] \/ p \in Pending(undo) \/ out = "half undone"
      BY <1>1, <1>3 DEF UndoHolds
    <3> QED BY <1>1, <1>8, <2>1, <3>1
  <2>3. ASSUME NEW d \in Files \ touched' PROVE disk'[d] \in {seen'[d], Pack(cmd'.v)}
    <3>1. disk[d] \in {seen[d], Pack(cmd.v)} /\ d \in Paths /\ d \notin touched
      BY <1>1, <1>3, PathsAre DEF UndoHolds
    <3>2. CASE d = w.path
      BY <1>1, <1>8, <2>1, <3>1, <3>2
    <3>3. CASE d # w.path
      BY <1>1, <1>8, <3>1, <3>3
    <3> QED BY <3>2, <3>3
  <2>4. UndoHolds'
    BY <1>1, <1>3, <1>7, <1>8, <2>2, <2>3 DEF UndoHolds
  <2>5. RulesAreClaimed'
    <3> SUFFICES ASSUME ~lost, NEW r \in put', Known(r) PROVE r \in ClaimsSeen \/ TakesBack(r)'
      BY <1>1, <1>4, <1>8 DEF RulesAreClaimed
    <3>1. r \in put
      BY <1>8
    <3>2. r \in ClaimsSeen \/ TakesBack(r)
      BY <1>1, <1>3, <3>1 DEF RulesAreClaimed
    <3>3. ASSUME TakesBack(r) PROVE TakesBack(r)'
      <4>1. PICK x \in Range(undo) : x.path = "settings" /\ r \notin RulesIn(x.entry)
        BY <3>3 DEF TakesBack
      <4>2. x # w
        BY <1>8, <4>1
      <4>3. x \in Range(undo')
        BY <1>1, <4>2
      <4> QED BY <4>1, <4>3 DEF TakesBack
    <3> QED BY <3>2, <3>3
  <2> QED BY <1>5, <1>6, <2>4, <2>5 DEF PackInv
<1>9. CASE out' = "half undone" /\ lost' = TRUE /\ UNCHANGED <<disk, put>>
  <2>1. \A d \in Files \ touched' : disk'[d] \in {seen'[d], Pack(cmd'.v)}
    BY <1>1, <1>3, <1>9 DEF UndoHolds
  <2>2. UndoHolds'
    BY <1>1, <1>7, <1>9, <2>1 DEF UndoHolds
  <2>3. RulesAreClaimed'
    BY <1>9 DEF RulesAreClaimed
  <2> QED BY <1>5, <1>6, <2>2, <2>3 DEF PackInv
<1> QED BY <1>2, <1>8, <1>9

\* An undoing that is through, and was not hindered, has put back what the command saw.
LEMMA AllIsUndone ==
  ASSUME PackInv, RollBackEnds, out # "half undone"
  PROVE  UNCHANGED disk /\ \A p \in Paths \ touched : disk[p] = seen[p]
<1>1. cmd.op = "rollback" /\ undo = <<>> /\ UNCHANGED disk
  BY DEF RollBackEnds
<1>2. Pending(undo) = {}
  BY <1>1, NothingPending
<1> QED BY <1>1, <1>2 DEF PackInv, UndoHolds

\* The undoing ends: what is left of the rules was claimed.
LEMMA UndoEnds ==
  ASSUME PackInv, TypeOK', RollBackEnds
  PROVE  PackInv'
<1>1. /\ cmd.op = "rollback" /\ undo = <<>> /\ cmd' = Idle /\ todo' = <<>> /\ undo' = <<>>
      /\ UNCHANGED <<disk, seen, touched, put, lost>>
  BY DEF RollBackEnds, Finish
<1>2. ASSUME ~lost', NEW r \in put', Known(r) PROVE r \in RulesAt("ledger")'
  <2>1. out # "half undone"
    <3>1. out = "running" \/ (out = "half undone" /\ lost)
      BY <1>1 DEF PackInv, UndoHolds
    <3> QED BY <1>1, <1>2, <3>1
  <2>2. r \in ClaimsSeen \/ TakesBack(r)
    BY <1>1, <1>2 DEF PackInv, RulesAreClaimed
  <2>3. ~TakesBack(r)
    BY <1>1, NothingPending DEF TakesBack
  <2>4. "ledger" \notin touched
    BY <1>1, <1>2 DEF PackInv, LedgerIsUntouched
  <2>5. disk["ledger"] = seen["ledger"]
    BY <2>1, <2>4, AllIsUndone, PathsAre
  <2> QED BY <1>1, <2>2, <2>3, <2>5 DEF ClaimsSeen, RulesAt
<1> QED BY <1>1, <1>2, CommandEnds

\* What a step of an uninstall leaves pending.
LEMMA RemovesOn ==
  ASSUME PackInv, UninstallStep, NEW w, w = Head(todo)
  PROVE  /\ cmd.op = "uninstall" /\ UNCHANGED <<seen, touched>>
         /\ w \in Range(todo) /\ w.path \in Paths /\ w.path \in Pending(todo)
         /\ \A q \in Paths : q # w.path => disk'[q] = disk[q]
         /\ w.path # "settings" => disk'[w.path] = Absent
         /\ w.path = "settings" => RulesAt("settings")' \cap cmd.claims = {}
         /\ Distinct(Tail(todo)) /\ Range(Tail(todo)) \subseteq Range(todo) /\ Range(Tail(todo)) \subseteq Writes
         /\ Pending(todo) = {w.path} \cup Pending(Tail(todo)) /\ w.path \notin Pending(Tail(todo))
         /\ GoLast(Tail(todo), {"legacy", "portable"}) /\ GoLast(Tail(todo), {"portable"})
         /\ w.path \in {"legacy", "portable"} => Pending(Tail(todo)) \subseteq {"legacy", "portable"}
         /\ w.path = "portable" => Pending(Tail(todo)) = {}
<1>1. /\ cmd.op = "uninstall" /\ todo \in Seq(Writes) /\ todo # <<>> /\ TypeOK /\ UninstallGoesOn /\ Distinct(todo)
      /\ GoLast(todo, {"legacy", "portable"}) /\ GoLast(todo, {"portable"}) /\ UNCHANGED <<seen, touched>>
  BY DEF PackInv, TypeOK, PlanHolds, UninstallGoesOn, UninstallStep
<1>2. /\ w \in Range(todo) /\ w.path \in Paths /\ Tail(todo) \in Seq(Writes)
      /\ \A q \in Paths : q # w.path => disk'[q] = disk[q]
      /\ w.path # "settings" => disk'[w.path] = Absent
      /\ w.path = "settings" => IF cmd.claims = {} THEN disk' = disk ELSE disk'["settings"] = Withdrawn
  BY <1>1, RemovesOnePath
<1>3. w.path = "settings" => RulesAt("settings")' \cap cmd.claims = {}
  <2>1. RulesIn(Withdrawn) \cap cmd.claims = {}
    BY RulesInEntries DEF Withdrawn
  <2> QED BY <1>2, <2>1 DEF RulesAt
<1>4. Distinct(Tail(todo)) /\ Pending(todo) = {w.path} \cup Pending(Tail(todo)) /\ w.path \notin Pending(Tail(todo))
  BY <1>1, PopDistinct
<1>5. Range(Tail(todo)) \subseteq Range(todo) /\ Range(Tail(todo)) \subseteq Writes
  <2>1. Range(Tail(todo)) \subseteq Range(todo)
    BY <1>1, PopRange
  <2>2. Range(Tail(todo)) \subseteq Writes
    BY <1>2 DEF Range
  <2> QED BY <2>1, <2>2
<1>6. GoLast(Tail(todo), {"legacy", "portable"})
      /\ (w.path \in {"legacy", "portable"} => Pending(Tail(todo)) \subseteq {"legacy", "portable"})
  BY <1>1, PopLast
<1>7. GoLast(Tail(todo), {"portable"}) /\ (w.path \in {"portable"} => Pending(Tail(todo)) \subseteq {"portable"})
  BY <1>1, PopLast
<1>8. w.path = "portable" => Pending(Tail(todo)) = {}
  BY <1>4, <1>7
<1> QED BY <1>1, <1>2, <1>3, <1>4, <1>5, <1>6, <1>7, <1>8

\* One path is removed.
LEMMA UninstallGoesOnStep ==
  ASSUME PackInv, TypeOK', UninstallStep
  PROVE  PackInv'
<1> DEFINE w == Head(todo)
<1>1. /\ cmd.op = "uninstall" /\ UNCHANGED <<seen, touched>>
      /\ w \in Range(todo) /\ w.path \in Paths /\ w.path \in Pending(todo)
      /\ \A q \in Paths : q # w.path => disk'[q] = disk[q]
      /\ w.path # "settings" => disk'[w.path] = Absent
      /\ w.path = "settings" => RulesAt("settings")' \cap cmd.claims = {}
      /\ Distinct(Tail(todo)) /\ Range(Tail(todo)) \subseteq Range(todo) /\ Range(Tail(todo)) \subseteq Writes
      /\ Pending(todo) = {w.path} \cup Pending(Tail(todo)) /\ w.path \notin Pending(Tail(todo))
      /\ GoLast(Tail(todo), {"legacy", "portable"}) /\ GoLast(Tail(todo), {"portable"})
      /\ w.path = "portable" => Pending(Tail(todo)) = {}
  BY RemovesOn
<1>2. put' \subseteq put /\ lost' = (lost /\ w.path # "ledger") /\ (w.path = "ledger" => put' = {})
  BY DEF UninstallStep
<1> HIDE DEF w
<1>3. ASSUME ~lost', NEW r \in put', Known(r) PROVE r \in RulesAt("ledger")'
  <2>1. w.path # "ledger"
    BY <1>2, <1>3
  <2>2. r \in RulesAt("ledger")
    BY <1>1, <1>2, <1>3, <2>1 DEF PackInv, RulesAreClaimed
  <2>3. disk'["ledger"] = disk["ledger"]
    BY <1>1, <2>1, PathsAre
  <2> QED BY <2>2, <2>3 DEF RulesAt
<1>4. CASE Len(todo) = 1
  <2>1. cmd' = Idle /\ todo' = <<>> /\ undo' = <<>>
    BY <1>4 DEF UninstallStep, Finish
  <2> QED BY <1>3, <2>1, CommandEnds
<1>5. CASE Len(todo) # 1
  <2>1. cmd' = cmd /\ todo' = Tail(todo) /\ UNCHANGED <<undo, out>>
    BY <1>5 DEF UninstallStep
  <2>2. todo' # <<>>
    <3>1. todo \in Seq(Writes) /\ todo # <<>>
      BY DEF PackInv, TypeOK, UninstallStep
    <3>2. Len(Tail(todo)) = Len(todo) - 1 /\ Len(todo) \in Nat \ {0} /\ Tail(todo) \in Seq(Writes)
      BY <3>1, PopRange
    <3>3. Len(Tail(todo)) # 0
      BY <1>5, <3>2
    <3> QED BY <2>1, <3>2, <3>3, EmptySeq
  <2>3. /\ StrangersSeen' = StrangersSeen /\ ClaimsSeen' = ClaimsSeen
    BY <1>1, <2>1, SameCommand
  <2>4. PlanHolds /\ UninstallGoesOn /\ UndoHolds
    BY DEF PackInv
  <2>5. PlanHolds'
    <3>1. \A x \in Range(todo') : x.path \notin touched' => disk'[x.path] = seen'[x.path]
      <4> SUFFICES ASSUME NEW x \in Range(Tail(todo)), x.path \notin touched PROVE disk'[x.path] = seen[x.path]
        BY <1>1, <2>1
      <4>1. x \in Range(todo) /\ x.path \in Pending(Tail(todo)) /\ x.path \in Paths
        BY <1>1, WriteIsPut DEF Pending
      <4>2. x.path # w.path
        BY <1>1, <4>1
      <4> QED BY <1>1, <2>4, <4>1, <4>2 DEF PlanHolds
    <3> QED BY <1>1, <2>1, <2>2, <2>3, <2>4, <3>1 DEF PlanHolds
  <2>6. UninstallGoesOn'
    <3>1. "portable" \in Pending(Tail(todo))
      <4>1. Head(Tail(todo)).path \in Pending(Tail(todo))
        <5>1. Tail(todo) \in Seq(Writes) /\ Tail(todo) # <<>>
          BY <2>1, <2>2 DEF TypeOK
        <5> QED BY <5>1, PopRange DEF Pending
      <4> QED BY <1>1, <2>4, <4>1 DEF UninstallGoesOn
    <3>2. ASSUME NEW p \in Files \cup {"ledger"} PROVE p \in Pending(Tail(todo)) \cup touched \/ disk'[p] = Absent
      <4>1. p \in Paths /\ p # "settings"
        BY PathsAre
      <4>2. p \in Pending(todo) \cup touched \/ disk[p] = Absent
        BY <1>1, <2>4 DEF UninstallGoesOn
      <4>3. CASE p = w.path
        BY <1>1, <4>1, <4>3
      <4>4. CASE p # w.path
        BY <1>1, <4>1, <4>2, <4>4
      <4> QED BY <4>3, <4>4
    <3>3. "settings" \in Pending(Tail(todo)) => cmd.withdraw
      BY <1>1, <2>4 DEF UninstallGoesOn
    <3>4. cmd.withdraw => "settings" \in Pending(Tail(todo)) \cup touched \/ RulesAt("settings")' \cap cmd.claims = {}
      <4>1. CASE w.path = "settings"
        BY <1>1, <4>1
      <4>2. CASE w.path # "settings"
        <5>1. RulesAt("settings")' = RulesAt("settings")
          BY <1>1, <4>2, PathsAre DEF RulesAt
        <5> QED BY <1>1, <2>4, <4>2, <5>1 DEF UninstallGoesOn
      <4> QED BY <4>1, <4>2
    <3> QED BY <1>1, <2>1, <3>1, <3>2, <3>3, <3>4 DEF UninstallGoesOn
  <2>7. InstallGoesOn' /\ LedgerIsUntouched'
    BY <1>1, <2>1 DEF InstallGoesOn, LedgerIsUntouched
  <2>8. UndoHolds'
    BY <1>1, <2>1, <2>4 DEF UndoHolds
  <2>9. RulesAreClaimed'
    BY <1>1, <1>3, <2>1 DEF RulesAreClaimed
  <2> QED BY <2>5, <2>6, <2>7, <2>8, <2>9 DEF PackInv
<1> QED BY <1>4, <1>5

\* An uninstall fails, or a command is killed.
LEMMA GivesUp ==
  ASSUME PackInv, TypeOK', UninstallFails \/ Crash
  PROVE  PackInv'
<1>1. /\ cmd' = Idle /\ todo' = <<>> /\ undo' = <<>> /\ UNCHANGED <<disk, put>>
      /\ ~lost' => ~lost /\ cmd.op = "uninstall"
  <2>1. CASE UninstallFails
    BY <2>1 DEF UninstallFails, Finish
  <2>2. CASE Crash
    BY <2>2 DEF Crash, Finish
  <2> QED BY <2>1, <2>2
<1>2. ASSUME ~lost', NEW r \in put', Known(r) PROVE r \in RulesAt("ledger")'
  <2>1. r \in RulesAt("ledger")
    BY <1>1, <1>2 DEF PackInv, RulesAreClaimed
  <2> QED BY <1>1, <2>1 DEF RulesAt
<1> QED BY <1>1, <1>2, CommandEnds

\* Somebody edits a path.
LEMMA Edited ==
  ASSUME PackInv, TypeOK', Edit
  PROVE  PackInv'
<1>1. TypeOK /\ PlanHolds /\ InstallGoesOn /\ UninstallGoesOn /\ UndoHolds /\ RulesAreClaimed /\ LedgerIsUntouched
  BY DEF PackInv
<1>2. PICK p \in Paths :
        /\ \A q \in Paths : q # p => disk'[q] = disk[q]
        /\ touched' = touched \cup {p}
        /\ put' \subseteq put
        /\ lost' = (lost \/ p = "ledger")
  BY <1>1, EditsOnePath
<1>3. UNCHANGED <<cmd, todo, undo, out, seen>>
  BY DEF Edit
<1>4. /\ StrangersSeen' = StrangersSeen /\ NewRules' = NewRules /\ NewClaims' = NewClaims /\ ClaimsSeen' = ClaimsSeen
  BY <1>3, SameCommand
<1>5. \A q \in Paths : q \notin touched' => disk'[q] = disk[q] /\ q \notin touched
  BY <1>2
<1>6. \A q : q \in {"settings", "ledger"} /\ q \notin touched' => RulesAt(q)' = RulesAt(q)
  BY <1>5, PathsAre DEF RulesAt
<1>7. PlanHolds'
  <2>1. \A x \in Range(todo') : x.path \notin touched' => disk'[x.path] = seen'[x.path]
    <3> SUFFICES ASSUME NEW x \in Range(todo), x.path \notin touched' PROVE disk'[x.path] = seen[x.path]
      BY <1>3
    <3>1. todo \in Seq(Writes)
      BY <1>1 DEF TypeOK
    <3>2. x.path \in Paths
      BY <3>1, WriteIsPut DEF Range
    <3> QED BY <1>1, <1>5, <3>2 DEF PlanHolds
  <2> QED BY <1>1, <1>3, <1>4, <2>1 DEF PlanHolds
<1>8. InstallGoesOn'
  <2> SUFFICES ASSUME cmd.op = "install" PROVE InstallGoesOn'
    BY <1>3 DEF InstallGoesOn
  <2>1. /\ Range(todo') \subseteq
             {Put(d, Pack(cmd'.v)) : d \in Files}
             \cup {Put("settings", Allow(NewRules')), Put("ledger", Claims(NewClaims')), Put("portable", Record("ours")),
                   Put("legacy", Absent)}
        /\ "legacy" \in Pending(todo') /\ GoLast(todo', {"legacy"})
    BY <1>1, <1>3, <1>4 DEF InstallGoesOn
  <2>2. \A d \in Files \ touched' : d \in Pending(todo') \/ disk'[d] = Pack(cmd'.v)
    BY <1>1, <1>3, <1>5, PathsAre DEF InstallGoesOn
  <2>3. "settings" \in Pending(todo') \cup touched'
        \/ (disk'["settings"] # Symlink /\ RulesAt("settings")' = NewRules')
    BY <1>1, <1>3, <1>4, <1>5, <1>6, PathsAre DEF InstallGoesOn
  <2>4. /\ "ledger" \in Pending(todo') \cup touched' \/ disk'["ledger"] = Claims(NewClaims')
        /\ "portable" \in Pending(todo') \cup touched' \/ disk'["portable"] = Record("ours")
    BY <1>1, <1>3, <1>4, <1>5, PathsAre DEF InstallGoesOn
  <2> QED BY <2>1, <2>2, <2>3, <2>4 DEF InstallGoesOn
<1>9. UninstallGoesOn'
  <2> SUFFICES ASSUME cmd.op = "uninstall" PROVE UninstallGoesOn'
    BY <1>3 DEF UninstallGoesOn
  <2>1. \A q \in Files \cup {"ledger"} : q \in Pending(todo') \cup touched' \/ disk'[q] = Absent
    BY <1>1, <1>3, <1>5, PathsAre DEF UninstallGoesOn
  <2>2. cmd.withdraw => "settings" \in Pending(todo') \cup touched' \/ RulesAt("settings")' \cap cmd'.claims = {}
    BY <1>1, <1>2, <1>3, <1>6 DEF UninstallGoesOn
  <2> QED BY <1>1, <1>3, <2>1, <2>2 DEF UninstallGoesOn
<1>10. UndoHolds'
  <2>1. ASSUME cmd.op \in {"install", "rollback"}
        PROVE  /\ \A x \in Range(undo') : x.path \notin touched' => x.entry = seen'[x.path]
               /\ \A q \in Paths \ touched' : disk'[q] = seen'[q] \/ q \in Pending(undo') \/ out' = "half undone"
               /\ \A d \in Files \ touched' : disk'[d] \in {seen'[d], Pack(cmd'.v)}
    <3>1. \A x \in Range(undo') : x.path \notin touched' => x.entry = seen'[x.path]
      BY <1>1, <1>2, <1>3, <2>1 DEF UndoHolds
    <3>2. \A q \in Paths \ touched' : disk'[q] = seen'[q] \/ q \in Pending(undo') \/ out' = "half undone"
      BY <1>1, <1>3, <1>5, <2>1 DEF UndoHolds
    <3>3. \A d \in Files \ touched' : disk'[d] \in {seen'[d], Pack(cmd'.v)}
      BY <1>1, <1>3, <1>5, <2>1, PathsAre DEF UndoHolds
    <3> QED BY <3>1, <3>2, <3>3
  <2>2. lost => lost'
    BY <1>2
  <2> QED BY <1>1, <1>3, <2>1, <2>2 DEF UndoHolds
<1>11. RulesAreClaimed'
  <2>1. \A r : TakesBack(r)' <=> TakesBack(r)
    BY <1>3 DEF TakesBack
  <2>2. ~lost' => ~lost /\ RulesAt("ledger")' = RulesAt("ledger")
    BY <1>2, PathsAre DEF RulesAt
  <2> QED BY <1>1, <1>2, <1>3, <1>4, <2>1, <2>2 DEF RulesAreClaimed
<1>12. LedgerIsUntouched'
  BY <1>1, <1>2, <1>3 DEF LedgerIsUntouched
<1> QED BY <1>7, <1>8, <1>9, <1>10, <1>11, <1>12 DEF PackInv

\* Every step keeps the invariant.
LEMMA StepIsConsistent ==
  ASSUME PackInv, [Next]_vars
  PROVE  PackInv'
<1>1. TypeOK'
  BY StepIsTyped DEF PackInv
<1>2. CASE Install
  <2>1. CountCommand
    BY <1>2 DEF Install
  <2>2. PICK v \in Versions, force \in BOOLEAN :
          \/ Refuse("unreadable") \/ Refuse("yours")
          \/ /\ disk["settings"] # Symlink /\ (Strangers(v) # {} => force)
             /\ Begin([Idle EXCEPT !.op = "install", !.v = v, !.force = force, !.replaced = Strangers(v)],
                      InstallSteps(v))
    BY <1>2 DEF Install
  <2>3. CASE Refuse("unreadable") \/ Refuse("yours")
    BY <1>1, <2>1, <2>3, Refused
  <2>4. CASE /\ disk["settings"] # Symlink /\ (Strangers(v) # {} => force)
             /\ Begin([Idle EXCEPT !.op = "install", !.v = v, !.force = force, !.replaced = Strangers(v)],
                      InstallSteps(v))
    BY <1>1, <2>1, <2>4, InstallBegins
  <2> QED BY <2>2, <2>3, <2>4
<1>3. CASE Uninstall
  <2>1. CountCommand
    BY <1>3 DEF Uninstall
  <2>2. PICK v \in Versions, force \in BOOLEAN, withdraw \in BOOLEAN :
          \/ Refuse("unreadable") \/ Refuse("not installed") \/ Refuse("yours")
          \/ /\ Strangers(v) # {} => force
             /\ Begin([Idle EXCEPT !.op = "uninstall", !.v = v, !.force = force, !.withdraw = withdraw,
                                   !.claims = OurRules(v, RulesAt("ledger"))], UninstallSteps(withdraw))
    BY <1>3 DEF Uninstall
  <2>3. CASE Refuse("unreadable") \/ Refuse("not installed") \/ Refuse("yours")
    BY <1>1, <2>1, <2>3, Refused
  <2>4. CASE /\ Strangers(v) # {} => force
             /\ Begin([Idle EXCEPT !.op = "uninstall", !.v = v, !.force = force, !.withdraw = withdraw,
                                   !.claims = OurRules(v, RulesAt("ledger"))], UninstallSteps(withdraw))
    BY <1>1, <2>1, <2>4, UninstallBegins
  <2> QED BY <2>2, <2>3, <2>4
<1>4. CASE InstallStep
  <2>1. CASE Len(todo) = 1
    BY <1>1, <1>4, <2>1, InstallEnds
  <2>2. CASE Len(todo) # 1
    BY <1>1, <1>4, <2>2, InstallGoesOnStep, InstallLogs, InstallAdds DEF PackInv
  <2> QED BY <2>1, <2>2
<1>5. CASE UNCHANGED vars
  <2>1. TypeOK /\ PlanHolds /\ InstallGoesOn /\ UninstallGoesOn /\ UndoHolds /\ RulesAreClaimed /\ LedgerIsUntouched
    BY DEF PackInv
  <2>2. /\ StrangersSeen' = StrangersSeen /\ NewRules' = NewRules /\ NewClaims' = NewClaims /\ ClaimsSeen' = ClaimsSeen
    BY <1>5, SameCommand DEF vars
  <2>3. \A q : RulesAt(q)' = RulesAt(q)
    BY <1>5 DEF vars, RulesAt
  <2>4. \A r : TakesBack(r)' <=> TakesBack(r)
    BY <1>5 DEF vars, TakesBack
  <2>5. PlanHolds' /\ UndoHolds' /\ LedgerIsUntouched'
    BY <1>5, <2>1, <2>2 DEF vars, PlanHolds, UndoHolds, LedgerIsUntouched
  <2>6. InstallGoesOn' /\ UninstallGoesOn'
    BY <1>5, <2>1, <2>2, <2>3 DEF vars, InstallGoesOn, UninstallGoesOn
  <2>7. RulesAreClaimed'
    BY <1>5, <2>1, <2>2, <2>3, <2>4 DEF vars, RulesAreClaimed
  <2> QED BY <1>1, <2>5, <2>6, <2>7 DEF PackInv
<1> QED BY <1>1, <1>2, <1>3, <1>4, <1>5, InstallTurnsBack, UndoGoesOn, UndoEnds, UninstallGoesOnStep, GivesUp, Edited
        DEF Next

\* The invariant holds throughout every history.
THEOREM PackIsConsistent == Spec => []PackInv
<1>1. Init => PackInv
  BY InitIsConsistent
<1>2. PackInv /\ [Next]_vars => PackInv'
  BY StepIsConsistent
<1> QED BY <1>1, <1>2, PTL DEF Spec

\* What is on the disk, planned, logged and claimed is what it may be.
THEOREM PackIsTyped == Spec => []TypeOK
<1>1. PackInv => TypeOK
  BY DEF PackInv
<1> QED BY <1>1, PackIsConsistent, PTL

\* installPlan.ownership: between commands the ledger claims every rule that installs added
\* and that is still there, whatever was installed, upgraded, undone and edited before.
THEOREM AddedRulesStayClaimed == Spec => []AddedRulesAreClaimed
<1>1. PackInv => AddedRulesAreClaimed
  BY IdleIsTyped DEF PackInv, RulesAreClaimed, AddedRulesAreClaimed, Known
<1> QED BY <1>1, PackIsConsistent, PTL
-----------------------------------------------------------------------------
(* What a step never does *)

\* The steps of a command that write.
LEMMA StepsThatWrite ==
  ASSUME TypeOK, [Next]_vars, Stepping, disk' # disk
  PROVE  InstallStep \/ RollBackStep \/ UninstallStep
<1>1. CASE Install \/ Uninstall
  BY <1>1 DEF Install, Uninstall, CountCommand, Stepping
<1>2. CASE InstallFails \/ RollBackEnds \/ UninstallFails \/ Crash
  BY <1>2 DEF InstallFails, RollBackEnds, UninstallFails, Crash
<1>3. CASE Edit
  <2>1. spent \in [commands : Nat, edits : Nat, crashes : Nat, fails : Nat]
    BY DEF TypeOK
  <2>2. spent' = [spent EXCEPT !.edits = @ + 1]
    BY <1>3 DEF Edit
  <2>3. spent'.edits = spent.edits + 1 /\ spent.edits \in Nat
    BY <2>1, <2>2
  <2> QED BY <2>3 DEF Stepping
<1>4. ~UNCHANGED vars
  BY DEF vars
<1> QED BY <1>1, <1>2, <1>3, <1>4 DEF Next

\* preflightDest and removeOwnedFiles: no command destroys a file or a symlink the program
\* cannot have written, unless --force was given, and an install said so.
THEOREM UserFilesAreKept == Spec => UserFilesSurvive
<1>1. ASSUME PackInv, [Next]_vars
      PROVE  Stepping => \A d \in Files \ touched :
               disk[d].kind \in {"foreign", "symlink"} /\ disk'[d] # disk[d] =>
                 cmd.force /\ (cmd.op = "install" => d \in cmd.replaced)
  <2> SUFFICES ASSUME Stepping, NEW d \in Files, d \notin touched,
                      disk[d].kind \in {"foreign", "symlink"}, disk'[d] # disk[d]
               PROVE  cmd.force /\ (cmd.op = "install" => d \in cmd.replaced)
    OBVIOUS
  <2>1. TypeOK /\ PlanHolds /\ UndoHolds /\ d \in Paths /\ disk' # disk
    BY <1>1, PathsAre DEF PackInv
  <2>2. ASSUME seen[d] = disk[d], cmd.op # "none" PROVE cmd.force /\ d \in StrangersSeen
    <3>1. d \in StrangersSeen
      BY <2>2, Kinds DEF StrangersSeen, Owns
    <3> QED BY <2>1, <2>2, <3>1 DEF PlanHolds
  <2>3. CASE InstallStep
    <3>1. PICK w : w = Head(todo)
      OBVIOUS
    <3>2. cmd.op = "install" /\ w \in Range(todo) /\ d = w.path
      BY <1>1, <2>1, <2>3, <3>1, WritesOnePath
    <3>3. seen[d] = disk[d]
      BY <2>1, <3>2 DEF PlanHolds
    <3> QED BY <2>1, <2>2, <3>2, <3>3 DEF PlanHolds
  <2>4. CASE RollBackStep
    <3>1. PICK w : w = Head(undo)
      OBVIOUS
    <3>2. cmd.op = "rollback" /\ w \in Range(undo) /\ d = w.path /\ disk'[d] = w.entry
      BY <1>1, <2>1, <2>4, <3>1, PutsBackOnePath
    <3>3. disk'[d] = seen[d]
      BY <2>1, <3>2 DEF UndoHolds
    <3>4. disk[d] \in {seen[d], Pack(cmd.v)}
      BY <2>1, <3>2 DEF UndoHolds
    <3> QED BY <3>3, <3>4, Kinds
  <2>5. CASE UninstallStep
    <3>1. PICK w : w = Head(todo)
      OBVIOUS
    <3>2. cmd.op = "uninstall" /\ w \in Range(todo) /\ d = w.path
      BY <1>1, <2>1, <2>5, <3>1, RemovesOn
    <3>3. seen[d] = disk[d]
      BY <2>1, <3>2 DEF PlanHolds
    <3> QED BY <2>2, <3>2, <3>3
  <2> QED BY <1>1, <2>1, <2>3, <2>4, <2>5, StepsThatWrite
<1>2. PackInv /\ [Next]_vars =>
        [Stepping => \A d \in Files \ touched :
           disk[d].kind \in {"foreign", "symlink"} /\ disk'[d] # disk[d] =>
             cmd.force /\ (cmd.op = "install" => d \in cmd.replaced)]_vars
  BY <1>1
<1> QED BY <1>2, PackIsConsistent, PTL DEF Spec, UserFilesSurvive

\* undoLog: an install that failed and could be undone leaves every path as it found it.
THEOREM FailedInstallIsUndone == Spec => FailedInstallChangesNothing
<1>1. ASSUME PackInv, [Next]_vars
      PROVE  out' = "undone" /\ out # "undone" => \A p \in DOMAIN disk \ touched : disk'[p] = seen[p]
  <2> SUFFICES ASSUME out' = "undone", out # "undone" PROVE \A p \in DOMAIN disk \ touched : disk'[p] = seen[p]
    OBVIOUS
  <2>1. RollBackEnds
    <3>1. ~(Install \/ Uninstall)
      BY DEF Install, Uninstall, Refuse, Begin
    <3>2. ~(InstallStep \/ UninstallStep)
      BY DEF InstallStep, UninstallStep, Finish
    <3>3. ~(InstallFails \/ RollBackStep \/ UninstallFails \/ Crash \/ Edit)
      BY DEF InstallFails, RollBackStep, UninstallFails, Crash, Edit, Finish
    <3> QED BY <1>1, <3>1, <3>2, <3>3 DEF Next, vars
  <2>2. out # "half undone"
    BY <2>1 DEF RollBackEnds, Finish
  <2>3. DOMAIN disk = Paths
    BY <1>1 DEF PackInv, TypeOK, IsDisk
  <2> QED BY <1>1, <2>1, <2>2, <2>3, AllIsUndone
<1>2. PackInv /\ [Next]_vars =>
        [out' = "undone" /\ out # "undone" => \A p \in DOMAIN disk \ touched : disk'[p] = seen[p]]_vars
  BY <1>1
<1> QED BY <1>2, PackIsConsistent, PTL DEF Spec, FailedInstallChangesNothing

\* ourRules, staleOwnedRules and dropHostPermissions: a rule the user had is only ever
\* withdrawn if the program once asked for it and the ledger claims it, and by an uninstall
\* only when told to.
THEOREM UserRulesAreKept == Spec => UserRulesSurvive
<1>1. ASSUME PackInv, [Next]_vars
      PROVE  Stepping /\ "settings" \notin touched =>
               \A r \in (RulesSeen \cap RulesAt("settings")) \ RulesLeft :
                 r \in Catalog[cmd.v] \cap ClaimsSeen /\ (cmd.op = "uninstall" => cmd.withdraw)
  <2> SUFFICES ASSUME Stepping, "settings" \notin touched,
                      NEW r, r \in RulesSeen, r \in RulesAt("settings"), r \notin RulesLeft
               PROVE  r \in Catalog[cmd.v] \cap ClaimsSeen /\ (cmd.op = "uninstall" => cmd.withdraw)
    OBVIOUS
  <2>1. TypeOK /\ PlanHolds /\ UndoHolds /\ UninstallGoesOn
    BY <1>1 DEF PackInv
  <2>2. disk'["settings"] # disk["settings"] /\ disk' # disk /\ "settings" \in Paths
    BY PathsAre DEF RulesLeft, RulesAt
  <2>3. CASE InstallStep
    <3>1. PICK w : w = Head(todo)
      OBVIOUS
    <3>2. cmd.op = "install" /\ "settings" = w.path /\ disk'["settings"] = w.entry /\ w.entry = Allow(NewRules)
      BY <1>1, <2>2, <2>3, <3>1, WritesOnePath
    <3>3. r \notin NewRules
      BY <3>2, RulesInEntries DEF RulesLeft
    <3>4. r \in StaleSeen
      BY <3>3 DEF NewRules
    <3> QED BY <3>2, <3>4 DEF StaleSeen
  <2>4. CASE RollBackStep
    <3>1. PICK w : w = Head(undo)
      OBVIOUS
    <3>2. cmd.op = "rollback" /\ w \in Range(undo) /\ w.path = "settings" /\ disk'["settings"] = w.entry
      BY <1>1, <2>2, <2>4, <3>1, PutsBackOnePath
    <3>3. disk'["settings"] = seen["settings"]
      BY <2>1, <3>2 DEF UndoHolds
    <3> QED BY <3>3 DEF RulesLeft, RulesSeen
  <2>5. CASE UninstallStep
    <3>1. PICK w : w = Head(todo)
      OBVIOUS
    <3>2. cmd.op = "uninstall" /\ w.path \in Pending(todo) /\ w.path = "settings"
      BY <1>1, <2>2, <2>5, <3>1, RemovesOn
    <3>3. cmd.withdraw /\ cmd.claims = ClaimsSeen \cap Catalog[cmd.v]
      BY <2>1, <3>2 DEF UninstallGoesOn, PlanHolds
    <3>4. disk'["settings"] = Withdrawn
      BY <2>1, <2>2, <2>5, <3>1, <3>2, RemovesOnePath
    <3>5. r \in cmd.claims
      <4>1. disk["settings"] # Absent
        BY RulesInEntries DEF RulesAt
      <4>2. disk'["settings"] = Allow(RulesAt("settings") \ cmd.claims)
        BY <3>4, <4>1 DEF Withdrawn
      <4> QED BY <4>2, RulesInEntries DEF RulesLeft
    <3> QED BY <3>3, <3>5
  <2> QED BY <1>1, <2>1, <2>2, <2>3, <2>4, <2>5, StepsThatWrite
<1>2. PackInv /\ [Next]_vars =>
        [Stepping /\ "settings" \notin touched =>
           \A r \in (RulesSeen \cap RulesAt("settings")) \ RulesLeft :
             r \in Catalog[cmd.v] \cap ClaimsSeen /\ (cmd.op = "uninstall" => cmd.withdraw)]_vars
  BY <1>1
<1> QED BY <1>2, PackIsConsistent, PTL DEF Spec, UserRulesSurvive

\* Only the last write of an install reports it as installed.
LEMMA InstallReports ==
  ASSUME PackInv, [Next]_vars, out' = "installed", out # "installed"
  PROVE  InstallStep /\ Len(todo) = 1 /\ cmd.op = "install" /\ Pending(todo) = {"legacy"} /\ put' = put
         /\ \A q \in Paths : q # "legacy" => disk'[q] = disk[q]
<1>1. ~(Install \/ Uninstall)
  BY DEF Install, Uninstall, Refuse, Begin
<1>2. ~(UninstallStep \/ UninstallFails \/ Crash)
  BY DEF UninstallStep, UninstallFails, Crash, Finish
<1>3. ~(InstallFails \/ RollBackStep \/ Edit)
  BY DEF InstallFails, RollBackStep, Edit
<1>4. ~RollBackEnds
  BY DEF RollBackEnds, Finish
<1>5. InstallStep
  BY <1>1, <1>2, <1>3, <1>4 DEF Next, vars
<1>6. Len(todo) = 1 /\ cmd.op = "install"
  BY <1>5 DEF InstallStep
<1> QED BY <1>5, <1>6, LastWrite

\* staleOwnedRules: an install leaves no rule that an earlier one added and that it does not
\* ask for, unless a release was used that does not know the rule.
THEOREM RetiredRulesAreWithdrawn == Spec => RetiredRulesGo
<1>1. ASSUME PackInv, [Next]_vars
      PROVE  out' = "installed" /\ out # "installed" /\ ~lost =>
               {r \in put' : \A v \in Versions : r \in Catalog[v]} \subseteq Declared[cmd.v]
  <2> SUFFICES ASSUME out' = "installed", out # "installed", ~lost, NEW r \in put', Known(r)
               PROVE  r \in Declared[cmd.v]
    BY DEF Known
  <2>1. cmd.op = "install" /\ Pending(todo) = {"legacy"} /\ put' = put
    BY <1>1, InstallReports
  <2> QED BY <1>1, <2>1 DEF PackInv, RulesAreClaimed
<1>2. PackInv /\ [Next]_vars =>
        [out' = "installed" /\ out # "installed" /\ ~lost =>
           {r \in put' : \A v \in Versions : r \in Catalog[v]} \subseteq Declared[cmd.v]]_vars
  BY <1>1
<1> QED BY <1>2, PackIsConsistent, PTL DEF Spec, RetiredRulesGo

\* applyHostInstall: what an install reports as installed, doctor finds to be so, but for
\* retired rules that the ledger did not claim.
THEOREM InstalledPackIsUsable == Spec => InstalledMeansUsable
<1>1. ASSUME PackInv, [Next]_vars
      PROVE  out' = "installed" /\ out # "installed" /\ touched = {} =>
               \A v \in Versions : v = cmd.v =>
                 /\ HostRecordCheck' /\ HostFilesCheck(v)'
                 /\ Declared[v] \subseteq RulesLeft
                 /\ HostPermissionsCheck(v)' \/ RetiredRules(v)' \cap ClaimsSeen = {}
  <2> SUFFICES ASSUME out' = "installed", out # "installed", touched = {}, NEW v \in Versions, v = cmd.v
               PROVE  /\ HostRecordCheck' /\ HostFilesCheck(v)'
                      /\ Declared[v] \subseteq RulesLeft
                      /\ RetiredRules(v)' \cap ClaimsSeen = {}
    OBVIOUS
  <2>1. /\ cmd.op = "install" /\ Pending(todo) = {"legacy"}
        /\ \A q \in Paths : q # "legacy" => disk'[q] = disk[q]
    BY <1>1, InstallReports
  <2>2. /\ \A d \in Files : disk[d] = Pack(cmd.v)
        /\ RulesAt("settings") = NewRules /\ disk["portable"] = Record("ours")
    BY <1>1, <2>1, PathsAre DEF PackInv, InstallGoesOn
  <2>3. HostRecordCheck'
    <3>1. disk'["portable"] = Record("ours")
      BY <2>1, <2>2, PathsAre
    <3> QED BY <3>1, Kinds DEF HostRecordCheck, RecordReadable, InstalledHost
  <2>4. HostFilesCheck(v)'
    BY <2>1, <2>2, PathsAre DEF HostFilesCheck
  <2>5. RulesLeft = NewRules /\ RulesAt("settings")' = NewRules
    BY <2>1, <2>2, PathsAre DEF RulesLeft, RulesAt
  <2>6. Declared[v] \subseteq NewRules
    BY DEF NewRules, StaleSeen, MissingSeen
  <2>7. \A r \in (NewRules \cap Catalog[v]) \ Declared[v] : r \notin ClaimsSeen
    BY DEF NewRules, StaleSeen, MissingSeen
  <2>8. RetiredRules(v)' \cap ClaimsSeen = {}
    BY <2>5, <2>7 DEF RetiredRules
  <2> QED BY <2>3, <2>4, <2>5, <2>6, <2>8
<1>2. PackInv /\ [Next]_vars =>
        [out' = "installed" /\ out # "installed" /\ touched = {} =>
           \A v \in Versions : v = cmd.v =>
             /\ HostRecordCheck' /\ HostFilesCheck(v)'
             /\ Declared[v] \subseteq RulesLeft
             /\ HostPermissionsCheck(v)' \/ RetiredRules(v)' \cap ClaimsSeen = {}]_vars
  BY <1>1
<1> QED BY <1>2, PackIsConsistent, PTL DEF Spec, InstalledMeansUsable

\* removeUninstallRecords: the last record goes when nothing is left to uninstall.
THEOREM LastRecordGoesLast == Spec => MarkerGoesLast
<1>1. ASSUME PackInv, [Next]_vars
      PROVE  cmd.op = "uninstall" /\ Stepping /\ ~NoRecord /\ NoRecord' =>
               /\ \A d \in Files \ touched : disk'[d] = Absent
               /\ "ledger" \in touched \/ disk'["ledger"] = Absent
               /\ cmd.withdraw /\ "settings" \notin touched => RulesLeft \cap cmd.claims = {}
  <2> SUFFICES ASSUME cmd.op = "uninstall", Stepping, ~NoRecord, NoRecord'
               PROVE  /\ \A d \in Files \ touched : disk'[d] = Absent
                      /\ "ledger" \in touched \/ disk'["ledger"] = Absent
                      /\ cmd.withdraw /\ "settings" \notin touched => RulesLeft \cap cmd.claims = {}
    OBVIOUS
  <2>1. TypeOK /\ UninstallGoesOn /\ disk' # disk
    BY <1>1 DEF PackInv, NoRecord
  <2>2. UninstallStep
    <3>1. InstallStep \/ RollBackStep \/ UninstallStep
      BY <1>1, <2>1, StepsThatWrite
    <3> QED BY <3>1 DEF InstallStep, RollBackStep
  <2>3. PICK w : w = Head(todo)
    OBVIOUS
  <2>4. /\ \A q \in Paths : q # w.path => disk'[q] = disk[q]
        /\ Pending(todo) = {w.path} \cup Pending(Tail(todo))
        /\ w.path \in {"legacy", "portable"} => Pending(Tail(todo)) \subseteq {"legacy", "portable"}
    BY <1>1, <2>2, <2>3, RemovesOn
  <2>5. w.path \in {"legacy", "portable"}
    BY <2>4, PathsAre DEF NoRecord
  <2>6. Pending(todo) \subseteq {"legacy", "portable"}
    BY <2>4, <2>5
  <2>7. /\ \A p \in Files \cup {"ledger"} : p \in touched \/ disk[p] = Absent
        /\ cmd.withdraw => "settings" \in touched \/ RulesAt("settings") \cap cmd.claims = {}
    BY <2>1, <2>6, PathsAre DEF UninstallGoesOn
  <2>8. \A p \in Files \cup {"ledger", "settings"} : disk'[p] = disk[p]
    BY <2>4, <2>5, PathsAre
  <2> QED BY <2>7, <2>8 DEF RulesLeft, RulesAt
<1>2. PackInv /\ [Next]_vars =>
        [cmd.op = "uninstall" /\ Stepping /\ ~NoRecord /\ NoRecord' =>
           /\ \A d \in Files \ touched : disk'[d] = Absent
           /\ "ledger" \in touched \/ disk'["ledger"] = Absent
           /\ cmd.withdraw /\ "settings" \notin touched => RulesLeft \cap cmd.claims = {}]_vars
  BY <1>1
<1> QED BY <1>2, PackIsConsistent, PTL DEF Spec, MarkerGoesLast
=============================================================================
