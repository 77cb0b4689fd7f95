---------------------------- MODULE HostRunSteps -----------------------------
(***************************************************************************)
(* The steps of a command keep the invariant of HostRunInvariant, and are  *)
(* steps that RunPromise allows: one lemma for each kind of write, then one *)
(* for each phase of a command, then one for each way in which it ends.    *)
(***************************************************************************)
EXTENDS HostRunInvariant, SequenceTheorems, FiniteSetTheorems, WellFoundedInduction, TLAPS

-----------------------------------------------------------------------------
(* Sequences of writes *)

\* The head and the tail of a sequence that starts with w.
LEMMA ConsHead ==
  ASSUME NEW W, NEW w \in W, NEW t \in Seq(W)
  PROVE  /\ <<w>> \o t \in Seq(W) /\ <<w>> \o t # <<>>
         /\ Head(<<w>> \o t) = w /\ Tail(<<w>> \o t) = t
<1>1. Len(<<w>> \o t) = 1 + Len(t)
  OBVIOUS
<1>2. Head(<<w>> \o t) = w
  OBVIOUS
<1>3. Tail(<<w>> \o t) \in Seq(W) /\ Len(Tail(<<w>> \o t)) = Len(t)
  BY <1>1
<1>4. \A i \in 1 .. Len(t) : Tail(<<w>> \o t)[i] = t[i]
  BY <1>1, <1>3
<1>5. Tail(<<w>> \o t) = t
  BY <1>3, <1>4, SeqEqual
<1> QED BY <1>1, <1>2, <1>5

\* The head and the tail of a concatenation.
LEMMA ConcatHead ==
  ASSUME NEW W, NEW h \in Seq(W), NEW s \in Seq(W), h # <<>>
  PROVE  /\ h \o s \in Seq(W) /\ h \o s # <<>>
         /\ Head(h \o s) = Head(h) /\ Tail(h \o s) = Tail(h) \o s
<1>1. Len(h) > 0 /\ Len(h \o s) = Len(h) + Len(s)
  OBVIOUS
<1>2. Head(h \o s) = Head(h)
  BY <1>1
<1>3. /\ Tail(h \o s) \in Seq(W) /\ Len(Tail(h \o s)) = Len(h) + Len(s) - 1
      /\ Tail(h) \o s \in Seq(W) /\ Len(Tail(h) \o s) = Len(h) + Len(s) - 1
  BY <1>1
<1>4. \A i \in 1 .. Len(h) + Len(s) - 1 : Tail(h \o s)[i] = (Tail(h) \o s)[i]
  BY <1>1, <1>3
<1>5. Tail(h \o s) = Tail(h) \o s
  BY <1>3, <1>4, SeqEqual
<1> QED BY <1>1, <1>2, <1>5


\* Concatenation is associative.
LEMMA Associative ==
  ASSUME NEW a \in Seq(Writes), NEW b \in Seq(Writes), NEW c \in Seq(Writes)
  PROVE  (a \o b) \o c = a \o (b \o c)
BY ConcatAssociative

\* The first write is one of those in front, or the one that lies ahead.
LEMMA AheadNext ==
  ASSUME NEW P \in SUBSET Writes, NEW A \in SUBSET Writes, NEW T \in SUBSET Seq(Writes),
         NEW s \in Ahead(P, A, T)
  PROVE  /\ s # <<>>
         /\ \/ Head(s) \in P /\ Tail(s) \in Ahead(P, A, T)
            \/ Head(s) \in A /\ Tail(s) \in T
<1>1. PICK h \in Seq(P), w \in A, t \in T : s = h \o (<<w>> \o t)
  BY DEF Ahead
<1>2. h \in Seq(Writes) /\ t \in Seq(Writes) /\ <<w>> \o t \in Seq(Writes)
  BY SeqMonotonic, ConsHead
<1>3. CASE h = <<>>
  <2>1. s = <<w>> \o t
    BY <1>1, <1>2, <1>3, ConcatEmptySeq
  <2> QED BY <2>1, <1>2, ConsHead, ZenonT(30)
<1>4. CASE h # <<>>
  <2>1. Head(h) \in P /\ Tail(h) \in Seq(P)
    BY <1>4, HeadTailProperties
  <2>2. s # <<>> /\ Head(s) = Head(h) /\ Tail(s) = Tail(h) \o (<<w>> \o t)
    BY <1>1, <1>2, <1>4, ConcatHead
  <2>3. Tail(s) \in Seq(Writes)
    BY <2>2, HeadTailProperties DEF Ahead
  <2> QED BY <2>1, <2>2, <2>3 DEF Ahead
<1> QED BY <1>3, <1>4

\* Nothing needs to be in front.
LEMMA AheadCons ==
  ASSUME NEW P \in SUBSET Writes, NEW A \in SUBSET Writes, NEW T \in SUBSET Seq(Writes), NEW w \in A, NEW t \in T
  PROVE  <<w>> \o t \in Ahead(P, A, T)
<1>1. <<w>> \o t \in Seq(Writes)
  BY ConsHead
<1>2. <<w>> \o t = <<>> \o (<<w>> \o t)
  BY <1>1, ConcatEmptySeq
<1>3. <<>> \in Seq(P)
  BY EmptySeq
<1> QED BY <1>1, <1>2, <1>3 DEF Ahead

\* More writes in front change nothing.
LEMMA AheadPrefix ==
  ASSUME NEW P \in SUBSET Writes, NEW A \in SUBSET Writes, NEW T \in SUBSET Seq(Writes),
         NEW h \in Seq(P), NEW s \in Ahead(P, A, T)
  PROVE  h \o s \in Ahead(P, A, T)
<1>1. PICK g \in Seq(P), w \in A, t \in T : s = g \o (<<w>> \o t)
  BY DEF Ahead
<1> DEFINE u == <<w>> \o t
<1>2. h \in Seq(Writes) /\ g \in Seq(Writes) /\ u \in Seq(Writes)
  BY SeqMonotonic, ConsHead
<1>3. h \o s = (h \o g) \o u
  <2> HIDE DEF u
  <2>1. (h \o g) \o u = h \o (g \o u)
    BY <1>2, Associative, Zenon
  <2> QED BY <1>1, <2>1, Zenon DEF u
<1>4. h \o g \in Seq(P)
  BY ConcatProperties
<1>5. h \o s \in Seq(Writes)
  BY <1>2, ConcatProperties DEF Ahead
<1> QED BY <1>3, <1>4, <1>5 DEF Ahead

\* What is appended follows what already follows.
LEMMA AheadAppend ==
  ASSUME NEW P \in SUBSET Writes, NEW A \in SUBSET Writes, NEW T \in SUBSET Seq(Writes), NEW U \in SUBSET Seq(Writes),
         NEW e \in Seq(Writes), \A t \in T : t \o e \in U,
         NEW s \in Ahead(P, A, T)
  PROVE  s \o e \in Ahead(P, A, U)
<1>1. PICK h \in Seq(P), w \in A, t \in T : s = h \o (<<w>> \o t)
  BY DEF Ahead
<1> DEFINE v == <<w>>
<1>2. h \in Seq(Writes) /\ t \in Seq(Writes) /\ v \in Seq(Writes) /\ v \o t \in Seq(Writes)
  BY SeqMonotonic, ConsHead
<1>3. s \o e = h \o (v \o (t \o e))
  <2> HIDE DEF v
  <2>1. (h \o (v \o t)) \o e = h \o ((v \o t) \o e)
    BY <1>2, Associative, ZenonT(30)
  <2>2. (v \o t) \o e = v \o (t \o e)
    BY <1>2, Associative, ZenonT(30)
  <2> QED BY <1>1, <2>1, <2>2, Zenon DEF v
<1>4. s \o e \in Seq(Writes) /\ t \o e \in U
  BY ConcatProperties DEF Ahead
<1> QED BY <1>3, <1>4 DEF Ahead

\* Every nonempty set of naturals has a least element.
LEMMA Least == ASSUME NEW S \in SUBSET Nat, S # {} PROVE \E n \in S : \A m \in S : n <= m
<1> DEFINE T == {1 .. n : n \in S}
<1>1. IsWellFoundedOn(StrictSubsetOrdering(Nat), FiniteSubsetsOf(Nat))
  BY FS_StrictSubsetOrderingWellFounded
<1>2. T \subseteq FiniteSubsetsOf(Nat)
  <2> SUFFICES ASSUME NEW n \in S PROVE 1 .. n \in FiniteSubsetsOf(Nat)
    OBVIOUS
  <2>1. IsFiniteSet(1 .. n)
    BY FS_Interval
  <2> QED BY <2>1 DEF FiniteSubsetsOf
<1>3. PICK t \in T : \A u \in T : <<u, t>> \notin StrictSubsetOrdering(Nat)
  <2> HIDE DEF T
  <2>1. T # {}
    BY DEF T
  <2> QED BY <1>1, <1>2, <2>1, WFMin
<1>4. PICK n \in S : t = 1 .. n
  OBVIOUS
<1>5. ASSUME NEW m \in S PROVE n <= m
  <2>1. SUFFICES ASSUME m < n PROVE FALSE
    OBVIOUS
  <2>2. 1 .. m \in SUBSET Nat /\ 1 .. n \in SUBSET Nat /\ 1 .. m \subseteq 1 .. n /\ 1 .. m # 1 .. n
    <3>1. n \in 1 .. n /\ n \notin 1 .. m
      BY <2>1
    <3> QED BY <2>1, <3>1
  <2>3. <<1 .. m, 1 .. n>> \in StrictSubsetOrdering(Nat)
    BY <2>2, Zenon DEF StrictSubsetOrdering
  <2> QED BY <1>3, <1>4, <2>3
<1> QED BY <1>5

\* A set of naturals that holds 0, and with each number the next, holds them all.
LEMMA Induct ==
  ASSUME NEW S \in SUBSET Nat, 0 \in S, \A n \in S : n + 1 \in S
  PROVE  S = Nat
<1> SUFFICES ASSUME Nat \ S # {} PROVE FALSE
  OBVIOUS
<1>1. PICK n \in Nat \ S : \A m \in Nat \ S : n <= m
  BY Least
<1>2. n # 0 /\ n - 1 \in Nat
  BY <1>1
<1>3. n - 1 \in S
  BY <1>1, <1>2
<1>4. n - 1 + 1 \in S
  BY <1>3
<1> QED BY <1>1, <1>4

\* FlattenSeq is the last of its partial concatenations.
LEMMA FlattenDef ==
  ASSUME NEW W, NEW ss \in Seq(Seq(W)), ss # <<>>
  PROVE  \E f \in [1 .. Len(ss) -> Seq(W)] :
           /\ f[1] = ss[1]
           /\ \A i \in 2 .. Len(ss) : f[i] = f[i - 1] \o ss[i]
           /\ FlattenSeq(ss) = f[Len(ss)]
<1> DEFINE Good(f, n) == \A i \in 1 .. n : f[i] = IF i = 1 THEN ss[i] ELSE f[i - 1] \o ss[i]
           S == {n \in Nat : n <= Len(ss) => \E f \in [1 .. n -> Seq(W)] : Good(f, n)}
<1>1. Len(ss) \in Nat /\ Len(ss) > 0 /\ \A i \in 1 .. Len(ss) : ss[i] \in Seq(W)
  OBVIOUS
<1>2. 0 \in S
  <2>1. [i \in 1 .. 0 |-> <<>>] \in [1 .. 0 -> Seq(W)] /\ Good([i \in 1 .. 0 |-> <<>>], 0)
    OBVIOUS
  <2> QED BY <2>1
<1>3. ASSUME NEW n \in S, n + 1 <= Len(ss)
      PROVE  \E g \in [1 .. n + 1 -> Seq(W)] : Good(g, n + 1)
  <2>1. PICK f \in [1 .. n -> Seq(W)] : Good(f, n)
    <3> HIDE DEF Good
    <3>1. n <= Len(ss)
      BY <1>1, <1>3
    <3> QED BY <3>1
  <2> DEFINE last == IF n = 0 THEN ss[1] ELSE f[n] \o ss[n + 1]
             g == [i \in 1 .. n + 1 |-> IF i = n + 1 THEN last ELSE f[i]]
  <2>2. last \in Seq(W)
    <3>1. ss[1] \in Seq(W) /\ ss[n + 1] \in Seq(W)
      BY <1>1, <1>3
    <3>2. CASE n = 0
      BY <3>1, <3>2
    <3>3. CASE n # 0
      <4>1. f[n] \in Seq(W)
        BY <3>3
      <4> QED BY <3>1, <3>3, <4>1, ConcatProperties
    <3> QED BY <3>2, <3>3
  <2> HIDE DEF last
  <2>3. g \in [1 .. n + 1 -> Seq(W)]
    BY <2>2
  <2>4. ASSUME NEW i \in 1 .. n + 1 PROVE g[i] = IF i = 1 THEN ss[i] ELSE g[i - 1] \o ss[i]
    <3>1. CASE i = n + 1
      <4>1. n # 0 => g[i - 1] = f[n]
        BY <3>1
      <4> QED BY <3>1, <4>1 DEF last
    <3>2. CASE i # n + 1
      <4>1. i \in 1 .. n /\ (i # 1 => i - 1 \in 1 .. n)
        BY <3>2
      <4>2. g[i] = f[i] /\ (i # 1 => g[i - 1] = f[i - 1])
        BY <4>1
      <4> HIDE DEF g
      <4> QED BY <2>1, <4>1, <4>2
    <3> QED BY <3>1, <3>2
  <2> QED BY <2>3, <2>4
<1>4. ASSUME NEW n \in S PROVE n + 1 \in S
  <2> HIDE DEF Good
  <2>1. n \in Nat /\ n + 1 \in Nat
    OBVIOUS
  <2>2. n + 1 <= Len(ss) => \E g \in [1 .. n + 1 -> Seq(W)] : Good(g, n + 1)
    BY <1>3
  <2> QED BY <2>1, <2>2
<1>5. S = Nat
  <2> HIDE DEF S
  <2>1. S \in SUBSET Nat
    BY DEF S
  <2> QED BY <1>2, <1>4, <2>1, Induct
<1> DEFINE F(g) == [i \in 1 .. Len(ss) |-> IF i = 1 THEN ss[i] ELSE g[i - 1] \o ss[i]]
<1>6. PICK f \in [1 .. Len(ss) -> Seq(W)] : Good(f, Len(ss))
  <2> HIDE DEF Good
  <2>1. Len(ss) \in S
    BY <1>1, <1>5
  <2> QED BY <2>1, <1>1
<1>7. f = F(f)
  BY <1>6
<1> DEFINE flat == CHOOSE g : g = F(g)
<1>8. flat = F(flat)
  <2> HIDE DEF F
  <2> QED BY <1>7
<1>9. FlattenSeq(ss) = flat[Len(ss)]
  BY <1>1 DEF FlattenSeq
<1> HIDE DEF flat
<1>10. \A i \in 1 .. Len(ss) : flat[i] = IF i = 1 THEN ss[i] ELSE flat[i - 1] \o ss[i]
  BY <1>8
<1> DEFINE R == {n \in Nat : n + 1 <= Len(ss) => flat[n + 1] \in Seq(W)}
<1>11. 0 \in R
  BY <1>1, <1>10
<1>12. ASSUME NEW n \in R PROVE n + 1 \in R
  <2> SUFFICES ASSUME n + 2 <= Len(ss) PROVE flat[n + 2] \in Seq(W)
    BY <1>1
  <2>1. flat[n + 1] \in Seq(W) /\ ss[n + 2] \in Seq(W)
    BY <1>1
  <2>2. flat[n + 2] = flat[n + 1] \o ss[n + 2]
    <3>1. n + 2 \in 1 .. Len(ss) /\ n + 2 # 1 /\ (n + 2) - 1 = n + 1
      BY <1>1
    <3>2. flat[n + 2] = flat[(n + 2) - 1] \o ss[n + 2]
      BY <1>10, <3>1
    <3> QED BY <3>1, <3>2
  <2> QED BY <2>1, <2>2, ConcatProperties
<1>13. R = Nat
  <2> HIDE DEF R
  <2>1. R \in SUBSET Nat
    BY DEF R
  <2> QED BY <1>11, <1>12, <2>1, Induct
<1>14. \A i \in 1 .. Len(ss) : flat[i] \in Seq(W)
  <2> SUFFICES ASSUME NEW i \in 1 .. Len(ss) PROVE flat[i] \in Seq(W)
    OBVIOUS
  <2>1. i - 1 \in Nat /\ (i - 1) + 1 = i
    BY <1>1
  <2>2. i - 1 \in R
    BY <2>1, <1>13
  <2> QED BY <2>1, <2>2, <1>1
<1>15. flat \in [1 .. Len(ss) -> Seq(W)]
  BY <1>8, <1>14
<1> QED
  <2>1. flat[1] = ss[1]
    BY <1>1, <1>10
  <2>2. ASSUME NEW i \in 2 .. Len(ss) PROVE flat[i] = flat[i - 1] \o ss[i]
    <3>1. i \in 1 .. Len(ss) /\ i # 1
      BY <1>1
    <3> QED BY <1>10, <3>1
  <2> QED BY <1>15, <2>1, <2>2, <1>9

\* Flattening sequences over W gives a sequence over W.
LEMMA FlattenType ==
  ASSUME NEW W, NEW ss \in Seq(Seq(W))
  PROVE  FlattenSeq(ss) \in Seq(W)
<1>1. CASE ss = <<>>
  BY <1>1, EmptySeq DEF FlattenSeq
<1>2. CASE ss # <<>>
  <2>1. PICK f \in [1 .. Len(ss) -> Seq(W)] : FlattenSeq(ss) = f[Len(ss)]
    BY <1>2, FlattenDef
  <2>2. Len(ss) \in 1 .. Len(ss)
    BY <1>2
  <2> QED BY <2>1, <2>2
<1> QED BY <1>1, <1>2

\* A write that lies ahead in one of the sequences lies ahead in all of them flattened.
LEMMA FlattenAhead ==
  ASSUME NEW P \in SUBSET Writes, NEW A \in SUBSET P, NEW ss \in Seq(Seq(P)), NEW k \in 1 .. Len(ss),
         ss[k] \in Ahead(P, A, Seq(P))
  PROVE  FlattenSeq(ss) \in Ahead(P, A, Seq(P))
<1>1. ss # <<>> /\ Len(ss) \in Nat
  OBVIOUS
<1>2. PICK f \in [1 .. Len(ss) -> Seq(P)] :
        /\ f[1] = ss[1]
        /\ \A i \in 2 .. Len(ss) : f[i] = f[i - 1] \o ss[i]
        /\ FlattenSeq(ss) = f[Len(ss)]
  BY <1>1, FlattenDef
<1> DEFINE S == {n \in Nat : k + n <= Len(ss) => f[k + n] \in Ahead(P, A, Seq(P))}
<1>a. Seq(P) \in SUBSET Seq(Writes) /\ A \in SUBSET Writes
  BY SeqMonotonic
<1>3. 0 \in S
  <2>1. CASE k = 1
    BY <2>1, <1>2
  <2>2. CASE k # 1
    <3>1. k \in 2 .. Len(ss) /\ k - 1 \in 1 .. Len(ss)
      BY <1>1, <2>2
    <3>2. f[k] = f[k - 1] \o ss[k] /\ f[k - 1] \in Seq(P)
      BY <1>2, <3>1
    <3>3. f[k] \in Ahead(P, A, Seq(P))
      BY <3>2, <1>a, AheadPrefix
    <3> QED BY <3>3
  <2> QED BY <2>1, <2>2
<1>4. ASSUME NEW n \in S PROVE n + 1 \in S
  <2> SUFFICES ASSUME k + n + 1 <= Len(ss) PROVE f[k + n + 1] \in Ahead(P, A, Seq(P))
    OBVIOUS
  <2>1. f[k + n] \in Ahead(P, A, Seq(P))
    BY <1>1
  <2>2. f[k + n + 1] = f[k + n] \o ss[k + n + 1] /\ ss[k + n + 1] \in Seq(P)
    <3>1. k + n + 1 \in 2 .. Len(ss) /\ k + n + 1 \in 1 .. Len(ss) /\ (k + n + 1) - 1 = k + n
      BY <1>1
    <3>2. f[k + n + 1] = f[(k + n + 1) - 1] \o ss[k + n + 1]
      BY <3>1, <1>2
    <3>3. ss[k + n + 1] \in Seq(P)
      BY <3>1
    <3> QED BY <3>1, <3>2, <3>3
  <2> DEFINE e == ss[k + n + 1]
  <2>3. \A t \in Seq(P) : t \o e \in Seq(P)
    BY <2>2, ConcatProperties
  <2>4. e \in Seq(Writes)
    BY <2>2, <1>a
  <2> HIDE DEF e
  <2>5. f[k + n] \o e \in Ahead(P, A, Seq(P))
    BY <2>1, <2>3, <2>4, <1>a, AheadAppend
  <2> QED BY <2>2, <2>5 DEF e
<1>5. S = Nat
  <2> HIDE DEF S
  <2>1. S \in SUBSET Nat
    BY DEF S
  <2> QED BY <1>3, <1>4, <2>1, Induct
<1>6. Len(ss) - k \in Nat /\ k + (Len(ss) - k) = Len(ss)
  BY <1>1
<1>7. Len(ss) - k \in S
  BY <1>5, <1>6
<1> QED BY <1>6, <1>7, <1>2, <1>1

\* SetToSeq lists the elements of a finite set, and nothing else.
LEMMA SetToSeqType ==
  ASSUME NEW D, IsFiniteSet(D)
  PROVE  /\ SetToSeq(D) \in Seq(D)
         /\ \A d \in D : \E i \in 1 .. Len(SetToSeq(D)) : SetToSeq(D)[i] = d
<1> DEFINE n == Cardinality(D)
<1>1. n \in Nat /\ ExistsBijection(1 .. n, D)
  BY FS_CardinalityType
<1>2. PICK b \in Bijection(1 .. n, D) : TRUE
  BY <1>1 DEF ExistsBijection
<1>3. b \in [1 .. n -> D] /\ IsInjective(b)
  BY <1>2 DEF Bijection, Injection, IsInjective
<1> DEFINE f == SetToSeq(D)
<1>4. f \in [1 .. n -> D] /\ IsInjective(f)
  BY <1>3 DEF SetToSeq
<1> HIDE DEF f, n
<1>5. f \in Injection(1 .. n, D)
  BY <1>4 DEF Injection, IsInjective
<1>6. IsFiniteSet(1 .. n) /\ Cardinality(1 .. n) = Cardinality(D)
  BY <1>1, FS_Interval DEF n
<1>7. f \in Surjection(1 .. n, D)
  BY <1>5, <1>6, FS_Injection
<1>8. f \in Seq(D) /\ Len(f) = n
  BY <1>1, <1>4
<1>9. \A d \in D : \E i \in 1 .. n : f[i] = d
  BY <1>7 DEF Surjection
<1> QED BY <1>8, <1>9 DEF f

-----------------------------------------------------------------------------
(* The workflows *)

\* What the built-in workflows have in common.
StageFacts(s) ==
  /\ s # "none"
  /\ Kind(s) = Workflow[s].kind /\ Kind(s) \in {"worker", "review", "gate", "terminal"}
  /\ Workflow[s].next \in Stages \cup {NoStage} /\ Workflow[s].onFixes \in Stages \cup {NoStage}
  /\ Workflow[s].readOnly \in BOOLEAN
  /\ Workflow[s].artifact \in ArtifactNames \cup {"none"}
  /\ Kind(s) = "terminal" => s = "done" /\ Workflow[s].next = NoStage
  /\ Workflow[s].next # "fix" /\ Workflow[s].next # s /\ Workflow[s].onFixes # s
  /\ Kind(s) = "review" <=> s = "review"
  /\ s = "fix" => "review" \in Stages
  /\ OwnsArtifact(Workflow[s]) => Kind(s) = "worker" /\ s \in UpTo(s) /\ Workflow[s].next \notin UpTo(s)
  /\ Workflow[s].artifact = "proposal" => s = "propose"
  /\ Workflow[s].artifact = "plan" => s = "plan"

\* A workflow that has left the owner of an artifact does not come back to it.
OwnerFacts(s) ==
  \A t \in Stages :
    /\ Workflow[t].next \in UpTo(s) => t \in UpTo(s)
    /\ Workflow[t].onFixes \notin UpTo(s)

\* What the three built-in workflows have in common.
LEMMA WorkflowFacts ==
  /\ IsFiniteSet(Stages) /\ Start \in Stages /\ NoStage \notin Stages /\ Kind(NoStage) = "none"
  /\ \A s \in Stages : StageFacts(s) /\ (OwnsArtifact(Workflow[s]) => OwnerFacts(s))
<1> DEFINE S3 == {"explore", "propose", "plan", "implement", "review", "fix", "verify", "done"}
           Is(s, kind, readOnly, artifact, next, onFixes) ==
             /\ Workflow[s].kind = kind /\ Workflow[s].readOnly = readOnly /\ Workflow[s].artifact = artifact
             /\ Workflow[s].next = next /\ Workflow[s].onFixes = onFixes
<1>1. IsFiniteSet(S3)
  <2> IsFiniteSet({}) /\ \A D, x : IsFiniteSet(D) => IsFiniteSet(D \cup {x})
    BY FS_EmptySet, FS_AddElement
  <2>1. IsFiniteSet({} \cup {"explore"} \cup {"propose"} \cup {"plan"} \cup {"implement"}
                       \cup {"review"} \cup {"fix"} \cup {"verify"} \cup {"done"})
    OBVIOUS
  <2>2. S3 = {} \cup {"explore"} \cup {"propose"} \cup {"plan"} \cup {"implement"}
                       \cup {"review"} \cup {"fix"} \cup {"verify"} \cup {"done"}
    OBVIOUS
  <2> QED BY <2>1, <2>2
<1>2. CASE Workflow = Quick
  <2>1. Stages = {"explore", "implement", "verify", "done"}
    BY <1>2 DEF Quick, Stages
  <2>2. /\ Is("explore", "worker", TRUE, "none", "implement", "")
        /\ Is("implement", "worker", FALSE, "none", "verify", "")
        /\ Is("verify", "gate", FALSE, "none", "done", "")
        /\ Is("done", "terminal", FALSE, "none", "", "")
    BY <1>2 DEF Quick, NoStage, Stage, Editor, Reader, Gate, Terminal
  <2>3. IsFiniteSet(Stages)
    BY <2>1, <1>1, FS_Subset
  <2>4. Start \in Stages /\ NoStage \notin Stages /\ Kind(NoStage) = "none"
    BY <2>1 DEF Start, NoStage, Kind, None
  <2>5. ASSUME NEW s \in Stages PROVE StageFacts(s)
    <3> USE <2>1, <2>2 DEF Kind, None, NoStage
    <3>1. s # "none" /\ Kind(s) = Workflow[s].kind /\ Kind(s) \in {"worker", "review", "gate", "terminal"}
      BY ZenonT(30)
    <3>2. Workflow[s].next \in Stages \cup {NoStage} /\ Workflow[s].next # "fix" /\ Workflow[s].next # s
      BY ZenonT(30)
    <3>3. Workflow[s].onFixes \in Stages \cup {NoStage} /\ Workflow[s].onFixes # s /\ Workflow[s].readOnly \in BOOLEAN
      BY ZenonT(30)
    <3>4. /\ Workflow[s].artifact \in ArtifactNames \cup {"none"}
          /\ Workflow[s].artifact = "proposal" => s = "propose"
          /\ Workflow[s].artifact = "plan" => s = "plan"
      BY ZenonT(30) DEF ArtifactNames
    <3>5. (Kind(s) = "terminal" => s = "done" /\ Workflow[s].next = NoStage) /\ (Kind(s) = "review" <=> s = "review")
      BY ZenonT(30)
    <3>6. s = "fix" => "review" \in Stages
      BY ZenonT(30)
    <3>7. OwnsArtifact(Workflow[s]) => Kind(s) = "worker" /\ s \in UpTo(s) /\ Workflow[s].next \notin UpTo(s)
      BY ZenonT(30) DEF OwnsArtifact, UpTo
    <3> QED BY <3>1, <3>2, <3>3, <3>4, <3>5, <3>6, <3>7, Zenon DEF StageFacts
  <2>6. \A s \in Stages : OwnsArtifact(Workflow[s]) => OwnerFacts(s)
    BY <2>1, <2>2, ZenonT(30) DEF OwnerFacts, OwnsArtifact, UpTo
  <2> QED BY <2>3, <2>4, <2>5, <2>6, Zenon
<1>3. CASE Workflow = Review
  <2>1. Stages = {"explore", "implement", "review", "fix", "verify", "done"}
    BY <1>3 DEF Review, Stages
  <2>2. /\ Is("explore", "worker", TRUE, "none", "implement", "")
        /\ Is("implement", "worker", FALSE, "none", "review", "")
        /\ Is("review", "review", TRUE, "none", "verify", "fix")
        /\ Is("fix", "worker", FALSE, "none", "review", "")
        /\ Is("verify", "gate", FALSE, "none", "done", "")
        /\ Is("done", "terminal", FALSE, "none", "", "")
    BY <1>3 DEF Review, NoStage, Stage, Editor, Reader, Reviewer, Gate, Terminal
  <2>3. IsFiniteSet(Stages)
    BY <2>1, <1>1, FS_Subset
  <2>4. Start \in Stages /\ NoStage \notin Stages /\ Kind(NoStage) = "none"
    BY <2>1 DEF Start, NoStage, Kind, None
  <2>5. ASSUME NEW s \in Stages PROVE StageFacts(s)
    <3> USE <2>1, <2>2 DEF Kind, None, NoStage
    <3>1. s # "none" /\ Kind(s) = Workflow[s].kind /\ Kind(s) \in {"worker", "review", "gate", "terminal"}
      BY ZenonT(30)
    <3>2. Workflow[s].next \in Stages \cup {NoStage} /\ Workflow[s].next # "fix" /\ Workflow[s].next # s
      BY ZenonT(30)
    <3>3. Workflow[s].onFixes \in Stages \cup {NoStage} /\ Workflow[s].onFixes # s /\ Workflow[s].readOnly \in BOOLEAN
      BY ZenonT(30)
    <3>4. /\ Workflow[s].artifact \in ArtifactNames \cup {"none"}
          /\ Workflow[s].artifact = "proposal" => s = "propose"
          /\ Workflow[s].artifact = "plan" => s = "plan"
      BY ZenonT(30) DEF ArtifactNames
    <3>5. (Kind(s) = "terminal" => s = "done" /\ Workflow[s].next = NoStage) /\ (Kind(s) = "review" <=> s = "review")
      BY ZenonT(30)
    <3>6. s = "fix" => "review" \in Stages
      BY ZenonT(30)
    <3>7. OwnsArtifact(Workflow[s]) => Kind(s) = "worker" /\ s \in UpTo(s) /\ Workflow[s].next \notin UpTo(s)
      BY ZenonT(30) DEF OwnsArtifact, UpTo
    <3> QED BY <3>1, <3>2, <3>3, <3>4, <3>5, <3>6, <3>7, Zenon DEF StageFacts
  <2>6. \A s \in Stages : OwnsArtifact(Workflow[s]) => OwnerFacts(s)
    BY <2>1, <2>2, ZenonT(30) DEF OwnerFacts, OwnsArtifact, UpTo
  <2> QED BY <2>3, <2>4, <2>5, <2>6, Zenon
<1>4. CASE Workflow = SDD
  <2>1. Stages = S3
    BY <1>4 DEF SDD, Stages
  <2>2. /\ Is("explore", "worker", TRUE, "none", "propose", "")
        /\ Is("propose", "worker", TRUE, "proposal", "plan", "")
        /\ Is("plan", "worker", TRUE, "plan", "implement", "")
        /\ Is("implement", "worker", FALSE, "none", "review", "")
        /\ Is("review", "review", TRUE, "none", "verify", "fix")
        /\ Is("fix", "worker", FALSE, "none", "review", "")
        /\ Is("verify", "gate", FALSE, "none", "done", "")
        /\ Is("done", "terminal", FALSE, "none", "", "")
    BY <1>4 DEF SDD, NoStage, Stage, Editor, Reader, Reviewer, Gate, Terminal
  <2>3. IsFiniteSet(Stages)
    BY <2>1, <1>1, FS_Subset
  <2>4. Start \in Stages /\ NoStage \notin Stages /\ Kind(NoStage) = "none"
    BY <2>1 DEF Start, NoStage, Kind, None
  <2>5. ASSUME NEW s \in Stages PROVE StageFacts(s)
    <3> USE <2>1, <2>2 DEF Kind, None, NoStage
    <3>1. s # "none" /\ Kind(s) = Workflow[s].kind /\ Kind(s) \in {"worker", "review", "gate", "terminal"}
      BY ZenonT(30)
    <3>2. Workflow[s].next \in Stages \cup {NoStage} /\ Workflow[s].next # "fix" /\ Workflow[s].next # s
      <4>1. Workflow[s].next \in S3 \cup {""}
        BY ZenonT(30) DEF S3
      <4>2. Workflow[s].next # "fix" /\ Workflow[s].next # s
        BY ZenonT(30)
      <4> QED BY <4>1, <4>2
    <3>3. Workflow[s].onFixes \in Stages \cup {NoStage} /\ Workflow[s].onFixes # s /\ Workflow[s].readOnly \in BOOLEAN
      <4>1. Workflow[s].onFixes \in {"fix", ""} /\ "fix" \in S3
        BY ZenonT(30) DEF S3
      <4>2. Workflow[s].onFixes # s /\ Workflow[s].readOnly \in BOOLEAN
        BY ZenonT(30)
      <4> QED BY <4>1, <4>2
    <3>4. /\ Workflow[s].artifact \in ArtifactNames \cup {"none"}
          /\ Workflow[s].artifact = "proposal" => s = "propose"
          /\ Workflow[s].artifact = "plan" => s = "plan"
      BY ZenonT(30) DEF ArtifactNames
    <3>5. (Kind(s) = "terminal" => s = "done" /\ Workflow[s].next = NoStage) /\ (Kind(s) = "review" <=> s = "review")
      BY ZenonT(30)
    <3>6. s = "fix" => "review" \in Stages
      BY ZenonT(30)
    <3>7. OwnsArtifact(Workflow[s]) => Kind(s) = "worker" /\ s \in UpTo(s) /\ Workflow[s].next \notin UpTo(s)
      BY ZenonT(30) DEF OwnsArtifact, UpTo
    <3> QED BY <3>1, <3>2, <3>3, <3>4, <3>5, <3>6, <3>7, Zenon DEF StageFacts
  <2>6. \A s \in Stages : OwnsArtifact(Workflow[s]) => OwnerFacts(s)
    BY <2>1, <2>2, ZenonT(30) DEF OwnerFacts, OwnsArtifact, UpTo
  <2> QED BY <2>3, <2>4, <2>5, <2>6, Zenon
<1> QED BY <1>2, <1>3, <1>4, ConfigAssumption

\* Worker ids are pairs, and there are finitely many.
LEMMA IdFacts ==
  /\ IsFiniteSet(Ids) /\ NoWorker \notin Ids /\ StageOf(NoWorker) = NoStage
  /\ \A n \in 1 .. MaxWorkers, s \in Stages : <<n, s>> \in Ids
  /\ \A id \in Ids : /\ id = <<id[1], StageOf(id)>> /\ id[1] \in 1 .. MaxWorkers /\ id[1] \in Nat
                     /\ StageOf(id) \in Stages
  /\ \A n, s : <<n, s>>[1] = n /\ StageOf(<<n, s>>) = s
<1>1. MaxWorkers \in Nat /\ IsFiniteSet(1 .. MaxWorkers)
  BY BoundsAssumption, FS_Interval
<1>2. IsFiniteSet(Ids)
  BY <1>1, WorkflowFacts, FS_Product DEF Ids
<1> QED BY <1>1, <1>2 DEF Ids, NoWorker, StageOf

-----------------------------------------------------------------------------
(* Saving state.json *)

\* A step that the promise allows, or does not see.
Promised == [Promise!Next]_(Promise!vars)

\* The run is r from now on, and nothing else is written.
SavesRun(r) ==
  /\ run' = r
  /\ surfaced' = IF r.why = "policy" THEN surfaced \cup {run.active} ELSE surfaced
  /\ UNCHANGED <<workers, reports, verdicts, artifacts, gate, baseline, changed, calls, replies, token, spent>>

\* The two specifications agree on the kinds of stages.
LEMMA PromiseKind == \A s : Promise!Kind(s) = Kind(s)
BY DEF Promise!Kind, Kind, Stages, None

\* Nobody is at work: every change is on record.
LEMMA NothingUnreported ==
  ASSUME Typed, Agreement, run.status # "blocked", run.active = NoWorker \/ Done(run.active)
  PROVE  Unreported = {}
<1> SUFFICES ASSUME NEW id \in Unreported PROVE FALSE
  OBVIOUS
<1>1. id \in DOMAIN changed /\ id \in Ids
  BY DEF Unreported, Typed
<1>2. run.active = id /\ id # NoWorker
  BY <1>1, IdFacts DEF Agreement, NoChangeIsSwallowed
<1>3. id \in DOMAIN reports /\ reports[id] = changed[id]
  BY <1>1, <1>2 DEF Agreement, ClosesAreAudited, Done, Has, Change
<1> QED BY <1>3 DEF Unreported

\* What no save of a run changes, as long as it takes back no agent and no entry.
LEMMA SaveAgrees ==
  ASSUME Typed, Agreement, NEW r \in RunStates, SavesRun(r), r.agents >= run.agents,
         "review" \in Stages => r.iterations["review"] >= run.iterations["review"]
  PROVE  /\ WorkersAreCounted' /\ GatesAreNotAhead' /\ VerdictsAreNotAhead'
         /\ ClosesAreAudited' /\ CallsNameTheirWorker'
         /\ Unreported' = Unreported /\ Committed' = Committed
         /\ \A id : Done(id)' = Done(id) /\ Running(id)' = Running(id) /\ Has(id, "canceled")' = Has(id, "canceled")
         /\ \A n : Verdict(n)' = Verdict(n)
         /\ run.active = NoWorker => WorkerOutcome = "none"
         /\ r.active = NoWorker => WorkerOutcome' = "none"
<1> USE DEF SavesRun
<1>1. run.agents \in Nat /\ r.agents \in Nat /\ gate.after \in Nat
  BY BoundsAssumption DEF Typed, RunStates, GateFiles
<1>2. WorkersAreCounted'
  BY <1>1, IdFacts, SMTT(30) DEF Agreement, WorkersAreCounted, Done, Has, Kind, Typed
<1>3. GatesAreNotAhead'
  BY <1>1 DEF Agreement, GatesAreNotAhead
<1>4. VerdictsAreNotAhead'
  <2>1. \A s \in Stages : run.iterations[s] \in Nat /\ r.iterations[s] \in Nat
    BY DEF Typed, RunStates
  <2> QED BY <2>1 DEF Agreement, VerdictsAreNotAhead, Typed
<1>5. ClosesAreAudited' /\ CallsNameTheirWorker'
  BY DEF Agreement, ClosesAreAudited, CallsNameTheirWorker, Done, Has, Kind, Change
<1>6. Unreported' = Unreported /\ Committed' = Committed
  BY DEF Unreported, Committed, Pending, Done, Has
<1>7. NoWorker \notin DOMAIN workers
  BY IdFacts DEF Typed
<1>8. /\ run.active = NoWorker => WorkerOutcome = "none"
      /\ r.active = NoWorker => WorkerOutcome' = "none"
  BY <1>7 DEF WorkerOutcome, Done, Has
<1> QED BY <1>2, <1>3, <1>4, <1>5, <1>6, <1>8 DEF Done, Running, Has, Verdict

\* Nothing but the reason, or the tokens spent.
LEMMA StayAgrees ==
  ASSUME Typed, Agreement, NEW r \in RunStates, SavesRun(r), MayStay(r)
  PROVE  Agreement' /\ Promised
<1>1. /\ run' = r /\ Kept(r) /\ r.status = run.status /\ r.active = run.active /\ r.stages = run.stages
      /\ "review" \in Stages => r.iterations["review"] \in Nat
  BY DEF SavesRun, MayStay, RunStates
<1>2. r.agents >= run.agents
  BY <1>1, BoundsAssumption DEF Kept, RunStates
<1>3. "review" \in Stages => r.iterations["review"] >= run.iterations["review"]
  BY <1>1 DEF Kept
<1> USE <1>1 DEF SavesRun, Kept
<1>4. ActiveIsTheLatest' /\ OnlyTheCurrentStageIsActive' /\ CompletedAtTheEnd'
  BY DEF Agreement, ActiveIsTheLatest, OnlyTheCurrentStageIsActive, CompletedAtTheEnd, Entry, Kind
<1>5. /\ WorkersAreCounted' /\ GatesAreNotAhead' /\ VerdictsAreNotAhead' /\ ClosesAreAudited' /\ CallsNameTheirWorker'
      /\ Unreported' = Unreported /\ Committed' = Committed
  BY <1>2, <1>3, SaveAgrees
<1>6. CommittedIsCurrent'
  BY <1>5 DEF Agreement, CommittedIsCurrent, Entry
<1>7. NoChangeIsSwallowed' /\ ViolationStopsOrIsReconciled'
  BY <1>5 DEF Agreement, NoChangeIsSwallowed, ViolationStopsOrIsReconciled, Done, Has, Stopped
<1>8. FixesAreBounded' /\ LeftWithItsArtifact' /\ OwnersAreLeftOnce'
  BY DEF Agreement, FixesAreBounded, Verdict, LeftWithItsArtifact, OwnersAreLeftOnce
<1>9. UNCHANGED Promise!vars
  BY DEF Promise!vars, WorkerOutcome, Decided, Ready, GatesPassed, Done, Has, Kind, Verdict
<1> QED BY <1>4, <1>5, <1>6, <1>7, <1>8, <1>9 DEF Agreement, Promised

\* The run stops for a human.
LEMMA BlockAgrees ==
  ASSUME Typed, Agreement, NEW r \in RunStates, SavesRun(r), MayBlock(r)
  PROVE  Agreement' /\ Promised
<1>1. /\ run' = r /\ Kept(r) /\ r.status = "blocked" /\ r.active = NoWorker /\ r.stages = run.stages
      /\ run.status = "active"
      /\ "review" \in Stages => r.iterations["review"] \in Nat
  BY DEF SavesRun, MayBlock, Blocks, RunStates
<1>2. r.agents >= run.agents
  BY <1>1, BoundsAssumption DEF Kept, RunStates
<1>3. "review" \in Stages => r.iterations["review"] >= run.iterations["review"]
  BY <1>1 DEF Kept
<1> USE <1>1 DEF SavesRun, Kept
<1>4. ActiveIsTheLatest' /\ OnlyTheCurrentStageIsActive' /\ CompletedAtTheEnd'
  BY DEF Agreement, ActiveIsTheLatest, OnlyTheCurrentStageIsActive, CompletedAtTheEnd
<1>5. /\ WorkersAreCounted' /\ GatesAreNotAhead' /\ VerdictsAreNotAhead' /\ ClosesAreAudited' /\ CallsNameTheirWorker'
      /\ Unreported' = Unreported /\ Committed' = Committed
      /\ WorkerOutcome' = "none"
  BY <1>2, <1>3, SaveAgrees
<1>6. CommittedIsCurrent'
  BY <1>5 DEF Agreement, CommittedIsCurrent, Entry
<1>7. NoChangeIsSwallowed'
  BY DEF NoChangeIsSwallowed
<1>8. ViolationStopsOrIsReconciled'
  BY DEF Agreement, MayBlock, Says, ViolationStopsOrIsReconciled, Done, Has, Stopped
<1>9. FixesAreBounded' /\ LeftWithItsArtifact' /\ OwnersAreLeftOnce'
  BY DEF Agreement, FixesAreBounded, Verdict, LeftWithItsArtifact, OwnersAreLeftOnce
<1>10. Promise!Block
  <2>1. Ready' = FALSE /\ GatesPassed' = GatesPassed /\ Decided' = Decided
    BY DEF Decided, Ready, GatesPassed, Done, Has, Kind, Verdict
  <2> QED BY <2>1, <1>5 DEF Promise!Block
<1> QED BY <1>4, <1>5, <1>6, <1>7, <1>8, <1>9, <1>10 DEF Agreement, Promised, Promise!Next

\* commitWorkerClose: the outcome of a clean close reaches the run.
LEMMA ApplyAgrees ==
  ASSUME Typed, Agreement, NEW r \in RunStates, SavesRun(r), MayApply(r)
  PROVE  Agreement' /\ Promised
<1>1. /\ run' = r /\ Kept(r) /\ r.status = "active" /\ r.active = NoWorker /\ r.stages = run.stages
      /\ run.active # NoWorker /\ Done(run.active) /\ ~workers[run.active].blocks
      /\ "review" \in Stages => r.iterations["review"] \in Nat
  BY DEF SavesRun, MayApply, Applies, ClosedClean, RunStates
<1>2. r.agents >= run.agents
  BY <1>1, BoundsAssumption DEF Kept, RunStates
<1>3. "review" \in Stages => r.iterations["review"] >= run.iterations["review"]
  BY <1>1 DEF Kept
<1> USE <1>1 DEF SavesRun, Kept
<1>4. ActiveIsTheLatest' /\ OnlyTheCurrentStageIsActive' /\ CompletedAtTheEnd'
  BY DEF Agreement, ActiveIsTheLatest, OnlyTheCurrentStageIsActive, CompletedAtTheEnd
<1>5. /\ WorkersAreCounted' /\ GatesAreNotAhead' /\ VerdictsAreNotAhead' /\ ClosesAreAudited' /\ CallsNameTheirWorker'
      /\ Unreported' = Unreported /\ Committed' = Committed
      /\ WorkerOutcome' = "none"
  BY <1>2, <1>3, SaveAgrees
<1>6. CommittedIsCurrent'
  BY <1>5 DEF Agreement, CommittedIsCurrent, Entry
<1>7. NoChangeIsSwallowed'
  <2>1. run.status = "active"
    BY DEF Agreement, ActiveIsTheLatest
  <2>2. Unreported = {}
    BY <2>1, NothingUnreported
  <2> QED BY <2>2, <1>5 DEF NoChangeIsSwallowed
<1>8. ViolationStopsOrIsReconciled'
  BY DEF Agreement, ViolationStopsOrIsReconciled, Done, Has, Stopped
<1>9. FixesAreBounded' /\ LeftWithItsArtifact' /\ OwnersAreLeftOnce'
  BY DEF Agreement, FixesAreBounded, Verdict, LeftWithItsArtifact, OwnersAreLeftOnce
<1>10. Promise!Apply
  <2>1. run.status = "active" /\ Kind(run.stage) \in {"worker", "review"} /\ run.stages[run.stage] = "active"
    BY DEF Agreement, ActiveIsTheLatest
  <2>2. WorkerOutcome = "clean"
    BY DEF WorkerOutcome, Done, Has
  <2>3. Decided' = Decided /\ GatesPassed' = GatesPassed
    BY DEF Decided, GatesPassed, Done, Has, Kind, Verdict
  <2>4. Ready' = (Kind(run.stage) = "worker")
    BY <2>1 DEF Ready, Kind
  <2> QED BY <2>1, <2>2, <2>3, <2>4, <1>5, PromiseKind DEF Promise!Apply
<1> QED BY <1>4, <1>5, <1>6, <1>7, <1>8, <1>9, <1>10 DEF Agreement, Promised, Promise!Next

\* The stage a review leaves is done, and its verdict chose the next one.
LEMMA ReviewLeaveAgrees ==
  ASSUME Typed, Agreement, NEW r \in RunStates, SavesRun(r), ReviewMayLeave(r)
  PROVE  Agreement' /\ Promised
<1> DEFINE s == run.stage
<1>1. /\ run' = r /\ r.agents = run.agents /\ r.iterations = run.iterations
      /\ r.status = "active" /\ r.active = NoWorker /\ r.stages = [run.stages EXCEPT ![s] = "done"]
      /\ run.status = "active" /\ run.active \in {NoWorker, Entry}
      /\ Kind(s) = "review" /\ run.stages[s] = "active" /\ Done(Entry) /\ ~workers[Entry].blocks
      /\ \/ Verdict(run.iterations[s]) = "approved" /\ r.stage = Workflow[s].next
         \/ /\ Verdict(run.iterations[s]) = "needs_fixes" /\ r.stage = Workflow[s].onFixes
            /\ ~ReviewsExceeded(run, s)
  BY DEF SavesRun, ReviewMayLeave, ReviewLeaves, Leaves, ClosedClean
<1>2. s = "review" /\ s \in Stages
  BY <1>1, WorkflowFacts DEF StageFacts, Kind, None
<1>3. /\ StageFacts(s) /\ r.stage \in Stages \cup {NoStage} /\ r.stage # s
      /\ run.stages \in [Stages -> StageStatus] /\ r.stages \in [Stages -> StageStatus]
      /\ \A t \in Stages : run.iterations[t] \in Nat
  BY <1>1, <1>2, WorkflowFacts, SMTT(30) DEF StageFacts, Typed, RunStates
<1>4. r.agents >= run.agents /\ ("review" \in Stages => r.iterations["review"] >= run.iterations["review"])
  BY <1>1, <1>2, <1>3, BoundsAssumption DEF RunStates
<1>5. /\ WorkersAreCounted' /\ GatesAreNotAhead' /\ VerdictsAreNotAhead' /\ ClosesAreAudited' /\ CallsNameTheirWorker'
      /\ Unreported' = Unreported /\ Committed' = Committed
      /\ WorkerOutcome' = "none" /\ (run.active = NoWorker => WorkerOutcome = "none")
  BY <1>1, <1>4, SaveAgrees
<1> HIDE DEF s
<1> USE DEF SavesRun
<1>6. ActiveIsTheLatest' /\ OnlyTheCurrentStageIsActive' /\ CompletedAtTheEnd'
  BY <1>1, <1>3 DEF Agreement, ActiveIsTheLatest, OnlyTheCurrentStageIsActive, CompletedAtTheEnd, s
<1>7. CommittedIsCurrent'
  <2> SUFFICES ASSUME Committed PROVE CommittedIsCurrent'
    BY <1>5 DEF CommittedIsCurrent
  <2> DEFINE id == calls[Len(calls)].worker
  <2>1. /\ run.active \in {NoWorker, id}
        /\ \/ id = Entry
           \/ run.active = NoWorker /\ run.stages[StageOf(id)] = "done" /\ ~workers[id].blocks
    BY DEF Agreement, CommittedIsCurrent
  <2>2. id \in DOMAIN workers /\ StageOf(id) \in Stages
    BY IdFacts DEF Committed, Done, Has, Typed
  <2>3. id = Entry => StageOf(id) = s
    BY IdFacts DEF Entry, s
  <2>4. r.stages[StageOf(id)] = "done" /\ ~workers[id].blocks
    BY <1>1, <1>3, <2>1, <2>2, <2>3
  <2> QED BY <1>1, <2>4 DEF CommittedIsCurrent
<1>8. NoChangeIsSwallowed'
  BY <1>1, <1>5, NothingUnreported DEF NoChangeIsSwallowed
<1>9. ViolationStopsOrIsReconciled'
  BY <1>1 DEF Agreement, ViolationStopsOrIsReconciled, Done, Has, Stopped
<1>10. FixesAreBounded'
  <2> SUFFICES ASSUME r.stage = "fix" PROVE FixesAreBounded'
    BY <1>1 DEF FixesAreBounded
  <2>1. Verdict(run.iterations["review"]) = "needs_fixes" /\ ~ReviewsExceeded(run, "review")
    BY <1>1, <1>2, <1>3 DEF StageFacts
  <2> DEFINE budget == IF StageBudget > 0 THEN StageBudget ELSE ReviewBudget
  <2>2. budget > 0 => run.iterations["review"] < budget
    BY <2>1, <1>2, <1>3, ConfigAssumption DEF ReviewsExceeded
  <2> QED BY <1>1, <2>1, <2>2 DEF FixesAreBounded, Verdict
<1>11. LeftWithItsArtifact' /\ OwnersAreLeftOnce'
  <2>1. ASSUME NEW t \in Stages, OwnsArtifact(Workflow[t])
        PROVE  t # s /\ r.stages[t] = run.stages[t] /\ (r.stage \in UpTo(t) => run.stage \in UpTo(t))
    BY <1>1, <1>2, <1>3, <2>1, WorkflowFacts DEF StageFacts, OwnerFacts, s
  <2> QED BY <1>1, <2>1 DEF Agreement, LeftWithItsArtifact, OwnersAreLeftOnce
<1>12. Promise!LeaveReview
  <2>1. WorkerOutcome \in {"clean", "none"}
    BY <1>1, <1>5 DEF WorkerOutcome, Done, Has
  <2>2. Decided = Verdict(run.iterations[s])
    BY <1>1 DEF Decided, Entry, s
  <2>3. r.stage \in Stages => r.stages[r.stage] # "active"
    BY <1>1, <1>3 DEF Agreement, OnlyTheCurrentStageIsActive, s
  <2>4. Decided' = "none" /\ Ready' = FALSE
    BY <1>1, <1>3, <2>3, WorkflowFacts DEF Decided, Ready, None, Kind
  <2>5. GatesPassed' = GatesPassed
    BY <1>1 DEF GatesPassed
  <2> QED BY <1>1, <1>5, <2>1, <2>2, <2>4, <2>5, PromiseKind DEF Promise!LeaveReview, Promise!Enter, s
<1> QED BY <1>5, <1>6, <1>7, <1>8, <1>9, <1>10, <1>11, <1>12 DEF Agreement, Promised, Promise!Next

\* A start or a stage close finds nobody at work, and no close its host has not heard of.
LEMMA MoveAgrees ==
  ASSUME Typed, Agreement, Free, ~Committed, NEW r \in RunStates, SavesRun(r), r.agents >= run.agents,
         "review" \in Stages => r.iterations["review"] >= run.iterations["review"]
  PROVE  /\ WorkersAreCounted' /\ GatesAreNotAhead' /\ VerdictsAreNotAhead'
         /\ ClosesAreAudited' /\ CallsNameTheirWorker'
         /\ CommittedIsCurrent' /\ NoChangeIsSwallowed' /\ ViolationStopsOrIsReconciled'
         /\ WorkerOutcome = "none" /\ (r.active = NoWorker => WorkerOutcome' = "none")
         /\ StageFacts(run.stage) /\ run.stage \in Stages
         /\ run.stages \in [Stages -> StageStatus] /\ r.stages \in [Stages -> StageStatus]
         /\ run.iterations \in [Stages -> Nat]
<1>1. /\ WorkersAreCounted' /\ GatesAreNotAhead' /\ VerdictsAreNotAhead' /\ ClosesAreAudited' /\ CallsNameTheirWorker'
      /\ Unreported' = Unreported /\ Committed' = Committed
      /\ WorkerOutcome = "none" /\ (r.active = NoWorker => WorkerOutcome' = "none")
  BY SaveAgrees DEF Free
<1>2. CommittedIsCurrent'
  BY <1>1 DEF CommittedIsCurrent
<1>3. NoChangeIsSwallowed'
  BY <1>1, NothingUnreported DEF NoChangeIsSwallowed, Free
<1>4. ViolationStopsOrIsReconciled'
  <2>1. NoWorker \notin DOMAIN workers
    BY IdFacts DEF Typed
  <2> QED BY <2>1 DEF Agreement, ViolationStopsOrIsReconciled, Done, Has, Stopped, SavesRun, Free
<1>5. /\ StageFacts(run.stage) /\ run.stage \in Stages
      /\ run.stages \in [Stages -> StageStatus] /\ r.stages \in [Stages -> StageStatus]
      /\ run.iterations \in [Stages -> Nat]
  BY WorkflowFacts DEF Free, Typed, RunStates
<1> QED BY <1>1, <1>2, <1>3, <1>4, <1>5

\* A gate stage is entered, and the run may stop there.
LEMMA GateEntryAgrees ==
  ASSUME Typed, Agreement, ~Committed, NEW r \in RunStates, SavesRun(r), Free, Kind(run.stage) = "gate",
         Kept(r), r.status \in {"active", "blocked"}, r.active = NoWorker, Entered(r)
  PROVE  Agreement' /\ Promised
<1>1. /\ run' = r /\ r.stage = run.stage /\ r.agents = run.agents /\ r.iterations = run.iterations
      /\ r.stages = [run.stages EXCEPT ![run.stage] = "active"] /\ run.status = "active" /\ run.active = NoWorker
      /\ run.agents \in Nat
  BY BoundsAssumption DEF SavesRun, Kept, Entered, Free, Typed, RunStates
<1>2. r.agents >= run.agents /\ ("review" \in Stages => r.iterations["review"] >= run.iterations["review"])
  BY <1>1 DEF RunStates
<1>3. /\ WorkersAreCounted' /\ GatesAreNotAhead' /\ VerdictsAreNotAhead'
      /\ ClosesAreAudited' /\ CallsNameTheirWorker'
      /\ CommittedIsCurrent' /\ NoChangeIsSwallowed' /\ ViolationStopsOrIsReconciled'
      /\ WorkerOutcome = "none" /\ WorkerOutcome' = "none"
      /\ StageFacts(run.stage) /\ run.stage \in Stages /\ run.stages \in [Stages -> StageStatus]
  BY <1>1, <1>2, MoveAgrees
<1> USE DEF SavesRun
<1>4. ActiveIsTheLatest' /\ OnlyTheCurrentStageIsActive' /\ CompletedAtTheEnd'
  BY <1>1, <1>3 DEF Agreement, ActiveIsTheLatest, OnlyTheCurrentStageIsActive, CompletedAtTheEnd
<1>5. FixesAreBounded' /\ LeftWithItsArtifact' /\ OwnersAreLeftOnce'
  BY <1>1, <1>3 DEF Agreement, FixesAreBounded, Verdict, LeftWithItsArtifact, OwnersAreLeftOnce
<1>6. Decided = "none" /\ Decided' = "none" /\ Ready = FALSE /\ Ready' = FALSE /\ GatesPassed' = GatesPassed
  BY <1>1 DEF Decided, Ready, GatesPassed, None, Kind
<1>7. CASE r.status = "blocked"
  <2>1. Promise!Block
    BY <1>1, <1>3, <1>6, <1>7 DEF Promise!Block
  <2> QED BY <1>3, <1>4, <1>5, <2>1 DEF Agreement, Promised, Promise!Next
<1>8. CASE r.status = "active"
  <2>1. UNCHANGED Promise!vars
    BY <1>1, <1>3, <1>6, <1>8 DEF Promise!vars
  <2> QED BY <1>3, <1>4, <1>5, <2>1 DEF Agreement, Promised
<1> QED BY <1>7, <1>8

\* The budget of the stage refuses an entry: it is counted, and the run stops.
LEMMA EntryBlockAgrees ==
  ASSUME Typed, Agreement, ~Committed, NEW r \in RunStates, SavesRun(r), EntryMayBlock(r)
  PROVE  Agreement' /\ Promised
<1>1. /\ run' = r /\ r.stage = run.stage /\ r.agents = run.agents /\ r.stages = run.stages
      /\ r.iterations = [run.iterations EXCEPT ![run.stage] = @ + 1]
      /\ r.status = "blocked" /\ r.active = NoWorker
      /\ Free /\ run.status = "active" /\ run.active = NoWorker /\ run.stage \in Stages /\ run.agents \in Nat
      /\ run.iterations \in [Stages -> Nat]
  BY BoundsAssumption DEF SavesRun, EntryMayBlock, Counted, Free, Typed, RunStates
<1>2. r.agents >= run.agents /\ ("review" \in Stages => r.iterations["review"] >= run.iterations["review"])
  BY <1>1
<1>3. /\ WorkersAreCounted' /\ GatesAreNotAhead' /\ VerdictsAreNotAhead'
      /\ ClosesAreAudited' /\ CallsNameTheirWorker'
      /\ CommittedIsCurrent' /\ NoChangeIsSwallowed' /\ ViolationStopsOrIsReconciled'
      /\ WorkerOutcome = "none" /\ WorkerOutcome' = "none"
      /\ StageFacts(run.stage)
  BY <1>1, <1>2, MoveAgrees
<1> USE DEF SavesRun
<1>4. ActiveIsTheLatest' /\ OnlyTheCurrentStageIsActive' /\ CompletedAtTheEnd'
  BY <1>1, <1>3 DEF Agreement, ActiveIsTheLatest, OnlyTheCurrentStageIsActive, CompletedAtTheEnd
<1>5. FixesAreBounded'
  BY <1>1, WorkflowFacts DEF Agreement, FixesAreBounded, Verdict, StageFacts
<1>6. LeftWithItsArtifact' /\ OwnersAreLeftOnce'
  <2>1. ASSUME NEW t \in Stages, OwnsArtifact(Workflow[t]), run.stages[t] = "done" PROVE t # run.stage
    BY <2>1, WorkflowFacts DEF StageFacts, Agreement, OwnersAreLeftOnce
  <2> QED BY <1>1, <2>1 DEF Agreement, LeftWithItsArtifact, OwnersAreLeftOnce
<1>7. Ready' = FALSE /\ GatesPassed' = GatesPassed
  BY <1>1 DEF Ready, GatesPassed
<1>8. Decided' = "none"
  <2>1. CASE Kind(run.stage) = "review"
    <3>1. run.stage = "review" /\ r.iterations["review"] = run.iterations["review"] + 1
      BY <1>1, <1>3, <2>1 DEF StageFacts
    <3>2. r.iterations["review"] \notin DOMAIN verdicts
      BY <1>1, <3>1 DEF Agreement, VerdictsAreNotAhead, Typed
    <3> QED BY <1>1, <3>1, <3>2 DEF Decided, Verdict, None
  <2>2. CASE Kind(run.stage) # "review"
    BY <1>1, <2>2 DEF Decided, None, Kind
  <2> QED BY <2>1, <2>2
<1>9. Promise!Block
  BY <1>1, <1>3, <1>7, <1>8 DEF Promise!Block
<1> QED BY <1>3, <1>4, <1>5, <1>6, <1>9 DEF Agreement, Promised, Promise!Next

\* A worker stage is left on the work of this entry, a gate stage on its gates.
LEMMA LeaveAgrees ==
  ASSUME Typed, Agreement, ~Committed, NEW r \in RunStates, SavesRun(r), MayLeave(r)
  PROVE  Agreement' /\ Promised
<1> DEFINE s == run.stage
<1>1. /\ run' = r /\ r.stage = Workflow[s].next /\ r.agents = run.agents /\ r.iterations = run.iterations
      /\ r.stages = [run.stages EXCEPT ![s] = "done"] /\ r.status = "active" /\ r.active = NoWorker
      /\ Free /\ run.status = "active" /\ run.active = NoWorker /\ s \in Stages /\ run.agents \in Nat
      /\ \/ Kind(s) = "worker" /\ run.stages[s] = "active" /\ ~ArtifactMissing(s)
         \/ Kind(s) = "gate" /\ (GatesPassed \/ "missing" \in GateOutcomes)
         \/ Kind(s) = "terminal"
  BY BoundsAssumption DEF SavesRun, MayLeave, Leaves, Free, Typed, RunStates
<1>2. r.agents >= run.agents /\ ("review" \in Stages => r.iterations["review"] >= run.iterations["review"])
  BY <1>1 DEF RunStates
<1>3. /\ WorkersAreCounted' /\ GatesAreNotAhead' /\ VerdictsAreNotAhead'
      /\ ClosesAreAudited' /\ CallsNameTheirWorker'
      /\ CommittedIsCurrent' /\ NoChangeIsSwallowed' /\ ViolationStopsOrIsReconciled'
      /\ WorkerOutcome = "none" /\ WorkerOutcome' = "none"
      /\ StageFacts(s) /\ run.stages \in [Stages -> StageStatus]
  BY <1>1, <1>2, MoveAgrees
<1>4. r.stage \in Stages \cup {NoStage} /\ r.stage # s /\ r.stage # "fix" /\ NoStage \notin Stages /\ Kind(NoStage) = "none"
  BY <1>1, <1>3, WorkflowFacts DEF StageFacts
<1> HIDE DEF s
<1> USE DEF SavesRun
<1>5. ActiveIsTheLatest' /\ OnlyTheCurrentStageIsActive' /\ CompletedAtTheEnd'
  BY <1>1, <1>3, <1>4 DEF Agreement, ActiveIsTheLatest, OnlyTheCurrentStageIsActive, CompletedAtTheEnd, s
<1>6. FixesAreBounded'
  BY <1>1, <1>4 DEF FixesAreBounded
<1>7. LeftWithItsArtifact'
  <2> SUFFICES ASSUME NEW t \in Stages, OwnsArtifact(Workflow[t]), r.stages[t] = "done"
               PROVE  LET a == artifacts[Workflow[t].artifact] IN
                      a.file = "good" /\ StageOf(a.by) = t /\ a.meta = <<a.by, run.iterations[t]>>
    BY <1>1, SMTT(60) DEF LeftWithItsArtifact
  <2>1. CASE t = s
    <3>1. ~ArtifactMissing(t)
      BY <2>1, <1>1, <1>3 DEF StageFacts
    <3> QED BY <3>1 DEF ArtifactMissing
  <2>2. CASE t # s
    BY <2>2, <1>1, <1>3 DEF Agreement, LeftWithItsArtifact
  <2> QED BY <2>1, <2>2
<1>8. OwnersAreLeftOnce'
  <2>1. ASSUME NEW t \in Stages, OwnsArtifact(Workflow[t]), r.stage \in UpTo(t)
        PROVE  t # s /\ run.stage \in UpTo(t)
    BY <1>1, <1>3, <2>1, WorkflowFacts DEF StageFacts, OwnerFacts, s
  <2> QED BY <1>1, <1>3, <2>1 DEF Agreement, OwnersAreLeftOnce
<1>9. Promised
  <2>1. r.stage \in Stages => r.stages[r.stage] # "active"
    BY <1>1, <1>3, <1>4 DEF Agreement, OnlyTheCurrentStageIsActive, s
  <2>2. Decided' = "none" /\ Ready' = FALSE
    BY <1>1, <1>4, <2>1 DEF Decided, Ready, None, Kind
  <2>3. GatesPassed' = GatesPassed
    BY <1>1 DEF GatesPassed
  <2>4. Promise!Enter(r.stage)
    BY <1>1, <1>3, <2>2, <2>3 DEF Promise!Enter
  <2>5. CASE Kind(s) = "worker" /\ run.stages[s] = "active"
    <3>1. Ready
      BY <1>1, <2>5 DEF Ready, s
    <3>2. Promise!LeaveWorker
      BY <1>1, <2>4, <2>5, <3>1, PromiseKind DEF Promise!LeaveWorker, s
    <3> QED BY <3>2 DEF Promised, Promise!Next
  <2>6. CASE Kind(s) = "gate" /\ (GatesPassed \/ "missing" \in GateOutcomes)
    <3>1. Promise!LeaveGate
      BY <1>1, <2>4, <2>6, PromiseKind DEF Promise!LeaveGate, s
    <3> QED BY <3>1 DEF Promised, Promise!Next
  <2>7. CASE Kind(s) = "terminal"
    <3>1. Promise!LeaveTerminal
      BY <1>1, <1>3, <2>4, <2>7, PromiseKind DEF Promise!LeaveTerminal, StageFacts, NoStage, Promise!NoStage, s
    <3> QED BY <3>1 DEF Promised, Promise!Next
  <2> QED BY <1>1, <2>5, <2>6, <2>7
<1> QED BY <1>3, <1>5, <1>6, <1>7, <1>8, <1>9 DEF Agreement

\* The terminal stage completes the run.
LEMMA CompleteAgrees ==
  ASSUME Typed, Agreement, ~Committed, NEW r \in RunStates, SavesRun(r), MayComplete(r)
  PROVE  Agreement' /\ Promised
<1>1. /\ run' = r /\ r.stage = run.stage /\ r.agents = run.agents /\ r.iterations = run.iterations
      /\ r.stages = [run.stages EXCEPT !["done"] = "done"] /\ r.status = "completed" /\ r.active = NoWorker
      /\ Free /\ run.status = "active" /\ run.active = NoWorker /\ run.stage \in Stages /\ run.agents \in Nat
      /\ Kind(run.stage) = "terminal"
  BY BoundsAssumption DEF SavesRun, MayComplete, Completes, Free, Typed, RunStates
<1>2. r.agents >= run.agents /\ ("review" \in Stages => r.iterations["review"] >= run.iterations["review"])
  BY <1>1 DEF RunStates
<1>3. /\ WorkersAreCounted' /\ GatesAreNotAhead' /\ VerdictsAreNotAhead'
      /\ ClosesAreAudited' /\ CallsNameTheirWorker'
      /\ CommittedIsCurrent' /\ NoChangeIsSwallowed' /\ ViolationStopsOrIsReconciled'
      /\ WorkerOutcome = "none" /\ WorkerOutcome' = "none"
      /\ StageFacts(run.stage) /\ run.stages \in [Stages -> StageStatus]
  BY <1>1, <1>2, MoveAgrees
<1>4. run.stage = "done"
  BY <1>1, <1>3 DEF StageFacts
<1> USE DEF SavesRun
<1>5. ActiveIsTheLatest' /\ OnlyTheCurrentStageIsActive' /\ CompletedAtTheEnd'
  BY <1>1, <1>3, <1>4 DEF Agreement, ActiveIsTheLatest, OnlyTheCurrentStageIsActive, CompletedAtTheEnd, Kind
<1>6. FixesAreBounded'
  BY <1>1, <1>4 DEF FixesAreBounded
<1>7. LeftWithItsArtifact' /\ OwnersAreLeftOnce'
  <2>1. ASSUME NEW t \in Stages, OwnsArtifact(Workflow[t]) PROVE r.stages[t] = run.stages[t]
    <3>1. Kind(t) = "worker"
      BY <2>1, WorkflowFacts DEF StageFacts
    <3> QED BY <1>1, <1>3, <1>4, <3>1
  <2> QED BY <1>1, <2>1 DEF Agreement, LeftWithItsArtifact, OwnersAreLeftOnce
<1>8. Decided = "none" /\ Decided' = "none" /\ Ready = FALSE /\ Ready' = FALSE /\ GatesPassed' = GatesPassed
  BY <1>1 DEF Decided, Ready, GatesPassed, None, Kind
<1>9. Promise!Complete
  BY <1>1, <1>3, <1>8, PromiseKind DEF Promise!Complete
<1> QED BY <1>3, <1>5, <1>6, <1>7, <1>9 DEF Agreement, Promised, Promise!Next

\* The worker whose status file is there is the active one from now on.
LEMMA OpenAgrees ==
  ASSUME Typed, Agreement, ~Committed, NEW r \in RunStates, SavesRun(r), MayOpen(r)
  PROVE  Agreement' /\ Promised
<1> DEFINE s == run.stage
           id == <<run.agents + 1, run.stage>>
<1>1. /\ run' = r /\ r.stage = s /\ r.agents = run.agents + 1 /\ r.iterations = [run.iterations EXCEPT ![s] = @ + 1]
      /\ r.stages = [run.stages EXCEPT ![s] = "active"] /\ r.status = "active" /\ r.active = id
      /\ Free /\ run.status = "active" /\ run.active = NoWorker /\ s \in Stages /\ run.agents \in Nat
      /\ Kind(s) \in {"worker", "review"} /\ Running(id) /\ gate.after \in Nat
      /\ run.iterations \in [Stages -> Nat]
  BY BoundsAssumption DEF SavesRun, MayOpen, Opens, Entered, Counted, Free, Typed, RunStates, GateFiles
<1>2. r.agents >= run.agents /\ ("review" \in Stages => r.iterations["review"] >= run.iterations["review"])
  BY <1>1
<1>3. /\ WorkersAreCounted' /\ GatesAreNotAhead' /\ VerdictsAreNotAhead'
      /\ ClosesAreAudited' /\ CallsNameTheirWorker'
      /\ CommittedIsCurrent' /\ NoChangeIsSwallowed' /\ ViolationStopsOrIsReconciled'
      /\ WorkerOutcome = "none"
      /\ StageFacts(s) /\ run.stages \in [Stages -> StageStatus]
  BY <1>1, <1>2, MoveAgrees
<1>4. id # NoWorker /\ id \in DOMAIN workers /\ workers[id].status = "running"
  BY <1>1, IdFacts DEF Running, Has, Typed
<1> HIDE DEF s, id
<1> USE DEF SavesRun
<1>5. ActiveIsTheLatest' /\ OnlyTheCurrentStageIsActive' /\ CompletedAtTheEnd'
  <2>1. id = Entry'
    BY <1>1 DEF id, Entry, s
  <2> QED BY <1>1, <1>3, <1>4, <2>1
      DEF Agreement, ActiveIsTheLatest, OnlyTheCurrentStageIsActive, CompletedAtTheEnd, Kind, s
<1>6. FixesAreBounded'
  BY <1>1, WorkflowFacts DEF Agreement, FixesAreBounded, Verdict, StageFacts, s
<1>7. LeftWithItsArtifact' /\ OwnersAreLeftOnce'
  BY <1>1, <1>3 DEF Agreement, LeftWithItsArtifact, OwnersAreLeftOnce, s
<1>8. WorkerOutcome' = "open" /\ Ready' = FALSE
  BY <1>1, <1>4 DEF WorkerOutcome, Ready, Done, Has
<1>9. GatesPassed' = FALSE
  BY <1>1 DEF GatesPassed, Agreement, GatesAreNotAhead
<1>10. Decided' = "none"
  <2>1. <<r.agents, r.stage>> = id
    BY <1>1 DEF id, s
  <2> QED BY <1>1, <1>4, <2>1 DEF Decided, None, Done, Has
<1>11. Promise!Open
  BY <1>1, <1>3, <1>8, <1>9, <1>10, PromiseKind DEF Promise!Open, s
<1> QED BY <1>3, <1>5, <1>6, <1>7, <1>11 DEF Agreement, Promised, Promise!Next

\* ReopenRun: the run goes on without the worker it has given up.
LEMMA ReopenAgrees ==
  ASSUME Typed, Agreement, NEW r \in RunStates, SavesRun(r), MayReopen(r), spent.resumes > 0
  PROVE  Agreement' /\ Promised
<1>1. /\ run' = r /\ r.stage = run.stage /\ r.agents = run.agents /\ r.iterations = run.iterations
      /\ r.stages = run.stages /\ run.status # "completed" /\ r.status = "active" /\ r.active = NoWorker
      /\ Done(run.active) /\ workers[run.active].blocks => workers[run.active].closeOp # Anonymous
      /\ ~Running(run.active) /\ Unreported = {} /\ run.agents \in Nat
      /\ run.status \in {"active", "blocked", "completed"}
  BY BoundsAssumption DEF SavesRun, MayReopen, Reopens, Typed, RunStates
<1>2. r.agents >= run.agents /\ ("review" \in Stages => r.iterations["review"] >= run.iterations["review"])
  BY <1>1 DEF RunStates
<1>3. /\ WorkersAreCounted' /\ GatesAreNotAhead' /\ VerdictsAreNotAhead' /\ ClosesAreAudited' /\ CallsNameTheirWorker'
      /\ Unreported' = Unreported /\ Committed' = Committed
      /\ WorkerOutcome' = "none" /\ (run.active = NoWorker => WorkerOutcome = "none")
  BY <1>1, <1>2, SaveAgrees
<1> USE DEF SavesRun
<1>4. ActiveIsTheLatest' /\ OnlyTheCurrentStageIsActive' /\ CompletedAtTheEnd'
  BY <1>1 DEF Agreement, ActiveIsTheLatest, OnlyTheCurrentStageIsActive, CompletedAtTheEnd
<1>5. CommittedIsCurrent'
  BY <1>1, <1>3 DEF Agreement, CommittedIsCurrent, Entry
<1>6. NoChangeIsSwallowed'
  BY <1>1, <1>3 DEF NoChangeIsSwallowed
<1>7. ViolationStopsOrIsReconciled'
  <2>1. spent.resumes # 0
    BY DEF Typed
  <2> QED BY <1>1, <2>1 DEF Agreement, ViolationStopsOrIsReconciled, Done, Has, Stopped
<1>8. FixesAreBounded' /\ LeftWithItsArtifact' /\ OwnersAreLeftOnce'
  BY <1>1 DEF Agreement, FixesAreBounded, Verdict, LeftWithItsArtifact, OwnersAreLeftOnce
<1>9. WorkerOutcome # "open"
  <2>1. CASE run.active # NoWorker
    <3>1. run.active \in DOMAIN workers /\ workers[run.active].status \in {"running", "done", "canceled"}
      BY <2>1 DEF Agreement, ActiveIsTheLatest, Typed, WorkerFiles
    <3> QED BY <1>1, <2>1, <3>1 DEF WorkerOutcome, Done, Has, Running
  <2> QED BY <1>3, <2>1
<1>10. Decided' = Decided /\ GatesPassed' = GatesPassed
  BY <1>1 DEF Decided, GatesPassed, Done, Has, Kind, Verdict
<1>11. Ready' \in BOOLEAN /\ (Ready' => Kind(run.stage) = "worker")
  BY <1>1 DEF Ready, Kind
<1>12. Promise!Resume
  BY <1>1, <1>3, <1>9, <1>10, <1>11, PromiseKind DEF Promise!Resume
<1> QED BY <1>3, <1>4, <1>5, <1>6, <1>7, <1>8, <1>12 DEF Agreement, Promised, Promise!Next

-----------------------------------------------------------------------------
(* The other durable writes *)

\* Nothing that the properties are about is written.
Still ==
  UNCHANGED <<run, workers, reports, verdicts, artifacts, gate, baseline, changed, surfaced, calls, replies, token, spent>>

\* A step that leaves the files alone breaks nothing.
LEMMA StillAgrees ==
  ASSUME Agreement, Still
  PROVE  Agreement' /\ Promised
<1> USE DEF Still
<1>1. /\ ActiveIsTheLatest' /\ OnlyTheCurrentStageIsActive' /\ CompletedAtTheEnd'
      /\ WorkersAreCounted' /\ GatesAreNotAhead' /\ VerdictsAreNotAhead'
  BY DEF Agreement, ActiveIsTheLatest, OnlyTheCurrentStageIsActive, CompletedAtTheEnd, Entry, Kind,
         WorkersAreCounted, GatesAreNotAhead, VerdictsAreNotAhead, Done, Has
<1>2. ClosesAreAudited' /\ CallsNameTheirWorker' /\ CommittedIsCurrent'
  BY DEF Agreement, ClosesAreAudited, CallsNameTheirWorker, CommittedIsCurrent, Committed, Pending, Entry, Done, Has,
         Kind, Change
<1>3. NoChangeIsSwallowed' /\ ViolationStopsOrIsReconciled'
  BY DEF Agreement, NoChangeIsSwallowed, ViolationStopsOrIsReconciled, Unreported, Done, Has, Stopped
<1>4. FixesAreBounded' /\ LeftWithItsArtifact' /\ OwnersAreLeftOnce'
  BY DEF Agreement, FixesAreBounded, Verdict, LeftWithItsArtifact, OwnersAreLeftOnce
<1>5. UNCHANGED Promise!vars
  BY DEF Promise!vars, WorkerOutcome, Decided, Ready, GatesPassed, Done, Has, Kind, Verdict
<1> QED BY <1>1, <1>2, <1>3, <1>4, <1>5 DEF Agreement, Promised

\* A worker's status file is written.
WritesWorker(id, file) ==
  /\ workers' = Put(workers, id, file)
  /\ UNCHANGED <<run, reports, verdicts, artifacts, gate, baseline, changed, surfaced, calls, replies, token, spent>>

\* A start leaves the status file of its worker, running, before state.json counts it.
LEMMA RunningAgrees ==
  ASSUME Typed, Agreement, Free, Kind(run.stage) \in {"worker", "review"}, NEW id \in Ids,
         id = <<run.agents + 1, run.stage>>,
         WritesWorker(id, WorkerStatus("running", Anonymous, FALSE))
  PROVE  Agreement' /\ Promised /\ Running(id)'
<1> USE DEF WritesWorker, Put, WorkerStatus
<1>1. /\ id[1] = run.agents + 1 /\ StageOf(id) = run.stage /\ run.agents \in Nat /\ id # NoWorker
      /\ run.active = NoWorker /\ id # Entry /\ NoWorker \notin DOMAIN workers
  BY IdFacts, BoundsAssumption DEF Typed, RunStates, Free, Entry
<1>2. ~Done(id) /\ ~Done(id)' /\ Running(id)'
  BY <1>1 DEF Agreement, WorkersAreCounted, Done, Running, Has
<1>3. \A i : i # id => Done(i)' = Done(i) /\ (Done(i) => workers'[i] = workers[i])
  BY DEF Done, Has
<1> HIDE DEF WritesWorker
<1>4. ActiveIsTheLatest' /\ OnlyTheCurrentStageIsActive' /\ CompletedAtTheEnd' /\ GatesAreNotAhead' /\ VerdictsAreNotAhead'
  BY <1>1 DEF Agreement, ActiveIsTheLatest, OnlyTheCurrentStageIsActive, CompletedAtTheEnd, GatesAreNotAhead,
              VerdictsAreNotAhead, WritesWorker, Kind
<1>5. WorkersAreCounted'
  <2>1. DOMAIN workers' = DOMAIN workers \cup {id} /\ run' = run /\ calls' = calls
    BY DEF WritesWorker
  <2> QED BY <1>1, <1>2, <1>3, <2>1 DEF Agreement, WorkersAreCounted, Kind
<1>6. ClosesAreAudited'
  <2>1. DOMAIN workers' = DOMAIN workers \cup {id} /\ reports' = reports /\ changed' = changed
    BY DEF WritesWorker
  <2> QED BY <1>2, <1>3, <2>1 DEF Agreement, ClosesAreAudited, Change
<1>7. CallsNameTheirWorker'
  BY DEF Agreement, CallsNameTheirWorker, WritesWorker, Kind
<1>8. CommittedIsCurrent'
  <2>1. run' = run /\ calls' = calls /\ replies' = replies
    BY DEF WritesWorker
  <2> SUFFICES ASSUME Committed' PROVE CommittedIsCurrent'
    BY DEF CommittedIsCurrent
  <2> DEFINE i == calls[Len(calls)].worker
  <2>2. i # id /\ Done(i) /\ workers'[i] = workers[i]
    BY <1>2, <1>3, <2>1 DEF Committed
  <2>3. Committed
    BY <2>1, <2>2 DEF Committed, Pending
  <2> QED BY <2>1, <2>2, <2>3 DEF Agreement, CommittedIsCurrent, Entry
<1>9. NoChangeIsSwallowed' /\ FixesAreBounded' /\ LeftWithItsArtifact' /\ OwnersAreLeftOnce'
  BY DEF Agreement, NoChangeIsSwallowed, Unreported, FixesAreBounded, Verdict, LeftWithItsArtifact, OwnersAreLeftOnce, WritesWorker
<1>10. ViolationStopsOrIsReconciled'
  <2>1. DOMAIN workers' = DOMAIN workers \cup {id} /\ run' = run /\ surfaced' = surfaced /\ spent' = spent
    BY DEF WritesWorker
  <2> QED BY <1>2, <1>3, <2>1 DEF Agreement, ViolationStopsOrIsReconciled, Stopped
<1>11. UNCHANGED Promise!vars
  <2>1. WorkerOutcome = "none" /\ WorkerOutcome' = "none"
    BY <1>1 DEF WorkerOutcome, WritesWorker, Done, Has
  <2>2. Decided' = Decided
    BY <1>1, <1>3, SMTT(30) DEF Decided, Entry, WritesWorker, Kind, Verdict
  <2> QED BY <2>1, <2>2 DEF Promise!vars, Ready, GatesPassed, WritesWorker, Kind
<1> QED BY <1>2, <1>4, <1>5, <1>6, <1>7, <1>8, <1>9, <1>10, <1>11 DEF Agreement, Promised

\* The worker at work is the one of this entry, and the run is active.
LEMMA AtWork ==
  ASSUME Typed, Agreement, run.active \in DOMAIN workers
  PROVE  /\ run.active \in Ids /\ run.active # NoWorker /\ run.status = "active" /\ run.active = Entry
         /\ StageOf(run.active) = run.stage /\ run.active[1] = run.agents /\ run.agents \in Nat
         /\ run.stage \in Stages /\ StageFacts(run.stage)
         /\ Kind(run.stage) \in {"worker", "review"} /\ run.stages[run.stage] = "active"
<1>1. run.active \in Ids /\ run.active # NoWorker
  BY IdFacts DEF Typed
<1>2. /\ run.status = "active" /\ run.active = Entry /\ Kind(run.stage) \in {"worker", "review"}
      /\ run.stages[run.stage] = "active"
  BY <1>1 DEF Agreement, ActiveIsTheLatest
<1>3. StageOf(run.active) = run.stage /\ run.active[1] = run.agents /\ run.agents \in Nat
  BY <1>2, IdFacts, BoundsAssumption DEF Entry, Typed, RunStates
<1> QED BY <1>1, <1>2, <1>3, IdFacts, WorkflowFacts

\* commitWorkerClose: the worker is closed on its audit, with what it recorded.
LEMMA DoneAgrees ==
  ASSUME Typed, Agreement, Running(run.active), Audited, NEW op \in Nat, op <= Len(calls),
         WritesWorker(run.active, WorkerStatus("done", op, Judgement))
  PROVE  Agreement' /\ Promised
<1> DEFINE id == run.active
<1>1. /\ id \in Ids /\ id # NoWorker /\ run.status = "active" /\ id = Entry /\ id \in DOMAIN workers
      /\ StageOf(id) = run.stage /\ id[1] = run.agents /\ run.agents \in Nat
      /\ Kind(run.stage) \in {"worker", "review"} /\ run.stages[run.stage] = "active"
  BY AtWork DEF Running, Has
<1>2. /\ DOMAIN workers' = DOMAIN workers /\ id' = id
      /\ UNCHANGED <<run, calls, replies, surfaced, spent, reports, changed, baseline, verdicts>>
      /\ workers'[id] = WorkerStatus("done", op, Judgement) /\ \A i \in DOMAIN workers : i # id => workers'[i] = workers[i]
  BY <1>1 DEF WritesWorker, Put
<1>3. /\ ~Done(id) /\ Done(id)' /\ workers'[id].closeOp = op /\ workers'[id].blocks = Judgement
      /\ \A i : i # id => Done(i)' = Done(i) /\ (Done(i) => workers'[i] = workers[i])
  BY <1>1, <1>2 DEF Done, Running, Has, WorkerStatus
<1>4. ActiveIsTheLatest' /\ OnlyTheCurrentStageIsActive' /\ CompletedAtTheEnd' /\ GatesAreNotAhead' /\ VerdictsAreNotAhead'
  BY <1>1 DEF Agreement, ActiveIsTheLatest, OnlyTheCurrentStageIsActive, CompletedAtTheEnd, GatesAreNotAhead,
              VerdictsAreNotAhead, WritesWorker, Kind, Entry, Put
<1> HIDE DEF id
<1>5. WorkersAreCounted'
  BY <1>1, <1>2, <1>3 DEF Agreement, WorkersAreCounted, Kind
<1>6. ClosesAreAudited'
  <2>1. id \in DOMAIN reports /\ reports[id] = Change(id) /\ workers'[id].blocks = Violates(StageOf(id), Change(id))
    BY <1>1, <1>3 DEF Audited, Judgement, id
  <2> QED BY <1>2, <1>3, <2>1 DEF Agreement, ClosesAreAudited, Change
<1>7. CallsNameTheirWorker'
  BY DEF Agreement, CallsNameTheirWorker, WritesWorker, Kind
<1>8. CommittedIsCurrent'
  <2> SUFFICES ASSUME Committed' PROVE CommittedIsCurrent'
    BY DEF CommittedIsCurrent
  <2> DEFINE i == calls[Len(calls)].worker
  <2>1. CASE i = id
    BY <1>1, <1>2, <2>1 DEF CommittedIsCurrent, Entry, id
  <2>2. CASE i # id
    <3>1. Done(i) /\ workers'[i] = workers[i]
      BY <1>2, <1>3, <2>2 DEF Committed
    <3>2. Committed
      BY <1>2, <3>1 DEF Committed, Pending
    <3> QED BY <1>1, <2>2, <3>2 DEF Agreement, CommittedIsCurrent, id
  <2> QED BY <2>1, <2>2
<1>9. NoChangeIsSwallowed' /\ FixesAreBounded' /\ LeftWithItsArtifact' /\ OwnersAreLeftOnce'
  BY DEF Agreement, NoChangeIsSwallowed, Unreported, FixesAreBounded, Verdict, LeftWithItsArtifact, OwnersAreLeftOnce, WritesWorker
<1>10. ViolationStopsOrIsReconciled'
  BY <1>1, <1>2, <1>3 DEF Agreement, ViolationStopsOrIsReconciled, Stopped, id
<1>11. \E outcome \in {"clean", "violating"}, decided \in {"none", "approved", "needs_fixes", "blocked"} :
         Promise!Close(outcome, decided)
  <2> DEFINE outcome == IF Judgement THEN "violating" ELSE "clean"
             decided == IF Kind(run.stage) = "review" /\ ~Judgement THEN Verdict(run.iterations[run.stage]) ELSE "none"
  <2>1. WorkerOutcome = "open" /\ WorkerOutcome' = outcome
    BY <1>1, <1>2, <1>3 DEF WorkerOutcome, Running, Done, Has, id
  <2>2. Decided' = decided
    <3>1. Decided' = IF Kind(run.stage) = "review" /\ Done(id)' /\ ~workers'[id].blocks
                       THEN Verdict(run.iterations[run.stage]) ELSE "none"
      <4>1. <<run.agents, run.stage>> = id
        BY <1>1 DEF Entry
      <4> QED BY <1>1, <1>2, <4>1 DEF Decided, Verdict, Done, Has, None, Kind
    <3> QED BY <1>3, <3>1
  <2>3. decided \in {"none", "approved", "needs_fixes", "blocked"}
    BY EnvironmentAssumption DEF Verdict, Typed, None
  <2>4. Ready = FALSE /\ Ready' = FALSE /\ GatesPassed' = GatesPassed
    BY <1>1, <1>2 DEF Ready, GatesPassed, WritesWorker, id
  <2>5. decided # "none" => Kind(run.stage) = "review" /\ outcome = "clean"
    OBVIOUS
  <2>6. outcome \in {"clean", "violating"}
    OBVIOUS
  <2> HIDE DEF outcome, decided
  <2>7. Promise!Close(outcome, decided)
    BY <1>2, <2>1, <2>2, <2>4, <2>5, PromiseKind DEF Promise!Close
  <2> QED BY <2>3, <2>6, <2>7
<1> QED BY <1>4, <1>5, <1>6, <1>7, <1>8, <1>9, <1>10, <1>11 DEF Agreement, Promised, Promise!Next

\* reconcileInterruptedWorkers: a resume gives up a worker that is not closed.
LEMMA CanceledAgrees ==
  ASSUME Typed, Agreement, NEW id \in DOMAIN workers, ~Done(id), NEW file \in WorkerFiles, file.status = "canceled",
         WritesWorker(id, file)
  PROVE  Agreement' /\ Promised
<1>1. /\ DOMAIN workers' = DOMAIN workers
      /\ UNCHANGED <<run, calls, replies, surfaced, spent, reports, changed, baseline, verdicts, gate, artifacts>>
      /\ workers'[id] = file /\ \A i \in DOMAIN workers : i # id => workers'[i] = workers[i]
  BY DEF WritesWorker, Put
<1>2. /\ ~Done(id)' /\ Has(id, "canceled")'
      /\ \A i : Done(i)' = Done(i) /\ (Done(i) => workers'[i] = workers[i])
  BY <1>1 DEF Done, Has
<1>3. ActiveIsTheLatest' /\ OnlyTheCurrentStageIsActive' /\ CompletedAtTheEnd' /\ GatesAreNotAhead' /\ VerdictsAreNotAhead'
  BY <1>1 DEF Agreement, ActiveIsTheLatest, OnlyTheCurrentStageIsActive, CompletedAtTheEnd, GatesAreNotAhead,
              VerdictsAreNotAhead, Kind, Entry
<1>4. WorkersAreCounted' /\ ClosesAreAudited' /\ CallsNameTheirWorker'
  BY <1>1, <1>2 DEF Agreement, WorkersAreCounted, ClosesAreAudited, CallsNameTheirWorker, Change, Kind
<1>5. CommittedIsCurrent'
  <2>1. Committed' => Committed /\ workers'[calls[Len(calls)].worker] = workers[calls[Len(calls)].worker]
    BY <1>1, <1>2 DEF Committed, Pending
  <2> QED BY <1>1, <2>1 DEF Agreement, CommittedIsCurrent, Entry
<1>6. NoChangeIsSwallowed' /\ FixesAreBounded' /\ LeftWithItsArtifact' /\ OwnersAreLeftOnce'
  BY <1>1 DEF Agreement, NoChangeIsSwallowed, Unreported, FixesAreBounded, Verdict, LeftWithItsArtifact, OwnersAreLeftOnce
<1>7. ViolationStopsOrIsReconciled'
  BY <1>1, <1>2 DEF Agreement, ViolationStopsOrIsReconciled, Stopped
<1>8. Promised
  <2>1. Decided' = Decided /\ Ready' = Ready /\ GatesPassed' = GatesPassed
    BY <1>1, <1>2 DEF Decided, Ready, GatesPassed, Kind, Verdict
  <2>2. CASE run.active = id /\ Running(id)
    <3>1. WorkerOutcome = "open" /\ WorkerOutcome' = "interrupted"
      BY <1>1, <1>2, <2>2, AtWork DEF WorkerOutcome, Running, Done, Has
    <3>2. Promise!Interrupt
      BY <1>1, <2>1, <3>1 DEF Promise!Interrupt
    <3> QED BY <3>2 DEF Promised, Promise!Next
  <2>3. CASE run.active = id /\ ~Running(id)
    <3>1. workers[id].status = "canceled"
      BY <2>3 DEF Running, Done, Has, Typed, WorkerFiles
    <3>2. WorkerOutcome' = WorkerOutcome
      BY <1>1, <1>2, <2>3, <3>1, AtWork DEF WorkerOutcome, Done, Has
    <3> QED BY <1>1, <2>1, <3>2 DEF Promised, Promise!vars
  <2>4. CASE run.active # id
    <3>1. WorkerOutcome' = WorkerOutcome
      BY <1>1, <1>2, <2>4 DEF WorkerOutcome, Done, Has
    <3> QED BY <1>1, <2>1, <3>1 DEF Promised, Promise!vars
  <2> QED BY <2>2, <2>3, <2>4
<1> QED BY <1>3, <1>4, <1>5, <1>6, <1>7, <1>8 DEF Agreement

\* trackMutations: the audit of the worker at work.
LEMMA ReportAgrees ==
  ASSUME Typed, Agreement, Running(run.active), reports' = Put(reports, run.active, Change(run.active)),
         UNCHANGED <<run, workers, verdicts, artifacts, gate, baseline, changed, surfaced, calls, replies, token, spent>>
  PROVE  Agreement' /\ Promised /\ Audited'
<1> DEFINE id == run.active
<1>1. id \in DOMAIN workers /\ ~Done(id)
  BY DEF Running, Done, Has
<1>2. /\ DOMAIN reports' = DOMAIN reports \cup {id} /\ reports'[id] = Change(id) /\ id' = id
      /\ \A i \in DOMAIN reports : i # id => reports'[i] = reports[i]
  BY DEF Put
<1> HIDE DEF id
<1>3. ActiveIsTheLatest' /\ OnlyTheCurrentStageIsActive' /\ CompletedAtTheEnd' /\ GatesAreNotAhead' /\ VerdictsAreNotAhead'
  BY DEF Agreement, ActiveIsTheLatest, OnlyTheCurrentStageIsActive, CompletedAtTheEnd, GatesAreNotAhead,
         VerdictsAreNotAhead, Kind, Entry
<1>4. WorkersAreCounted' /\ CallsNameTheirWorker' /\ CommittedIsCurrent'
  BY DEF Agreement, WorkersAreCounted, CallsNameTheirWorker, CommittedIsCurrent, Committed, Pending, Entry, Done, Has, Kind
<1>5. ClosesAreAudited'
  BY <1>1, <1>2 DEF Agreement, ClosesAreAudited, Done, Has, Change
<1>6. NoChangeIsSwallowed'
  <2> SUFFICES ASSUME NEW i \in Unreported' PROVE i \in Unreported
    BY DEF Agreement, NoChangeIsSwallowed
  <2>1. i \in DOMAIN changed \ baseline /\ ~(i \in DOMAIN reports' /\ reports'[i] = changed[i])
    BY DEF Unreported
  <2>2. i # id
    BY <1>2, <2>1 DEF Change
  <2> QED BY <1>2, <2>1, <2>2 DEF Unreported
<1>7. ViolationStopsOrIsReconciled' /\ FixesAreBounded' /\ LeftWithItsArtifact' /\ OwnersAreLeftOnce'
  BY DEF Agreement, ViolationStopsOrIsReconciled, FixesAreBounded, LeftWithItsArtifact, OwnersAreLeftOnce, Done, Has, Stopped,
         Verdict
<1>8. UNCHANGED Promise!vars
  BY DEF Promise!vars, WorkerOutcome, Decided, Ready, GatesPassed, Done, Has, Kind, Verdict
<1>9. Audited'
  BY <1>2 DEF Audited, Change, id
<1> QED BY <1>3, <1>4, <1>5, <1>6, <1>7, <1>8, <1>9 DEF Agreement, Promised

\* persistReviewVerdict: the verdict of the reviewer at work, who is not closed yet.
LEMMA VerdictAgrees ==
  ASSUME Typed, Agreement, Running(run.active), Kind(run.stage) = "review", NEW verdict,
         verdicts' = Put(verdicts, run.iterations[run.stage], verdict),
         UNCHANGED <<run, workers, reports, artifacts, gate, baseline, changed, surfaced, calls, replies, token, spent>>
  PROVE  Agreement' /\ Promised /\ CurrentVerdict' = verdict
<1>1. /\ run.active = Entry /\ ~Done(Entry) /\ run.stage = "review" /\ run.stage \in Stages
      /\ run.iterations[run.stage] \in Nat
  BY AtWork DEF Running, Done, Has, StageFacts, Typed, RunStates
<1>2. ActiveIsTheLatest' /\ OnlyTheCurrentStageIsActive' /\ CompletedAtTheEnd' /\ GatesAreNotAhead'
  BY DEF Agreement, ActiveIsTheLatest, OnlyTheCurrentStageIsActive, CompletedAtTheEnd, GatesAreNotAhead, Kind, Entry
<1>3. VerdictsAreNotAhead'
  BY <1>1 DEF Agreement, VerdictsAreNotAhead, Put
<1>4. WorkersAreCounted' /\ ClosesAreAudited' /\ CallsNameTheirWorker' /\ CommittedIsCurrent'
  BY DEF Agreement, WorkersAreCounted, ClosesAreAudited, CallsNameTheirWorker, CommittedIsCurrent, Committed, Pending,
         Entry, Done, Has, Kind, Change
<1>5. NoChangeIsSwallowed' /\ ViolationStopsOrIsReconciled' /\ LeftWithItsArtifact' /\ OwnersAreLeftOnce'
  BY DEF Agreement, NoChangeIsSwallowed, Unreported, ViolationStopsOrIsReconciled, LeftWithItsArtifact,
         OwnersAreLeftOnce, Done, Has, Stopped
<1>6. FixesAreBounded'
  BY <1>1 DEF FixesAreBounded
<1>7. Decided = "none" /\ Decided' = "none"
  BY <1>1 DEF Decided, Entry, None, Done, Has
<1>8. UNCHANGED Promise!vars
  BY <1>7 DEF Promise!vars, WorkerOutcome, Ready, GatesPassed, Done, Has, Kind
<1>9. CurrentVerdict' = verdict
  BY DEF CurrentVerdict, Verdict, Put
<1> QED BY <1>2, <1>3, <1>4, <1>5, <1>6, <1>8, <1>9 DEF Agreement, Promised

\* runGateStage: what the gates came to.
LEMMA GateAgrees ==
  ASSUME Typed, Agreement, Free, Kind(run.stage) = "gate", gate'.after = run.agents, gate'.passed \in BOOLEAN,
         UNCHANGED <<run, workers, reports, verdicts, artifacts, baseline, changed, surfaced, calls, replies, token, spent>>
  PROVE  Agreement' /\ Promised
<1>1. run.agents \in Nat
  BY BoundsAssumption DEF Typed, RunStates
<1>2. /\ ActiveIsTheLatest' /\ OnlyTheCurrentStageIsActive' /\ CompletedAtTheEnd' /\ GatesAreNotAhead'
      /\ VerdictsAreNotAhead'
  BY <1>1 DEF Agreement, ActiveIsTheLatest, OnlyTheCurrentStageIsActive, CompletedAtTheEnd, GatesAreNotAhead,
              VerdictsAreNotAhead, Kind, Entry
<1>3. WorkersAreCounted' /\ ClosesAreAudited' /\ CallsNameTheirWorker' /\ CommittedIsCurrent'
  BY DEF Agreement, WorkersAreCounted, ClosesAreAudited, CallsNameTheirWorker, CommittedIsCurrent, Committed, Pending,
         Entry, Done, Has, Kind, Change
<1>4. /\ NoChangeIsSwallowed' /\ ViolationStopsOrIsReconciled' /\ FixesAreBounded' /\ LeftWithItsArtifact'
      /\ OwnersAreLeftOnce'
  BY DEF Agreement, NoChangeIsSwallowed, Unreported, ViolationStopsOrIsReconciled, LeftWithItsArtifact,
         OwnersAreLeftOnce, Done, Has, Stopped, FixesAreBounded, Verdict
<1>5. WorkerOutcome' = WorkerOutcome /\ Decided' = Decided /\ Ready' = Ready
  BY DEF WorkerOutcome, Decided, Ready, Done, Has, Kind, Verdict
<1>6. GatesPassed' = gate'.passed
  BY DEF GatesPassed
<1>7. Promise!RunGates(gate'.passed)
  BY <1>5, <1>6, PromiseKind DEF Promise!RunGates, Free
<1>8. Promised
  BY <1>7 DEF Promised, Promise!Next
<1> QED BY <1>2, <1>3, <1>4, <1>8 DEF Agreement

\* resolveDrift: the snapshot a human accepts leaves no change unaccounted for.
LEMMA BaselineAgrees ==
  ASSUME Agreement, baseline' = DOMAIN changed,
         UNCHANGED <<run, workers, reports, verdicts, artifacts, gate, changed, surfaced, calls, replies, token, spent>>
  PROVE  Agreement' /\ Promised /\ Unreported' = {}
<1>1. /\ ActiveIsTheLatest' /\ OnlyTheCurrentStageIsActive' /\ CompletedAtTheEnd' /\ GatesAreNotAhead'
      /\ VerdictsAreNotAhead'
  BY DEF Agreement, ActiveIsTheLatest, OnlyTheCurrentStageIsActive, CompletedAtTheEnd, GatesAreNotAhead,
         VerdictsAreNotAhead, Kind, Entry
<1>2. WorkersAreCounted' /\ ClosesAreAudited' /\ CallsNameTheirWorker' /\ CommittedIsCurrent'
  BY DEF Agreement, WorkersAreCounted, ClosesAreAudited, CallsNameTheirWorker, CommittedIsCurrent, Committed, Pending,
         Entry, Done, Has, Kind, Change
<1>3. Unreported' = {}
  BY DEF Unreported
<1>4. NoChangeIsSwallowed'
  BY <1>3 DEF NoChangeIsSwallowed
<1>5. ViolationStopsOrIsReconciled' /\ FixesAreBounded' /\ LeftWithItsArtifact' /\ OwnersAreLeftOnce'
  BY DEF Agreement, ViolationStopsOrIsReconciled, LeftWithItsArtifact, OwnersAreLeftOnce, Done, Has, Stopped,
         FixesAreBounded, Verdict
<1>6. UNCHANGED Promise!vars
  BY DEF Promise!vars, WorkerOutcome, Decided, Ready, GatesPassed, Done, Has, Kind, Verdict
<1> QED BY <1>1, <1>2, <1>3, <1>4, <1>5, <1>6 DEF Agreement, Promised

\* materializeArtifacts: the artifact of the stage the worker is at, which is not done.
LEMMA ArtifactAgrees ==
  ASSUME Typed, Agreement, Running(run.active), NEW a, OwnsArtifact(Workflow[run.stage]), a = Workflow[run.stage].artifact,
         \A b \in ArtifactNames : b # a => artifacts'[b] = artifacts[b],
         UNCHANGED <<run, workers, reports, verdicts, gate, baseline, changed, surfaced, calls, replies, token, spent>>
  PROVE  Agreement' /\ Promised
<1>1. run.stage \in Stages /\ run.stages[run.stage] = "active"
  BY AtWork DEF Running, Has
<1>2. /\ ActiveIsTheLatest' /\ OnlyTheCurrentStageIsActive' /\ CompletedAtTheEnd' /\ GatesAreNotAhead'
      /\ VerdictsAreNotAhead'
  BY DEF Agreement, ActiveIsTheLatest, OnlyTheCurrentStageIsActive, CompletedAtTheEnd, GatesAreNotAhead,
         VerdictsAreNotAhead, Kind, Entry
<1>3. WorkersAreCounted' /\ ClosesAreAudited' /\ CallsNameTheirWorker' /\ CommittedIsCurrent'
  BY DEF Agreement, WorkersAreCounted, ClosesAreAudited, CallsNameTheirWorker, CommittedIsCurrent, Committed, Pending,
         Entry, Done, Has, Kind, Change
<1>4. NoChangeIsSwallowed' /\ ViolationStopsOrIsReconciled' /\ FixesAreBounded' /\ OwnersAreLeftOnce'
  BY DEF Agreement, NoChangeIsSwallowed, Unreported, ViolationStopsOrIsReconciled, OwnersAreLeftOnce, Done, Has, Stopped,
         FixesAreBounded, Verdict
<1>5. LeftWithItsArtifact'
  <2>1. ASSUME NEW s \in Stages, OwnsArtifact(Workflow[s]), run.stages[s] = "done"
        PROVE  artifacts'[Workflow[s].artifact] = artifacts[Workflow[s].artifact]
    <3>1. /\ Workflow[s].artifact \in ArtifactNames /\ s # run.stage
          /\ StageFacts(s) /\ StageFacts(run.stage) /\ a # "none" /\ Workflow[s].artifact # "none"
      BY <1>1, <2>1, WorkflowFacts DEF StageFacts, OwnsArtifact
    <3>2. Workflow[s].artifact # a
      BY <3>1 DEF StageFacts, ArtifactNames
    <3> QED BY <3>1, <3>2
  <2> QED BY <2>1 DEF Agreement, LeftWithItsArtifact
<1>6. UNCHANGED Promise!vars
  BY DEF Promise!vars, WorkerOutcome, Decided, Ready, GatesPassed, Done, Has, Kind, Verdict
<1> QED BY <1>2, <1>3, <1>4, <1>5, <1>6 DEF Agreement, Promised

-----------------------------------------------------------------------------
(* The next write of a command *)

\* A command in flight, and what is left of it when it has made a write.
LEMMA TodoFacts ==
  ASSUME Typed, Busy
  PROVE  /\ cmd \in InFlight
         /\ cmd.todo # <<>> => /\ Todo \in Writes /\ Tail(cmd.todo) \in Seq(Writes)
                               /\ \A w : /\ Popped(w) \in InFlight /\ Popped(w).todo = Tail(cmd.todo)
                                         /\ Popped(w).op = cmd.op /\ Popped(w).kind = cmd.kind
                                         /\ Popped(w).reply = cmd.reply /\ Popped(w).down = cmd.down
                                         /\ Popped(w) # Idle
<1>1. cmd \in InFlight /\ cmd.todo \in Seq(Writes) /\ cmd.seq \in Nat
  BY DEF Typed, Busy, InFlight
<1> SUFFICES ASSUME cmd.todo # <<>>
             PROVE  /\ Todo \in Writes /\ Tail(cmd.todo) \in Seq(Writes)
                    /\ \A w : /\ Popped(w) \in InFlight /\ Popped(w).todo = Tail(cmd.todo)
                              /\ Popped(w).op = cmd.op /\ Popped(w).kind = cmd.kind
                              /\ Popped(w).reply = cmd.reply /\ Popped(w).down = cmd.down
                              /\ Popped(w) # Idle
  BY <1>1
<1>2. Todo \in Writes /\ Tail(cmd.todo) \in Seq(Writes)
  BY <1>1 DEF Todo
<1>3. ASSUME NEW w
      PROVE  /\ Popped(w) \in InFlight /\ Popped(w).todo = Tail(cmd.todo)
             /\ Popped(w).op = cmd.op /\ Popped(w).kind = cmd.kind
             /\ Popped(w).reply = cmd.reply /\ Popped(w).down = cmd.down
  <2> DEFINE n == IF w.do = "event" THEN cmd.seq + 1 ELSE cmd.seq
  <2>1. n \in Nat
    BY <1>1
  <2>2. Popped(w) = [cmd EXCEPT !.todo = Tail(cmd.todo), !.seq = n]
    BY DEF Popped
  <2> HIDE DEF n
  <2> QED BY <1>1, <1>2, <2>1, <2>2 DEF InFlight
<1>4. Idle \notin InFlight
  <2> SUFFICES ASSUME Idle \in InFlight PROVE FALSE
    OBVIOUS
  <2>1. Idle.kind \in Kinds \cup {"resume"}
    BY DEF InFlight
  <2> QED BY <2>1 DEF Idle, Kinds
<1> QED BY <1>2, <1>3, <1>4

\* What a step writes, by the kind of the write.
LEMMA StepWrites ==
  ASSUME Typed, Step
  PROVE  /\ Todo \in Quiets => Still
         /\ \A r \in RunStates : Todo \in Saves(r) => SavesRun(r)
         /\ Todo.do = "worker" => WritesWorker(Todo.key, Todo.to)
         /\ Todo.do = "report" =>
              /\ reports' = Put(reports, Todo.key, Todo.to)
              /\ UNCHANGED <<run, workers, verdicts, artifacts, gate, baseline, changed, surfaced, calls, replies, token, spent>>
         /\ Todo.do = "verdict" =>
              /\ verdicts' = Put(verdicts, Todo.key, Todo.to)
              /\ UNCHANGED <<run, workers, reports, artifacts, gate, baseline, changed, surfaced, calls, replies, token, spent>>
         /\ Todo.do = "gate" =>
              /\ gate' = Todo.to
              /\ UNCHANGED <<run, workers, reports, verdicts, artifacts, baseline, changed, surfaced, calls, replies, token, spent>>
         /\ Todo.do = "baseline" =>
              /\ baseline' = Todo.to
              /\ UNCHANGED <<run, workers, reports, verdicts, artifacts, gate, changed, surfaced, calls, replies, token, spent>>
         /\ Todo \in ArtifactWrites =>
              /\ \A b \in ArtifactNames : b # Todo.key => artifacts'[b] = artifacts[b]
              /\ UNCHANGED <<run, workers, reports, verdicts, gate, baseline, changed, surfaced, calls, replies, token, spent>>
<1> DEFINE w == Todo
<1>1. Saved(w) /\ Remember(w) /\ UNCHANGED <<changed, calls, replies, token, spent>>
  BY DEF Step, host
<1>2. artifacts \in [ArtifactNames -> [file : Qualities, by : Ids \cup {NoWorker}, meta : Entries \cup {<<>>}]]
  BY DEF Typed
<1> HIDE DEF w
<1>3. w \in Quiets => w.do \in {"event", "file", "record"}
  BY DEF Quiets, Sort
<1>4. \A r : w \in Saves(r) => w.do = "state" /\ w.to = r
  BY DEF Saves, Sets
<1>5. w \in ArtifactWrites => w.do \in {"artifact", "meta"} /\ w.key \in ArtifactNames
  BY DEF ArtifactWrites, Sort
<1>6. w \in Quiets => Still
  BY <1>1, <1>3 DEF Still, Saved, Remember
<1>7. \A r \in RunStates : w \in Saves(r) => SavesRun(r)
  BY <1>1, <1>4 DEF SavesRun, Saved, Remember
<1>8. w.do = "worker" => WritesWorker(w.key, w.to)
  BY <1>1 DEF WritesWorker, Saved, Remember
<1>9. w \in ArtifactWrites =>
        /\ \A b \in ArtifactNames : b # w.key => artifacts'[b] = artifacts[b]
        /\ UNCHANGED <<run, workers, reports, verdicts, gate, baseline, changed, surfaced, calls, replies, token, spent>>
  BY <1>1, <1>2, <1>5 DEF Saved, Remember
<1>10. /\ w.do = "report" =>
            /\ reports' = Put(reports, w.key, w.to)
            /\ UNCHANGED <<run, workers, verdicts, artifacts, gate, baseline, changed, surfaced, calls, replies, token, spent>>
       /\ w.do = "verdict" =>
            /\ verdicts' = Put(verdicts, w.key, w.to)
            /\ UNCHANGED <<run, workers, reports, artifacts, gate, baseline, changed, surfaced, calls, replies, token, spent>>
  BY <1>1 DEF Saved, Remember
<1>11. /\ w.do = "gate" =>
            /\ gate' = w.to
            /\ UNCHANGED <<run, workers, reports, verdicts, artifacts, baseline, changed, surfaced, calls, replies, token, spent>>
       /\ w.do = "baseline" =>
            /\ baseline' = w.to
            /\ UNCHANGED <<run, workers, reports, verdicts, artifacts, gate, changed, surfaced, calls, replies, token, spent>>
  BY <1>1 DEF Saved, Remember
<1> QED BY <1>6, <1>7, <1>8, <1>9, <1>10, <1>11 DEF w

\* What a command appends to the log is one of its events.
LEMMA AppendedTyped ==
  ASSUME Typed, Busy, cmd.todo # <<>>, Appended(Todo)
  PROVE  log' \in Seq([op : 0 .. MaxOps, event : Events, seq : Nat])
<1> DEFINE w == Todo
<1>1. cmd \in InFlight /\ w \in Writes /\ Appended(w)
  BY TodoFacts
<1> HIDE DEF w
<1>2. w.do = "event" => w.to \in Events
  BY <1>1 DEF Writes, Quiets, ArtifactWrites, Sort
<1>3. cmd.op \in 0 .. MaxOps /\ cmd.seq \in Nat
  BY <1>1 DEF InFlight
<1>4. w.do = "event" => [op |-> cmd.op, event |-> w.to, seq |-> IF cmd.op = Anonymous THEN 0 ELSE cmd.seq + 1]
                          \in [op : 0 .. MaxOps, event : Events, seq : Nat]
  BY <1>2, <1>3
<1> DEFINE S == [op : 0 .. MaxOps, event : Events, seq : Nat]
           e == [op |-> cmd.op, event |-> w.to, seq |-> IF cmd.op = Anonymous THEN 0 ELSE cmd.seq + 1]
<1>5. log \in Seq(S) /\ (log' = log \/ (w.do = "event" /\ log' = Append(log, e)))
  BY <1>1 DEF Appended, Typed
<1>6. w.do = "event" => e \in S
  BY <1>4
<1> HIDE DEF S, e
<1>7. log' \in Seq(S)
  BY <1>5, <1>6, AppendProperties
<1> QED BY <1>7 DEF S

\* The types of the writes are those of the files.
LEMMA StepTyped ==
  ASSUME Typed, Step,
         Todo.do = "report" => Todo.key \in DOMAIN workers,
         Todo.do = "baseline" => Todo.to \subseteq DOMAIN changed
  PROVE  Typed'
<1> DEFINE w == Todo
<1>1. cmd \in InFlight /\ w \in Writes /\ cmd' \in InFlight
  BY TodoFacts DEF Step
<1>2. Saved(w) /\ Remember(w) /\ Appended(w) /\ UNCHANGED <<changed, calls, replies, token, spent>>
  BY DEF Step, host
<1>3. /\ w.do = "report" => w.key \in DOMAIN workers
      /\ w.do = "baseline" => w.to \subseteq DOMAIN changed
  OBVIOUS
<1> HIDE DEF w
<1>4. run' \in RunStates
  <2>1. w.do = "state" => w.to \in RunStates
    BY <1>1 DEF Writes, Quiets, ArtifactWrites, Sort
  <2> QED BY <1>2, <2>1 DEF Saved, Typed
<1>5. workers' \in [DOMAIN workers' -> WorkerFiles] /\ DOMAIN workers' \subseteq Ids /\ DOMAIN workers \subseteq DOMAIN workers'
  <2>1. w.do = "worker" => w.to \in WorkerFiles /\ w.key \in Ids
    BY <1>1 DEF Writes, Quiets, ArtifactWrites, Sort
  <2> QED BY <1>2, <2>1 DEF Saved, Typed, Put
<1>6. reports' \in [DOMAIN reports' -> Changes] /\ DOMAIN reports' \subseteq DOMAIN workers'
  <2>1. w.do = "report" => w.to \in Changes
    BY <1>1 DEF Writes, Quiets, ArtifactWrites, Sort
  <2> QED BY <1>2, <1>3, <1>5, <2>1 DEF Saved, Typed, Put
<1>7. verdicts' \in [DOMAIN verdicts' -> Verdicts] /\ DOMAIN verdicts' \subseteq Nat
  <2>1. w.do = "verdict" => w.to \in Verdicts /\ w.key \in Nat
    BY <1>1 DEF Writes, Quiets, ArtifactWrites, Sort
  <2> QED BY <1>2, <2>1 DEF Saved, Typed, Put
<1>8. artifacts' \in [ArtifactNames -> [file : Qualities, by : Ids \cup {NoWorker}, meta : Entries \cup {<<>>}]]
  <2>1. /\ w.do = "artifact" => w.to \in [file : Qualities, by : Ids] /\ w.key \in ArtifactNames
        /\ w.do = "meta" => w.to \in Entries /\ w.key \in ArtifactNames
    BY <1>1 DEF Writes, Quiets, ArtifactWrites, Sort
  <2>2. artifacts \in [ArtifactNames -> [file : Qualities, by : Ids \cup {NoWorker}, meta : Entries \cup {<<>>}]]
    BY DEF Typed
  <2>3. CASE w.do = "artifact"
    BY <1>2, <2>1, <2>2, <2>3 DEF Saved
  <2>4. CASE w.do = "meta"
    BY <1>2, <2>1, <2>2, <2>4 DEF Saved
  <2>5. CASE w.do \notin {"artifact", "meta"}
    BY <1>2, <2>2, <2>5 DEF Saved
  <2> QED BY <2>3, <2>4, <2>5
<1>9. gate' \in GateFiles
  <2>1. w.do = "gate" => w.to \in GateFiles
    BY <1>1 DEF Writes, Quiets, ArtifactWrites, Sort
  <2> QED BY <1>2, <2>1 DEF Saved, Typed
<1>10. records' \in [DOMAIN records' -> {"ok", "blocked"}] /\ DOMAIN records' \subseteq Ops
  <2>1. w.do = "record" => w.to \in {"ok", "blocked"} /\ w.key \in Ops
    BY <1>1 DEF Writes, Quiets, ArtifactWrites, Sort
  <2> QED BY <1>2, <2>1 DEF Saved, Typed, Put
<1>11. baseline' \subseteq DOMAIN changed'
  BY <1>2, <1>3 DEF Saved, Typed
<1>12. log' \in Seq([op : 0 .. MaxOps, event : Events, seq : Nat])
  BY AppendedTyped DEF Step
<1>13. surfaced' \subseteq Ids \cup {NoWorker}
  BY <1>2 DEF Remember, Typed, RunStates
<1>14. changed' \in [DOMAIN changed' -> Edits] /\ DOMAIN changed' \subseteq DOMAIN workers'
  BY <1>2, <1>5 DEF Typed
<1> QED BY <1>1, <1>2, <1>4, <1>5, <1>6, <1>7, <1>8, <1>9, <1>10, <1>11, <1>12, <1>13, <1>14 DEF Typed

-----------------------------------------------------------------------------
(* What a command has still to write, while nothing that matters is written *)

FilesStay ==
  /\ UNCHANGED <<run, workers, reports, verdicts, artifacts, gate, baseline, changed>>
  /\ spent.resumes > 0 => spent'.resumes > 0

\* What may be made of the run may still be made of it.
LEMMA SavesStay ==
  ASSUME FilesStay, NEW r
  PROVE  /\ MayStay(r) => MayStay(r)'
         /\ MayBlock(r) => MayBlock(r)'
         /\ MayApply(r) => MayApply(r)'
         /\ ReviewMayLeave(r) => ReviewMayLeave(r)'
         /\ GateMayBlock(r) => GateMayBlock(r)'
         /\ EntryMayBlock(r) => EntryMayBlock(r)'
         /\ MayLeave(r) => MayLeave(r)'
         /\ MayComplete(r) => MayComplete(r)'
         /\ MayOpen(r) => MayOpen(r)'
         /\ Reopens(r) => Reopens(r)'
<1> USE DEF FilesStay, Kept, Kind
<1>1. MayStay(r) => MayStay(r)'
  BY DEF MayStay
<1>2. MayBlock(r) => MayBlock(r)'
  BY DEF MayBlock, Blocks, Says, Done, Has
<1>3. MayApply(r) => MayApply(r)'
  BY DEF MayApply, Applies, ClosedClean, Done, Has
<1>4. ReviewMayLeave(r) => ReviewMayLeave(r)'
  BY DEF ReviewMayLeave, ReviewLeaves, Leaves, ClosedClean, Entry, Done, Has, Verdict, ReviewsExceeded
<1>5. (GateMayBlock(r) => GateMayBlock(r)') /\ (EntryMayBlock(r) => EntryMayBlock(r)')
  BY DEF GateMayBlock, EntryMayBlock, Free, Entered, Counted
<1>6. MayLeave(r) => MayLeave(r)'
  BY DEF MayLeave, Leaves, Free, ArtifactMissing, GatesPassed
<1>7. MayComplete(r) => MayComplete(r)'
  BY DEF MayComplete, Completes, Free
<1>8. MayOpen(r) => MayOpen(r)'
  BY DEF MayOpen, Opens, Free, Entered, Counted, Running, Has
<1>9. Reopens(r) => Reopens(r)'
  BY DEF Reopens, Done, Has
<1> QED BY <1>1, <1>2, <1>3, <1>4, <1>5, <1>6, <1>7, <1>8, <1>9

\* And the command stands where it stood.
LEMMA PhasesStay ==
  ASSUME FilesStay, NEW todo, NEW op
  PROVE  /\ Saving(todo) => Saving(todo)'
         /\ StageWork(todo) => StageWork(todo)'
         /\ Moving(todo) => Moving(todo)'
         /\ Closing(todo, op) => Closing(todo, op)'
         /\ Voting(todo, op) => Voting(todo, op)'
         /\ Auditing(todo, op) => Auditing(todo, op)'
         /\ VoteAuditing(todo, op) => VoteAuditing(todo, op)'
         /\ Rotating(todo) => Rotating(todo)'
         /\ GivingUp(todo) => GivingUp(todo)'
         /\ Rebasing(todo) => Rebasing(todo)'
         /\ Relapsing(todo) => Relapsing(todo)'
<1>1. Saving(todo) => Saving(todo)'
  BY SavesStay DEF Saving, MayBecome
<1>2. Moving(todo) => Moving(todo)'
  BY SavesStay DEF Moving, MayMove
<1>3. \A q, r : Completes(q, r) => Completes(q, r)'
  BY DEF Completes, Kind
<1>4. Ending(todo) => Ending(todo)'
  BY <1>3, SavesStay DEF Ending
<1>5. Opening(todo) => Opening(todo)'
  BY DEF Opening, Opens, Free, Kind, Entered, Counted, FilesStay
<1>6. \A g, ends, r, q : GateLeads(g, ends, r, q) => GateLeads(g, ends, r, q)'
  BY <1>3, SavesStay DEF GateLeads, Leaves, FilesStay
<1>7. \A r : EntersGate(r) => EntersGate(r)'
  BY DEF EntersGate, Kept, Entered, FilesStay
<1>8. Free' = Free /\ Kind(run.stage)' = Kind(run.stage)
  BY DEF Free, Kind, FilesStay
<1>9. Gating(todo) => Gating(todo)'
  BY <1>6, <1>8 DEF Gating
<1>10. GateStarting(todo) => GateStarting(todo)'
  BY <1>6, <1>7, <1>8 DEF GateStarting
<1>11. /\ run' = run /\ Judgement' = Judgement /\ Audited' = Audited /\ CurrentVerdict' = CurrentVerdict
       /\ Running(run.active)' = Running(run.active) /\ Change(run.active)' = Change(run.active) /\ Unreported' = Unreported
  BY DEF Judgement, Audited, CurrentVerdict, Verdict, Change, Running, Has, Unreported, FilesStay
<1>12. \A r, blocks, verdict : Outcome(r, blocks, verdict)' = Outcome(r, blocks, verdict)
  BY <1>11 DEF Outcome, Blocks, Applies, Kept, ReviewLeaves, Leaves, ReviewsExceeded, Kind
<1>13. (Closing(todo, op) => Closing(todo, op)') /\ (Auditing(todo, op) => Auditing(todo, op)')
  BY <1>11, <1>12 DEF Closing, Auditing
<1>14. (Voting(todo, op) => Voting(todo, op)') /\ (VoteAuditing(todo, op) => VoteAuditing(todo, op)')
  BY <1>8, <1>11, <1>12 DEF Voting, VoteAuditing
<1>15. \A ids : Undone(ids)' = Undone(ids)
  BY DEF Undone, Done, Has, FilesStay
<1>16. (Rotating(todo) => Rotating(todo)') /\ (GivingUp(todo) => GivingUp(todo)')
  BY <1>11, <1>15, SavesStay DEF Rotating, GivingUp, FilesStay
<1>17. Rebasing(todo) => Rebasing(todo)'
  BY <1>11, <1>15, SavesStay DEF Rebasing, FilesStay
<1>18. Relapsing(todo) => Relapsing(todo)'
  BY <1>15, SavesStay DEF Relapsing, FilesStay
<1>19. StageWork(todo) => StageWork(todo)'
  BY <1>2, <1>4, <1>5, <1>9, <1>10 DEF StageWork
<1> QED BY <1>1, <1>2, <1>13, <1>14, <1>16, <1>17, <1>18, <1>19

-----------------------------------------------------------------------------
(* A command carries out what it has to write *)

\* Ahead is a set of plans.
LEMMA AheadType == \A P, A, T : Ahead(P, A, T) \in SUBSET Seq(Writes)
BY DEF Ahead

\* The sets that the phases are made of are sets of writes and of plans.
LEMMA WriteSets ==
  /\ Quiets \in SUBSET Writes /\ Rest \in SUBSET Seq(Writes)
  /\ \A do, key, to : Sets(do, key, to) \in SUBSET Writes
  /\ \A r : Saves(r) \in SUBSET Writes
  /\ \A ids : Cancels(ids) \in SUBSET Writes
  /\ \A s : OwnWrites(s) \in SUBSET Writes
  /\ \A r, q : SaveThen(r) \in SUBSET Seq(Writes) /\ LeaveThen(r, q) \in SUBSET Seq(Writes)
  /\ \A r : OpenThen(r) \in SUBSET Seq(Writes)
  /\ \A g, ends, r, q : GateThen(g, ends, r, q) \in SUBSET Seq(Writes)
  /\ \A id, op, blocks, r : CloseThen(id, op, blocks, r) \in SUBSET Seq(Writes)
  /\ \A n, verdict, id, op, r : VoteThen(n, verdict, id, op, r) \in SUBSET Seq(Writes)
  /\ \A id, change, T : AuditThen(id, change, T) \in SUBSET Seq(Writes)
  /\ \A ids, r : RotateThen(ids, r) \in SUBSET Seq(Writes)
  /\ \A id, ids, r : GiveUpThen(id, ids, r) \in SUBSET Seq(Writes)
<1>1. Quiets \in SUBSET Writes /\ ArtifactWrites \in SUBSET Writes
  BY DEF Writes
<1>2. Rest \in SUBSET Seq(Writes)
  BY <1>1, SeqMonotonic DEF Rest
<1>3. /\ \A do, key, to : Sets(do, key, to) \in SUBSET Writes
      /\ \A r : Saves(r) \in SUBSET Writes
      /\ \A ids : Cancels(ids) \in SUBSET Writes
  BY DEF Sets, Saves, Cancels
<1>4. \A s : OwnWrites(s) \in SUBSET Writes
  BY <1>1 DEF OwnWrites
<1> QED BY <1>1, <1>2, <1>3, <1>4, AheadType, Zenon
        DEF SaveThen, LeaveThen, OpenThen, GateThen, CloseThen, VoteThen, AuditThen, RotateThen, GiveUpThen, Soon

\* AheadNext, behind writes that no property looks at.
LEMMA SoonNext ==
  ASSUME NEW A \in SUBSET Writes, NEW T \in SUBSET Seq(Writes), NEW s \in Soon(A, T)
  PROVE  /\ s # <<>>
         /\ \/ Head(s) \in Quiets /\ Tail(s) \in Soon(A, T)
            \/ Head(s) \in A /\ Tail(s) \in T
BY AheadNext, WriteSets DEF Soon

\* Committed is a matter of the status files, the calls and the answers.
LEMMA CommittedStays ==
  ASSUME UNCHANGED <<workers, calls, replies>>
  PROVE  Committed' = Committed
BY DEF Committed, Pending, Done, Has

\* A step makes the first write of the plan, and leaves the rest of the command as it is.
LEMMA StepPops ==
  ASSUME Typed, Step
  PROVE  /\ cmd.todo # <<>> /\ Todo = Head(cmd.todo) /\ Todo \in Writes /\ Busy' /\ cmd'.todo = Tail(cmd.todo)
         /\ cmd'.op = cmd.op /\ cmd'.kind = cmd.kind /\ cmd'.reply = cmd.reply /\ cmd'.down = cmd.down
<1>1. Busy /\ cmd.todo # <<>> /\ cmd' = Popped(Todo)
  BY DEF Step
<1> QED BY <1>1, TodoFacts DEF Todo, Busy

\* A step makes a quiet write, or the one the phase waits for.
LEMMA SoonStep ==
  ASSUME Typed, Step, NEW A \in SUBSET Writes, NEW T \in SUBSET Seq(Writes), cmd.todo \in Soon(A, T)
  PROVE  \/ Todo \in Quiets /\ cmd'.todo \in Soon(A, T)
         \/ Todo \in A /\ cmd'.todo \in T
BY StepPops, SoonNext

\* Nothing left but events and the record of the operation.
LEMMA RestStep ==
  ASSUME Typed, Agreement, Step, cmd.todo \in Rest
  PROVE  Agreement' /\ Promised /\ run'.token = run.token /\ cmd'.todo \in Rest
<1>1. cmd.todo # <<>> /\ Todo = Head(cmd.todo) /\ cmd'.todo = Tail(cmd.todo)
  BY StepPops
<1>2. Todo \in Quiets /\ cmd'.todo \in Rest
  BY <1>1, HeadTailProperties DEF Rest
<1>3. Still
  BY <1>2, StepWrites
<1> QED BY <1>2, <1>3, StillAgrees DEF Still

\* What a close makes of the run.
LEMMA SavingStep ==
  ASSUME Typed, Agreement, Step, Saving(cmd.todo)
  PROVE  Agreement' /\ Promised /\ run'.token = run.token /\ (cmd'.todo \in Rest \/ Saving(cmd.todo)')
<1>1. PICK r \in RunStates : MayBecome(r) /\ cmd.todo \in SaveThen(r)
  BY DEF Saving
<1>2. \/ Todo \in Quiets /\ cmd'.todo \in SaveThen(r)
      \/ Todo \in Saves(r) /\ cmd'.todo \in Rest
  BY <1>1, SoonStep, WriteSets DEF SaveThen
<1>3. CASE Todo \in Quiets /\ cmd'.todo \in SaveThen(r)
  <2>1. Still
    BY <1>3, StepWrites
  <2>2. MayBecome(r)'
    BY <1>1, <2>1, SavesStay DEF Still, FilesStay, MayBecome
  <2>3. Saving(cmd.todo)'
    BY <1>3, <2>2 DEF Saving
  <2> QED BY <2>1, <2>3, StillAgrees DEF Still
<1>4. CASE Todo \in Saves(r) /\ cmd'.todo \in Rest
  <2>1. SavesRun(r)
    BY <1>4, StepWrites
  <2>2. r.token = run.token /\ run' = r
    BY <1>1, <2>1 DEF SavesRun, MayBecome, MayStay, MayBlock, Blocks, MayApply, Applies, Kept, ReviewMayLeave, ReviewLeaves, Leaves
  <2>3. Agreement' /\ Promised
    BY <1>1, <2>1, StayAgrees, BlockAgrees, ApplyAgrees, ReviewLeaveAgrees DEF MayBecome
  <2> QED BY <1>4, <2>2, <2>3
<1> QED BY <1>2, <1>3, <1>4

\* What a start or a stage close makes of the run.
LEMMA MovingStep ==
  ASSUME Typed, Agreement, ~Committed, Step, Moving(cmd.todo)
  PROVE  Agreement' /\ Promised /\ run'.token = run.token /\ ~Committed' /\ (cmd'.todo \in Rest \/ Moving(cmd.todo)')
<1>1. PICK r \in RunStates : MayMove(r) /\ cmd.todo \in SaveThen(r)
  BY DEF Moving
<1>2. \/ Todo \in Quiets /\ cmd'.todo \in SaveThen(r)
      \/ Todo \in Saves(r) /\ cmd'.todo \in Rest
  BY <1>1, SoonStep, WriteSets DEF SaveThen
<1>3. CASE Todo \in Quiets /\ cmd'.todo \in SaveThen(r)
  <2>1. Still
    BY <1>3, StepWrites
  <2>2. MayMove(r)'
    BY <1>1, <2>1, SavesStay DEF Still, FilesStay, MayMove
  <2>3. Moving(cmd.todo)'
    BY <1>3, <2>2 DEF Moving
  <2> QED BY <2>1, <2>3, StillAgrees, CommittedStays DEF Still
<1>4. CASE Todo \in Saves(r) /\ cmd'.todo \in Rest
  <2>1. SavesRun(r)
    BY <1>4, StepWrites
  <2>2. r.token = run.token /\ run' = r /\ ~Committed'
    BY <1>1, <2>1, CommittedStays
       DEF SavesRun, MayMove, GateMayBlock, Kept, EntryMayBlock, MayLeave, Leaves, MayComplete, Completes, MayOpen, Opens
  <2>3. GateMayBlock(r) => Agreement' /\ Promised
    BY <2>1, GateEntryAgrees DEF GateMayBlock
  <2>4. Agreement' /\ Promised
    BY <1>1, <2>1, <2>3, EntryBlockAgrees, LeaveAgrees, CompleteAgrees, OpenAgrees DEF MayMove
  <2> QED BY <1>4, <2>2, <2>4
<1> QED BY <1>2, <1>3, <1>4

\* Leaving the last stage but one completes the run, in a second write.
LEMMA EndingStep ==
  ASSUME Typed, Agreement, ~Committed, Step, Ending(cmd.todo)
  PROVE  Agreement' /\ Promised /\ run'.token = run.token /\ ~Committed' /\ (Ending(cmd.todo)' \/ Moving(cmd.todo)')
<1>1. PICK r \in RunStates, q \in RunStates : MayLeave(r) /\ Completes(q, r) /\ cmd.todo \in LeaveThen(r, q)
  BY DEF Ending
<1>2. \/ Todo \in Quiets /\ cmd'.todo \in LeaveThen(r, q)
      \/ Todo \in Saves(r) /\ cmd'.todo \in SaveThen(q)
  BY <1>1, SoonStep, WriteSets DEF LeaveThen
<1>3. CASE Todo \in Quiets /\ cmd'.todo \in LeaveThen(r, q)
  <2>1. Still
    BY <1>3, StepWrites
  <2>2. MayLeave(r)' /\ Completes(q, r)'
    BY <1>1, <2>1, SavesStay DEF Still, FilesStay, Completes, Kind
  <2>3. Ending(cmd.todo)'
    BY <1>3, <2>2 DEF Ending
  <2> QED BY <2>1, <2>3, StillAgrees, CommittedStays DEF Still
<1>4. CASE Todo \in Saves(r) /\ cmd'.todo \in SaveThen(q)
  <2>1. SavesRun(r) /\ run' = r
    BY <1>4, StepWrites DEF SavesRun
  <2>2. r.token = run.token /\ r.status = "active" /\ r.active = NoWorker /\ ~Committed'
    BY <1>1, <2>1, CommittedStays DEF SavesRun, MayLeave, Leaves
  <2>3. Kind(r.stage) = "terminal" /\ r.stage \in Stages
    BY <1>1 DEF Completes, Kind, None
  <2>4. MayComplete(q)'
    BY <1>1, <2>1, <2>2, <2>3 DEF MayComplete, Free, Completes, Kind
  <2>5. Moving(cmd.todo)'
    BY <1>4, <2>4 DEF Moving, MayMove
  <2> QED BY <1>1, <2>1, <2>2, <2>5, LeaveAgrees
<1> QED BY <1>2, <1>3, <1>4

\* OpenWorker: the worker is on disk before the run counts it.
LEMMA OpeningStep ==
  ASSUME Typed, Agreement, ~Committed, Step, Opening(cmd.todo)
  PROVE  Agreement' /\ Promised /\ run'.token = run.token /\ ~Committed' /\ (Opening(cmd.todo)' \/ Moving(cmd.todo)')
<1>1. Free /\ Kind(run.stage) \in {"worker", "review"}
  BY DEF Opening
<1>2. PICK r \in RunStates : Opens(r) /\ cmd.todo \in OpenThen(r)
  BY DEF Opening
<1> DEFINE file == WorkerStatus("running", Anonymous, FALSE)
<1>3. \/ Todo \in Quiets /\ cmd'.todo \in OpenThen(r)
      \/ Todo \in Sets("worker", r.active, file) /\ cmd'.todo \in SaveThen(r)
  BY <1>2, SoonStep, WriteSets DEF OpenThen
<1>4. CASE Todo \in Quiets /\ cmd'.todo \in OpenThen(r)
  <2>1. Still
    BY <1>4, StepWrites
  <2>2. Free' /\ Kind(run.stage)' \in {"worker", "review"} /\ Opens(r)'
    BY <1>1, <1>2, <2>1 DEF Still, Free, Kind, Opens, Entered, Counted
  <2>3. Opening(cmd.todo)'
    BY <1>4, <2>2 DEF Opening
  <2> QED BY <2>1, <2>3, StillAgrees, CommittedStays DEF Still
<1>5. CASE Todo \in Sets("worker", r.active, file) /\ cmd'.todo \in SaveThen(r)
  <2>1. Todo \in Writes /\ Todo.do = "worker" /\ Todo.key = r.active /\ Todo.to = file
    BY <1>5 DEF Sets
  <2>2. r.active \in Ids /\ r.active = <<run.agents + 1, run.stage>>
    BY <2>1, <1>2 DEF Writes, Quiets, ArtifactWrites, Sort, Opens
  <2>3. WritesWorker(r.active, file)
    BY <2>1, StepWrites
  <2>4. Agreement' /\ Promised /\ Running(r.active)'
    BY <1>1, <2>2, <2>3, RunningAgrees
  <2>5. Free' /\ Kind(run.stage)' \in {"worker", "review"} /\ Opens(r)'
    BY <1>1, <1>2, <2>3 DEF WritesWorker, Free, Kind, Opens, Entered, Counted
  <2>6. Moving(cmd.todo)'
    BY <1>5, <2>4, <2>5 DEF Moving, MayMove, MayOpen
  <2>7. ~Committed'
    <3>1. ~Done(r.active)'
      BY <2>4 DEF Running, Done, Has
    <3>2. \A i : i # r.active /\ Done(i)' => Done(i) /\ workers'[i] = workers[i]
      BY <2>3 DEF WritesWorker, Put, Done, Has
    <3>3. UNCHANGED <<calls, replies>>
      BY <2>3 DEF WritesWorker
    <3> QED BY <3>1, <3>2, <3>3 DEF Committed, Pending
  <2> QED BY <2>3, <2>4, <2>6, <2>7 DEF WritesWorker
<1> QED BY <1>3, <1>4, <1>5

\* runGateStage: the gates run, and the run goes on or stops.
LEMMA GatingStep ==
  ASSUME Typed, Agreement, ~Committed, Step, Gating(cmd.todo)
  PROVE  Agreement' /\ Promised /\ run'.token = run.token /\ ~Committed'
         /\ (Gating(cmd.todo)' \/ Moving(cmd.todo)' \/ Ending(cmd.todo)')
<1>1. Free /\ Kind(run.stage) = "gate"
  BY DEF Gating
<1>2. PICK g \in GateFiles, r \in RunStates, q \in RunStates, ends \in BOOLEAN :
        GateLeads(g, ends, r, q) /\ cmd.todo \in GateThen(g, ends, r, q)
  BY DEF Gating
<1> DEFINE T == IF ends THEN LeaveThen(r, q) ELSE SaveThen(r)
<1>3. \/ Todo \in Quiets /\ cmd'.todo \in GateThen(g, ends, r, q)
      \/ Todo \in Sets("gate", 0, g) /\ cmd'.todo \in T
  <2>1. T \in SUBSET Seq(Writes) /\ cmd.todo \in Soon(Sets("gate", 0, g), T)
    BY <1>2, WriteSets DEF GateThen
  <2> HIDE DEF T
  <2> QED BY <2>1, SoonStep, WriteSets DEF GateThen, T
<1>4. CASE Todo \in Quiets /\ cmd'.todo \in GateThen(g, ends, r, q)
  <2>1. Still
    BY <1>4, StepWrites
  <2>2. Free' /\ Kind(run.stage)' = "gate" /\ GateLeads(g, ends, r, q)'
    BY <1>1, <1>2, <2>1, SavesStay DEF Still, FilesStay, Free, Kind, GateLeads, Leaves, Completes
  <2>3. Gating(cmd.todo)'
    BY <1>4, <2>2 DEF Gating
  <2> QED BY <2>1, <2>3, StillAgrees, CommittedStays DEF Still
<1>5. CASE Todo \in Sets("gate", 0, g) /\ cmd'.todo \in T
  <2>1. gate' = g /\ UNCHANGED <<run, workers, reports, verdicts, artifacts, baseline, changed, surfaced, calls, replies, token, spent>>
    BY <1>5, StepWrites DEF Sets
  <2>2. g.after = run.agents /\ g.passed \in BOOLEAN
    BY <1>2 DEF GateLeads, GateFiles
  <2>3. Agreement' /\ Promised
    BY <1>1, <2>1, <2>2, GateAgrees
  <2>4. Free' /\ Kind(run.stage)' = "gate" /\ ~Committed'
    BY <1>1, <2>1, CommittedStays DEF Free, Kind
  <2>5. CASE ~ends /\ GateMayBlock(r)
    <3>1. MayMove(r)'
      BY <2>1, <2>5 DEF MayMove, GateMayBlock, Free, Kind, Kept, Entered
    <3> QED BY <1>5, <2>1, <2>3, <2>4, <2>5, <3>1 DEF Moving
  <2>6. CASE g.passed /\ Leaves(r, Workflow[run.stage].next) /\ (ends => Completes(q, r))
    <3>1. MayLeave(r)'
      BY <2>1, <2>2, <2>4, <2>6 DEF MayLeave, Leaves, GatesPassed
    <3>2. CASE ends
      <4>1. Completes(q, r)'
        BY <2>6, <3>2 DEF Completes, Kind
      <4>2. Ending(cmd.todo)'
        BY <1>5, <3>1, <3>2, <4>1 DEF Ending
      <4> QED BY <2>1, <2>3, <2>4, <4>2
    <3>3. CASE ~ends
      <4>1. Moving(cmd.todo)'
        BY <1>5, <3>1, <3>3 DEF Moving, MayMove
      <4> QED BY <2>1, <2>3, <2>4, <4>1
    <3> QED BY <3>2, <3>3
  <2> QED BY <1>2, <2>5, <2>6 DEF GateLeads
<1> QED BY <1>3, <1>4, <1>5

\* The gate stage is marked active before its gates run.
LEMMA GateStartingStep ==
  ASSUME Typed, Agreement, ~Committed, Step, GateStarting(cmd.todo)
  PROVE  Agreement' /\ Promised /\ run'.token = run.token /\ ~Committed'
         /\ (GateStarting(cmd.todo)' \/ Gating(cmd.todo)')
<1>1. Free /\ Kind(run.stage) = "gate"
  BY DEF GateStarting
<1>2. PICK a \in RunStates, g \in GateFiles, r \in RunStates, q \in RunStates, ends \in BOOLEAN :
        EntersGate(a) /\ GateLeads(g, ends, r, q) /\ cmd.todo \in Soon(Saves(a), GateThen(g, ends, r, q))
  BY DEF GateStarting
<1>3. \/ Todo \in Quiets /\ cmd'.todo \in Soon(Saves(a), GateThen(g, ends, r, q))
      \/ Todo \in Saves(a) /\ cmd'.todo \in GateThen(g, ends, r, q)
  BY <1>2, SoonStep, WriteSets
<1>4. CASE Todo \in Quiets /\ cmd'.todo \in Soon(Saves(a), GateThen(g, ends, r, q))
  <2>1. Still
    BY <1>4, StepWrites
  <2>2. Free' /\ Kind(run.stage)' = "gate" /\ EntersGate(a)'
    BY <1>1, <1>2, <2>1 DEF Still, Free, Kind, EntersGate, Kept, Entered
  <2>3. GateLeads(g, ends, r, q)'
    BY <1>2, <2>1, SavesStay DEF Still, FilesStay, Kind, GateLeads, Leaves, Completes
  <2>4. GateStarting(cmd.todo)'
    BY <1>4, <2>2, <2>3 DEF GateStarting
  <2> QED BY <2>1, <2>4, StillAgrees, CommittedStays DEF Still
<1>5. CASE Todo \in Saves(a) /\ cmd'.todo \in GateThen(g, ends, r, q)
  <2>1. SavesRun(a) /\ run' = a
    BY <1>5, StepWrites DEF SavesRun
  <2>2. /\ Kept(a) /\ a.status = "active" /\ a.active = NoWorker /\ a.stages = [run.stages EXCEPT ![run.stage] = "active"]
        /\ run.stages \in [Stages -> StageStatus] /\ ~Committed'
    BY <1>2, <2>1, CommittedStays DEF EntersGate, Entered, Typed, RunStates, SavesRun
  <2>3. Agreement' /\ Promised
    BY <1>1, <1>2, <2>1, GateEntryAgrees DEF EntersGate
  <2>4. Free' /\ Kind(run.stage)' = "gate"
    BY <1>1, <2>1, <2>2 DEF Free, Kind, Kept
  <2>5. \A status : [a.stages EXCEPT ![run.stage] = status] = [run.stages EXCEPT ![run.stage] = status]
    BY <2>2
  <2>6. GateMayBlock(r) => GateMayBlock(r)'
    BY <2>1, <2>2, <2>4, <2>5 DEF GateMayBlock, Kept, Entered
  <2>7. Leaves(r, Workflow[run.stage].next) => Leaves(r, Workflow[run.stage].next)'
    BY <2>1, <2>2, <2>5 DEF Leaves, Kept
  <2>8. GateLeads(g, ends, r, q)'
    BY <1>2, <2>1, <2>2, <2>6, <2>7 DEF GateLeads, Completes, Kept, Kind
  <2>9. Gating(cmd.todo)'
    BY <1>5, <2>4, <2>8 DEF Gating
  <2> QED BY <2>1, <2>2, <2>3, <2>9 DEF Kept
<1> QED BY <1>3, <1>4, <1>5

-----------------------------------------------------------------------------
(* The steps of a close *)

\* commitWorkerClose: the write that closes the worker; what follows may be made of the run.
LEMMA ClosingStep ==
  ASSUME Typed, Agreement, Step, cmd.op <= Len(calls), Closing(cmd.todo, cmd.op)
  PROVE  Agreement' /\ Promised /\ run'.token = run.token
         /\ (Closing(cmd.todo, cmd.op)' \/ Saving(cmd.todo)')
<1>1. Running(run.active) /\ Audited
  BY DEF Closing
<1>2. PICK r \in RunStates : /\ Outcome(r, Judgement, CurrentVerdict)
                             /\ cmd.todo \in CloseThen(run.active, cmd.op, Judgement, r)
  BY DEF Closing
<1> DEFINE file == WorkerStatus("done", cmd.op, Judgement)
<1>3. \/ Todo \in Quiets /\ cmd'.todo \in CloseThen(run.active, cmd.op, Judgement, r)
      \/ Todo \in Sets("worker", run.active, file) /\ cmd'.todo \in SaveThen(r)
  BY <1>2, SoonStep, WriteSets DEF CloseThen
<1>4. CASE Todo \in Quiets /\ cmd'.todo \in CloseThen(run.active, cmd.op, Judgement, r)
  <2>1. Still /\ cmd'.op = cmd.op
    BY <1>4, StepWrites, StepPops
  <2>2. Closing(cmd'.todo, cmd.op)
    BY <1>1, <1>2, <1>4 DEF Closing
  <2>3. Closing(cmd.todo, cmd.op)'
    BY <2>1, <2>2, PhasesStay DEF Still, FilesStay, Closing
  <2> QED BY <2>1, <2>3, StillAgrees DEF Still
<1>5. CASE Todo \in Sets("worker", run.active, file) /\ cmd'.todo \in SaveThen(r)
  <2>1. WritesWorker(run.active, file)
    BY <1>5, StepWrites DEF Sets
  <2>2. cmd.op \in Nat
    BY TodoFacts DEF Step, InFlight
  <2>3. Agreement' /\ Promised
    BY <1>1, <2>1, <2>2, DoneAgrees
  <2>4. /\ run.status = "active" /\ run.active = Entry /\ run.active # NoWorker
        /\ Kind(run.stage) = "review" => run.stages[run.stage] = "active"
    BY <1>1, AtWork DEF Running, Has
  <2>5. /\ run' = run /\ Entry' = Entry /\ CurrentVerdict' = CurrentVerdict
        /\ Done(run.active)' /\ workers'[run.active].blocks = Judgement
    BY <2>1 DEF WritesWorker, Put, WorkerStatus, Entry, CurrentVerdict, Verdict, Done, Has
  <2>6. /\ \A b : Blocks(b)' = Blocks(b) /\ Applies(b)' = Applies(b)
        /\ \A b, v : ReviewLeaves(b, v)' = ReviewLeaves(b, v)
    BY <2>5 DEF Blocks, Applies, Kept, ReviewLeaves, Leaves, ReviewsExceeded
  <2>7. MayBecome(r)'
    <3>1. CASE Judgement /\ Blocks(r) /\ r.why = "policy"
      BY <3>1, <2>4, <2>5, <2>6 DEF MayBecome, MayBlock, Says
    <3>2. CASE ~Judgement /\ Applies(r)
      BY <3>2, <2>4, <2>5, <2>6 DEF MayBecome, MayApply, ClosedClean
    <3>3. CASE ~Judgement /\ Kind(run.stage) = "review" /\ Blocks(r)
      BY <3>3, <2>4, <2>5, <2>6 DEF MayBecome, MayBlock, Says
    <3>4. CASE ~Judgement /\ Kind(run.stage) = "review" /\ ReviewLeaves(r, CurrentVerdict)
      <4>1. ReviewLeaves(r, Verdict(run.iterations[run.stage]))'
        BY <3>4, <2>5, <2>6 DEF CurrentVerdict
      <4>2. ClosedClean(Entry)'
        BY <3>4, <2>4, <2>5 DEF ClosedClean
      <4> QED BY <3>4, <4>1, <4>2, <2>4, <2>5 DEF MayBecome, ReviewMayLeave, Kind
    <3> QED BY <1>2, <3>1, <3>2, <3>3, <3>4 DEF Outcome
  <2>8. Saving(cmd.todo)'
    BY <1>5, <2>7 DEF Saving
  <2> QED BY <2>3, <2>5, <2>8
<1> QED BY <1>3, <1>4, <1>5

\* persistReviewVerdict: the verdict is on disk before the reviewer is closed.
LEMMA VotingStep ==
  ASSUME Typed, Agreement, Step, Voting(cmd.todo, cmd.op)
  PROVE  Agreement' /\ Promised /\ run'.token = run.token
         /\ (Voting(cmd.todo, cmd.op)' \/ Closing(cmd.todo, cmd.op)')
<1>1. Running(run.active) /\ Audited /\ Kind(run.stage) = "review" /\ ~Judgement
  BY DEF Voting
<1> DEFINE n == run.iterations[run.stage]
<1>2. PICK r \in RunStates, verdict \in Verdicts :
        Outcome(r, FALSE, verdict) /\ cmd.todo \in VoteThen(n, verdict, run.active, cmd.op, r)
  BY DEF Voting
<1>3. \/ Todo \in Quiets /\ cmd'.todo \in VoteThen(n, verdict, run.active, cmd.op, r)
      \/ Todo \in Sets("verdict", n, verdict) /\ cmd'.todo \in CloseThen(run.active, cmd.op, FALSE, r)
  BY <1>2, SoonStep, WriteSets DEF VoteThen
<1>4. CASE Todo \in Quiets /\ cmd'.todo \in VoteThen(n, verdict, run.active, cmd.op, r)
  <2>1. Still /\ cmd'.op = cmd.op
    BY <1>4, StepWrites, StepPops
  <2>2. Voting(cmd'.todo, cmd.op)
    BY <1>1, <1>2, <1>4 DEF Voting
  <2>3. Voting(cmd.todo, cmd.op)'
    BY <2>1, <2>2, PhasesStay DEF Still, FilesStay, Voting
  <2> QED BY <2>1, <2>3, StillAgrees DEF Still
<1>5. CASE Todo \in Sets("verdict", n, verdict) /\ cmd'.todo \in CloseThen(run.active, cmd.op, FALSE, r)
  <2>1. /\ verdicts' = Put(verdicts, n, verdict) /\ cmd'.op = cmd.op
        /\ UNCHANGED <<run, workers, reports, artifacts, gate, baseline, changed, surfaced, calls, replies, token, spent>>
    BY <1>5, StepWrites, StepPops DEF Sets
  <2>2. Agreement' /\ Promised /\ CurrentVerdict' = verdict
    BY <1>1, <2>1, VerdictAgrees
  <2>3. Running(run.active)' /\ Audited' /\ Judgement' = FALSE
    BY <1>1, <2>1 DEF Running, Has, Audited, Judgement, Change
  <2>4. Outcome(r, FALSE, verdict)'
    BY <1>2, <2>1 DEF Outcome, Blocks, Applies, Kept, ReviewLeaves, Leaves, ReviewsExceeded, Kind
  <2>5. Closing(cmd.todo, cmd.op)'
    BY <1>5, <2>1, <2>2, <2>3, <2>4 DEF Closing
  <2> QED BY <2>1, <2>2, <2>5
<1> QED BY <1>3, <1>4, <1>5

\* A write of an artifact is of the stage the open worker is at.
LEMMA OwnWriteAgrees ==
  ASSUME Typed, Agreement, Step, Running(run.active), Todo \in OwnWrites(StageOf(run.active))
  PROVE  /\ Agreement' /\ Promised /\ run'.token = run.token
         /\ UNCHANGED <<run, workers, reports, verdicts, gate, baseline, changed, surfaced, calls, replies, token, spent>>
<1>1. StageOf(run.active) = run.stage
  BY AtWork DEF Running, Has
<1>2. Todo \in ArtifactWrites /\ OwnsArtifact(Workflow[run.stage]) /\ Todo.key = Workflow[run.stage].artifact
  BY <1>1 DEF OwnWrites
<1>3. /\ \A b \in ArtifactNames : b # Todo.key => artifacts'[b] = artifacts[b]
      /\ UNCHANGED <<run, workers, reports, verdicts, gate, baseline, changed, surfaced, calls, replies, token, spent>>
  BY <1>2, StepWrites
<1> QED BY <1>2, <1>3, ArtifactAgrees

\* A step of an audit: a write the close does not depend on, or the report.
LEMMA AuditStep ==
  ASSUME Typed, Agreement, Step, Running(run.active), NEW T \in SUBSET Seq(Writes),
         cmd.todo \in AuditThen(run.active, Change(run.active), T)
  PROVE  /\ Agreement' /\ Promised
         /\ UNCHANGED <<run, workers, verdicts, changed, calls>> /\ cmd'.op = cmd.op
         /\ \/ cmd'.todo \in AuditThen(run.active, Change(run.active), T)
            \/ cmd'.todo \in T /\ Audited'
<1> DEFINE P == Quiets \cup OwnWrites(StageOf(run.active))
           A == Sets("report", run.active, Change(run.active))
<1>1. cmd.todo \in Ahead(P, A, T)
  BY DEF AuditThen
<1>2. P \in SUBSET Writes /\ A \in SUBSET Writes
  BY WriteSets
<1>3. cmd.todo # <<>> /\ Todo = Head(cmd.todo) /\ cmd'.todo = Tail(cmd.todo) /\ cmd'.op = cmd.op
  BY StepPops
<1>4. \/ Todo \in P /\ cmd'.todo \in Ahead(P, A, T)
      \/ Todo \in A /\ cmd'.todo \in T
  <2> HIDE DEF P, A
  <2> QED BY <1>1, <1>2, <1>3, AheadNext
<1>5. CASE Todo \in Quiets /\ cmd'.todo \in Ahead(P, A, T)
  <2>1. Still
    BY <1>5, StepWrites
  <2> QED BY <1>3, <1>5, <2>1, StillAgrees DEF Still, AuditThen
<1>6. CASE Todo \in OwnWrites(StageOf(run.active)) /\ cmd'.todo \in Ahead(P, A, T)
  BY <1>3, <1>6, OwnWriteAgrees DEF AuditThen
<1>7. CASE Todo \in A /\ cmd'.todo \in T
  <2>1. /\ reports' = Put(reports, run.active, Change(run.active))
        /\ UNCHANGED <<run, workers, verdicts, artifacts, gate, baseline, changed, surfaced, calls, replies, token, spent>>
    BY <1>7, StepWrites DEF Sets
  <2> QED BY <1>3, <1>7, <2>1, ReportAgrees
<1> QED BY <1>4, <1>5, <1>6, <1>7

\* What an audit leaves alone.
LEMMA AuditKeeps ==
  ASSUME UNCHANGED <<run, workers, verdicts, changed>>
  PROVE  /\ Running(run.active)' = Running(run.active) /\ Judgement' = Judgement
         /\ CurrentVerdict' = CurrentVerdict /\ Kind(run.stage)' = Kind(run.stage)
         /\ Change(run.active)' = Change(run.active)
         /\ \A r, blocks, verdict : Outcome(r, blocks, verdict)' = Outcome(r, blocks, verdict)
<1>1. /\ Running(run.active)' = Running(run.active) /\ Judgement' = Judgement
      /\ CurrentVerdict' = CurrentVerdict /\ Kind(run.stage)' = Kind(run.stage)
      /\ Change(run.active)' = Change(run.active)
  BY DEF Running, Has, Judgement, Change, CurrentVerdict, Verdict, Kind
<1>2. \A r, blocks, verdict : Outcome(r, blocks, verdict)' = Outcome(r, blocks, verdict)
  BY DEF Outcome, Blocks, Applies, Kept, ReviewLeaves, Leaves, ReviewsExceeded, Kind
<1> QED BY <1>1, <1>2

\* The audit of a worker is written, artifact and report, before its close.
LEMMA AuditingStep ==
  ASSUME Typed, Agreement, Step, Auditing(cmd.todo, cmd.op)
  PROVE  Agreement' /\ Promised /\ run'.token = run.token
         /\ (Auditing(cmd.todo, cmd.op)' \/ Closing(cmd.todo, cmd.op)')
<1>1. Running(run.active)
  BY DEF Auditing
<1>2. PICK r \in RunStates :
        /\ Outcome(r, Judgement, CurrentVerdict)
        /\ cmd.todo \in AuditThen(run.active, Change(run.active), CloseThen(run.active, cmd.op, Judgement, r))
  BY DEF Auditing
<1> DEFINE T == CloseThen(run.active, cmd.op, Judgement, r)
<1>3. /\ Agreement' /\ Promised
      /\ UNCHANGED <<run, workers, verdicts, changed, calls>> /\ cmd'.op = cmd.op
      /\ \/ cmd'.todo \in AuditThen(run.active, Change(run.active), T)
         \/ cmd'.todo \in T /\ Audited'
  <2>1. T \in SUBSET Seq(Writes)
    BY WriteSets
  <2> HIDE DEF T
  <2>2. cmd.todo \in AuditThen(run.active, Change(run.active), T)
    BY <1>2 DEF T
  <2> QED BY <1>1, <2>1, <2>2, AuditStep
<1>4. Outcome(r, Judgement, CurrentVerdict)' /\ Running(run.active)'
      /\ Change(run.active)' = Change(run.active) /\ Judgement' = Judgement
  BY <1>1, <1>2, <1>3, AuditKeeps
<1>5. CASE cmd'.todo \in AuditThen(run.active, Change(run.active), T)
  <2>1. Auditing(cmd.todo, cmd.op)'
    BY <1>3, <1>4, <1>5 DEF Auditing
  <2> QED BY <1>3, <2>1
<1>6. CASE cmd'.todo \in T /\ Audited'
  <2>1. Closing(cmd.todo, cmd.op)'
    BY <1>3, <1>4, <1>6 DEF Closing
  <2> QED BY <1>3, <2>1
<1> QED BY <1>3, <1>5, <1>6

\* The same of a reviewer, whose verdict comes in between.
LEMMA VoteAuditingStep ==
  ASSUME Typed, Agreement, Step, VoteAuditing(cmd.todo, cmd.op)
  PROVE  Agreement' /\ Promised /\ run'.token = run.token
         /\ (VoteAuditing(cmd.todo, cmd.op)' \/ Voting(cmd.todo, cmd.op)')
<1>1. Running(run.active) /\ Kind(run.stage) = "review" /\ ~Judgement
  BY DEF VoteAuditing
<1> DEFINE n == run.iterations[run.stage]
<1>2. PICK r \in RunStates, verdict \in Verdicts :
        /\ Outcome(r, FALSE, verdict)
        /\ cmd.todo \in AuditThen(run.active, Change(run.active), VoteThen(n, verdict, run.active, cmd.op, r))
  BY DEF VoteAuditing
<1> DEFINE T == VoteThen(n, verdict, run.active, cmd.op, r)
<1>3. /\ Agreement' /\ Promised
      /\ UNCHANGED <<run, workers, verdicts, changed, calls>> /\ cmd'.op = cmd.op
      /\ \/ cmd'.todo \in AuditThen(run.active, Change(run.active), T)
         \/ cmd'.todo \in T /\ Audited'
  <2>1. T \in SUBSET Seq(Writes)
    BY WriteSets
  <2> HIDE DEF T
  <2>2. cmd.todo \in AuditThen(run.active, Change(run.active), T)
    BY <1>2 DEF T
  <2> QED BY <1>1, <2>1, <2>2, AuditStep
<1>4. Outcome(r, FALSE, verdict)' /\ Running(run.active)' /\ Kind(run.stage)' = "review"
      /\ Change(run.active)' = Change(run.active) /\ ~Judgement'
  <2>1. Outcome(r, FALSE, verdict)'
    <3>1. Outcome(r, FALSE, verdict)' = Outcome(r, FALSE, verdict)
      BY <1>3, AuditKeeps, Zenon
    <3> QED BY <1>2, <3>1
  <2>2. /\ Running(run.active)' = Running(run.active) /\ Judgement' = Judgement
        /\ Kind(run.stage)' = Kind(run.stage) /\ Change(run.active)' = Change(run.active)
    BY <1>3, AuditKeeps
  <2> QED BY <1>1, <2>1, <2>2, Zenon
<1>5. CASE cmd'.todo \in AuditThen(run.active, Change(run.active), T)
  <2>1. VoteAuditing(cmd.todo, cmd.op)'
    BY <1>3, <1>4, <1>5 DEF VoteAuditing
  <2> QED BY <1>3, <2>1
<1>6. CASE cmd'.todo \in T /\ Audited'
  <2>1. Voting(cmd.todo, cmd.op)'
    BY <1>3, <1>4, <1>6 DEF Voting
  <2> QED BY <1>3, <2>1
<1> QED BY <1>3, <1>5, <1>6

-----------------------------------------------------------------------------
(* The steps of a resume *)

\* Giving up a worker closes none and leaves the ones that are closed as they are.
LEMMA CancelStep ==
  ASSUME Typed, Agreement, Step, NEW ids \in SUBSET DOMAIN workers, Undone(ids), Todo \in Cancels(ids)
  PROVE  /\ Agreement' /\ Promised /\ run' = run
         /\ Undone(ids)' /\ ids \in SUBSET DOMAIN workers' /\ Unreported' = Unreported /\ changed' = changed
         /\ ~Running(run.active) => ~Running(run.active)'
         /\ Todo.key = run.active => ~Running(run.active)'
         /\ \A r : /\ Reopens(r) => Reopens(r)'
                   /\ MayBlock(r) => MayBlock(r)'
                   /\ MayStay(r) => MayStay(r)'
<1>1. /\ Todo \in Writes /\ Todo.do = "worker" /\ Todo.key \in ids /\ Todo.key \in DOMAIN workers
      /\ ~Done(Todo.key) /\ Todo.to.status = "canceled"
  BY DEF Cancels, Undone
<1>2. Todo.to \in WorkerFiles
  BY <1>1 DEF Writes, Quiets, ArtifactWrites, Sort
<1>3. WritesWorker(Todo.key, Todo.to)
  BY <1>1, StepWrites
<1> DEFINE id == Todo.key
           file == Todo.to
<1>4. Agreement' /\ Promised
  BY <1>1, <1>2, <1>3, CanceledAgrees
<1> HIDE DEF id, file
<1>5. /\ workers' = Put(workers, id, file) /\ id \in DOMAIN workers /\ file.status = "canceled"
      /\ UNCHANGED <<run, reports, verdicts, changed, baseline, spent>>
  BY <1>1, <1>3 DEF WritesWorker, id, file
<1>6. /\ DOMAIN workers' = DOMAIN workers /\ workers'[id].status = "canceled"
      /\ \A i \in DOMAIN workers : i # id => workers'[i] = workers[i]
  BY <1>5 DEF Put
<1>7. /\ \A i : Done(i)' => Done(i) /\ workers'[i] = workers[i]
      /\ \A i : ~Running(i) => ~Running(i)'
      /\ \A i : i = id => ~Running(i)'
  BY <1>6 DEF Done, Running, Has
<1>8. Undone(ids)' /\ ids \in SUBSET DOMAIN workers' /\ Unreported' = Unreported
  BY <1>5, <1>6, <1>7 DEF Undone, Unreported
<1>9. ASSUME NEW r
      PROVE  /\ Reopens(r) => Reopens(r)'
             /\ MayBlock(r) => MayBlock(r)'
             /\ MayStay(r) => MayStay(r)'
  BY <1>5, <1>7 DEF Reopens, MayBlock, Blocks, Says, MayStay, Kept
<1>10. /\ ~Running(run.active) => ~Running(run.active)'
       /\ Todo.key = run.active => ~Running(run.active)'
  BY <1>5, <1>7 DEF id
<1> QED BY <1>4, <1>5, <1>8, <1>9, <1>10

\* The new token is the last write of a resume.
LEMMA RotatingStep ==
  ASSUME Typed, Agreement, Step, Rotating(cmd.todo), spent.resumes > 0, cmd.kind = "resume", cmd.reply = "ok"
  PROVE  Agreement' /\ Promised
         /\ ((run'.token = run.token /\ Rotating(cmd.todo)') \/ (Rotated' /\ cmd'.todo \in Rest))
<1>1. ~Running(run.active) /\ Unreported = {}
  BY DEF Rotating
<1>2. PICK r \in RunStates, ids \in SUBSET DOMAIN workers :
        Reopens(r) /\ Undone(ids) /\ cmd.todo \in RotateThen(ids, r)
  BY DEF Rotating
<1> DEFINE P == Quiets \cup Cancels(ids)
<1>3. \/ Todo \in P /\ cmd'.todo \in RotateThen(ids, r)
      \/ Todo \in Saves(r) /\ cmd'.todo = <<>>
  <2> DEFINE T == {<<>>}
  <2>1. P \in SUBSET Writes /\ T \in SUBSET Seq(Writes)
    BY WriteSets, EmptySeq
  <2>2. cmd.todo \in Ahead(P, Saves(r), T)
    BY <1>2 DEF RotateThen
  <2> HIDE DEF P, T
  <2>3. /\ Todo = Head(cmd.todo) /\ cmd'.todo = Tail(cmd.todo)
        /\ Saves(r) \in SUBSET Writes
    BY StepPops, WriteSets
  <2>4. \/ Todo \in P /\ cmd'.todo \in Ahead(P, Saves(r), T)
        \/ Todo \in Saves(r) /\ cmd'.todo \in T
    BY <2>1, <2>2, <2>3, AheadNext
  <2> QED BY <2>4 DEF RotateThen, P, T
<1>4. CASE Todo \in Quiets /\ cmd'.todo \in RotateThen(ids, r)
  <2>1. Still
    BY <1>4, StepWrites
  <2>2. Rotating(cmd'.todo)
    BY <1>1, <1>2, <1>4 DEF Rotating
  <2>3. Rotating(cmd.todo)'
    BY <2>1, <2>2, PhasesStay DEF Still, FilesStay, Rotating
  <2> QED BY <2>1, <2>3, StillAgrees DEF Still
<1>5. CASE Todo \in Cancels(ids) /\ cmd'.todo \in RotateThen(ids, r)
  <2>1. /\ Agreement' /\ Promised /\ run' = run
        /\ Undone(ids)' /\ ids \in SUBSET DOMAIN workers' /\ Unreported' = {} /\ ~Running(run.active)' /\ Reopens(r)'
    BY <1>1, <1>2, <1>5, CancelStep
  <2>2. Rotating(cmd.todo)'
    BY <1>5, <2>1 DEF Rotating
  <2> QED BY <2>1, <2>2
<1>6. CASE Todo \in Saves(r) /\ cmd'.todo = <<>>
  <2>1. SavesRun(r) /\ MayReopen(r)
    BY <1>1, <1>2, <1>6, StepWrites DEF MayReopen
  <2>2. Agreement' /\ Promised
    BY <2>1, ReopenAgrees
  <2>3. Rotated' /\ cmd'.todo \in Rest
    BY <1>6, StepPops, EmptySeq DEF Rotated, Rest
  <2> QED BY <2>2, <2>3
<1> QED BY <1>3, <1>4, <1>5, <1>6

\* Before that it gives up the open worker.
LEMMA GivingUpStep ==
  ASSUME Typed, Agreement, Step, GivingUp(cmd.todo)
  PROVE  Agreement' /\ Promised /\ run'.token = run.token /\ (GivingUp(cmd.todo)' \/ Rotating(cmd.todo)')
<1>1. Unreported = {}
  BY DEF GivingUp
<1>2. PICK r \in RunStates, ids \in SUBSET DOMAIN workers :
        Reopens(r) /\ Undone(ids) /\ cmd.todo \in GiveUpThen(run.active, ids, r)
  BY DEF GivingUp
<1> DEFINE P == Quiets \cup Cancels(ids)
           A == Cancels(ids \cap {run.active})
<1>3. \/ Todo \in P /\ cmd'.todo \in GiveUpThen(run.active, ids, r)
      \/ Todo \in A /\ cmd'.todo \in RotateThen(ids, r)
  <2>1. P \in SUBSET Writes /\ A \in SUBSET Writes
    BY WriteSets
  <2>2. cmd.todo \in Ahead(P, A, RotateThen(ids, r))
    BY <1>2 DEF GiveUpThen
  <2> HIDE DEF P, A
  <2>3. \/ Todo \in P /\ cmd'.todo \in Ahead(P, A, RotateThen(ids, r))
        \/ Todo \in A /\ cmd'.todo \in RotateThen(ids, r)
    BY <2>1, <2>2, StepPops, AheadNext, WriteSets
  <2> QED BY <2>3 DEF GiveUpThen, P, A
<1>4. CASE Todo \in Quiets /\ cmd'.todo \in GiveUpThen(run.active, ids, r)
  <2>1. Still
    BY <1>4, StepWrites
  <2>2. GivingUp(cmd'.todo)
    BY <1>1, <1>2, <1>4 DEF GivingUp
  <2>3. GivingUp(cmd.todo)'
    BY <2>1, <2>2, PhasesStay DEF Still, FilesStay, GivingUp
  <2> QED BY <2>1, <2>3, StillAgrees DEF Still
<1>5. CASE Todo \in Cancels(ids) /\ cmd'.todo \in GiveUpThen(run.active, ids, r)
  <2>1. /\ Agreement' /\ Promised /\ run' = run
        /\ Undone(ids)' /\ ids \in SUBSET DOMAIN workers' /\ Unreported' = {} /\ Reopens(r)'
    BY <1>1, <1>2, <1>5, CancelStep
  <2>2. GivingUp(cmd.todo)'
    BY <1>5, <2>1 DEF GivingUp
  <2> QED BY <2>1, <2>2
<1>6. CASE Todo \in A /\ cmd'.todo \in RotateThen(ids, r)
  <2>1. Todo \in Cancels(ids) /\ Todo.key = run.active
    BY <1>6 DEF Cancels
  <2>2. /\ Agreement' /\ Promised /\ run' = run
        /\ Undone(ids)' /\ ids \in SUBSET DOMAIN workers' /\ Unreported' = {} /\ ~Running(run.active)' /\ Reopens(r)'
    BY <1>1, <1>2, <2>1, CancelStep
  <2>3. Rotating(cmd.todo)'
    BY <1>6, <2>2 DEF Rotating
  <2> QED BY <2>2, <2>3
<1> QED BY <1>3, <1>4, <1>5, <1>6

\* resolveDrift with --accept-changes: the new snapshot comes first.
LEMMA RebasingStep ==
  ASSUME Typed, Agreement, Step, Rebasing(cmd.todo)
  PROVE  Agreement' /\ Promised /\ run'.token = run.token
         /\ (Rebasing(cmd.todo)' \/ Rotating(cmd.todo)' \/ GivingUp(cmd.todo)')
<1>1. PICK r \in RunStates, ids \in SUBSET DOMAIN workers :
        /\ Reopens(r) /\ Undone(ids)
        /\ \/ ~Running(run.active) /\ cmd.todo \in Soon(Sets("baseline", 0, DOMAIN changed), RotateThen(ids, r))
           \/ cmd.todo \in Soon(Sets("baseline", 0, DOMAIN changed), GiveUpThen(run.active, ids, r))
  BY DEF Rebasing
<1> DEFINE A == Sets("baseline", 0, DOMAIN changed)
<1>2. \/ Todo \in Quiets /\ ~Running(run.active) /\ cmd'.todo \in Soon(A, RotateThen(ids, r))
      \/ Todo \in Quiets /\ cmd'.todo \in Soon(A, GiveUpThen(run.active, ids, r))
      \/ Todo \in A /\ ~Running(run.active) /\ cmd'.todo \in RotateThen(ids, r)
      \/ Todo \in A /\ cmd'.todo \in GiveUpThen(run.active, ids, r)
  <2>1. A \in SUBSET Writes
    BY WriteSets
  <2> HIDE DEF A
  <2> QED BY <1>1, <2>1, SoonStep, WriteSets DEF A
<1>3. CASE Todo \in Quiets
  <2>1. Still
    BY <1>3, StepWrites
  <2>2. Todo \notin A
    BY <1>3 DEF Sets, Quiets, Sort
  <2>3. Rebasing(cmd'.todo)
    BY <1>1, <1>2, <2>2 DEF Rebasing
  <2>4. Rebasing(cmd.todo)'
    BY <2>1, <2>3, PhasesStay DEF Still, FilesStay, Rebasing
  <2> QED BY <2>1, <2>4, StillAgrees DEF Still
<1>4. CASE Todo \in A
  <2>1. /\ baseline' = DOMAIN changed
        /\ UNCHANGED <<run, workers, reports, verdicts, artifacts, gate, changed, surfaced, calls, replies, token, spent>>
    BY <1>4, StepWrites DEF Sets
  <2>2. Agreement' /\ Promised /\ Unreported' = {}
    BY <2>1, BaselineAgrees
  <2>3. Reopens(r)' /\ Undone(ids)' /\ Running(run.active)' = Running(run.active) /\ ids \in SUBSET DOMAIN workers'
    BY <1>1, <2>1 DEF Reopens, Undone, Running, Done, Has
  <2>4. Todo \notin Quiets
    BY <1>4 DEF Sets, Quiets, Sort
  <2>5. CASE ~Running(run.active) /\ cmd'.todo \in RotateThen(ids, r)
    <3>1. Rotating(cmd.todo)'
      BY <2>2, <2>3, <2>5 DEF Rotating
    <3> QED BY <2>1, <2>2, <3>1
  <2>6. CASE cmd'.todo \in GiveUpThen(run.active, ids, r)
    <3>1. GivingUp(cmd.todo)'
      BY <2>1, <2>2, <2>3, <2>6 DEF GivingUp
    <3> QED BY <2>1, <2>2, <3>1
  <2> QED BY <1>2, <2>4, <2>5, <2>6
<1> QED BY <1>2, <1>3, <1>4

\* A resume that stops the run again: on drift, or on the violation of a legacy close.
LEMMA RelapsingStep ==
  ASSUME Typed, Agreement, Step, Relapsing(cmd.todo)
  PROVE  Agreement' /\ Promised /\ run'.token = run.token /\ (Relapsing(cmd.todo)' \/ cmd'.todo \in Rest)
<1>1. PICK r \in RunStates, ids \in SUBSET DOMAIN workers :
        /\ MayBlock(r) \/ MayStay(r)
        /\ Undone(ids)
        /\ cmd.todo \in Ahead(Quiets \cup Cancels(ids) \cup Saves(r), Saves(r), Rest)
  BY DEF Relapsing
<1> DEFINE P == Quiets \cup Cancels(ids) \cup Saves(r)
           T == Ahead(P, Saves(r), Rest)
<1>2. \/ Todo \in P /\ cmd'.todo \in T
      \/ Todo \in Saves(r) /\ cmd'.todo \in Rest
  <2>1. P \in SUBSET Writes
    BY WriteSets
  <2>2. cmd.todo \in Ahead(P, Saves(r), Rest)
    BY <1>1
  <2> HIDE DEF P
  <2> QED BY <2>1, <2>2, StepPops, AheadNext, WriteSets
<1>3. CASE Todo \in Quiets /\ cmd'.todo \in T
  <2>1. Still
    BY <1>3, StepWrites
  <2>2. Relapsing(cmd'.todo)
    BY <1>1, <1>3 DEF Relapsing
  <2>3. Relapsing(cmd.todo)'
    BY <2>1, <2>2, PhasesStay DEF Still, FilesStay, Relapsing
  <2> QED BY <2>1, <2>3, StillAgrees DEF Still
<1>4. CASE Todo \in Cancels(ids) /\ cmd'.todo \in T
  <2>1. /\ Agreement' /\ Promised /\ run' = run /\ Undone(ids)' /\ ids \in SUBSET DOMAIN workers'
        /\ MayBlock(r)' \/ MayStay(r)'
    BY <1>1, <1>4, CancelStep
  <2>2. Relapsing(cmd.todo)'
    BY <1>4, <2>1 DEF Relapsing
  <2> QED BY <2>1, <2>2
<1>5. ASSUME Todo \in Saves(r)
      PROVE  Agreement' /\ Promised /\ run'.token = run.token /\ MayStay(r)'
             /\ Undone(ids)' /\ ids \in SUBSET DOMAIN workers'
  <2>1. SavesRun(r)
    BY <1>5, StepWrites
  <2>2. Agreement' /\ Promised
    BY <1>1, <2>1, BlockAgrees, StayAgrees
  <2>3. run' = r /\ r.token = run.token /\ workers' = workers
    BY <1>1, <2>1 DEF SavesRun, MayBlock, Blocks, MayStay, Kept
  <2> QED BY <1>1, <2>2, <2>3 DEF MayStay, Kept, Undone, Done, Has
<1>6. CASE Todo \in Saves(r) /\ cmd'.todo \in T
  <2>1. Relapsing(cmd.todo)'
    BY <1>5, <1>6 DEF Relapsing
  <2> QED BY <1>5, <1>6, <2>1
<1>7. CASE Todo \in Saves(r) /\ cmd'.todo \in Rest
  BY <1>5, <1>7
<1> QED BY <1>2, <1>3, <1>4, <1>6, <1>7

-----------------------------------------------------------------------------
(* Every step of a command keeps the invariant *)

\* Neither a report nor a snapshot.
Others == {w \in Writes : w.do \notin {"report", "baseline"}}

\* The writes that the phases consist of, except for two, change no audit and no snapshot.
LEMMA OtherWrites ==
  /\ Quiets \in SUBSET Others
  /\ \A do, key, to : do \notin {"report", "baseline"} => Sets(do, key, to) \in SUBSET Others
  /\ \A r : Saves(r) \in SUBSET Others
  /\ \A ids : Cancels(ids) \in SUBSET Others
  /\ \A s : OwnWrites(s) \in SUBSET Others
<1>1. Quiets \in SUBSET Others /\ ArtifactWrites \in SUBSET Others
  <2>1. \A w \in Quiets \cup ArtifactWrites : w.do \notin {"report", "baseline"}
    BY DEF Quiets, ArtifactWrites, Sort
  <2> QED BY <2>1, WriteSets DEF Others, Writes
<1>2. \A do, key, to : do \notin {"report", "baseline"} => Sets(do, key, to) \in SUBSET Others
  BY DEF Sets, Others
<1> QED BY <1>1, <1>2 DEF Saves, Sets, Cancels, OwnWrites, Others

\* A step of such a phase makes one of them.
LEMMA OtherStep ==
  ASSUME Typed, Step, NEW P \in SUBSET Others, NEW A \in SUBSET Others, NEW T \in SUBSET Seq(Writes),
         cmd.todo \in Ahead(P, A, T)
  PROVE  Todo \in Others
<1>1. P \in SUBSET Writes /\ A \in SUBSET Writes
  BY DEF Others
<1> QED BY <1>1, StepPops, AheadNext

\* The report is the open worker's, and the snapshot is of what is there.
LEMMA StepFits ==
  ASSUME Typed, Step, Underway(cmd.kind, cmd.op, cmd.reply, cmd.todo)
  PROVE  /\ Todo.do = "report" => Todo.key \in DOMAIN workers
         /\ Todo.do = "baseline" => Todo.to \subseteq DOMAIN changed
<1> DEFINE Fits == \/ Todo \in Others
                   \/ Todo.do = "report" /\ Todo.key \in DOMAIN workers
                   \/ Todo.do = "baseline" /\ Todo.to \subseteq DOMAIN changed
<1> SUFFICES Fits
  BY DEF Others
<1>1. ASSUME NEW A \in SUBSET Others, NEW T \in SUBSET Seq(Writes), cmd.todo \in Soon(A, T)
      PROVE  Todo \in Others
  BY <1>1, OtherStep, OtherWrites DEF Soon
<1>2. ASSUME cmd.todo \in Rest
      PROVE  Todo \in Others
  <2>1. cmd.todo # <<>> /\ Todo = Head(cmd.todo)
    BY StepPops
  <2> QED BY <1>2, <2>1, HeadTailProperties, OtherWrites DEF Rest
<1>3. ASSUME NEW r \in RunStates, cmd.todo \in SaveThen(r)
      PROVE  Todo \in Others
  BY <1>1, <1>3, OtherWrites, WriteSets DEF SaveThen
<1>4. ASSUME NEW r \in RunStates, NEW q \in RunStates, cmd.todo \in LeaveThen(r, q)
      PROVE  Todo \in Others
  BY <1>1, <1>4, OtherWrites, WriteSets DEF LeaveThen
<1>5. ASSUME NEW g, NEW ends \in BOOLEAN, NEW r \in RunStates, NEW q \in RunStates, cmd.todo \in GateThen(g, ends, r, q)
      PROVE  Todo \in Others
  <2> DEFINE T == IF ends THEN LeaveThen(r, q) ELSE SaveThen(r)
  <2>1. T \in SUBSET Seq(Writes) /\ cmd.todo \in Soon(Sets("gate", 0, g), T)
    BY <1>5, WriteSets DEF GateThen
  <2>2. Sets("gate", 0, g) \in SUBSET Others
    BY OtherWrites
  <2> HIDE DEF T
  <2> QED BY <1>1, <2>1, <2>2
<1>6. ASSUME StageWork(cmd.todo)
      PROVE  Todo \in Others
  <2>1. CASE Moving(cmd.todo)
    BY <2>1, <1>3 DEF Moving
  <2>2. CASE Ending(cmd.todo)
    BY <2>2, <1>4 DEF Ending
  <2>3. CASE Opening(cmd.todo)
    <3>1. PICK r \in RunStates : cmd.todo \in OpenThen(r)
      BY <2>3 DEF Opening
    <3> QED BY <3>1, <1>1, OtherWrites, WriteSets DEF OpenThen
  <2>4. CASE Gating(cmd.todo)
    BY <2>4, <1>5 DEF Gating
  <2>5. CASE GateStarting(cmd.todo)
    <3>1. PICK a \in RunStates, g \in GateFiles, r \in RunStates, q \in RunStates, ends \in BOOLEAN :
            cmd.todo \in Soon(Saves(a), GateThen(g, ends, r, q))
      BY <2>5 DEF GateStarting
    <3> QED BY <3>1, <1>1, OtherWrites, WriteSets
  <2> QED BY <1>6, <2>1, <2>2, <2>3, <2>4, <2>5 DEF StageWork
<1>7. ASSUME NEW id, NEW op, NEW blocks, NEW r, cmd.todo \in CloseThen(id, op, blocks, r)
      PROVE  Todo \in Others
  <2>1. Sets("worker", id, WorkerStatus("done", op, blocks)) \in SUBSET Others
    BY OtherWrites
  <2> QED BY <2>1, <1>1, <1>7, WriteSets DEF CloseThen
<1>8. ASSUME Running(run.active), NEW T \in SUBSET Seq(Writes),
             cmd.todo \in AuditThen(run.active, Change(run.active), T)
      PROVE  Fits
  <2> DEFINE Q == Quiets \cup OwnWrites(StageOf(run.active))
             A == Sets("report", run.active, Change(run.active))
  <2>1. Q \in SUBSET Others /\ Q \in SUBSET Writes /\ A \in SUBSET Writes
    BY OtherWrites, WriteSets
  <2>2. cmd.todo \in Ahead(Q, A, T) /\ Todo = Head(cmd.todo)
    BY <1>8, StepPops DEF AuditThen
  <2>3. Todo \in Q \/ Todo \in A
    <3> HIDE DEF Q, A
    <3> QED BY <2>1, <2>2, AheadNext
  <2>4. run.active \in DOMAIN workers
    BY <1>8 DEF Running, Has
  <2> QED BY <2>1, <2>3, <2>4 DEF Sets
<1>9. ASSUME CloseWork(cmd.todo, cmd.op)
      PROVE  Fits
  <2>1. CASE Closing(cmd.todo, cmd.op)
    BY <2>1, <1>7 DEF Closing
  <2>2. CASE Voting(cmd.todo, cmd.op)
    <3>1. PICK r \in RunStates, verdict \in Verdicts : cmd.todo \in VoteThen(run.iterations[run.stage], verdict, run.active, cmd.op, r)
      BY <2>2 DEF Voting
    <3> QED BY <3>1, <1>1, OtherWrites, WriteSets DEF VoteThen
  <2>3. CASE Auditing(cmd.todo, cmd.op)
    BY <2>3, <1>8, WriteSets DEF Auditing
  <2>4. CASE VoteAuditing(cmd.todo, cmd.op)
    BY <2>4, <1>8, WriteSets DEF VoteAuditing
  <2> QED BY <1>9, <2>1, <2>2, <2>3, <2>4 DEF CloseWork
<1>10. ASSUME NEW ids, NEW r, cmd.todo \in RotateThen(ids, r)
       PROVE  Todo \in Others
  <2> DEFINE Q == Quiets \cup Cancels(ids)
             T == {<<>>}
  <2>1. Q \in SUBSET Others /\ T \in SUBSET Seq(Writes) /\ Saves(r) \in SUBSET Others
    BY OtherWrites, EmptySeq
  <2>2. cmd.todo \in Ahead(Q, Saves(r), T)
    BY <1>10 DEF RotateThen
  <2> HIDE DEF Q, T
  <2> QED BY <2>1, <2>2, OtherStep
<1>11. ASSUME NEW id, NEW ids, NEW r, cmd.todo \in GiveUpThen(id, ids, r)
       PROVE  Todo \in Others
  <2> DEFINE Q == Quiets \cup Cancels(ids)
             A == Cancels(ids \cap {id})
  <2>1. Q \in SUBSET Others /\ A \in SUBSET Others
    BY OtherWrites
  <2>2. cmd.todo \in Ahead(Q, A, RotateThen(ids, r))
    BY <1>11 DEF GiveUpThen
  <2> HIDE DEF Q, A
  <2> QED BY <2>1, <2>2, OtherStep, WriteSets
<1>12. ASSUME NEW T \in SUBSET Seq(Writes), cmd.todo \in Soon(Sets("baseline", 0, DOMAIN changed), T)
       PROVE  Fits
  <2> DEFINE A == Sets("baseline", 0, DOMAIN changed)
  <2>1. A \in SUBSET Writes
    BY WriteSets
  <2>2. Todo \in Quiets \/ Todo \in A
    <3> HIDE DEF A
    <3> QED BY <1>12, <2>1, SoonStep DEF A
  <2> QED BY <2>2, OtherWrites DEF Sets
<1>13. ASSUME Reopening(cmd.todo)
       PROVE  Fits
  <2>1. CASE Rotating(cmd.todo)
    BY <2>1, <1>10 DEF Rotating
  <2>2. CASE GivingUp(cmd.todo)
    BY <2>2, <1>11 DEF GivingUp
  <2>3. CASE Rebasing(cmd.todo)
    BY <2>3, <1>12, WriteSets DEF Rebasing
  <2> QED BY <1>13, <2>1, <2>2, <2>3 DEF Reopening
<1>14. ASSUME Relapsing(cmd.todo)
       PROVE  Todo \in Others
  <2>1. PICK r \in RunStates, ids \in SUBSET DOMAIN workers : cmd.todo \in Ahead(Quiets \cup Cancels(ids) \cup Saves(r), Saves(r), Rest)
    BY <1>14 DEF Relapsing
  <2> DEFINE Q == Quiets \cup Cancels(ids) \cup Saves(r)
  <2>2. Q \in SUBSET Others /\ Saves(r) \in SUBSET Others /\ Rest \in SUBSET Seq(Writes) /\ cmd.todo \in Ahead(Q, Saves(r), Rest)
    BY <2>1, OtherWrites, WriteSets
  <2> HIDE DEF Q
  <2> QED BY <2>2, OtherStep
<1>15. ASSUME Saving(cmd.todo)
       PROVE  Todo \in Others
  BY <1>3, <1>15 DEF Saving
<1> HIDE DEF Fits
<1> QED BY <1>2, <1>6, <1>9, <1>13, <1>14, <1>15 DEF Underway, Fits

-----------------------------------------------------------------------------
(* The steps of a command, together *)

\* A step of a start, of a stage close or of a close.
LEMMA WorkStep ==
  ASSUME Typed, Agreement, Step, cmd.op <= Len(calls),
         \/ cmd.todo \in Rest
         \/ Saving(cmd.todo)
         \/ CloseWork(cmd.todo, cmd.op)
         \/ ~Committed /\ StageWork(cmd.todo)
         \/ Relapsing(cmd.todo)
  PROVE  /\ Agreement' /\ Promised /\ run'.token = run.token
         /\ \/ cmd'.todo \in Rest
            \/ Saving(cmd.todo)'
            \/ CloseWork(cmd.todo, cmd.op)'
            \/ ~Committed' /\ StageWork(cmd.todo)'
            \/ Relapsing(cmd.todo)'
<1>1. CASE CloseWork(cmd.todo, cmd.op)
  <2>1. CASE Closing(cmd.todo, cmd.op)
    BY <2>1, ClosingStep DEF CloseWork
  <2>2. CASE Voting(cmd.todo, cmd.op)
    BY <2>2, VotingStep DEF CloseWork
  <2>3. CASE Auditing(cmd.todo, cmd.op)
    BY <2>3, AuditingStep DEF CloseWork
  <2>4. CASE VoteAuditing(cmd.todo, cmd.op)
    BY <2>4, VoteAuditingStep DEF CloseWork
  <2> QED BY <1>1, <2>1, <2>2, <2>3, <2>4 DEF CloseWork
<1>2. CASE ~Committed /\ StageWork(cmd.todo)
  <2>1. CASE Moving(cmd.todo)
    BY <1>2, <2>1, MovingStep DEF StageWork
  <2>2. CASE Ending(cmd.todo)
    BY <1>2, <2>2, EndingStep DEF StageWork
  <2>3. CASE Opening(cmd.todo)
    BY <1>2, <2>3, OpeningStep DEF StageWork
  <2>4. CASE Gating(cmd.todo)
    BY <1>2, <2>4, GatingStep DEF StageWork
  <2>5. CASE GateStarting(cmd.todo)
    BY <1>2, <2>5, GateStartingStep DEF StageWork
  <2> QED BY <1>2, <2>1, <2>2, <2>3, <2>4, <2>5 DEF StageWork
<1>3. CASE cmd.todo \in Rest
  BY <1>3, RestStep
<1>4. CASE Saving(cmd.todo)
  BY <1>4, SavingStep
<1>5. CASE Relapsing(cmd.todo)
  BY <1>5, RelapsingStep
<1> QED BY <1>1, <1>2, <1>3, <1>4, <1>5

\* A step of a resume.
LEMMA ReopeningStep ==
  ASSUME Typed, Agreement, Step, Reopening(cmd.todo), spent.resumes > 0, cmd.kind = "resume", cmd.reply = "ok"
  PROVE  /\ Agreement' /\ Promised
         /\ \/ run'.token = run.token /\ Reopening(cmd.todo)'
            \/ Rotated' /\ cmd'.todo \in Rest
<1>1. CASE Rotating(cmd.todo)
  BY <1>1, RotatingStep DEF Reopening
<1>2. CASE GivingUp(cmd.todo)
  BY <1>2, GivingUpStep DEF Reopening
<1>3. CASE Rebasing(cmd.todo)
  BY <1>3, RebasingStep DEF Reopening
<1> QED BY <1>1, <1>2, <1>3 DEF Reopening

\* Once the storage is down only the events of an earlier attempt are passed over.
LEMMA DownStep ==
  ASSUME Typed, Step, cmd.down
  PROVE  Todo \in Quiets
<1>1. Todo \in Writes /\ Todo.do = "event"
  BY StepPops DEF Step, Skipped
<1> QED BY <1>1 DEF Writes, ArtifactWrites, Sort

\* Every step of a command keeps the invariant, and is one the promise allows.
LEMMA StepKeeps ==
  ASSUME HostInv, Step
  PROVE  HostInv' /\ Promised
<1>1. /\ Typed /\ Agreement /\ TokenIsShared /\ AnswersFollowCalls
      /\ cmd.op # Anonymous => cmd.op = Len(calls) /\ Pending
      /\ ~cmd.down => Underway(cmd.kind, cmd.op, cmd.reply, cmd.todo)
  BY DEF HostInv, Step, InProgress
<1>2. /\ UNCHANGED <<changed, calls, replies, token, spent>>
      /\ cmd.todo # <<>> /\ cmd'.op = cmd.op /\ cmd'.kind = cmd.kind /\ cmd'.reply = cmd.reply /\ cmd'.down = cmd.down
      /\ Busy'
  BY <1>1, StepPops DEF Step, host
<1>3. cmd.op <= Len(calls)
  <2>1. Len(calls) \in Nat
    BY <1>1 DEF Typed
  <2> QED BY <1>1, <2>1 DEF Anonymous
<1>4. cmd.op # Anonymous => (cmd.op = Len(calls) /\ Pending)'
  BY <1>1, <1>2 DEF Pending
<1>5. AnswersFollowCalls'
  BY <1>1, <1>2 DEF AnswersFollowCalls
<1>6. spent.crashes = 0 => token = run.token
  BY <1>1, <1>2 DEF TokenIsShared, Rotated
<1>7. CASE cmd.down
  <2>1. Todo \in Quiets
    BY <1>1, <1>7, DownStep
  <2>2. Still
    BY <1>1, <2>1, StepWrites
  <2>3. Agreement' /\ Promised
    BY <1>1, <2>2, StillAgrees
  <2>4. Typed'
    <3>1. Todo.do # "report" /\ Todo.do # "baseline"
      BY <2>1 DEF Quiets, Sort
    <3> QED BY <1>1, <3>1, StepTyped
  <2>5. TokenIsShared'
    BY <1>6, <2>2 DEF TokenIsShared, Still
  <2>6. InProgress'
    BY <1>2, <1>4, <1>7 DEF InProgress
  <2> QED BY <1>5, <2>3, <2>4, <2>5, <2>6 DEF HostInv
<1>8. CASE ~cmd.down
  <2>1. Underway(cmd.kind, cmd.op, cmd.reply, cmd.todo)
    BY <1>1, <1>8
  <2>2. Typed'
    BY <1>1, <2>1, StepFits, StepTyped
  <2>3. /\ Agreement' /\ Promised
        /\ run'.token = run.token \/ Rotated'
        /\ Underway(cmd.kind, cmd.op, cmd.reply, cmd.todo)'
    <3>1. CASE Reopening(cmd.todo) /\ cmd.kind = "resume" /\ cmd.reply = "ok" /\ spent.resumes > 0
      BY <1>1, <1>2, <3>1, ReopeningStep DEF Underway
    <3>2. CASE \/ cmd.todo \in Rest
               \/ Saving(cmd.todo)
               \/ CloseWork(cmd.todo, cmd.op)
               \/ ~Committed /\ StageWork(cmd.todo)
               \/ Relapsing(cmd.todo)
      BY <1>1, <1>2, <1>3, <3>2, WorkStep DEF Underway
    <3> QED BY <2>1, <3>1, <3>2 DEF Underway
  <2>4. TokenIsShared'
    BY <1>2, <1>6, <2>3 DEF TokenIsShared
  <2>5. InProgress'
    BY <1>2, <1>4, <2>3 DEF InProgress
  <2> QED BY <1>5, <2>2, <2>3, <2>4, <2>5 DEF HostInv
<1> QED BY <1>7, <1>8

-----------------------------------------------------------------------------
(* The other steps *)

\* What the files say of each other is no matter of the log, the records or the replies.
LEMMA QuietAgrees ==
  ASSUME Agreement, UNCHANGED <<run, workers, reports, verdicts, artifacts, gate, baseline, changed, surfaced, calls>>,
         spent.resumes > 0 => spent'.resumes > 0, spent.resumes \in Nat, spent'.resumes \in Nat, Pending' => Pending
  PROVE  Agreement' /\ Promised
<1>1. /\ ActiveIsTheLatest' /\ OnlyTheCurrentStageIsActive' /\ CompletedAtTheEnd'
      /\ WorkersAreCounted' /\ GatesAreNotAhead' /\ VerdictsAreNotAhead'
  BY DEF Agreement, ActiveIsTheLatest, OnlyTheCurrentStageIsActive, CompletedAtTheEnd, Entry, Kind,
         WorkersAreCounted, GatesAreNotAhead, VerdictsAreNotAhead, Done, Has
<1>2. ClosesAreAudited' /\ CallsNameTheirWorker'
  BY DEF Agreement, ClosesAreAudited, CallsNameTheirWorker, Done, Has, Change, Kind
<1>3. CommittedIsCurrent'
  BY DEF Agreement, CommittedIsCurrent, Committed, Entry, Done, Has
<1>4. NoChangeIsSwallowed' /\ ViolationStopsOrIsReconciled'
  BY DEF Agreement, NoChangeIsSwallowed, ViolationStopsOrIsReconciled, Unreported, Done, Has, Stopped
<1>5. FixesAreBounded' /\ LeftWithItsArtifact' /\ OwnersAreLeftOnce'
  BY DEF Agreement, FixesAreBounded, LeftWithItsArtifact, OwnersAreLeftOnce, Verdict
<1>6. Promised
  BY DEF Promised, Promise!vars, WorkerOutcome, Decided, Ready, GatesPassed, Done, Has, Kind, Verdict
<1> QED BY <1>1, <1>2, <1>3, <1>4, <1>5, <1>6 DEF Agreement

\* The answer is told to the host that waits for it.
LEMMA FinishKeeps ==
  ASSUME Typed, AnswersFollowCalls, Busy, InProgress, NEW reply \in {"ok", "blocked", "error"},
         Finish(reply), UNCHANGED calls
  PROVE  /\ ~Busy' /\ (Pending' => Pending) /\ AnswersFollowCalls'
         /\ replies' \in [Ops -> {None, "ok", "blocked", "error", "dropped"}]
<1>1. cmd' = Idle /\ calls' = calls /\ cmd.op \in 0 .. MaxOps /\ Len(calls) \in Nat
  BY TodoFacts DEF Finish, InFlight, Typed
<1>2. CASE cmd.op = Anonymous
  BY <1>1, <1>2 DEF Finish, Busy, Pending, AnswersFollowCalls, Typed
<1>3. CASE cmd.op # Anonymous
  <2>1. cmd.op = Len(calls) /\ Pending /\ cmd.op \in Ops
    BY <1>1, <1>3 DEF InProgress, Ops, Anonymous
  <2>2. replies' = [replies EXCEPT ![cmd.op] = reply] /\ replies \in [Ops -> {None, "ok", "blocked", "error", "dropped"}]
    BY <1>3 DEF Finish, Typed
  <2> QED BY <1>1, <2>1, <2>2 DEF Busy, AnswersFollowCalls
<1> QED BY <1>2, <1>3

-----------------------------------------------------------------------------
(* A command ends, fails or is killed; the host is told; the agent works *)

\* The files are left alone, and the host gets no call.
LEMMA QuietTyped ==
  ASSUME Typed, UNCHANGED <<run, workers, reports, verdicts, artifacts, gate, records, baseline, changed, calls, surfaced>>,
         log' \in Seq([op : 0 .. MaxOps, event : Events, seq : Nat]), cmd' \in InFlight \cup {Idle},
         replies' \in [Ops -> {None, "ok", "blocked", "error", "dropped"}], token' \in Nat,
         spent' \in [crashes : Nat, failures : Nat, resumes : Nat]
  PROVE  Typed'
BY DEF Typed

\* The answer of a command keeps the invariant: a resume hands out the token it wrote.
LEMMA ReportKeeps ==
  ASSUME HostInv, Report
  PROVE  HostInv' /\ Promised
<1>1. Typed /\ Agreement /\ TokenIsShared /\ AnswersFollowCalls /\ InProgress /\ Busy
  BY DEF HostInv, Report
<1>2. UNCHANGED <<run, workers, reports, verdicts, artifacts, gate, log, records, baseline, changed, calls, surfaced, spent>>
  BY DEF Report, disk
<1>3. cmd' = Idle
  BY DEF Report, Finish
<1>4. /\ ~Busy' /\ (Pending' => Pending) /\ AnswersFollowCalls'
      /\ replies' \in [Ops -> {None, "ok", "blocked", "error", "dropped"}]
  <2> DEFINE answer == IF cmd.err THEN "error" ELSE cmd.reply
  <2>1. answer \in {"ok", "blocked", "error"}
    BY <1>1, TodoFacts DEF InFlight
  <2>2. Finish(answer)
    BY DEF Report
  <2> HIDE DEF answer
  <2> QED BY <1>1, <1>2, <2>1, <2>2, FinishKeeps
<1>5. token' = run.token \/ (token' = token /\ ~Rotated)
  BY DEF Report, Rotated
<1>6. token' \in Nat
  BY <1>1, <1>5 DEF Report, Typed, RunStates
<1>7. Typed'
  BY <1>1, <1>2, <1>3, <1>4, <1>6, QuietTyped DEF Typed
<1>8. Agreement' /\ Promised
  BY <1>1, <1>2, <1>4, QuietAgrees DEF Typed
<1>9. TokenIsShared'
  BY <1>1, <1>2, <1>5 DEF TokenIsShared
<1> QED BY <1>4, <1>7, <1>8, <1>9 DEF HostInv

\* So does a command that stops at a failed write.
LEMMA AbortKeeps ==
  ASSUME HostInv, Abort
  PROVE  HostInv' /\ Promised
<1>1. Typed /\ Agreement /\ TokenIsShared /\ AnswersFollowCalls /\ InProgress /\ Busy
  BY DEF HostInv, Abort
<1>2. /\ UNCHANGED <<run, workers, reports, verdicts, artifacts, gate, log, records, baseline, changed, calls, surfaced, spent>>
      /\ token' = token /\ cmd' = Idle /\ cmd.todo # <<>>
  BY DEF Abort, disk, Finish
<1>3. /\ ~Busy' /\ (Pending' => Pending) /\ AnswersFollowCalls'
      /\ replies' \in [Ops -> {None, "ok", "blocked", "error", "dropped"}]
  BY <1>1, <1>2, FinishKeeps DEF Abort
<1>4. Typed'
  BY <1>1, <1>2, <1>3, QuietTyped DEF Typed
<1>5. Agreement' /\ Promised
  BY <1>1, <1>2, <1>3, QuietAgrees DEF Typed
<1>6. TokenIsShared'
  BY <1>1, <1>2 DEF TokenIsShared, Rotated
<1> QED BY <1>3, <1>4, <1>5, <1>6 DEF HostInv

\* A killed command leaves files that agree, whatever it still had to write.
LEMMA CrashKeeps ==
  ASSUME HostInv, Crash
  PROVE  HostInv' /\ Promised
<1>1. Typed /\ Agreement /\ AnswersFollowCalls
  BY DEF HostInv
<1>2. /\ UNCHANGED <<run, workers, reports, verdicts, artifacts, gate, log, records, baseline, changed, calls, surfaced>>
      /\ token' = token /\ replies' = replies /\ cmd' = Idle /\ spent' = [spent EXCEPT !.crashes = @ + 1]
  BY DEF Crash, disk, host
<1>3. spent' \in [crashes : Nat, failures : Nat, resumes : Nat] /\ spent'.resumes = spent.resumes /\ spent'.crashes # 0
  BY <1>1, <1>2, SMTT(30) DEF Typed
<1>4. Typed'
  BY <1>1, <1>2, <1>3, QuietTyped DEF Typed
<1>5. Agreement' /\ Promised
  BY <1>1, <1>2, <1>3, QuietAgrees DEF Typed, Pending
<1>6. TokenIsShared' /\ AnswersFollowCalls' /\ ~Busy'
  BY <1>1, <1>2, <1>3 DEF TokenIsShared, AnswersFollowCalls, Busy
<1> QED BY <1>4, <1>5, <1>6 DEF HostInv

\* A write fails: the storage is down for the rest of the command.
LEMMA FailedWriteKeeps ==
  ASSUME HostInv, ~Transient, FailedWrite
  PROVE  HostInv' /\ Promised
<1>1. Typed /\ Agreement /\ TokenIsShared /\ AnswersFollowCalls /\ InProgress /\ Busy
  BY DEF HostInv, FailedWrite
<1>2. /\ UNCHANGED <<run, workers, reports, verdicts, artifacts, gate, records, baseline, changed, calls, surfaced>>
      /\ token' = token /\ cmd.todo # <<>>
  BY DEF FailedWrite
<1>3. spent' \in [crashes : Nat, failures : Nat, resumes : Nat] /\ spent'.resumes = spent.resumes /\ spent'.crashes = spent.crashes
  BY <1>1 DEF FailedWrite, Typed
<1>4. log' \in Seq([op : 0 .. MaxOps, event : Events, seq : Nat])
  BY <1>1, <1>2, AppendedTyped DEF FailedWrite, Typed
<1>5. /\ cmd' \in InFlight \cup {Idle} /\ (Busy' => InProgress') /\ (Pending' => Pending) /\ AnswersFollowCalls'
      /\ replies' \in [Ops -> {None, "ok", "blocked", "error", "dropped"}]
  <2>1. CASE Todo.mode = "hard"
    <3>1. Finish("error") /\ cmd' = Idle
      BY <2>1 DEF FailedWrite, Finish
    <3> QED BY <1>1, <1>2, <3>1, FinishKeeps
  <2>2. CASE Todo.mode # "hard"
    <3>1. replies' = replies /\ cmd' = [Popped(Todo) EXCEPT !.err = @ \/ Todo.mode = "strict", !.down = TRUE]
      BY <2>2 DEF FailedWrite
    <3> DEFINE popped == Popped(Todo)
    <3>2. popped \in InFlight /\ popped.op = cmd.op
      BY <1>1, <1>2, TodoFacts
    <3> HIDE DEF popped
    <3>3. cmd' \in InFlight /\ cmd'.op = cmd.op /\ cmd'.down
      BY <3>1, <3>2 DEF InFlight, popped
    <3>4. InProgress'
      BY <1>1, <1>2, <3>1, <3>3 DEF InProgress, Pending
    <3> QED BY <1>1, <1>2, <3>1, <3>3, <3>4 DEF Pending, AnswersFollowCalls, Typed
  <2> QED BY <2>1, <2>2
<1>6. Typed'
  BY <1>1, <1>2, <1>3, <1>4, <1>5, QuietTyped DEF Typed
<1>7. Agreement' /\ Promised
  BY <1>1, <1>2, <1>3, <1>5, QuietAgrees DEF Typed
<1>8. TokenIsShared'
  BY <1>1, <1>2, <1>3 DEF TokenIsShared, Rotated
<1> QED BY <1>5, <1>6, <1>7, <1>8 DEF HostInv

\* The agent of the open worker changes files; nobody has audited it yet.
LEMMA AgentEditsKeeps ==
  ASSUME HostInv, NEW change \in Edits, AgentEdits(change)
  PROVE  HostInv' /\ Promised
<1>1. Typed /\ Agreement /\ TokenIsShared /\ AnswersFollowCalls
  BY DEF HostInv
<1>2. /\ changed' = Put(changed, run.active, change) /\ Running(run.active) /\ run.active \notin DOMAIN changed
      /\ run.active \notin DOMAIN reports /\ cmd = Idle
      /\ UNCHANGED <<run, workers, reports, verdicts, artifacts, gate, log, records, baseline, calls, replies, token, cmd, surfaced, spent>>
  BY DEF AgentEdits, Reported, disk, host
<1>3. /\ DOMAIN changed' = DOMAIN changed \cup {run.active} /\ changed' \in [DOMAIN changed' -> Edits]
      /\ run.active \in DOMAIN workers
      /\ \A id : id # run.active => Change(id)' = Change(id)
      /\ \A id \in DOMAIN changed : changed'[id] = changed[id]
  BY <1>1, <1>2 DEF Put, Typed, Change, Running, Has
<1>4. Typed'
  BY <1>1, <1>2, <1>3 DEF Typed
<1>5. ~Done(run.active) /\ (\A id : Done(id)' = Done(id)) /\ workers' = workers
  BY <1>2 DEF Running, Done, Has
<1>6. ClosesAreAudited'
  <2> SUFFICES ASSUME NEW id \in DOMAIN workers', Done(id)'
               PROVE  /\ id \in DOMAIN reports' /\ reports'[id] = Change(id)'
                      /\ workers'[id].blocks = Violates(StageOf(id), Change(id)')
    BY DEF ClosesAreAudited
  <2>1. id \in DOMAIN workers /\ Done(id) /\ id # run.active
    BY <1>5
  <2>2. Change(id)' = Change(id)
    BY <1>3, <2>1
  <2> QED BY <1>1, <1>2, <2>1, <2>2 DEF Agreement, ClosesAreAudited
<1>7. NoChangeIsSwallowed'
  <2> SUFFICES ASSUME NEW id \in Unreported' PROVE run'.active = id \/ run'.status = "blocked"
    BY DEF NoChangeIsSwallowed
  <2>1. CASE id = run.active
    BY <1>2, <2>1
  <2>2. CASE id # run.active
    <3>1. id \in Unreported
      BY <1>2, <1>3, <2>2 DEF Unreported
    <3> QED BY <1>1, <1>2, <3>1 DEF Agreement, NoChangeIsSwallowed
  <2> QED BY <2>1, <2>2
<1>8. /\ ActiveIsTheLatest' /\ OnlyTheCurrentStageIsActive' /\ CompletedAtTheEnd'
      /\ WorkersAreCounted' /\ GatesAreNotAhead' /\ VerdictsAreNotAhead'
  BY <1>1, <1>2, <1>5
     DEF Agreement, ActiveIsTheLatest, OnlyTheCurrentStageIsActive, CompletedAtTheEnd, Entry, Kind,
         WorkersAreCounted, GatesAreNotAhead, VerdictsAreNotAhead
<1>9. CallsNameTheirWorker' /\ CommittedIsCurrent' /\ ViolationStopsOrIsReconciled'
  BY <1>1, <1>2, <1>5
     DEF Agreement, CallsNameTheirWorker, CommittedIsCurrent, Committed, Pending, Entry, Kind,
         ViolationStopsOrIsReconciled, Stopped
<1>10. FixesAreBounded' /\ LeftWithItsArtifact' /\ OwnersAreLeftOnce'
  BY <1>1, <1>2 DEF Agreement, FixesAreBounded, LeftWithItsArtifact, OwnersAreLeftOnce, Verdict
<1>11. Promised
  BY <1>2, <1>5 DEF Promised, Promise!vars, WorkerOutcome, Decided, Ready, GatesPassed, Has, Kind, Verdict
<1>12. TokenIsShared' /\ AnswersFollowCalls' /\ ~Busy'
  BY <1>1, <1>2 DEF TokenIsShared, Rotated, AnswersFollowCalls, Busy
<1> QED BY <1>4, <1>6, <1>7, <1>8, <1>9, <1>10, <1>11, <1>12 DEF HostInv, Agreement

\* A retry that finds its operation on record, or that is turned away.
LEMMA AnsweredKeeps ==
  ASSUME HostInv, NEW op \in Ops, RetryCached(op) \/ RetryRejected(op)
  PROVE  HostInv' /\ Promised
<1>1. Typed /\ Agreement /\ TokenIsShared /\ AnswersFollowCalls
  BY DEF HostInv
<1>2. /\ UNCHANGED <<run, workers, reports, verdicts, artifacts, gate, log, records, baseline, changed, cmd, calls, token, surfaced, spent>>
      /\ cmd = Idle /\ op = Len(calls) /\ Pending
  BY DEF RetryCached, RetryRejected, Retryable, disk
<1>3. \E reply \in {"ok", "blocked", "dropped"} : replies' = [replies EXCEPT ![op] = reply]
  BY <1>1 DEF RetryCached, RetryRejected, Recorded, Typed
<1>4. replies' \in [Ops -> {None, "ok", "blocked", "error", "dropped"}] /\ AnswersFollowCalls'
  BY <1>1, <1>2, <1>3 DEF Typed, AnswersFollowCalls
<1>5. Typed'
  BY <1>1, <1>2, <1>4, QuietTyped DEF Typed
<1>6. Agreement' /\ Promised
  BY <1>1, <1>2, QuietAgrees DEF Typed
<1>7. TokenIsShared' /\ ~Busy'
  BY <1>1, <1>2 DEF TokenIsShared, Rotated, Busy
<1> QED BY <1>4, <1>5, <1>6, <1>7 DEF HostInv
==============================================================================
