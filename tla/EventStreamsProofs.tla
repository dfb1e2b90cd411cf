-------------------------- MODULE EventStreamsProofs --------------------------
(***************************************************************************)
(* What the restoration of an event stream promises, for any frames, any   *)
(* number of them and any restoration of one text: only deltas are held    *)
(* back (StreamTypeOK), a stream is delivered exactly when it is           *)
(* well-formed (DeliversWellFormed), and its client reads every text as if *)
(* it had been restored as a whole (ReadsRestored).                        *)
(*                                                                         *)
(* The argument: what a handler holds back are the deltas of the texts     *)
(* that have not been completed (OpenInv); everything else has been        *)
(* written, the whole of a text where its first delta was (OutInv).  At    *)
(* the end of the stream nothing is held back any more.                    *)
(***************************************************************************)
EXTENDS EventStreams, SequenceTheorems, FiniteSetTheorems, WellFoundedInduction, TLAPS

-----------------------------------------------------------------------------
(***************************************************************************)
(* Numbers in their order.                                                 *)
(***************************************************************************)
Increasing(at) == \A i, j \in DOMAIN at : i < j => at[i] < at[j]

LEMMA LeastNumber ==
  ASSUME NEW T \in SUBSET Nat, T # {}
  PROVE  \E m \in T : \A n \in T : m <= n
<1> DEFINE R == {ss \in Nat \X Nat : ss[1] < ss[2]}
<1>1. IsWellFoundedOn(R, Nat)
  BY NatLessThanWellFounded DEF OpToRel
<1>2. PICK m \in T : \A n \in T : <<n, m>> \notin R
  <2> HIDE DEF R
  <2> QED BY <1>1, WFMin
<1>3. ASSUME NEW n \in T PROVE m <= n
  <2>1. n \in Nat /\ m \in Nat /\ <<n, m>> \notin R
    BY <1>2
  <2>2. ~(n < m)
    BY <2>1
  <2> QED BY <2>1, <2>2
<1> QED BY <1>3

LEMMA IncreasingInjective ==
  ASSUME NEW at \in Seq(Nat), Increasing(at), NEW i \in DOMAIN at, NEW j \in DOMAIN at,
         at[i] = at[j]
  PROVE  i = j
<1>1. i \in Nat /\ j \in Nat /\ at[i] \in Nat
  BY LenProperties
<1> QED BY <1>1 DEF Increasing

LEMMA IncreasingUnique ==
  ASSUME NEW s \in Seq(Nat), NEW t \in Seq(Nat), Increasing(s), Increasing(t),
         Len(s) = Len(t), Range(s) = Range(t)
  PROVE  s = t
<1> DEFINE T == {i \in 1..Len(s) : s[i] # t[i]}
<1>0. /\ DOMAIN s = 1..Len(s) /\ DOMAIN t = 1..Len(s) /\ Len(s) \in Nat
      /\ \A i \in 1..Len(s) : s[i] \in Nat /\ t[i] \in Nat
  BY LenProperties
<1>1. ASSUME T # {} PROVE FALSE
  <2>1. PICK i \in T : \A j \in T : i <= j
    <3>1. T \in SUBSET Nat
      BY <1>0
    <3> HIDE DEF T
    <3> QED BY <3>1, <1>1, LeastNumber
  <2>2. i \in 1..Len(s) /\ s[i] # t[i] /\ \A j \in 1..Len(s) : j < i => s[j] = t[j]
    BY <2>1, <1>0
  <2>3. s[i] \in Range(t) /\ t[i] \in Range(s)
    BY <2>2, <1>0 DEF Range
  <2>4. PICK j \in 1..Len(s) : t[j] = s[i]
    BY <2>3, <1>0 DEF Range
  <2>5. PICK k \in 1..Len(s) : s[k] = t[i]
    BY <2>3, <1>0 DEF Range
  <2>6. CASE s[i] < t[i]
    <3>1. j < i
      <4>1. t[j] < t[i] /\ i \in DOMAIN t /\ j \in DOMAIN t
        BY <2>6, <2>4, <2>2, <1>0
      <4>2. i # j /\ ~(i < j)
        BY <4>1, <2>2, <1>0 DEF Increasing
      <4> QED BY <4>2, <2>2, <1>0
    <3>2. s[j] = s[i]
      BY <3>1, <2>2, <2>4
    <3> QED BY <3>1, <3>2, <2>2, <1>0, IncreasingInjective
  <2>7. CASE t[i] < s[i]
    <3>1. k < i
      <4>1. s[k] < s[i] /\ i \in DOMAIN s /\ k \in DOMAIN s
        BY <2>7, <2>5, <2>2, <1>0
      <4>2. i # k /\ ~(i < k)
        BY <4>1, <2>2, <1>0 DEF Increasing
      <4> QED BY <4>2, <2>2, <1>0
    <3>2. t[k] = t[i]
      BY <3>1, <2>2, <2>5
    <3> QED BY <3>1, <3>2, <2>2, <1>0, IncreasingInjective
  <2> QED BY <2>2, <2>6, <2>7, <1>0
<1>2. \A i \in 1..Len(s) : s[i] = t[i]
  BY <1>1
<1> QED BY <1>0, <1>2, SeqEqual

\* The numbers of an increasing sequence, put in order, are that sequence.
LEMMA InOrderIs ==
  ASSUME NEW at \in Seq(Nat), Increasing(at)
  PROVE  InOrder(Range(at)) = at
<1> DEFINE ns == Range(at)
           c == InOrder(ns)
<1>0. Len(at) \in Nat /\ DOMAIN at = 1..Len(at) /\ at \in [1..Len(at) -> Nat]
  BY LenProperties
<1>1. at \in [1..Len(at) -> ns]
  BY <1>0 DEF Range
<1>2. at \in Injection(1..Len(at), ns)
  BY <1>0, <1>1, IncreasingInjective DEF Injection, IsInjective
<1>3. at \in Surjection(1..Len(at), ns)
  BY <1>0, <1>1 DEF Surjection, Range
<1>4. ExistsBijection(1..Len(at), ns)
  BY <1>2, <1>3 DEF ExistsBijection, Bijection
<1>5. Cardinality(ns) = Len(at) /\ IsFiniteSet(ns)
  BY <1>0, <1>4, FS_CountingElements, FS_NatBijection
<1>6. c \in [1..Len(at) -> ns] /\ Increasing(c)
  <2>1. at \in [1..Cardinality(ns) -> ns] /\ \A i, j \in DOMAIN at : i < j => at[i] < at[j]
    BY <1>1, <1>5 DEF Increasing
  <2>2. c \in [1..Cardinality(ns) -> ns] /\ \A i, j \in DOMAIN c : i < j => c[i] < c[j]
    <3> HIDE DEF ns
    <3> QED BY <2>1 DEF InOrder
  <2> QED BY <2>2, <1>5 DEF Increasing
<1>7. ns \in SUBSET Nat
  BY <1>0 DEF Range
<1>8. c \in Seq(Nat) /\ Len(c) = Len(at)
  <2> HIDE DEF c, ns
  <2>1. c \in [1..Len(at) -> Nat]
    BY <1>6, <1>7
  <2> QED BY <2>1, <1>0
<1>9. c \in Injection(1..Len(at), ns)
  <2> HIDE DEF c, ns
  <2>1. DOMAIN c = 1..Len(at)
    BY <1>6
  <2> QED BY <1>6, <1>8, <2>1, IncreasingInjective DEF Injection, IsInjective
<1>10. c \in Surjection(1..Len(at), ns)
  <2> HIDE DEF c, ns
  <2>1. Cardinality(1..Len(at)) = Len(at)
    <3>1. IF 1 > Len(at) THEN Len(at) = 0 ELSE Len(at) - 1 + 1 = Len(at)
      BY <1>0
    <3>2. 1 \in Int /\ Len(at) \in Int
      BY <1>0
    <3> QED BY <3>1, <3>2, FS_Interval
  <2> QED BY <1>9, <1>5, <2>1, FS_Injection
<1>11. Range(c) = ns
  <2> HIDE DEF c, ns
  <2> QED BY <1>10, <1>6 DEF Surjection, Range
<1> QED
  <2>1. c = at
    <3> HIDE DEF c
    <3> QED BY <1>6, <1>8, <1>11, IncreasingUnique
  <2> QED BY <2>1

\* Every finite set of numbers can be put in order.
LEMMA EnumerationExists ==
  ASSUME NEW L \in Nat, NEW ns \in SUBSET (1..L)
  PROVE  \E at \in Seq(Nat) : Increasing(at) /\ Range(at) = ns
<1> DEFINE Good(l) == \A m \in SUBSET (1..l) : \E at \in Seq(Nat) : Increasing(at) /\ Range(at) = m
           T == {l \in Nat : ~Good(l)}
<1>1. ASSUME T # {} PROVE FALSE
  <2>1. PICK l \in T : \A k \in T : l <= k
    <3> HIDE DEF Good
    <3> QED BY <1>1, LeastNumber
  <2>2. PICK m \in SUBSET (1..l) : ~\E at \in Seq(Nat) : Increasing(at) /\ Range(at) = m
    BY <2>1
  <2>3. l # 0
    <3>1. SUFFICES ASSUME l = 0 PROVE FALSE
      OBVIOUS
    <3>2. m = {}
      BY <3>1
    <3>3. <<>> \in Seq(Nat) /\ Increasing(<<>>) /\ Range(<<>>) = m
      BY <3>2 DEF Increasing, Range
    <3> QED BY <3>3, <2>2
  <2>4. l - 1 \in Nat /\ l - 1 \notin T
    <3>1. l \in Nat /\ l - 1 \in Nat /\ ~(l <= l - 1)
      BY <2>1, <2>3
    <3> HIDE DEF T
    <3> QED BY <3>1, <2>1
  <2>5. PICK at \in Seq(Nat) : Increasing(at) /\ Range(at) = m \ {l}
    <3>1. m \ {l} \in SUBSET (1..(l - 1))
      BY <2>1, <2>3
    <3>2. Good(l - 1)
      <4> HIDE DEF Good
      <4> QED BY <2>4
    <3> QED BY <3>1, <3>2
  <2>6. CASE l \notin m
    BY <2>5, <2>6, <2>2
  <2>7. CASE l \in m
    <3> DEFINE new == Append(at, l)
    <3>0. Len(at) \in Nat /\ DOMAIN at = 1..Len(at) /\ l \in Nat
      BY <2>1, LenProperties
    <3>1. /\ new \in Seq(Nat) /\ Len(new) = Len(at) + 1 /\ DOMAIN new = 1..(Len(at) + 1)
          /\ \A i \in DOMAIN at : new[i] = at[i]
          /\ new[Len(at) + 1] = l
      BY <3>0
    <3>2. \A i \in DOMAIN at : at[i] \in 1..(l - 1)
      <4>1. \A i \in DOMAIN at : at[i] \in m \ {l}
        BY <2>5 DEF Range
      <4> QED BY <4>1, <3>0
    <3> HIDE DEF new
    <3>3. Increasing(new)
      <4> SUFFICES ASSUME NEW i \in DOMAIN new, NEW j \in DOMAIN new, i < j
                   PROVE  new[i] < new[j]
        BY DEF Increasing
      <4>1. i \in DOMAIN at /\ new[i] = at[i]
        BY <3>0, <3>1
      <4>2. CASE j \in DOMAIN at
        BY <4>1, <4>2, <3>1, <2>5 DEF Increasing
      <4>3. CASE j = Len(at) + 1
        BY <4>1, <4>3, <3>1, <3>2, <3>0
      <4> QED BY <4>2, <4>3, <3>0, <3>1
    <3>4. Range(new) = m
      <4>1. DOMAIN new = DOMAIN at \cup {Len(at) + 1}
        BY <3>0, <3>1
      <4>2. Range(new) = Range(at) \cup {l}
        BY <4>1, <3>1 DEF Range
      <4> QED BY <4>2, <2>5, <2>7
    <3> QED BY <3>1, <3>3, <3>4, <2>2
  <2> QED BY <2>6, <2>7
<1>2. Good(L)
  <2> HIDE DEF Good
  <2> QED BY <1>1
<1> QED BY <1>2

LEMMA InOrderOf ==
  ASSUME NEW L \in Nat, NEW ns \in SUBSET (1..L)
  PROVE  /\ InOrder(ns) \in Seq(Nat)
         /\ Increasing(InOrder(ns))
         /\ Range(InOrder(ns)) = ns
<1>1. PICK at \in Seq(Nat) : Increasing(at) /\ Range(at) = ns
  BY EnumerationExists
<1> QED BY <1>1, InOrderIs

\* The text at some frames depends on the texts of these frames alone.
LEMMA TextAgrees ==
  ASSUME NEW L \in Nat, NEW ns \in SUBSET (1..L), NEW s, NEW t,
         \A n \in ns : s[n].text = t[n].text
  PROVE  TextAt(s, ns) = TextAt(t, ns)
<1> DEFINE at == InOrder(ns)
<1>1. \A k \in DOMAIN at : at[k] \in ns
  <2>1. Range(at) = ns
    BY InOrderOf
  <2> QED BY <2>1 DEF Range
<1>2. [k \in DOMAIN at |-> s[at[k]].text] = [k \in DOMAIN at |-> t[at[k]].text]
  <2> HIDE DEF at
  <2> QED BY <1>1
<1> QED BY <1>2 DEF TextAt, Flat

-----------------------------------------------------------------------------
(***************************************************************************)
(* Texts put together.                                                     *)
(***************************************************************************)
\* What FlattenSeq computes, one sequence after the other.
Flattens(g, q, n) == g = [i \in 1..n |-> IF i = 1 THEN q[i] ELSE g[i - 1] \o q[i]]

LEMMA FlattensUnique ==
  ASSUME NEW q, NEW n \in Nat, NEW g, NEW h, Flattens(g, q, n), Flattens(h, q, n)
  PROVE  g = h
<1> DEFINE T == {i \in 1..n : g[i] # h[i]}
<1>0. /\ DOMAIN g = 1..n /\ DOMAIN h = 1..n
      /\ \A i \in 1..n : g[i] = IF i = 1 THEN q[i] ELSE g[i - 1] \o q[i]
      /\ \A i \in 1..n : h[i] = IF i = 1 THEN q[i] ELSE h[i - 1] \o q[i]
  BY DEF Flattens
<1>1. ASSUME T # {} PROVE FALSE
  <2>1. PICK i \in T : \A j \in T : i <= j
    <3>1. T \in SUBSET Nat
      OBVIOUS
    <3> HIDE DEF T
    <3> QED BY <3>1, <1>1, LeastNumber
  <2>2. i # 1
    BY <2>1, <1>0
  <2>3. i - 1 \in 1..n /\ ~(i <= i - 1)
    BY <2>1, <2>2
  <2>4. g[i - 1] = h[i - 1]
    BY <2>1, <2>3
  <2>5. g[i] = h[i]
    BY <2>1, <2>2, <2>4, <1>0
  <2> QED BY <2>1, <2>5
<1>2. \A i \in 1..n : g[i] = h[i]
  BY <1>1
<1>3. g = [i \in 1..n |-> g[i]] /\ h = [i \in 1..n |-> h[i]]
  BY <1>0 DEF Flattens
<1>4. [i \in 1..n |-> g[i]] = [i \in 1..n |-> h[i]]
  BY <1>2
<1> QED BY <1>3, <1>4

LEMMA FlattenIs ==
  ASSUME NEW q, Len(q) \in Nat \ {0}, NEW g, Flattens(g, q, Len(q))
  PROVE  FlattenSeq(q) = g[Len(q)]
<1> DEFINE h == CHOOSE f : f = [i \in 1..Len(q) |-> IF i = 1 THEN q[i] ELSE f[i - 1] \o q[i]]
<1>1. h = [i \in 1..Len(q) |-> IF i = 1 THEN q[i] ELSE h[i - 1] \o q[i]]
  BY DEF Flattens
<1>2. h = g
  <2> HIDE DEF h
  <2>1. Flattens(h, q, Len(q)) /\ Len(q) \in Nat
    BY <1>1 DEF Flattens
  <2> QED BY <2>1, FlattensUnique
<1>3. FlattenSeq(q) = h[Len(q)]
  BY DEF FlattenSeq
<1> QED BY <1>2, <1>3

LEMMA FlattenTyped ==
  ASSUME NEW q \in Seq(Texts), q # <<>>
  PROVE  FlattenSeq(q) \in Texts
<1> DEFINE Good(n) == \E g \in [1..n -> Texts] : Flattens(g, q, n)
           T == {n \in 1..Len(q) : ~Good(n)}
<1>0. Len(q) \in Nat \ {0} /\ \A i \in 1..Len(q) : q[i] \in Texts
  BY DEF Texts
<1>1. ASSUME T # {} PROVE FALSE
  <2>1. PICK n \in T : \A k \in T : n <= k
    <3>1. T \in SUBSET Nat
      BY <1>0
    <3> HIDE DEF T
    <3> QED BY <3>1, <1>1, LeastNumber
  <2>2. n \in 1..Len(q) /\ ~Good(n)
    <3> HIDE DEF Good
    <3> QED BY <2>1
  <2>3. CASE n = 1
    <3> DEFINE g == [i \in 1..1 |-> q[i]]
    <3>1. g \in [1..1 -> Texts]
      BY <1>0
    <3>2. Flattens(g, q, 1)
      BY DEF Flattens
    <3> QED BY <3>1, <3>2, <2>2, <2>3
  <2>4. CASE n # 1
    <3>1. n - 1 \in 1..Len(q) /\ ~(n <= n - 1)
      BY <2>2, <2>4, <1>0
    <3>2. Good(n - 1)
      <4> HIDE DEF Good
      <4> QED BY <3>1, <2>1
    <3>3. PICK g \in [1..(n - 1) -> Texts] : Flattens(g, q, n - 1)
      BY <3>2
    <3> DEFINE h == [i \in 1..n |-> IF i = n THEN g[n - 1] \o q[n] ELSE g[i]]
    <3>4. n - 1 \in 1..(n - 1) /\ g[n - 1] \in Texts /\ q[n] \in Texts
      BY <3>1, <3>3, <2>2, <1>0
    <3>5. g[n - 1] \o q[n] \in Texts
      BY <3>4 DEF Texts
    <3>6. h \in [1..n -> Texts]
      <4>1. \A i \in 1..n : i # n => i \in 1..(n - 1)
        BY <2>2, <1>0
      <4> QED BY <4>1, <3>5, <3>3
    <3>7. ASSUME NEW i \in 1..n PROVE h[i] = IF i = 1 THEN q[i] ELSE h[i - 1] \o q[i]
      <4>1. CASE i = n
        <5>1. h[i - 1] = g[n - 1]
          BY <4>1, <3>4, <2>2, <1>0
        <5> QED BY <5>1, <4>1, <2>4
      <4>2. CASE i # n
        <5>1. i \in 1..(n - 1)
          BY <4>2, <2>2, <1>0
        <5>2. h[i] = g[i]
          BY <4>2
        <5>3. g[i] = IF i = 1 THEN q[i] ELSE g[i - 1] \o q[i]
          BY <5>1, <3>3 DEF Flattens
        <5>4. i # 1 => h[i - 1] = g[i - 1]
          BY <5>1, <2>2, <1>0
        <5> QED BY <5>2, <5>3, <5>4
      <4> QED BY <4>1, <4>2
    <3>8. Flattens(h, q, n)
      <4>1. h = [i \in 1..n |-> h[i]]
        OBVIOUS
      <4>2. [i \in 1..n |-> h[i]] = [i \in 1..n |-> IF i = 1 THEN q[i] ELSE h[i - 1] \o q[i]]
        <5> HIDE DEF h
        <5> QED BY <3>7
      <4> HIDE DEF h
      <4> QED BY <4>1, <4>2 DEF Flattens
    <3> QED BY <3>6, <3>8, <2>2
  <2> QED BY <2>3, <2>4
<1>2. Good(Len(q))
  <2> HIDE DEF Good
  <2> QED BY <1>0, <1>1
<1>3. PICK g \in [1..Len(q) -> Texts] : Flattens(g, q, Len(q))
  BY <1>2
<1> QED BY <1>0, <1>3, FlattenIs

\* A text followed by empty ones is that text.
LEMMA FlattenFirst ==
  ASSUME NEW q, Len(q) \in Nat \ {0}, q[1] \in Texts, \A i \in 2..Len(q) : q[i] = <<>>
  PROVE  FlattenSeq(q) = q[1]
<1> DEFINE g == [i \in 1..Len(q) |-> q[1]]
<1>1. ASSUME NEW i \in 1..Len(q) PROVE g[i] = IF i = 1 THEN q[i] ELSE g[i - 1] \o q[i]
  <2>1. i # 1 => i - 1 \in 1..Len(q) /\ q[i] = <<>>
    OBVIOUS
  <2>2. q[1] \o <<>> = q[1]
    BY ConcatEmptySeq DEF Texts
  <2> QED BY <2>1, <2>2
<1>2. Flattens(g, q, Len(q))
  <2>1. [i \in 1..Len(q) |-> g[i]] = [i \in 1..Len(q) |-> IF i = 1 THEN q[i] ELSE g[i - 1] \o q[i]]
    <3> HIDE DEF g
    <3> QED BY <1>1
  <2>2. g = [i \in 1..Len(q) |-> g[i]]
    OBVIOUS
  <2> HIDE DEF g
  <2> QED BY <2>1, <2>2 DEF Flattens
<1> QED BY <1>2, FlattenIs

LEMMA FlatEmpty ==
  ASSUME NEW s
  PROVE  Flat(s, <<>>) = <<>>
BY DEF Flat, FlattenSeq

LEMMA TextTyped ==
  ASSUME NEW L \in Nat, NEW ns \in SUBSET (1..L), NEW s, \A n \in ns : s[n].text \in Texts
  PROVE  TextAt(s, ns) \in Texts
<1> DEFINE at == InOrder(ns)
           q == [k \in DOMAIN at |-> s[at[k]].text]
<1>1. at \in Seq(Nat) /\ Range(at) = ns
  BY InOrderOf
<1>2. CASE at = <<>>
  <2>1. TextAt(s, ns) = Flat(s, at)
    BY DEF TextAt
  <2>2. <<>> \in Texts
    BY DEF Texts
  <2> HIDE DEF at
  <2> QED BY <1>2, <2>1, <2>2, FlatEmpty
<1>3. CASE at # <<>>
  <2>1. DOMAIN at = 1..Len(at) /\ Len(at) \in Nat \ {0}
    BY <1>1, <1>3
  <2>2. \A k \in 1..Len(at) : s[at[k]].text \in Texts
    BY <1>1, <2>1 DEF Range
  <2>3. q \in [1..Len(at) -> Texts]
    <3> HIDE DEF at
    <3> QED BY <2>1, <2>2
  <2>4. q \in Seq(Texts) /\ q # <<>>
    <3> HIDE DEF q, at
    <3> QED BY <2>1, <2>3
  <2> QED BY <2>4, FlattenTyped DEF TextAt, Flat
<1> QED BY <1>2, <1>3

\* A text that the first of some frames carries alone.
LEMMA TextOfFirst ==
  ASSUME NEW L \in Nat, NEW ns \in SUBSET (1..L), NEW s, NEW first \in ns,
         s[first].text \in Texts,
         \A n \in ns : first <= n /\ (n # first => s[n].text = <<>>)
  PROVE  TextAt(s, ns) = s[first].text
<1> DEFINE at == InOrder(ns)
           q == [k \in DOMAIN at |-> s[at[k]].text]
<1>1. at \in Seq(Nat) /\ Range(at) = ns /\ Increasing(at)
  BY InOrderOf
<1>2. DOMAIN at = 1..Len(at) /\ Len(at) \in Nat
  BY <1>1
<1>3. PICK j \in 1..Len(at) : at[j] = first
  BY <1>1, <1>2 DEF Range
<1>4. \A k \in 1..Len(at) : at[k] \in ns /\ at[k] \in Nat
  BY <1>1, <1>2 DEF Range
<1>5. j = 1
  <2>1. at[1] \in ns /\ first <= at[1] /\ at[1] \in Nat /\ first \in Nat
    BY <1>2, <1>3, <1>4
  <2>2. 1 < j => at[1] < at[j]
    BY <1>1, <1>2, <1>3 DEF Increasing
  <2> QED BY <2>1, <2>2, <1>3, <1>2
<1>6. \A k \in 2..Len(at) : at[k] # first
  BY <1>1, <1>2, <1>3, <1>5, IncreasingInjective
<1>7. /\ Len(q) = Len(at) /\ Len(q) \in Nat \ {0}
      /\ \A k \in 1..Len(at) : q[k] = s[at[k]].text
  <2> HIDE DEF at
  <2> QED BY <1>2, <1>3
<1>8. q[1] = s[first].text /\ \A k \in 2..Len(q) : q[k] = <<>>
  <2> HIDE DEF q, at
  <2> QED BY <1>2, <1>3, <1>4, <1>5, <1>6, <1>7
<1>9. FlattenSeq(q) = q[1]
  <2> HIDE DEF q, at
  <2> QED BY <1>7, <1>8, FlattenFirst
<1> QED BY <1>8, <1>9 DEF TextAt, Flat

\* Held deltas, which are increasing, make up the text of their frames.
LEMMA FlatIsText ==
  ASSUME NEW L \in Nat, NEW at \in Seq(Nat), Increasing(at), Range(at) \subseteq 1..L,
         NEW s, NEW t, \A n \in Range(at) : s[n].text = t[n].text
  PROVE  Flat(s, at) = TextAt(t, Range(at))
<1>1. TextAt(s, Range(at)) = TextAt(t, Range(at))
  BY TextAgrees
<1> QED BY <1>1, InOrderIs DEF TextAt

-----------------------------------------------------------------------------
(***************************************************************************)
(* The shape of a stream that is being restored.                           *)
(***************************************************************************)
IsSeq(s) == s \in Seq(Range(s))

LEMMA SeqShape ==
  ASSUME NEW s, IsSeq(s)
  PROVE  Len(s) \in Nat /\ DOMAIN s = 1..Len(s)
BY LenProperties DEF IsSeq

LEMMA SeqAppend ==
  ASSUME NEW s, IsSeq(s), NEW e
  PROVE  /\ IsSeq(Append(s, e))
         /\ Len(Append(s, e)) = Len(s) + 1
         /\ DOMAIN Append(s, e) = 1..(Len(s) + 1)
         /\ \A n \in 1..Len(s) : Append(s, e)[n] = s[n]
         /\ Append(s, e)[Len(s) + 1] = e
<1> DEFINE S == Range(s) \cup {e}
           t == Append(s, e)
<1>1. s \in Seq(S) /\ e \in S
  BY SeqMonotonic DEF IsSeq
<1>2. Len(s) \in Nat
  BY SeqShape
<1> HIDE DEF S
<1>3. /\ t \in Seq(S) /\ Len(t) = Len(s) + 1 /\ DOMAIN t = 1..(Len(s) + 1)
      /\ \A n \in 1..Len(s) : t[n] = s[n]
      /\ t[Len(s) + 1] = e
  BY <1>1, <1>2
<1>4. t \in [1..Len(t) -> Range(t)] /\ Len(t) \in Nat
  <2> HIDE DEF t
  <2> QED BY <1>3, <1>2, LenProperties DEF Range
<1>5. t \in Seq(Range(t))
  <2> HIDE DEF t
  <2> QED BY <1>4
<1> QED BY <1>3, <1>5 DEF IsSeq

LEMMA SeqMap ==
  ASSUME NEW L \in Nat, NEW t, DOMAIN t = 1..L, t = [n \in 1..L |-> t[n]]
  PROVE  IsSeq(t) /\ Len(t) = L
<1>1. t \in [1..L -> Range(t)]
  BY DEF Range
<1> QED BY <1>1 DEF IsSeq

\* A frame of out differs from the one that the provider sent in its text alone.
Matches(e, f) == e = [f EXCEPT !.text = e.text]

StreamShape ==
    /\ protocol \in DOMAIN Event
    /\ outcome \in {"open", "delivered", "refused"}
    /\ IsSeq(frames) /\ \A n \in DOMAIN frames : frames[n] \in Event[protocol]
    /\ IsSeq(out)
    /\ Len(out) <= Len(frames)
    /\ outcome # "refused" => Len(out) = Len(frames)
    /\ \A n \in DOMAIN out : Matches(out[n], frames[n])

\* The deltas of key that are held back, in their order.
HeldOK(key) ==
    LET at == pending[key].at
    IN  /\ at \in Seq(Nat) /\ Increasing(at)
        /\ \A n \in Range(at) :
             /\ n \in DOMAIN out
             /\ frames[n].type = "delta" /\ Key(frames[n]) = key
             /\ out[n] = frames[n]

PendingOK ==
    /\ \A key \in DOMAIN pending : HeldOK(key)
    /\ outcome = "delivered" => DOMAIN pending = {}

ShapeInv == StreamShape /\ PendingOK

LEMMA EventIs ==
  ASSUME protocol \in DOMAIN Event, NEW f \in Event[protocol]
  PROVE  /\ f.type \in Type
         /\ f.kind \in {"text", "tool", "other"}
         /\ f.text \in Texts
         /\ f = [type |-> f.type, name |-> f.name, kind |-> f.kind, text |-> f.text]
         /\ protocol \in {"messages", "responses"}
         /\ f.type \notin (IF protocol = "messages" THEN {"done"} ELSE {"start", "stop"})
         /\ f.type \in {"stop", "opaque"} => f.kind = "other"
         /\ f.type = "direct" => f.kind # "other"
<1>1. /\ f \in [type : Type, name : {f.name}, kind : {"text", "tool", "other"}, text : Texts]
      /\ protocol \in {"messages", "responses"}
      /\ f.type \notin (IF protocol = "messages" THEN {"done"} ELSE {"start", "stop"})
      /\ f.type \in {"stop", "opaque"} => f.kind = "other"
      /\ f.type = "direct" => f.kind # "other"
  BY EventAssumption
<1> QED BY <1>1

LEMMA MatchesFields ==
  ASSUME protocol \in DOMAIN Event, NEW f \in Event[protocol], NEW e, Matches(e, f), NEW text
  PROVE  /\ e.type = f.type /\ e.name = f.name /\ e.kind = f.kind /\ Key(e) = Key(f)
         /\ Matches([e EXCEPT !.text = text], f)
         /\ [e EXCEPT !.text = text] = [f EXCEPT !.text = text]
         /\ [e EXCEPT !.text = text].text = text
         /\ Matches(f, f)
         /\ e.text = f.text => e = f
<1>1. f = [type |-> f.type, name |-> f.name, kind |-> f.kind, text |-> f.text]
  BY EventIs
<1>2. e = [type |-> f.type, name |-> f.name, kind |-> f.kind, text |-> e.text]
  BY <1>1 DEF Matches
<1>3. [e EXCEPT !.text = text] = [type |-> f.type, name |-> f.name, kind |-> f.kind, text |-> text]
  BY <1>2
<1>4. [f EXCEPT !.text = text] = [type |-> f.type, name |-> f.name, kind |-> f.kind, text |-> text]
  BY <1>1
<1>5. [e EXCEPT !.text = text].text = text
  BY <1>3
<1>6. e.type = f.type /\ e.name = f.name /\ e.kind = f.kind
  BY <1>2
<1>7. [f EXCEPT !.text = f.text] = f
  BY <1>1
<1> QED BY <1>1, <1>2, <1>3, <1>4, <1>5, <1>6, <1>7 DEF Matches, Key

LEMMA MatchesSelf ==
  ASSUME protocol \in DOMAIN Event, NEW f \in Event[protocol]
  PROVE  Matches(f, f)
<1>1. f = [type |-> f.type, name |-> f.name, kind |-> f.kind, text |-> f.text]
  BY EventIs
<1> QED BY <1>1 DEF Matches

LEMMA RewrittenShape ==
  ASSUME ShapeInv, NEW at, NEW text
  PROVE  /\ IsSeq(Rewritten(at, text)) /\ Len(Rewritten(at, text)) = Len(out)
         /\ \A n \in DOMAIN out :
              /\ n \notin Range(at) => Rewritten(at, text)[n] = out[n]
              /\ n \in Range(at) =>
                   /\ Rewritten(at, text)[n].text = IF n = at[1] THEN text ELSE <<>>
                   /\ Rewritten(at, text)[n] =
                        [out[n] EXCEPT !.text = IF n = at[1] THEN text ELSE <<>>]
              /\ Matches(Rewritten(at, text)[n], frames[n])
<1> DEFINE r == Rewritten(at, text)
<1>0. Len(out) \in Nat /\ DOMAIN out = 1..Len(out) /\ Len(frames) \in Nat
      /\ DOMAIN frames = 1..Len(frames) /\ Len(out) <= Len(frames)
  BY SeqShape DEF ShapeInv, StreamShape
<1>1. IsSeq(r) /\ Len(r) = Len(out)
  <2>1. DOMAIN r = 1..Len(out) /\ r = [n \in 1..Len(out) |-> r[n]]
    BY <1>0 DEF Rewritten
  <2> HIDE DEF r
  <2> QED BY <2>1, <1>0, SeqMap
<1>2. ASSUME NEW n \in DOMAIN out
      PROVE  /\ n \notin Range(at) => r[n] = out[n]
             /\ n \in Range(at) =>
                  /\ r[n].text = IF n = at[1] THEN text ELSE <<>>
                  /\ r[n] = [out[n] EXCEPT !.text = IF n = at[1] THEN text ELSE <<>>]
             /\ Matches(r[n], frames[n])
  <2> DEFINE new == IF n = at[1] THEN text ELSE <<>>
  <2>1. n \in DOMAIN frames
    BY <1>0
  <2>11. /\ frames[n] \in Event[protocol] /\ protocol \in DOMAIN Event
         /\ Matches(out[n], frames[n])
    BY <2>1 DEF ShapeInv, StreamShape
  <2>2. r[n] = IF n \notin Range(at) THEN out[n] ELSE [out[n] EXCEPT !.text = new]
    BY DEF Rewritten
  <2>3. /\ [out[n] EXCEPT !.text = new].text = new
        /\ Matches([out[n] EXCEPT !.text = new], frames[n])
    <3> DEFINE e == out[n]
               f == frames[n]
    <3>1. f \in Event[protocol] /\ protocol \in DOMAIN Event /\ Matches(e, f)
      BY <2>11
    <3>2. [e EXCEPT !.text = new].text = new
      <4> HIDE DEF new, e, f
      <4> QED BY <3>1, MatchesFields
    <3>3. Matches([e EXCEPT !.text = new], f)
      <4> HIDE DEF new, e, f
      <4> QED BY <3>1, MatchesFields
    <3> QED BY <3>2, <3>3
  <2> HIDE DEF r
  <2> QED BY <2>11, <2>2, <2>3
<1> QED BY <1>1, <1>2

LEMMA RewrittenText ==
  ASSUME ShapeInv, NEW at, NEW text, NEW n \in DOMAIN out, n \in Range(at)
  PROVE  Rewritten(at, text)[n].text = IF n = at[1] THEN text ELSE <<>>
<1> DEFINE r == Rewritten(at, text)
<1>1. PICK new : new = IF n = at[1] THEN text ELSE <<>>
  OBVIOUS
<1>2. r[n] = [out[n] EXCEPT !.text = new]
  BY <1>1 DEF Rewritten
<1>3. n \in DOMAIN frames
  BY SeqShape DEF ShapeInv, StreamShape
<1>4. PICK e : e = out[n]
  OBVIOUS
<1>5. PICK f : f = frames[n]
  OBVIOUS
<1>6. f \in Event[protocol] /\ protocol \in DOMAIN Event /\ Matches(e, f)
  BY <1>3, <1>4, <1>5 DEF ShapeInv, StreamShape
<1>7. [e EXCEPT !.text = new].text = new
  BY <1>6, MatchesFields
<1> QED BY <1>1, <1>2, <1>4, <1>7

LEMMA HeldTyped ==
  ASSUME ShapeInv, NEW key
  PROVE  /\ Held(key) \in Seq(Nat) /\ Increasing(Held(key))
         /\ \A n \in Range(Held(key)) :
              /\ n \in DOMAIN out
              /\ frames[n].type = "delta" /\ Key(frames[n]) = key
              /\ out[n] = frames[n]
<1>1. CASE key \in DOMAIN pending
  BY <1>1 DEF Held, ShapeInv, PendingOK, HeldOK
<1>2. CASE key \notin DOMAIN pending
  <2>1. Held(key) = <<>>
    BY <1>2 DEF Held
  <2>2. <<>> \in Seq(Nat) /\ Increasing(<<>>) /\ Range(<<>>) = {}
    BY DEF Increasing, Range
  <2> QED BY <2>1, <2>2
<1> QED BY <1>1, <1>2

-----------------------------------------------------------------------------
(***************************************************************************)
(* One more frame.                                                         *)
(***************************************************************************)
Grows(f) ==
    /\ f \in Event[protocol] /\ protocol' = protocol
    /\ outcome = "open"
    /\ frames' = Append(frames, f)

New == Len(frames) + 1

LEMMA GrownFrames ==
  ASSUME ShapeInv, NEW f \in Event[protocol], Grows(f)
  PROVE  /\ Len(frames) \in Nat /\ DOMAIN frames = 1..Len(frames) /\ New \in Nat
         /\ Len(out) = Len(frames) /\ DOMAIN out = DOMAIN frames
         /\ IsSeq(frames')
         /\ Len(frames') = New
         /\ DOMAIN frames' = DOMAIN frames \cup {New} /\ New \notin DOMAIN frames
         /\ \A n \in DOMAIN frames : frames'[n] = frames[n] /\ n \in 1..New /\ n < New
         /\ frames'[New] = f
         /\ \A n \in DOMAIN frames' : frames'[n] \in Event[protocol']
<1>1. /\ IsSeq(frames) /\ Len(frames) \in Nat /\ DOMAIN frames = 1..Len(frames)
      /\ Len(out) = Len(frames) /\ DOMAIN out = 1..Len(out)
      /\ \A n \in DOMAIN frames : frames[n] \in Event[protocol]
  BY SeqShape DEF ShapeInv, StreamShape, Grows
<1>2. /\ IsSeq(frames') /\ Len(frames') = Len(frames) + 1
      /\ DOMAIN frames' = 1..(Len(frames) + 1)
      /\ \A n \in 1..Len(frames) : frames'[n] = frames[n]
      /\ frames'[Len(frames) + 1] = f
  BY <1>1, SeqAppend DEF Grows
<1>3. DOMAIN frames' = DOMAIN frames \cup {New} /\ New \notin DOMAIN frames
  BY <1>1, <1>2 DEF New
<1> QED BY <1>1, <1>2, <1>3 DEF New, Grows

LEMMA GrownShape ==
  ASSUME ShapeInv, NEW f \in Event[protocol], Grows(f), outcome' = "open",
         NEW o, IsSeq(o), Len(o) = Len(out), \A n \in DOMAIN out : Matches(o[n], frames[n]),
         NEW g, Matches(g, f), out' = Append(o, g)
  PROVE  /\ StreamShape'
         /\ DOMAIN out' = DOMAIN out \cup {New} /\ out'[New] = g
         /\ \A n \in DOMAIN out : out'[n] = o[n]
<1>1. /\ Len(frames) \in Nat /\ DOMAIN frames = 1..Len(frames) /\ DOMAIN out = 1..Len(frames)
      /\ Len(out) = Len(frames)
      /\ IsSeq(frames') /\ Len(frames') = New /\ frames'[New] = f
      /\ \A n \in DOMAIN frames : frames'[n] = frames[n]
      /\ \A n \in DOMAIN frames' : frames'[n] \in Event[protocol']
  BY GrownFrames
<1>2. /\ IsSeq(out') /\ Len(out') = Len(out) + 1
      /\ DOMAIN out' = 1..(Len(out) + 1)
      /\ \A n \in 1..Len(out) : out'[n] = o[n]
      /\ out'[Len(out) + 1] = g
  BY SeqAppend
<1>3. DOMAIN out' = DOMAIN out \cup {New} /\ Len(out') = Len(frames')
  BY <1>1, <1>2 DEF New
<1>4. ASSUME NEW n \in DOMAIN out' PROVE Matches(out'[n], frames'[n])
  <2>1. CASE n \in DOMAIN out
    BY <2>1, <1>1, <1>2
  <2>2. CASE n = New
    BY <2>2, <1>1, <1>2 DEF New
  <2> QED BY <2>1, <2>2, <1>3
<1>5. (\A n \in DOMAIN out : Matches(out[n], frames[n]))'
  BY <1>4 DEF Matches
<1>6. protocol' \in DOMAIN Event /\ Len(frames') <= Len(frames') /\ Len(out') <= Len(frames')
  BY <1>1, <1>3 DEF New, Grows, ShapeInv, StreamShape
<1>7. IsSeq(frames)' /\ IsSeq(out)'
  BY <1>1, <1>2 DEF IsSeq, Range
<1> QED BY <1>1, <1>2, <1>3, <1>5, <1>6, <1>7 DEF StreamShape, New

\* A text that is held back stays as it is.
LEMMA HeldStays ==
  ASSUME ShapeInv, NEW f \in Event[protocol], Grows(f), NEW key \in DOMAIN pending,
         key \in DOMAIN pending', pending'[key] = pending[key],
         DOMAIN out \subseteq DOMAIN out',
         \A n \in Range(Held(key)) : out'[n] = out[n]
  PROVE  HeldOK(key)'
<1> DEFINE at == pending[key].at
<1>1. /\ at \in Seq(Nat) /\ Increasing(at)
      /\ \A n \in Range(at) :
           n \in DOMAIN out /\ frames[n].type = "delta" /\ Key(frames[n]) = key /\ out[n] = frames[n]
  BY DEF ShapeInv, PendingOK, HeldOK
<1>2. Held(key) = at
  BY DEF Held
<1>3. \A n \in Range(at) : n \in DOMAIN out' /\ frames'[n] = frames[n] /\ out'[n] = out[n]
  <2> HIDE DEF at
  <2> QED BY <1>1, <1>2, GrownFrames
<1>4. pending'[key].at = at
  OBVIOUS
<1>5. \A n \in Range(at) : /\ n \in DOMAIN out' /\ frames'[n].type = "delta"
                           /\ Key(frames[n])' = key /\ out'[n] = frames'[n]
  <2> HIDE DEF at
  <2> QED BY <1>1, <1>3 DEF Key, Grows
<1>6. Increasing(at) /\ at \in Seq(Nat)
  BY <1>1
<1> HIDE DEF at
<1>7. (pending[key].at \in Seq(Nat) /\ Increasing(pending[key].at))'
  BY <1>4, <1>6 DEF Increasing
<1>8. \A n \in Range(pending[key].at)' : n \in Range(at)
  BY <1>4 DEF Range
<1> QED BY <1>5, <1>7, <1>8 DEF HeldOK

\* The frame leaves as it is, and at most its own text is held back.
LEMMA AppendKeepsShape ==
  ASSUME ShapeInv, NEW f \in Event[protocol], Grows(f), outcome' = "open",
         out' = Append(out, f),
         \A key \in DOMAIN pending \ {Key(f)} : key \in DOMAIN pending' /\ pending'[key] = pending[key],
         DOMAIN pending' \subseteq DOMAIN pending \cup {Key(f)},
         Key(f) \in DOMAIN pending' =>
            \/ Key(f) \in DOMAIN pending /\ pending'[Key(f)] = pending[Key(f)]
            \/ pending'[Key(f)].at = <<>>
            \/ f.type = "delta" /\ pending'[Key(f)].at = Append(Held(Key(f)), New)
  PROVE  /\ ShapeInv'
         /\ DOMAIN out' = DOMAIN out \cup {New} /\ out'[New] = f
         /\ \A n \in DOMAIN out : out'[n] = out[n]
<1>1. protocol \in DOMAIN Event /\ Matches(f, f)
  BY MatchesSelf DEF ShapeInv, StreamShape
<1>2. /\ StreamShape'
      /\ DOMAIN out' = DOMAIN out \cup {New} /\ out'[New] = f
      /\ \A n \in DOMAIN out : out'[n] = out[n]
  BY <1>1, GrownShape DEF ShapeInv, StreamShape
<1>3. ASSUME NEW key \in DOMAIN pending, key \in DOMAIN pending', pending'[key] = pending[key]
      PROVE  HeldOK(key)'
  BY <1>2, <1>3, HeldStays, HeldTyped
<1>4. ASSUME NEW key \in DOMAIN pending', pending'[key].at = <<>>
      PROVE  HeldOK(key)'
  <2>1. <<>> \in Seq(Nat) /\ DOMAIN <<>> = {}
    OBVIOUS
  <2> QED BY <1>4, <2>1 DEF HeldOK, Increasing, Range
<1>5. ASSUME NEW key, key = Key(f), key \in DOMAIN pending', f.type = "delta",
             pending'[key].at = Append(Held(key), New)
      PROVE  HeldOK(key)'
  <2> DEFINE held == Held(key)
             at == Append(held, New)
  <2>1. /\ held \in Seq(Nat) /\ Increasing(held)
        /\ \A n \in Range(held) :
             /\ n \in DOMAIN out
             /\ frames[n].type = "delta" /\ Key(frames[n]) = key
             /\ out[n] = frames[n]
    BY HeldTyped
  <2>2. /\ New \in Nat /\ DOMAIN out = DOMAIN frames /\ frames'[New] = f
        /\ \A n \in DOMAIN frames : frames'[n] = frames[n] /\ n < New
    BY GrownFrames
  <2> HIDE DEF held
  <2>3. /\ Len(held) \in Nat /\ DOMAIN held = 1..Len(held)
        /\ at \in Seq(Nat) /\ DOMAIN at = 1..(Len(held) + 1) /\ at[Len(held) + 1] = New
        /\ \A i \in DOMAIN held : at[i] = held[i]
    BY <2>1, <2>2
  <2>31. DOMAIN at = DOMAIN held \cup {Len(held) + 1} /\ \A i \in DOMAIN held : i < Len(held) + 1
    BY <2>3
  <2> HIDE DEF at
  <2>4. Range(at) = Range(held) \cup {New}
    BY <2>3, <2>31 DEF Range
  <2>5. Increasing(at)
    <3> SUFFICES ASSUME NEW i \in DOMAIN at, NEW j \in DOMAIN at, i < j PROVE at[i] < at[j]
      BY DEF Increasing
    <3>1. i \in DOMAIN held
      BY <2>3, <2>31
    <3>2. CASE j \in DOMAIN held
      BY <3>1, <3>2, <2>1, <2>3 DEF Increasing
    <3>3. CASE j = Len(held) + 1
      <4>1. held[i] \in DOMAIN frames
        BY <3>1, <2>1, <2>2 DEF Range
      <4> QED BY <4>1, <3>1, <3>3, <2>2, <2>3
    <3> QED BY <3>2, <3>3, <2>31
  <2>6. \A n \in Range(at) : /\ n \in DOMAIN out' /\ frames'[n].type = "delta"
                             /\ Key(frames[n])' = key /\ out'[n] = frames'[n]
    BY <2>1, <2>2, <2>4, <1>2, <1>5 DEF Key, Grows
  <2>7. pending'[key].at = at
    BY <1>5 DEF held, at
  <2>8. \A n \in Range(pending[key].at)' : n \in Range(at)
    BY <2>7 DEF Range
  <2>9. (pending[key].at \in Seq(Nat) /\ Increasing(pending[key].at))'
    BY <2>3, <2>5, <2>7 DEF Increasing
  <2> QED BY <2>6, <2>8, <2>9 DEF HeldOK
<1>6. ASSUME NEW key \in DOMAIN pending'
      PROVE  HeldOK(key)'
  <2>1. CASE key # Key(f)
    BY <2>1, <1>3
  <2>2. CASE key = Key(f) /\ pending'[Key(f)] = pending[Key(f)] /\ key \in DOMAIN pending
    BY <2>2, <1>3
  <2>3. CASE pending'[key].at = <<>>
    BY <2>3, <1>4
  <2>4. CASE key = Key(f) /\ f.type = "delta" /\ pending'[key].at = Append(Held(key), New)
    BY <2>4, <1>5
  <2> QED BY <2>1, <2>2, <2>3, <2>4
<1>7. PendingOK'
  BY <1>6 DEF PendingOK
<1> QED BY <1>2, <1>7 DEF ShapeInv

\* A text that is complete is rewritten and no longer held back.
LEMMA ReleaseKeepsShape ==
  ASSUME ShapeInv, NEW f \in Event[protocol], Grows(f), outcome' = "open",
         NEW text, NEW g, Matches(g, f),
         out' = Append(Rewritten(Held(Key(f)), text), g), Release(Key(f))
  PROVE  /\ ShapeInv'
         /\ DOMAIN out' = DOMAIN out \cup {New} /\ out'[New] = g
         /\ \A n \in DOMAIN out : out'[n] = Rewritten(Held(Key(f)), text)[n]
<1> DEFINE o == Rewritten(Held(Key(f)), text)
<1>1. /\ IsSeq(o) /\ Len(o) = Len(out)
      /\ \A n \in DOMAIN out : Matches(o[n], frames[n])
      /\ \A n \in DOMAIN out : n \notin Range(Held(Key(f))) => o[n] = out[n]
  <2> DEFINE at == Held(Key(f))
  <2>1. o = Rewritten(at, text)
    OBVIOUS
  <2> HIDE DEF at, o
  <2>2. IsSeq(o) /\ Len(o) = Len(out)
    BY <2>1, RewrittenShape
  <2>3. \A n \in DOMAIN out : Matches(o[n], frames[n])
    BY <2>1, RewrittenShape
  <2>4. \A n \in DOMAIN out : n \notin Range(at) => o[n] = out[n]
    BY <2>1 DEF Rewritten
  <2> QED BY <2>2, <2>3, <2>4 DEF at
<1>2. /\ StreamShape'
      /\ DOMAIN out' = DOMAIN out \cup {New} /\ out'[New] = g
      /\ \A n \in DOMAIN out : out'[n] = o[n]
  <2> HIDE DEF o
  <2>1. out' = Append(o, g)
    BY DEF o
  <2> QED BY <1>1, <2>1, GrownShape
<1>3. /\ DOMAIN pending' = DOMAIN pending \ {Key(f)}
      /\ \A k \in DOMAIN pending \ {Key(f)} : pending'[k] = pending[k]
  BY DEF Release
<1>4. ASSUME NEW key \in DOMAIN pending'
      PROVE  HeldOK(key)'
  <2>1. \A n \in Range(Held(key)) : n \in DOMAIN out /\ n \notin Range(Held(Key(f)))
    BY <1>3, HeldTyped
  <2>2. \A n \in Range(Held(key)) : out'[n] = out[n]
    BY <2>1, <1>1, <1>2
  <2> QED BY <2>2, <1>2, <1>3, HeldStays
<1>5. PendingOK'
  BY <1>4 DEF PendingOK
<1> QED BY <1>2, <1>5 DEF ShapeInv

LEMMA TakeGrows ==
  ASSUME NEW f \in Event[protocol], Take(f)
  PROVE  Grows(f) /\ outcome' = "open" /\ f.type # "malformed"
BY DEF Take, Grows

LEMMA OpenBlockShape ==
  ASSUME ShapeInv, NEW f \in Event[protocol], OpenBlock(f)
  PROVE  /\ ShapeInv' /\ out' = Append(out, f)
         /\ DOMAIN out' = DOMAIN out \cup {New} /\ out'[New] = f
         /\ \A n \in DOMAIN out : out'[n] = out[n]
<1>1. Grows(f) /\ outcome' = "open" /\ out' = Append(out, f)
  BY TakeGrows DEF OpenBlock
<1>2. /\ DOMAIN pending' = DOMAIN pending \cup {Key(f)}
      /\ \A key \in DOMAIN pending \ {Key(f)} : pending'[key] = pending[key]
      /\ pending'[Key(f)].at = <<>>
  BY DEF OpenBlock, Hold
<1> QED BY <1>1, <1>2, AppendKeepsShape

LEMMA BlockDeltaShape ==
  ASSUME ShapeInv, NEW f \in Event[protocol], BlockDelta(f)
  PROVE  /\ ShapeInv' /\ out' = Append(out, f)
         /\ DOMAIN out' = DOMAIN out \cup {New} /\ out'[New] = f
         /\ \A n \in DOMAIN out : out'[n] = out[n]
<1>1. Grows(f) /\ outcome' = "open" /\ out' = Append(out, f) /\ f.type = "delta"
  BY TakeGrows DEF BlockDelta
<1>2. CASE PendingKind(Key(f)) = "other"
  <2>1. pending' = pending
    BY <1>2 DEF BlockDelta
  <2> QED BY <1>1, <2>1, AppendKeepsShape
<1>3. CASE PendingKind(Key(f)) # "other"
  <2>1. Len(out) + 1 = New
    BY <1>1, GrownFrames DEF New
  <2>2. /\ DOMAIN pending' = DOMAIN pending \cup {Key(f)}
        /\ \A key \in DOMAIN pending \ {Key(f)} : pending'[key] = pending[key]
        /\ pending'[Key(f)].at = Append(Held(Key(f)), New)
    BY <1>3, <2>1 DEF BlockDelta, Hold
  <2> QED BY <1>1, <2>2, AppendKeepsShape
<1> QED BY <1>2, <1>3

LEMMA GroupDeltaShape ==
  ASSUME ShapeInv, NEW f \in Event[protocol], GroupDelta(f)
  PROVE  /\ ShapeInv' /\ out' = Append(out, f)
         /\ DOMAIN out' = DOMAIN out \cup {New} /\ out'[New] = f
         /\ \A n \in DOMAIN out : out'[n] = out[n]
<1>1. Grows(f) /\ outcome' = "open" /\ out' = Append(out, f) /\ f.type = "delta"
  BY TakeGrows DEF GroupDelta
<1>2. Len(out) + 1 = New
  BY <1>1, GrownFrames DEF New
<1>3. /\ DOMAIN pending' = DOMAIN pending \cup {Key(f)}
      /\ \A key \in DOMAIN pending \ {Key(f)} : pending'[key] = pending[key]
      /\ pending'[Key(f)].at = Append(Held(Key(f)), New)
  BY <1>2 DEF GroupDelta, Hold
<1> QED BY <1>1, <1>3, AppendKeepsShape

LEMMA PassShape ==
  ASSUME ShapeInv, NEW f \in Event[protocol], Pass(f)
  PROVE  /\ ShapeInv' /\ out' = Append(out, f) /\ pending' = pending
         /\ DOMAIN out' = DOMAIN out \cup {New} /\ out'[New] = f
         /\ \A n \in DOMAIN out : out'[n] = out[n]
<1>1. Grows(f) /\ outcome' = "open" /\ out' = Append(out, f) /\ pending' = pending
  BY TakeGrows DEF Pass
<1> QED BY <1>1, AppendKeepsShape

LEMMA StopBlockShape ==
  ASSUME ShapeInv, NEW f \in Event[protocol], StopBlock(f)
  PROVE  /\ ShapeInv' /\ DOMAIN out' = DOMAIN out \cup {New} /\ out'[New] = f
         /\ LET held == Held(Key(f))
            IN  \A n \in DOMAIN out :
                  out'[n] = Rewritten(held, Restored(PendingKind(Key(f)), Combined(held)))[n]
<1> DEFINE text == Restored(PendingKind(Key(f)), Combined(Held(Key(f))))
<1>1. /\ Grows(f) /\ outcome' = "open" /\ Release(Key(f))
      /\ out' = Append(Rewritten(Held(Key(f)), text), f)
  BY TakeGrows DEF StopBlock
<1>2. Matches(f, f)
  BY MatchesSelf DEF ShapeInv, StreamShape
<1> HIDE DEF text
<1>3. /\ ShapeInv'
      /\ DOMAIN out' = DOMAIN out \cup {New} /\ out'[New] = f
      /\ \A n \in DOMAIN out : out'[n] = Rewritten(Held(Key(f)), text)[n]
  BY <1>1, <1>2, ReleaseKeepsShape
<1> QED BY <1>3 DEF text

LEMMA DoneShape ==
  ASSUME ShapeInv, NEW f \in Event[protocol], Done(f)
  PROVE  /\ ShapeInv' /\ DOMAIN out' = DOMAIN out \cup {New}
         /\ out'[New] = [f EXCEPT !.text = Restored(f.kind, f.text)]
         /\ \A n \in DOMAIN out :
              out'[n] = Rewritten(Held(Key(f)), Restored(f.kind, f.text))[n]
<1> DEFINE text == Restored(f.kind, f.text)
           g == [f EXCEPT !.text = text]
<1>1. /\ Grows(f) /\ outcome' = "open" /\ Release(Key(f))
      /\ out' = Append(Rewritten(Held(Key(f)), text), g)
  BY TakeGrows DEF Done
<1> HIDE DEF text
<1>2. Matches(g, f)
  <2>1. protocol \in DOMAIN Event /\ Matches(f, f)
    BY MatchesSelf DEF ShapeInv, StreamShape
  <2> QED BY <2>1, MatchesFields
<1> HIDE DEF g
<1>3. /\ ShapeInv'
      /\ DOMAIN out' = DOMAIN out \cup {New} /\ out'[New] = g
      /\ \A n \in DOMAIN out : out'[n] = Rewritten(Held(Key(f)), text)[n]
  BY <1>1, <1>2, ReleaseKeepsShape
<1> QED BY <1>3 DEF text, g

LEMMA RefuseShape ==
  ASSUME ShapeInv, NEW f \in Event[protocol], Refuse(f)
  PROVE  ShapeInv'
<1>1. Grows(f) /\ outcome' = "refused" /\ out' = out /\ pending' = pending /\ protocol' = protocol
  BY DEF Refuse, Grows
<1>2. /\ Len(frames) \in Nat /\ DOMAIN out = DOMAIN frames /\ IsSeq(frames') /\ Len(frames') = New
      /\ Len(out) = Len(frames)
      /\ \A n \in DOMAIN frames : frames'[n] = frames[n]
      /\ \A n \in DOMAIN frames' : frames'[n] \in Event[protocol']
  BY <1>1, GrownFrames
<1>3. (\A n \in DOMAIN out : Matches(out[n], frames[n]))'
  <2>1. \A n \in DOMAIN out : out'[n] = out[n] /\ frames'[n] = frames[n] /\ Matches(out[n], frames[n])
    BY <1>1, <1>2 DEF ShapeInv, StreamShape
  <2> QED BY <2>1, <1>1 DEF Matches
<1>4. IsSeq(frames)' /\ IsSeq(out)' /\ (Len(out) <= Len(frames))' /\ (protocol \in DOMAIN Event)'
  BY <1>1, <1>2 DEF IsSeq, Range, New, ShapeInv, StreamShape
<1>5. StreamShape'
  BY <1>1, <1>2, <1>3, <1>4 DEF StreamShape
<1>6. ASSUME NEW key \in DOMAIN pending'
      PROVE  HeldOK(key)'
  <2>1. key \in DOMAIN pending /\ pending'[key] = pending[key] /\ DOMAIN out' = DOMAIN out
    BY <1>1
  <2> QED BY <2>1, <1>1, HeldStays
<1> QED BY <1>1, <1>5, <1>6 DEF ShapeInv, PendingOK

LEMMA EndStreamShape ==
  ASSUME ShapeInv, EndStream
  PROVE  ShapeInv'
<1>1. protocol' = protocol /\ frames' = frames /\ pending' = pending /\ outcome = "open"
  BY DEF EndStream
<1>2. CASE outcome' = "refused" /\ out' = out
  BY <1>1, <1>2 DEF ShapeInv, StreamShape, PendingOK, HeldOK, Matches, IsSeq, Range, Key, Increasing
<1>3. CASE /\ outcome' = "delivered" /\ DOMAIN pending = {}
           /\ out' = [n \in DOMAIN out |-> [out[n] EXCEPT !.text = Direct(out[n])]]
  <2>1. /\ Len(out) \in Nat /\ DOMAIN out = 1..Len(out) /\ DOMAIN frames = 1..Len(frames)
        /\ Len(out) = Len(frames)
    BY <1>1, SeqShape DEF ShapeInv, StreamShape
  <2>2. IsSeq(out') /\ Len(out') = Len(out) /\ DOMAIN out' = DOMAIN out
    <3>1. DOMAIN out' = 1..Len(out) /\ out' = [n \in 1..Len(out) |-> out'[n]]
      BY <1>3, <2>1
    <3> QED BY <3>1, <2>1, SeqMap
  <2>3. ASSUME NEW n \in DOMAIN out' PROVE Matches(out'[n], frames[n])
    <3> DEFINE e == out[n]
               f == frames[n]
    <3>1. f \in Event[protocol] /\ protocol \in DOMAIN Event /\ Matches(e, f)
      BY <2>1, <2>2 DEF ShapeInv, StreamShape
    <3>2. out'[n] = [e EXCEPT !.text = Direct(e)]
      BY <1>3, <2>2
    <3>3. Matches([e EXCEPT !.text = Direct(e)], f)
      <4> HIDE DEF e, f
      <4> QED BY <3>1, MatchesFields
    <3> QED BY <3>2, <3>3
  <2>4. (\A n \in DOMAIN out : Matches(out[n], frames[n]))'
    BY <2>3, <1>1 DEF Matches
  <2>5. IsSeq(out)' /\ IsSeq(frames)'
    BY <2>2, <1>1 DEF IsSeq, Range, ShapeInv, StreamShape
  <2>6. StreamShape'
    BY <2>1, <2>2, <2>4, <2>5, <1>1, <1>3 DEF ShapeInv, StreamShape
  <2> QED BY <2>6, <1>1, <1>3 DEF ShapeInv, PendingOK
<1> QED BY <1>2, <1>3 DEF EndStream

LEMMA ShapeStep ==
  ASSUME ShapeInv, [Next]_vars
  PROVE  ShapeInv'
<1>1. ASSUME NEW f \in Event[protocol],
             \/ OpenBlock(f) \/ BlockDelta(f) \/ StopBlock(f)
             \/ GroupDelta(f) \/ Done(f) \/ Pass(f) \/ Refuse(f)
      PROVE  ShapeInv'
  BY <1>1, OpenBlockShape, BlockDeltaShape, StopBlockShape, GroupDeltaShape, DoneShape,
     PassShape, RefuseShape
<1>2. CASE UNCHANGED vars
  BY <1>2 DEF vars, ShapeInv, StreamShape, PendingOK, HeldOK, Matches, IsSeq, Range, Key, Increasing
<1> QED BY <1>1, <1>2, EndStreamShape DEF Next

LEMMA ShapeInit == Init => ShapeInv
<1> SUFFICES ASSUME Init PROVE ShapeInv
  OBVIOUS
<1>1. protocol \in DOMAIN Event /\ frames = <<>> /\ out = <<>> /\ pending = <<>> /\ outcome = "open"
  BY DEF Init
<1>2. IsSeq(<<>>) /\ DOMAIN <<>> = {} /\ Len(<<>>) = 0
  BY DEF IsSeq
<1> QED BY <1>1, <1>2 DEF ShapeInv, StreamShape, PendingOK

\* Whatever the provider sends, the shape of the restored stream is kept.
THEOREM ShapeInvariant == Spec => []ShapeInv
<1> QED BY ShapeInit, ShapeStep, PTL DEF Spec

\* Only deltas are held back, each by the text that it is a part of, and as the
\* provider sent it (StreamTypeOK).
THEOREM StreamsTyped == Spec => []StreamTypeOK
<1>1. ShapeInv => StreamTypeOK
  BY DEF ShapeInv, StreamShape, PendingOK, HeldOK, StreamTypeOK, Range
<1> QED BY <1>1, ShapeInvariant, PTL

-----------------------------------------------------------------------------
(***************************************************************************)
(* The frames of a key.                                                    *)
(***************************************************************************)
Of(type, key) == {n \in DOMAIN frames : frames[n].type = type /\ Key(frames[n]) = key}

\* The deltas that no later event has ended or begun anew.
Since(key) == {n \in Of("delta", key) : \A k \in Of(Boundary, key) : k < n}

\* The blocks that no later event has stopped.
Open(key) == {m \in Of("start", key) : \A k \in Of("stop", key) : k < m}

LEMMA FramesDomain ==
  ASSUME ShapeInv
  PROVE  Len(frames) \in Nat /\ DOMAIN frames = 1..Len(frames) /\ DOMAIN frames \subseteq Nat
BY SeqShape DEF ShapeInv, StreamShape

LEMMA BeforeIs ==
  ASSUME ShapeInv, NEW n \in DOMAIN frames, NEW type
  PROVE  Before(n, type) = {m \in Of(type, Key(frames[n])) : m < n}
BY FramesDomain DEF Before, Of

LEMMA OpenAtIs ==
  ASSUME ShapeInv, NEW n \in DOMAIN frames
  PROVE  OpenAt(n) = {m \in Before(n, "start") : \A k \in Before(n, "stop") : k < m}
BY DEF OpenAt

LEMMA KeyGrows ==
  ASSUME ShapeInv, NEW f \in Event[protocol], Grows(f)
  PROVE  /\ \A n \in DOMAIN frames : Key(frames[n])' = Key(frames[n])
         /\ \A n : n = New => Key(frames[n])' = Key(f)
         /\ Boundary' = Boundary
BY GrownFrames DEF Key, Boundary, Grows

LEMMA OfGrows ==
  ASSUME ShapeInv, NEW f \in Event[protocol], Grows(f), NEW type, NEW key
  PROVE  Of(type, key)' =
            IF f.type = type /\ Key(f) = key THEN Of(type, key) \cup {New} ELSE Of(type, key)
<1>1. \A n \in DOMAIN frames' : frames'[n].type = type /\ Key(frames[n])' = key <=>
        \/ n \in DOMAIN frames /\ frames[n].type = type /\ Key(frames[n]) = key
        \/ n = New /\ f.type = type /\ Key(f) = key
  BY GrownFrames, KeyGrows
<1>2. DOMAIN frames' = DOMAIN frames \cup {New}
  BY GrownFrames
<1> QED BY <1>1, <1>2 DEF Of

LEMMA SinceGrows ==
  ASSUME ShapeInv, NEW f \in Event[protocol], Grows(f), NEW key
  PROVE  Since(key)' = IF Key(f) # key THEN Since(key)
                       ELSE IF f.type = Boundary THEN {}
                       ELSE IF f.type = "delta" THEN Since(key) \cup {New}
                       ELSE Since(key)
<1>0. PICK B : B = Boundary
  OBVIOUS
<1>1. B # "delta" /\ Boundary' = B
  BY <1>0, KeyGrows DEF Boundary
<1>2. Since(key)' = {n \in Of("delta", key)' : \A k \in Of(B, key)' : k < n}
  BY <1>1 DEF Since
<1>3. /\ \A n \in Of("delta", key) \cup Of(B, key) : n \in Nat /\ n < New /\ ~(New < n)
      /\ New \in Nat
  BY GrownFrames, FramesDomain DEF Of
<1>4. /\ Of("delta", key)' = IF f.type = "delta" /\ Key(f) = key THEN Of("delta", key) \cup {New}
                             ELSE Of("delta", key)
      /\ Of(B, key)' = IF f.type = B /\ Key(f) = key THEN Of(B, key) \cup {New} ELSE Of(B, key)
  BY OfGrows
<1>5. Since(key) = {n \in Of("delta", key) : \A k \in Of(B, key) : k < n}
  BY <1>0 DEF Since
<1>6. CASE Key(f) # key
  BY <1>2, <1>4, <1>5, <1>6
<1>7. CASE Key(f) = key /\ f.type = B
  BY <1>0, <1>1, <1>2, <1>3, <1>4, <1>7
<1>8. CASE Key(f) = key /\ f.type = "delta"
  BY <1>0, <1>1, <1>2, <1>3, <1>4, <1>5, <1>8
<1>9. CASE Key(f) = key /\ f.type # B /\ f.type # "delta"
  BY <1>0, <1>2, <1>4, <1>5, <1>9
<1> QED BY <1>0, <1>1, <1>6, <1>7, <1>8, <1>9

LEMMA OpenGrows ==
  ASSUME ShapeInv, NEW f \in Event[protocol], Grows(f), NEW key
  PROVE  Open(key)' = IF Key(f) # key THEN Open(key)
                      ELSE IF f.type = "stop" THEN {}
                      ELSE IF f.type = "start" THEN Open(key) \cup {New}
                      ELSE Open(key)
<1>1. Open(key)' = {n \in Of("start", key)' : \A k \in Of("stop", key)' : k < n}
  BY DEF Open
<1>2. /\ \A n \in Of("start", key) \cup Of("stop", key) : n \in Nat /\ n < New /\ ~(New < n)
      /\ New \in Nat
  BY GrownFrames, FramesDomain DEF Of
<1>3. /\ Of("start", key)' = IF f.type = "start" /\ Key(f) = key THEN Of("start", key) \cup {New}
                             ELSE Of("start", key)
      /\ Of("stop", key)' = IF f.type = "stop" /\ Key(f) = key THEN Of("stop", key) \cup {New}
                            ELSE Of("stop", key)
  BY OfGrows
<1>4. Open(key) = {n \in Of("start", key) : \A k \in Of("stop", key) : k < n}
  BY DEF Open
<1>5. CASE Key(f) # key
  BY <1>1, <1>3, <1>4, <1>5
<1>6. CASE Key(f) = key /\ f.type = "stop"
  BY <1>1, <1>2, <1>3, <1>6
<1>7. CASE Key(f) = key /\ f.type = "start"
  BY <1>1, <1>2, <1>3, <1>4, <1>7
<1>8. CASE Key(f) = key /\ f.type \notin {"start", "stop"}
  BY <1>1, <1>3, <1>4, <1>8
<1> QED BY <1>5, <1>6, <1>7, <1>8

\* What was before a frame does not change.
LEMMA PastStays ==
  ASSUME ShapeInv, NEW f \in Event[protocol], Grows(f), NEW n \in DOMAIN frames
  PROVE  /\ \A type : Before(n, type)' = Before(n, type)
         /\ OpenAt(n)' = OpenAt(n)
         /\ GroupOf(n)' = GroupOf(n)
         /\ TextKind(n)' = TextKind(n)
<1>0. /\ Boundary' = Boundary /\ protocol' = protocol
      /\ frames'[n] = frames[n] /\ Key(frames[n])' = Key(frames[n])
      /\ n \in Nat /\ \A m \in 1..(n - 1) : m \in DOMAIN frames
      /\ \A m \in DOMAIN frames : frames'[m] = frames[m] /\ Key(frames[m])' = Key(frames[m])
  BY KeyGrows, GrownFrames, FramesDomain DEF Grows
<1>1. ASSUME NEW type PROVE Before(n, type)' = Before(n, type)
  BY <1>0 DEF Before
<1>2. OpenAt(n)' = OpenAt(n)
  BY <1>1 DEF OpenAt
<1>3. GroupOf(n)' = GroupOf(n)
  BY <1>0, <1>1 DEF GroupOf
<1>4. OpenAt(n) \subseteq DOMAIN frames
  BY <1>0 DEF OpenAt, Before
<1>5. OpenAt(n) # {} => (CHOOSE m \in OpenAt(n) : TRUE) \in OpenAt(n)
  OBVIOUS
<1>6. TextKind(n)' = TextKind(n)
  <2> DEFINE o == CHOOSE m \in OpenAt(n) : TRUE
  <2>1. o' = o
    BY <1>2
  <2>2. OpenAt(n) # {} => frames'[o] = frames[o]
    BY <1>0, <1>4, <1>5
  <2> QED BY <1>0, <1>2, <2>1, <2>2 DEF TextKind
<1> QED BY <1>1, <1>2, <1>3, <1>6

LEMMA NewPast ==
  ASSUME ShapeInv, NEW f \in Event[protocol], Grows(f), NEW n, n = New
  PROVE  /\ \A type : Before(n, type)' = Of(type, Key(f))
         /\ OpenAt(n)' = Open(Key(f))
<1>0. /\ 1..(n - 1) = DOMAIN frames /\ Key(frames[n])' = Key(f)
      /\ \A m \in DOMAIN frames : frames'[m] = frames[m] /\ Key(frames[m])' = Key(frames[m])
  BY KeyGrows, GrownFrames DEF New
<1>1. ASSUME NEW type PROVE Before(n, type)' = Of(type, Key(f))
  BY <1>0 DEF Before, Of
<1> QED BY <1>1 DEF OpenAt, Open

-----------------------------------------------------------------------------
(***************************************************************************)
(* The deltas of a text: those with the same boundaries before them.       *)
(***************************************************************************)
Members(n) == {m \in DOMAIN frames : GroupOf(m) = GroupOf(n)}

LEMMA BeforeFinite ==
  ASSUME ShapeInv, NEW n \in DOMAIN frames, NEW type
  PROVE  /\ IsFiniteSet(Before(n, type)) /\ Cardinality(Before(n, type)) \in Nat
         /\ Before(n, type) \subseteq DOMAIN frames /\ n \notin Before(n, type)
<1>1. IsFiniteSet(1..Len(frames))
  <2>1. 1 \in Int /\ Len(frames) \in Int
    BY FramesDomain
  <2> QED BY <2>1, FS_Interval
<1>2. Before(n, type) \in SUBSET (1..Len(frames)) /\ n \notin Before(n, type)
  BY FramesDomain, BeforeIs DEF Of
<1>3. IsFiniteSet(Before(n, type))
  BY <1>1, <1>2, FS_Subset
<1> QED BY <1>2, <1>3, FS_CardinalityType, FramesDomain

LEMMA BeforeNested ==
  ASSUME ShapeInv, NEW m \in DOMAIN frames, NEW n \in DOMAIN frames,
         Key(frames[m]) = Key(frames[n]), NEW type
  PROVE  Before(m, type) \subseteq Before(n, type) \/ Before(n, type) \subseteq Before(m, type)
<1>1. Before(m, type) = {k \in Of(type, Key(frames[n])) : k < m}
  BY BeforeIs
<1>2. Before(n, type) = {k \in Of(type, Key(frames[n])) : k < n}
  BY BeforeIs
<1>3. m \in Nat /\ n \in Nat /\ Of(type, Key(frames[n])) \subseteq Nat
  BY FramesDomain DEF Of
<1> QED BY <1>1, <1>2, <1>3

LEMMA SameCount ==
  ASSUME ShapeInv, NEW m \in DOMAIN frames, NEW n \in DOMAIN frames,
         Key(frames[m]) = Key(frames[n]), NEW type
  PROVE  Cardinality(Before(m, type)) = Cardinality(Before(n, type))
            <=> Before(m, type) = Before(n, type)
<1>1. IsFiniteSet(Before(m, type)) /\ IsFiniteSet(Before(n, type))
  BY BeforeFinite
<1>2. CASE Before(m, type) \subseteq Before(n, type)
  BY <1>1, <1>2, FS_Subset
<1>3. CASE Before(n, type) \subseteq Before(m, type)
  BY <1>1, <1>3, FS_Subset
<1> QED BY <1>2, <1>3, BeforeNested

LEMMA OneMore ==
  ASSUME ShapeInv, NEW m \in DOMAIN frames, NEW n \in DOMAIN frames,
         Key(frames[m]) = Key(frames[n]), frames[n].type = "start"
  PROVE  Cardinality(Before(m, "start")) = Cardinality(Before(n, "start")) + 1
            <=> Before(m, "start") = Before(n, "start") \cup {n}
<1> DEFINE M == Before(m, "start")
           N == Before(n, "start")
<1>1. /\ IsFiniteSet(M) /\ IsFiniteSet(N) /\ Cardinality(M) \in Nat /\ Cardinality(N) \in Nat
      /\ n \notin N
  BY BeforeFinite
<1>2. /\ M = {k \in Of("start", Key(frames[n])) : k < m}
      /\ N = {k \in Of("start", Key(frames[n])) : k < n}
      /\ n \in Of("start", Key(frames[n])) /\ m \in Nat /\ Of("start", Key(frames[n])) \subseteq Nat
  BY BeforeIs, FramesDomain DEF Of
<1> HIDE DEF M, N
<1>3. IsFiniteSet(N \cup {n}) /\ Cardinality(N \cup {n}) = Cardinality(N) + 1
  BY <1>1, FS_AddElement
<1>4. CASE m <= n
  <2>1. M \subseteq N
    BY <1>2, <1>4
  <2>2. Cardinality(M) <= Cardinality(N)
    BY <2>1, <1>1, FS_Subset
  <2>3. M # N \cup {n}
    BY <2>1, <1>1
  <2> QED BY <2>2, <2>3, <1>1 DEF M, N
<1>5. CASE n < m
  <2>1. N \cup {n} \subseteq M
    BY <1>2, <1>5
  <2>2. Cardinality(M) = Cardinality(N \cup {n}) => M = N \cup {n}
    BY <2>1, <1>1, FS_Subset
  <2> QED BY <2>2, <1>3 DEF M, N
<1> QED BY <1>2, <1>4, <1>5, FramesDomain

LEMMA GroupOfDelta ==
  ASSUME ShapeInv, NEW m \in DOMAIN frames, NEW n \in DOMAIN frames,
         frames[m].type = "delta", frames[n].type = "delta"
  PROVE  GroupOf(m) = GroupOf(n) <=>
            /\ Key(frames[m]) = Key(frames[n])
            /\ Before(m, Boundary) = Before(n, Boundary)
BY SameCount DEF GroupOf

\* A frame that is not a delta is a text of its own.
LEMMA GroupOfFrame ==
  ASSUME ShapeInv, NEW m \in DOMAIN frames, NEW n \in DOMAIN frames,
         frames[n].type # "delta", GroupOf(m) = GroupOf(n)
  PROVE  m = n
<1>1. GroupOf(n) = <<<<"frame", None>>, n>>
  BY DEF GroupOf
<1>2. frames[m].type # "delta"
  <2>1. SUFFICES ASSUME frames[m].type = "delta" PROVE FALSE
    OBVIOUS
  <2>2. Key(frames[m]) = <<"frame", None>>
    BY <1>1, <2>1 DEF GroupOf
  <2>3. frames[m] \in Event[protocol] /\ protocol \in DOMAIN Event
    BY DEF ShapeInv, StreamShape
  <2>4. frames[m].kind \in {"text", "tool", "other"}
    BY <2>3, EventIs
  <2> QED BY <2>2, <2>4 DEF Key
<1> QED BY <1>1, <1>2 DEF GroupOf

LEMMA MembersOfFrame ==
  ASSUME ShapeInv, NEW n \in DOMAIN frames, frames[n].type # "delta"
  PROVE  Members(n) = {n}
BY GroupOfFrame DEF Members

LEMMA MembersOfDelta ==
  ASSUME ShapeInv, NEW n \in DOMAIN frames, frames[n].type = "delta"
  PROVE  Members(n) = {m \in Of("delta", Key(frames[n])) : Before(m, Boundary) = Before(n, Boundary)}
<1>1. ASSUME NEW m \in DOMAIN frames, GroupOf(m) = GroupOf(n)
      PROVE  frames[m].type = "delta"
  BY <1>1, GroupOfFrame
<1> QED BY <1>1, GroupOfDelta DEF Members, Of

LEMMA DeltasOfStart ==
  ASSUME ShapeInv, protocol = "messages", NEW n \in DOMAIN frames, frames[n].type = "start"
  PROVE  DeltasOf(n) = {m \in Of("delta", Key(frames[n])) :
                           Before(m, "start") = Before(n, "start") \cup {n}}
<1>1. Boundary = "start"
  BY DEF Boundary
<1>2. \A m \in Of("delta", Key(frames[n])) :
        GroupOf(m)[2] = Cardinality(Before(m, "start"))
  BY <1>1 DEF GroupOf, Of
<1>3. \A m \in Of("delta", Key(frames[n])) :
        GroupOf(m)[2] = Cardinality(Before(n, Boundary)) + 1
          <=> Before(m, "start") = Before(n, "start") \cup {n}
  BY <1>1, <1>2, OneMore DEF Of
<1> QED BY <1>3 DEF DeltasOf, Of

LEMMA DeltasOfDone ==
  ASSUME ShapeInv, protocol = "responses", NEW n \in DOMAIN frames
  PROVE  DeltasOf(n) = {m \in Of("delta", Key(frames[n])) :
                           Before(m, "done") = Before(n, "done")}
<1>1. Boundary = "done"
  BY DEF Boundary
<1>2. \A m \in Of("delta", Key(frames[n])) :
        GroupOf(m)[2] = Cardinality(Before(m, "done"))
  BY <1>1 DEF GroupOf, Of
<1>3. Cardinality(Before(n, "done")) + 0 = Cardinality(Before(n, "done"))
  BY BeforeFinite
<1>4. \A m \in Of("delta", Key(frames[n])) :
        GroupOf(m)[2] = Cardinality(Before(n, Boundary)) + 0
          <=> Before(m, "done") = Before(n, "done")
  BY <1>1, <1>2, <1>3, SameCount DEF Of
<1> QED BY <1>4 DEF DeltasOf, Of

\* The deltas that are still growing are one text.
LEMMA MembersSince ==
  ASSUME ShapeInv, NEW key, NEW n \in Since(key)
  PROVE  Members(n) = Since(key)
<1>1. n \in DOMAIN frames /\ frames[n].type = "delta" /\ Key(frames[n]) = key
      /\ \A k \in Of(Boundary, key) : k < n
  BY DEF Since, Of
<1>2. Before(n, Boundary) = Of(Boundary, key)
  BY <1>1, BeforeIs
<1>3. \A m \in Of("delta", key) :
        Before(m, Boundary) = Of(Boundary, key) <=> \A k \in Of(Boundary, key) : k < m
  BY BeforeIs DEF Of
<1> QED BY <1>1, <1>2, <1>3, MembersOfDelta DEF Since

\* The deltas of the block that started last.
LEMMA DeltasOfLast ==
  ASSUME ShapeInv, protocol = "messages", NEW key, NEW n \in Of("start", key),
         \A k \in Of("start", key) : k <= n
  PROVE  DeltasOf(n) = Since(key)
<1>1. n \in DOMAIN frames /\ frames[n].type = "start" /\ Key(frames[n]) = key
      /\ n \in Nat /\ DOMAIN frames \subseteq Nat /\ Boundary = "start"
  BY FramesDomain DEF Of, Boundary
<1>2. Before(n, "start") = {m \in Of("start", key) : m < n}
  BY <1>1, BeforeIs
<1>21. \A m \in Of("start", key) : m \in Nat
  BY <1>1 DEF Of
<1>3. Before(n, "start") \cup {n} = Of("start", key)
  <2>1. \A m \in Of("start", key) : m < n \/ m = n
    BY <1>1, <1>21
  <2> QED BY <1>2, <2>1
<1>4. \A m \in Of("delta", key) :
        Before(m, "start") = Of("start", key) <=> \A k \in Of("start", key) : k < m
  BY BeforeIs DEF Of
<1> QED BY <1>1, <1>3, <1>4, DeltasOfStart DEF Since

-----------------------------------------------------------------------------
(***************************************************************************)
(* The texts of a stream that grows.                                       *)
(***************************************************************************)
LEMMA CountMore ==
  ASSUME ShapeInv, NEW n \in DOMAIN frames, NEW type, NEW k \in Of(type, Key(frames[n])),
         n <= k
  PROVE  /\ Cardinality(Of(type, Key(frames[n]))) \in Nat
         /\ Cardinality(Before(n, type)) < Cardinality(Of(type, Key(frames[n])))
         /\ n # k /\ frames[n].type = type =>
              Cardinality(Before(n, type)) + 1 < Cardinality(Of(type, Key(frames[n])))
<1> DEFINE O == Of(type, Key(frames[n]))
           N == Before(n, type)
<1>1. IsFiniteSet(O)
  <2>1. 1 \in Int /\ Len(frames) \in Int /\ O \in SUBSET (1..Len(frames))
    BY FramesDomain DEF Of
  <2> QED BY <2>1, FS_Interval, FS_Subset
<1>2. N = {m \in O : m < n} /\ n \in Nat /\ k \in Nat /\ k \in O
  BY BeforeIs, FramesDomain DEF Of
<1>3. IsFiniteSet(N) /\ Cardinality(N) \in Nat /\ n \notin N
  BY BeforeFinite
<1>4. frames[n].type = type => n \in O
  BY DEF Of
<1> HIDE DEF O, N
<1>5. Cardinality(O) \in Nat
  BY <1>1, FS_CardinalityType
<1>6. k \notin N /\ N \cup {k} \subseteq O
  BY <1>2
<1>7. IsFiniteSet(N \cup {k}) /\ Cardinality(N \cup {k}) = Cardinality(N) + 1
  BY <1>3, <1>6, FS_AddElement
<1>8. Cardinality(N \cup {k}) <= Cardinality(O)
  BY <1>1, <1>6, FS_Subset
<1>9. ASSUME n # k, frames[n].type = type
      PROVE  Cardinality(N) + 1 < Cardinality(O)
  <2>1. n \notin N \cup {k} /\ (N \cup {k}) \cup {n} \subseteq O
    BY <1>3, <1>4, <1>6, <1>9
  <2>2. Cardinality((N \cup {k}) \cup {n}) = Cardinality(N) + 2
    <3>1. Cardinality((N \cup {k}) \cup {n}) = Cardinality(N \cup {k}) + 1
      BY <2>1, <1>7, FS_AddElement
    <3> QED BY <3>1, <1>7, <1>3
  <2>3. Cardinality((N \cup {k}) \cup {n}) <= Cardinality(O)
    BY <1>1, <2>1, FS_Subset
  <2> QED BY <2>2, <2>3, <1>3, <1>5
<1> QED BY <1>3, <1>5, <1>7, <1>8, <1>9 DEF O, N

LEMMA NewGroup ==
  ASSUME ShapeInv, NEW f \in Event[protocol], Grows(f), NEW n, n = New
  PROVE  GroupOf(n)' = IF f.type = "delta" THEN <<Key(f), Cardinality(Of(Boundary, Key(f)))>>
                       ELSE <<<<"frame", None>>, New>>
<1>1. frames'[n] = f /\ Key(frames[n])' = Key(f) /\ Boundary' = Boundary
  BY GrownFrames, KeyGrows
<1>2. Before(n, Boundary)' = Of(Boundary, Key(f))
  <2>1. PICK b : b = Boundary
    OBVIOUS
  <2>2. Before(n, Boundary)' = Before(n, b)'
    BY <2>1, <1>1
  <2>3. Before(n, b)' = Of(b, Key(f))
    BY NewPast
  <2> QED BY <2>1, <2>2, <2>3
<1> QED BY <1>1, <1>2 DEF GroupOf

\* A text stays as it is, unless it is still growing and the frame is part of it.
LEMMA MembersStay ==
  ASSUME ShapeInv, NEW f \in Event[protocol], Grows(f), NEW n \in DOMAIN frames,
         \/ f.type # "delta"
         \/ frames[n].type # "delta"
         \/ Key(f) # Key(frames[n])
         \/ n \notin Since(Key(frames[n]))
  PROVE  Members(n)' = Members(n)
<1>1. /\ DOMAIN frames' = DOMAIN frames \cup {New} /\ New \notin DOMAIN frames
      /\ \A m \in DOMAIN frames : GroupOf(m)' = GroupOf(m)
  BY GrownFrames, PastStays
<1>2. \A m : m = New => GroupOf(m)' # GroupOf(n)
  <2>1. PICK g : g = IF f.type = "delta" THEN <<Key(f), Cardinality(Of(Boundary, Key(f)))>>
                     ELSE <<<<"frame", None>>, New>>
    OBVIOUS
  <2>2. \A m : m = New => GroupOf(m)' = g
    BY <2>1, NewGroup
  <2>3. /\ Key(f)[1] # "frame" /\ Key(frames[n])[1] # "frame"
    <3>1. protocol \in DOMAIN Event /\ frames[n] \in Event[protocol]
      BY DEF ShapeInv, StreamShape
    <3>2. f.kind \in {"text", "tool", "other"} /\ frames[n].kind \in {"text", "tool", "other"}
      BY <3>1, EventIs
    <3> QED BY <3>2 DEF Key
  <2>4. CASE frames[n].type # "delta"
    <3>1. GroupOf(n) = <<<<"frame", None>>, n>>
      BY <2>4 DEF GroupOf
    <3> QED BY <3>1, <2>1, <2>2, <2>3, <1>1
  <2>5. CASE frames[n].type = "delta"
    <3>1. GroupOf(n) = <<Key(frames[n]), Cardinality(Before(n, Boundary))>>
      BY <2>5 DEF GroupOf
    <3>2. CASE f.type # "delta" \/ Key(f) # Key(frames[n])
      BY <3>1, <3>2, <2>1, <2>2, <2>3
    <3>3. CASE n \notin Since(Key(frames[n])) /\ Key(f) = Key(frames[n]) /\ f.type = "delta"
      <4>1. PICK k \in Of(Boundary, Key(frames[n])) : ~(k < n)
        BY <3>3, <2>5 DEF Since, Of
      <4>2. n <= k
        BY <4>1, FramesDomain DEF Of
      <4>3. Cardinality(Before(n, Boundary)) # Cardinality(Of(Boundary, Key(frames[n])))
        BY <4>1, <4>2, CountMore, BeforeFinite
      <4> QED BY <4>3, <3>1, <3>3, <2>1, <2>2
    <3> QED BY <3>2, <3>3, <2>4, <2>5
  <2> QED BY <2>4, <2>5
<1>3. GroupOf(n)' = GroupOf(n)
  BY <1>1
<1>4. Members(n)' = {m \in DOMAIN frames' : GroupOf(m)' = GroupOf(n)'}
  BY DEF Members
<1> QED BY <1>1, <1>2, <1>3, <1>4 DEF Members

\* The deltas of a block that another follows, or of a text that is done.
LEMMA DeltasOfStay ==
  ASSUME ShapeInv, NEW f \in Event[protocol], Grows(f), NEW n \in DOMAIN frames,
         \/ f.type # "delta"
         \/ Key(f) # Key(frames[n])
         \/ /\ protocol = "messages" /\ frames[n].type = "start"
            /\ \E k \in Of("start", Key(frames[n])) : n < k
         \/ protocol = "responses" /\ frames[n].type = "done"
  PROVE  DeltasOf(n)' = DeltasOf(n)
<1> DEFINE c == IF protocol = "messages" THEN 1 ELSE 0
<1>1. /\ DOMAIN frames' = DOMAIN frames \cup {New} /\ New \notin DOMAIN frames
      /\ \A m \in DOMAIN frames : /\ GroupOf(m)' = GroupOf(m) /\ frames'[m] = frames[m]
                                  /\ Key(frames[m])' = Key(frames[m])
      /\ \A m : m = New => frames'[m] = f /\ Key(frames[m])' = Key(f)
      /\ Boundary' = Boundary /\ protocol' = protocol
  BY GrownFrames, PastStays, KeyGrows DEF Grows
<1>2. Before(n, Boundary)' = Before(n, Boundary)
  <2>1. PICK b : b = Boundary
    OBVIOUS
  <2>2. Before(n, Boundary)' = Before(n, b)'
    BY <2>1, <1>1
  <2>3. Before(n, b)' = Before(n, b)
    BY PastStays
  <2> QED BY <2>1, <2>2, <2>3
<1>3. ASSUME f.type = "delta", Key(f) = Key(frames[n])
      PROVE  \A m : m = New => GroupOf(m)'[2] # Cardinality(Before(n, Boundary)) + c
  <2>1. \A m : m = New => GroupOf(m)' = <<Key(f), Cardinality(Of(Boundary, Key(f)))>>
    BY <1>3, NewGroup
  <2>2. Cardinality(Of(Boundary, Key(f))) # Cardinality(Before(n, Boundary)) + c
    <3>1. CASE /\ protocol = "messages" /\ frames[n].type = "start"
               /\ \E k \in Of("start", Key(frames[n])) : n < k
      <4>1. PICK k \in Of("start", Key(frames[n])) : n < k
        BY <3>1
      <4>2. n <= k /\ n # k /\ Boundary = "start" /\ c = 1
        BY <3>1, <4>1, FramesDomain DEF Of, Boundary
      <4>3. Cardinality(Before(n, "start")) + 1 < Cardinality(Of("start", Key(frames[n])))
        BY <3>1, <4>1, <4>2, CountMore
      <4> QED BY <4>2, <4>3, <1>3, BeforeFinite
    <3>2. CASE protocol = "responses" /\ frames[n].type = "done"
      <4>1. n \in Of("done", Key(frames[n])) /\ n <= n /\ Boundary = "done" /\ c = 0
        BY <3>2, FramesDomain DEF Of, Boundary
      <4>2. Cardinality(Before(n, "done")) < Cardinality(Of("done", Key(frames[n])))
        BY <4>1, CountMore
      <4>3. Cardinality(Before(n, "done")) \in Nat
        BY BeforeFinite
      <4> QED BY <4>1, <4>2, <4>3, <1>3
    <3> QED BY <3>1, <3>2, <1>3
  <2> QED BY <2>1, <2>2
<1>4. DeltasOf(n)' =
        {m \in DOMAIN frames' :
           /\ frames'[m].type = "delta" /\ Key(frames[m])' = Key(frames[n])'
           /\ GroupOf(m)'[2] = Cardinality(Before(n, Boundary))' + c}
  BY <1>1 DEF DeltasOf
<1>5. DeltasOf(n) =
        {m \in DOMAIN frames :
           /\ frames[m].type = "delta" /\ Key(frames[m]) = Key(frames[n])
           /\ GroupOf(m)[2] = Cardinality(Before(n, Boundary)) + c}
  BY DEF DeltasOf
<1> HIDE DEF c
<1> QED BY <1>1, <1>2, <1>3, <1>4, <1>5

LEMMA WholeStays ==
  ASSUME ShapeInv, NEW f \in Event[protocol], Grows(f), NEW ns \in SUBSET DOMAIN frames
  PROVE  TextAt(frames', ns) = TextAt(frames, ns)
<1>1. /\ Len(frames) \in Nat /\ ns \in SUBSET (1..Len(frames))
      /\ \A n \in ns : frames[n].text = frames'[n].text
  BY GrownFrames
<1> QED BY <1>1, TextAgrees

LEMMA NewDone ==
  ASSUME ShapeInv, NEW f \in Event[protocol], Grows(f), protocol = "responses",
         f.type # "delta", NEW n, n = New
  PROVE  DeltasOf(n)' = Since(Key(f))
<1>1. /\ DOMAIN frames' = DOMAIN frames \cup {New} /\ New \notin DOMAIN frames
      /\ \A m \in DOMAIN frames : /\ GroupOf(m)' = GroupOf(m) /\ frames'[m] = frames[m]
                                  /\ Key(frames[m])' = Key(frames[m])
      /\ frames'[n] = f /\ Key(frames[n])' = Key(f)
      /\ Boundary' = "done" /\ protocol' = protocol /\ Boundary = "done"
  BY GrownFrames, PastStays, KeyGrows DEF Grows, Boundary
<1>2. Before(n, Boundary)' = Of("done", Key(f))
  <2>1. Before(n, Boundary)' = Before(n, "done")'
    BY <1>1
  <2> QED BY <2>1, NewPast
<1>3. DeltasOf(n)' =
        {m \in DOMAIN frames' :
           /\ frames'[m].type = "delta" /\ Key(frames[m])' = Key(f)
           /\ GroupOf(m)'[2] = Cardinality(Of("done", Key(f))) + 0}
  BY <1>1, <1>2 DEF DeltasOf
<1>4. DeltasOf(n)' = {m \in Of("delta", Key(f)) : GroupOf(m)[2] = Cardinality(Of("done", Key(f))) + 0}
  BY <1>1, <1>3 DEF Of
<1>5. ASSUME NEW m \in Of("delta", Key(f))
      PROVE  GroupOf(m)[2] = Cardinality(Of("done", Key(f))) + 0 <=> m \in Since(Key(f))
  <2>1. m \in DOMAIN frames /\ Key(frames[m]) = Key(f) /\ GroupOf(m)[2] = Cardinality(Before(m, "done"))
    BY <1>1 DEF Of, GroupOf
  <2>2. CASE m \in Since(Key(f))
    <3>1. Before(m, "done") = Of("done", Key(f))
      BY <2>1, <2>2, <1>1, BeforeIs DEF Since
    <3>2. Cardinality(Before(m, "done")) \in Nat
      BY <2>1, BeforeFinite
    <3> QED BY <3>1, <3>2, <2>1, <2>2
  <2>3. CASE m \notin Since(Key(f))
    <3>1. PICK k \in Of("done", Key(frames[m])) : ~(k < m)
      BY <2>1, <2>3, <1>1 DEF Since
    <3>2. m <= k
      BY <3>1, <2>1, FramesDomain DEF Of
    <3>3. /\ Cardinality(Before(m, "done")) < Cardinality(Of("done", Key(f)))
          /\ Cardinality(Of("done", Key(f))) \in Nat
      BY <3>1, <3>2, <2>1, CountMore
    <3>4. Cardinality(Before(m, "done")) \in Nat
      BY <2>1, BeforeFinite
    <3> QED BY <3>3, <3>4, <2>1, <2>3
  <2> QED BY <2>2, <2>3
<1>6. Since(Key(f)) \subseteq Of("delta", Key(f))
  BY DEF Since
<1> QED BY <1>4, <1>5, <1>6

-----------------------------------------------------------------------------
(***************************************************************************)
(* What is held back is what the frames say is open.                       *)
(***************************************************************************)
\* A block that has stopped has its whole text, and the text can be restored.
BlockOK(n) ==
    frames[n].kind # "other" =>
        /\ DeltasOf(n) # {}
        /\ Restored(frames[n].kind, Whole(DeltasOf(n))) # None

MessagesPast ==
    \A n \in DOMAIN frames :
        /\ frames[n].type = "start" => OpenAt(n) = {}
        /\ frames[n].type = "delta" =>
              OpenAt(n) # {} /\ TextKind(n) \in {"other", frames[n].kind}
        /\ frames[n].type = "stop" => OpenAt(n) # {}

MessagesStopped ==
    \A n \in DOMAIN frames :
        /\ frames[n].type = "start"
        /\ \E k \in Of("stop", Key(frames[n])) : n < k
        => BlockOK(n)

MessagesOpen ==
    \A key :
        /\ key \in DOMAIN pending <=> Open(key) # {}
        /\ \A o \in Open(key) :
             /\ \A k \in Of("start", key) : k <= o
             /\ pending[key].kind = frames[o].kind
             /\ Range(pending[key].at) = IF frames[o].kind = "other" THEN {} ELSE Since(key)

MessagesInv == MessagesPast /\ MessagesStopped /\ MessagesOpen

ResponsesPast ==
    \A n \in DOMAIN frames :
        frames[n].type = "done" =>
            /\ DeltasOf(n) # {} => Whole(DeltasOf(n)) = frames[n].text
            /\ Restored(frames[n].kind, frames[n].text) # None

ResponsesOpen ==
    \A key : /\ key \in DOMAIN pending <=> Since(key) # {}
             /\ key \in DOMAIN pending => Range(pending[key].at) = Since(key)

ResponsesInv == ResponsesPast /\ ResponsesOpen

OpenInv ==
    outcome = "open" =>
        /\ protocol = "messages" => MessagesInv
        /\ protocol = "responses" => ResponsesInv

-----------------------------------------------------------------------------
\* The block that is open is the one whose kind and deltas are held.
LEMMA OpenBlockIs ==
  ASSUME ShapeInv, MessagesInv, protocol = "messages", NEW key
  PROVE  /\ PendingKind(key) = None <=> Open(key) = {}
         /\ \A o \in Open(key) :
              /\ PendingKind(key) = frames[o].kind
              /\ DeltasOf(o) = Since(key)
              /\ Range(Held(key)) = IF PendingKind(key) = "other" THEN {} ELSE Since(key)
         /\ \A o, p \in Open(key) : o = p
<1>1. /\ key \in DOMAIN pending <=> Open(key) # {}
      /\ \A o \in Open(key) :
           /\ \A k \in Of("start", key) : k <= o
           /\ pending[key].kind = frames[o].kind
           /\ Range(pending[key].at) = IF frames[o].kind = "other" THEN {} ELSE Since(key)
  BY DEF MessagesInv, MessagesOpen
<1>2. ASSUME NEW o \in Open(key)
      PROVE  o \in Of("start", key) /\ o \in Nat /\ frames[o].kind \in {"text", "tool", "other"}
  <2>1. o \in Of("start", key) /\ o \in DOMAIN frames
    BY DEF Open, Of
  <2>2. protocol \in DOMAIN Event /\ frames[o] \in Event[protocol]
    BY <2>1 DEF ShapeInv, StreamShape
  <2> QED BY <2>1, <2>2, EventIs, FramesDomain
<1>3. \A o \in Open(key) : DeltasOf(o) = Since(key)
  BY <1>1, <1>2, DeltasOfLast
<1>4. \A o \in Open(key) : frames[o].kind # None
  BY <1>2, EventAssumption
<1>5. PendingKind(key) = None <=> Open(key) = {}
  BY <1>1, <1>4 DEF PendingKind
<1>6. \A o, p \in Open(key) : o = p
  BY <1>1, <1>2
<1>7. \A o \in Open(key) :
        /\ PendingKind(key) = frames[o].kind
        /\ Range(Held(key)) = IF PendingKind(key) = "other" THEN {} ELSE Since(key)
  BY <1>1 DEF PendingKind, Held
<1> QED BY <1>3, <1>5, <1>6, <1>7

\* The kind of the text that a delta of an open block is a part of.
LEMMA NewTextKind ==
  ASSUME ShapeInv, MessagesInv, protocol = "messages",
         NEW f \in Event[protocol], Grows(f), f.type = "delta", NEW n, n = New
  PROVE  /\ OpenAt(n)' = Open(Key(f))
         /\ Open(Key(f)) # {} => TextKind(n)' = PendingKind(Key(f))
<1>1. OpenAt(n)' = Open(Key(f))
  BY NewPast
<1>2. ASSUME Open(Key(f)) # {} PROVE TextKind(n)' = PendingKind(Key(f))
  <2> DEFINE o == CHOOSE m \in OpenAt(n) : TRUE
  <2>1. o' \in Open(Key(f))
    BY <1>1, <1>2
  <2>2. o' \in DOMAIN frames /\ frames'[o'] = frames[o']
    BY <2>1, GrownFrames DEF Open, Of
  <2>3. PendingKind(Key(f)) = frames[o'].kind
    BY <2>1, OpenBlockIs
  <2>4. frames'[n] = f /\ protocol' = "messages"
    BY GrownFrames DEF Grows
  <2>5. TextKind(n)' = frames'[o'].kind
    BY <1>1, <1>2, <2>4 DEF TextKind
  <2> QED BY <2>2, <2>3, <2>5
<1> QED BY <1>1, <1>2

\* The deltas that an open block, or an open text, holds make up its text.
LEMMA HeldText ==
  ASSUME ShapeInv, NEW key, Range(Held(key)) = Since(key)
  PROVE  Combined(Held(key)) = Whole(Since(key))
<1>1. /\ Held(key) \in Seq(Nat) /\ Increasing(Held(key))
      /\ \A n \in Range(Held(key)) : n \in DOMAIN out /\ out[n] = frames[n]
  BY HeldTyped
<1>2. Range(Held(key)) \subseteq 1..Len(frames) /\ Len(frames) \in Nat
  BY FramesDomain DEF Since, Of
<1>3. Flat(out, Held(key)) = TextAt(frames, Range(Held(key)))
  BY <1>1, <1>2, FlatIsText
<1> QED BY <1>3 DEF Combined, Whole

-----------------------------------------------------------------------------
(***************************************************************************)
(* What has been written: every frame as the provider sent it, except the  *)
(* texts that are complete.                                                *)
(***************************************************************************)
\* A delta that is still held back, or is not looked at.
Kept(n) ==
    \/ n \in Range(Held(Key(frames[n])))
    \/ protocol = "messages" /\ TextKind(n) = "other"

RestoredText(n) == Restored(TextKind(n), Whole(Members(n)))

WrittenDelta(n) ==
    IF Kept(n) THEN out[n] = frames[n]
    ELSE /\ RestoredText(n) # None
         /\ out[n].text = IF \A m \in Members(n) : n <= m THEN RestoredText(n) ELSE <<>>

OutInv ==
    outcome = "open" =>
        \A n \in DOMAIN frames :
            /\ frames[n].type # "malformed"
            /\ frames[n].type \notin {"delta", "done"} => out[n] = frames[n]
            /\ frames[n].type = "done" => out[n].text = Restored(frames[n].kind, frames[n].text)
            /\ frames[n].type = "delta" => WrittenDelta(n)

-----------------------------------------------------------------------------
LEMMA HeldWithNew ==
  ASSUME NEW s \in Seq(Nat), NEW n \in Nat
  PROVE  Range(Append(s, n)) = Range(s) \cup {n}
<1> DEFINE t == Append(s, n)
<1>1. /\ Len(s) \in Nat /\ DOMAIN s = 1..Len(s) /\ DOMAIN t = 1..(Len(s) + 1)
      /\ t[Len(s) + 1] = n /\ \A i \in 1..Len(s) : t[i] = s[i]
  OBVIOUS
<1>2. DOMAIN t = DOMAIN s \cup {Len(s) + 1}
  BY <1>1
<1> HIDE DEF t
<1>3. Range(t) = Range(s) \cup {n}
  BY <1>1, <1>2 DEF Range
<1> QED BY <1>3 DEF t

LEMMA BlockStays ==
  ASSUME ShapeInv, NEW f \in Event[protocol], Grows(f), NEW n \in DOMAIN frames,
         DeltasOf(n)' = DeltasOf(n), BlockOK(n)
  PROVE  BlockOK(n)'
<1>1. frames'[n] = frames[n]
  BY GrownFrames
<1>2. DeltasOf(n) \in SUBSET DOMAIN frames
  BY DEF DeltasOf
<1>3. Whole(DeltasOf(n))' = TextAt(frames', DeltasOf(n))
  BY DEF Whole
<1>4. Whole(DeltasOf(n))' = Whole(DeltasOf(n))
  BY <1>2, <1>3, WholeStays DEF Whole
<1> QED BY <1>1, <1>4 DEF BlockOK, Restored

LEMMA MessagesPastStep ==
  ASSUME ShapeInv, MessagesInv, protocol = "messages",
         NEW f \in Event[protocol], Grows(f),
         f.type = "start" => Open(Key(f)) = {},
         f.type = "delta" => Open(Key(f)) # {} /\ PendingKind(Key(f)) \in {"other", f.kind},
         f.type = "stop" => Open(Key(f)) # {}
  PROVE  MessagesPast'
<1> SUFFICES ASSUME NEW n \in DOMAIN frames'
             PROVE  /\ frames'[n].type = "start" => OpenAt(n)' = {}
                    /\ frames'[n].type = "delta" =>
                          OpenAt(n)' # {} /\ TextKind(n)' \in {"other", frames'[n].kind}
                    /\ frames'[n].type = "stop" => OpenAt(n)' # {}
  BY DEF MessagesPast
<1>1. CASE n \in DOMAIN frames
  <2>1. frames'[n] = frames[n] /\ OpenAt(n)' = OpenAt(n) /\ TextKind(n)' = TextKind(n)
    BY <1>1, GrownFrames, PastStays
  <2> QED BY <1>1, <2>1 DEF MessagesInv, MessagesPast
<1>2. CASE n = New
  <2>1. frames'[n] = f /\ OpenAt(n)' = Open(Key(f))
    BY <1>2, GrownFrames, NewPast
  <2>2. f.type = "delta" => TextKind(n)' = PendingKind(Key(f))
    BY <1>2, NewTextKind
  <2> QED BY <2>1, <2>2
<1> QED BY <1>1, <1>2, GrownFrames

LEMMA MessagesStoppedStep ==
  ASSUME ShapeInv, MessagesInv, protocol = "messages",
         NEW f \in Event[protocol], Grows(f),
         f.type = "delta" => Open(Key(f)) # {},
         f.type = "stop" => \A o \in Open(Key(f)) : BlockOK(o)
  PROVE  MessagesStopped'
<1> SUFFICES ASSUME NEW n \in DOMAIN frames', frames'[n].type = "start",
                    NEW k \in Of("stop", Key(frames[n]))', n < k
             PROVE  BlockOK(n)'
  BY DEF MessagesStopped
<1>1. /\ k \in DOMAIN frames' /\ frames'[k].type = "stop" /\ Key(frames[k])' = Key(frames[n])'
      /\ New \in Nat
      /\ \A m \in DOMAIN frames' : m \in Nat /\ m <= New
  <2>1. k \in DOMAIN frames' /\ frames'[k].type = "stop" /\ Key(frames[k])' = Key(frames[n])'
    BY DEF Of
  <2> QED BY <2>1, GrownFrames, FramesDomain
<1>2. n \in DOMAIN frames
  BY <1>1, GrownFrames
<1>3. frames'[n] = frames[n] /\ Key(frames[n])' = Key(frames[n])
  BY <1>2, GrownFrames, KeyGrows
<1>4. CASE f.type # "delta" \/ Key(f) # Key(frames[n])
  <2>1. BlockOK(n)
    <3>1. CASE k \in DOMAIN frames
      <4>1. k \in Of("stop", Key(frames[n]))
        BY <3>1, <1>1, <1>3, GrownFrames, KeyGrows DEF Of
      <4> QED BY <4>1, <1>2, <1>3 DEF MessagesInv, MessagesStopped
    <3>2. CASE k = New /\ \E m \in Of("stop", Key(frames[n])) : n < m
      BY <3>2, <1>2, <1>3 DEF MessagesInv, MessagesStopped
    <3>3. CASE k = New /\ ~\E m \in Of("stop", Key(frames[n])) : n < m
      <4>1. f.type = "stop" /\ Key(f) = Key(frames[n])
        BY <3>3, <1>1, <1>3, GrownFrames, KeyGrows
      <4>2. \A m \in Of("stop", Key(frames[n])) : m < n
        <5> TAKE m \in Of("stop", Key(frames[n]))
        <5>1. m # n /\ m \in Nat /\ n \in Nat
          BY <1>2, <1>3, FramesDomain DEF Of
        <5> QED BY <5>1, <3>3
      <4>3. n \in Open(Key(f))
        BY <4>1, <4>2, <1>2, <1>3 DEF Open, Of
      <4> QED BY <4>1, <4>3
    <3> QED BY <3>1, <3>2, <3>3, <1>1, GrownFrames
  <2> QED BY <2>1, <1>2, <1>4, DeltasOfStay, BlockStays
<1>5. CASE f.type = "delta" /\ Key(f) = Key(frames[n])
  <2>1. k # New /\ k \in DOMAIN frames
    BY <1>1, <1>5, GrownFrames
  <2>2. k \in Of("stop", Key(frames[n]))
    BY <2>1, <1>1, <1>3, GrownFrames, KeyGrows DEF Of
  <2>3. BlockOK(n)
    BY <2>2, <1>2, <1>3 DEF MessagesInv, MessagesStopped
  <2>4. PICK o \in Open(Key(f)) : TRUE
    BY <1>5
  <2>5. o \in Of("start", Key(frames[n])) /\ k < o /\ n < o
    <3>1. o \in Of("start", Key(frames[n])) /\ k < o
      BY <2>2, <2>4, <1>5 DEF Open
    <3> QED BY <3>1, <2>1, <1>2, FramesDomain DEF Of
  <2>6. DeltasOf(n)' = DeltasOf(n)
    BY <2>5, <1>2, <1>3, DeltasOfStay
  <2> QED BY <2>3, <2>6, <1>2, BlockStays
<1> QED BY <1>4, <1>5

\* The other keys, and every key if the frame belongs to no text.
LEMMA MessagesOpenElsewhere ==
  ASSUME ShapeInv, MessagesInv, protocol = "messages",
         NEW f \in Event[protocol], Grows(f), NEW key,
         key = Key(f) => f.type \notin {"start", "delta", "stop"},
         key \in DOMAIN pending' <=> key \in DOMAIN pending,
         key \in DOMAIN pending => pending'[key] = pending[key]
  PROVE  /\ key \in DOMAIN pending' <=> Open(key)' # {}
         /\ \A o \in Open(key)' :
              /\ \A k \in Of("start", key)' : k <= o
              /\ pending'[key].kind = frames'[o].kind
              /\ Range(pending'[key].at) =
                   IF frames'[o].kind = "other" THEN {} ELSE Since(key)'
<1>1. Boundary = "start"
  BY DEF Boundary
<1>2. Open(key)' = Open(key) /\ Since(key)' = Since(key)
      /\ Of("start", key)' = Of("start", key)
  BY <1>1, OpenGrows, SinceGrows, OfGrows
<1>3. \A o \in Open(key) : frames'[o] = frames[o]
  BY GrownFrames DEF Open, Of
<1>4. /\ key \in DOMAIN pending <=> Open(key) # {}
      /\ \A o \in Open(key) :
           /\ \A k \in Of("start", key) : k <= o
           /\ pending[key].kind = frames[o].kind
           /\ Range(pending[key].at) = IF frames[o].kind = "other" THEN {} ELSE Since(key)
  BY DEF MessagesInv, MessagesOpen
<1> QED BY <1>2, <1>3, <1>4

LEMMA OpenBlockOpen ==
  ASSUME ShapeInv, MessagesInv, protocol = "messages",
         NEW f \in Event[protocol], OpenBlock(f)
  PROVE  MessagesInv'
<1>1. Grows(f) /\ f.type = "start" /\ Key(f) \notin DOMAIN pending
  BY TakeGrows DEF OpenBlock, BadStart
<1>2. Open(Key(f)) = {}
  BY <1>1 DEF MessagesInv, MessagesOpen
<1>3. /\ DOMAIN pending' = DOMAIN pending \cup {Key(f)}
      /\ \A key \in DOMAIN pending \ {Key(f)} : pending'[key] = pending[key]
      /\ pending'[Key(f)].at = <<>> /\ pending'[Key(f)].kind = f.kind
  BY DEF OpenBlock, Hold
<1>4. MessagesPast' /\ MessagesStopped'
  BY <1>1, <1>2, MessagesPastStep, MessagesStoppedStep
<1>5. ASSUME NEW key
      PROVE  /\ key \in DOMAIN pending' <=> Open(key)' # {}
             /\ \A o \in Open(key)' :
                  /\ \A k \in Of("start", key)' : k <= o
                  /\ pending'[key].kind = frames'[o].kind
                  /\ Range(pending'[key].at) =
                       IF frames'[o].kind = "other" THEN {} ELSE Since(key)'
  <2>1. CASE key # Key(f)
    BY <2>1, <1>1, <1>3, MessagesOpenElsewhere
  <2>2. CASE key = Key(f)
    <3>1. Boundary = "start"
      BY DEF Boundary
    <3>2. /\ Open(key)' = {New} /\ Since(key)' = {}
          /\ Of("start", key)' = Of("start", key) \cup {New}
      BY <3>1, <2>2, <1>1, <1>2, OpenGrows, SinceGrows, OfGrows
    <3>3. \A k \in Of("start", key)' : k <= New
      BY <3>2, <1>1, GrownFrames DEF Of
    <3>4. frames'[New] = f /\ Range(<<>>) = {}
      BY <1>1, GrownFrames DEF Range
    <3> QED BY <3>2, <3>3, <3>4, <2>2, <1>3
  <2> QED BY <2>1, <2>2
<1>6. MessagesOpen'
  BY <1>5 DEF MessagesOpen
<1> QED BY <1>4, <1>6 DEF MessagesInv

LEMMA BlockDeltaOpen ==
  ASSUME ShapeInv, MessagesInv, protocol = "messages",
         NEW f \in Event[protocol], BlockDelta(f)
  PROVE  MessagesInv'
<1>1. Grows(f) /\ f.type = "delta" /\ PendingKind(Key(f)) \in {"other", f.kind}
  BY TakeGrows DEF BlockDelta, BadBlockDelta
<1>2. f.kind # None /\ "other" # None
  <2>1. f.kind \in {"text", "tool", "other"}
    BY EventIs DEF ShapeInv, StreamShape
  <2> QED BY <2>1, EventAssumption
<1>3. Open(Key(f)) # {}
  BY <1>1, <1>2, OpenBlockIs
<1>4. PICK o \in Open(Key(f)) : TRUE
  BY <1>3
<1>5. /\ Key(f) \in DOMAIN pending
      /\ \A k \in Of("start", Key(f)) : k <= o
      /\ pending[Key(f)].kind = frames[o].kind
      /\ Range(pending[Key(f)].at) = IF frames[o].kind = "other" THEN {} ELSE Since(Key(f))
      /\ Open(Key(f)) = {o} /\ frames'[o] = frames[o]
      /\ PendingKind(Key(f)) = frames[o].kind
      /\ Held(Key(f)) = pending[Key(f)].at
  <2>1. o \in DOMAIN frames
    BY DEF Open, Of
  <2> QED BY <2>1, <1>1, <1>4, OpenBlockIs, GrownFrames DEF MessagesInv, MessagesOpen, Held
<1>6. MessagesPast' /\ MessagesStopped'
  BY <1>1, <1>3, MessagesPastStep, MessagesStoppedStep
<1>7. Boundary = "start"
  BY DEF Boundary
<1>8. ASSUME NEW key, key = Key(f)
      PROVE  /\ Open(key)' = Open(key) /\ Since(key)' = Since(key) \cup {New}
             /\ Of("start", key)' = Of("start", key)
  BY <1>1, <1>7, <1>8, OpenGrows, SinceGrows, OfGrows
<1>9. CASE PendingKind(Key(f)) = "other"
  <2>1. pending' = pending
    BY <1>9 DEF BlockDelta
  <2>2. ASSUME NEW key
        PROVE  /\ key \in DOMAIN pending' <=> Open(key)' # {}
               /\ \A p \in Open(key)' :
                    /\ \A k \in Of("start", key)' : k <= p
                    /\ pending'[key].kind = frames'[p].kind
                    /\ Range(pending'[key].at) =
                         IF frames'[p].kind = "other" THEN {} ELSE Since(key)'
    <3>1. CASE key # Key(f)
      BY <3>1, <2>1, <1>1, MessagesOpenElsewhere
    <3>2. CASE key = Key(f)
      BY <3>2, <2>1, <1>5, <1>8, <1>9
    <3> QED BY <3>1, <3>2
  <2>3. MessagesOpen'
    BY <2>2 DEF MessagesOpen
  <2> QED BY <2>3, <1>6 DEF MessagesInv
<1>10. CASE PendingKind(Key(f)) # "other"
  <2>1. Len(out) + 1 = New /\ New \in Nat
    BY <1>1, GrownFrames DEF New
  <2>2. /\ DOMAIN pending' = DOMAIN pending \cup {Key(f)}
        /\ \A key \in DOMAIN pending \ {Key(f)} : pending'[key] = pending[key]
        /\ pending'[Key(f)].at = Append(Held(Key(f)), New)
        /\ pending'[Key(f)].kind = f.kind
    BY <1>10, <2>1 DEF BlockDelta, Hold
  <2>3. Range(pending'[Key(f)].at) = Range(Held(Key(f))) \cup {New}
    BY <2>1, <2>2, HeldTyped, HeldWithNew
  <2>4. ASSUME NEW key
        PROVE  /\ key \in DOMAIN pending' <=> Open(key)' # {}
               /\ \A p \in Open(key)' :
                    /\ \A k \in Of("start", key)' : k <= p
                    /\ pending'[key].kind = frames'[p].kind
                    /\ Range(pending'[key].at) =
                         IF frames'[p].kind = "other" THEN {} ELSE Since(key)'
    <3>1. CASE key # Key(f)
      BY <3>1, <2>2, <1>1, MessagesOpenElsewhere
    <3>2. CASE key = Key(f)
      BY <3>2, <2>2, <2>3, <1>1, <1>5, <1>8, <1>10
    <3> QED BY <3>1, <3>2
  <2>5. MessagesOpen'
    BY <2>4 DEF MessagesOpen
  <2> QED BY <2>5, <1>6 DEF MessagesInv
<1> QED BY <1>9, <1>10

\* What the restoration of a block that stops tells of it.
LEMMA StoppedBlockOK ==
  ASSUME ShapeInv, MessagesInv, protocol = "messages",
         NEW f \in Event[protocol], f.type = "stop", ~BadStop(f), NEW o \in Open(Key(f))
  PROVE  BlockOK(o)
<1> SUFFICES ASSUME frames[o].kind # "other"
             PROVE  /\ DeltasOf(o) # {}
                    /\ Restored(frames[o].kind, Whole(DeltasOf(o))) # None
  BY DEF BlockOK
<1>1. /\ PendingKind(Key(f)) = frames[o].kind
      /\ DeltasOf(o) = Since(Key(f))
      /\ Range(Held(Key(f))) = IF PendingKind(Key(f)) = "other" THEN {} ELSE Since(Key(f))
  BY OpenBlockIs
<1>2. /\ Held(Key(f)) # <<>>
      /\ Restored(frames[o].kind, Combined(Held(Key(f)))) # None
  BY <1>1 DEF BadStop
<1>3. Range(Held(Key(f))) # {}
  <2>1. Held(Key(f)) \in Seq(Nat)
    BY HeldTyped
  <2>2. Held(Key(f))[1] \in Range(Held(Key(f)))
    BY <2>1, <1>2 DEF Range
  <2> QED BY <2>2
<1>4. Combined(Held(Key(f))) = Whole(Since(Key(f)))
  BY <1>1, HeldText
<1> QED BY <1>1, <1>2, <1>3, <1>4

LEMMA StopBlockOpen ==
  ASSUME ShapeInv, MessagesInv, protocol = "messages",
         NEW f \in Event[protocol], StopBlock(f)
  PROVE  MessagesInv'
<1>1. Grows(f) /\ f.type = "stop" /\ ~BadStop(f)
  BY TakeGrows DEF StopBlock
<1>2. Open(Key(f)) # {}
  BY <1>1, OpenBlockIs DEF BadStop
<1>3. /\ DOMAIN pending' = DOMAIN pending \ {Key(f)}
      /\ \A key \in DOMAIN pending \ {Key(f)} : pending'[key] = pending[key]
  BY DEF StopBlock, Release
<1>4. MessagesPast' /\ MessagesStopped'
  BY <1>1, <1>2, StoppedBlockOK, MessagesPastStep, MessagesStoppedStep
<1>5. ASSUME NEW key
      PROVE  /\ key \in DOMAIN pending' <=> Open(key)' # {}
             /\ \A o \in Open(key)' :
                  /\ \A k \in Of("start", key)' : k <= o
                  /\ pending'[key].kind = frames'[o].kind
                  /\ Range(pending'[key].at) =
                       IF frames'[o].kind = "other" THEN {} ELSE Since(key)'
  <2>1. CASE key # Key(f)
    BY <2>1, <1>1, <1>3, MessagesOpenElsewhere
  <2>2. CASE key = Key(f)
    <3>1. Open(key)' = {}
      BY <2>2, <1>1, OpenGrows
    <3> QED BY <3>1, <2>2, <1>3
  <2> QED BY <2>1, <2>2
<1>6. MessagesOpen'
  BY <1>5 DEF MessagesOpen
<1> QED BY <1>4, <1>6 DEF MessagesInv

LEMMA PassOpen ==
  ASSUME ShapeInv, MessagesInv, protocol = "messages",
         NEW f \in Event[protocol], Pass(f)
  PROVE  MessagesInv'
<1>1. Grows(f) /\ f.type \in {"direct", "opaque"} /\ pending' = pending
  BY TakeGrows DEF Pass
<1>2. MessagesPast' /\ MessagesStopped'
  BY <1>1, MessagesPastStep, MessagesStoppedStep
<1>3. ASSUME NEW key
      PROVE  /\ key \in DOMAIN pending' <=> Open(key)' # {}
             /\ \A o \in Open(key)' :
                  /\ \A k \in Of("start", key)' : k <= o
                  /\ pending'[key].kind = frames'[o].kind
                  /\ Range(pending'[key].at) =
                       IF frames'[o].kind = "other" THEN {} ELSE Since(key)'
  BY <1>1, MessagesOpenElsewhere
<1>4. MessagesOpen'
  BY <1>3 DEF MessagesOpen
<1> QED BY <1>2, <1>4 DEF MessagesInv

-----------------------------------------------------------------------------
LEMMA HeldIsSince ==
  ASSUME ResponsesInv, NEW key
  PROVE  Range(Held(key)) = Since(key) /\ (Held(key) = <<>> => Since(key) = {})
<1>1. CASE key \in DOMAIN pending
  BY <1>1 DEF ResponsesInv, ResponsesOpen, Held, Range
<1>2. CASE key \notin DOMAIN pending
  BY <1>2 DEF ResponsesInv, ResponsesOpen, Held, Range
<1> QED BY <1>1, <1>2

LEMMA ResponsesPastStep ==
  ASSUME ShapeInv, ResponsesInv, protocol = "responses",
         NEW f \in Event[protocol], Grows(f),
         f.type = "done" =>
            /\ Since(Key(f)) # {} => Whole(Since(Key(f))) = f.text
            /\ Restored(f.kind, f.text) # None
  PROVE  ResponsesPast'
<1> SUFFICES ASSUME NEW n \in DOMAIN frames', frames'[n].type = "done"
             PROVE  /\ DeltasOf(n)' # {} => Whole(DeltasOf(n))' = frames'[n].text
                    /\ Restored(frames'[n].kind, frames'[n].text) # None
  BY DEF ResponsesPast, Restored
<1>1. \A ns : Whole(ns)' = TextAt(frames', ns)
  BY DEF Whole
<1>11. Whole(DeltasOf(n))' = TextAt(frames', DeltasOf(n)')
  BY DEF Whole
<1>2. CASE n \in DOMAIN frames
  <2>1. frames'[n] = frames[n]
    BY <1>2, GrownFrames
  <2>2. DeltasOf(n)' = DeltasOf(n) /\ DeltasOf(n) \in SUBSET DOMAIN frames
    BY <2>1, <1>2, DeltasOfStay DEF DeltasOf
  <2>3. Whole(DeltasOf(n))' = Whole(DeltasOf(n))
    BY <2>2, <1>11, WholeStays DEF Whole
  <2> QED BY <2>1, <2>2, <2>3, <1>2 DEF ResponsesInv, ResponsesPast
<1>3. CASE n = New
  <2>1. frames'[n] = f
    BY <1>3, GrownFrames
  <2>2. DeltasOf(n)' = Since(Key(f))
    BY <2>1, <1>3, NewDone
  <2>3. Since(Key(f)) \in SUBSET DOMAIN frames
    BY DEF Since, Of
  <2>4. Whole(DeltasOf(n))' = Whole(Since(Key(f)))
    BY <2>2, <2>3, <1>11, WholeStays DEF Whole
  <2> QED BY <2>1, <2>2, <2>4
<1> QED BY <1>2, <1>3, GrownFrames

LEMMA GroupDeltaOpen ==
  ASSUME ShapeInv, ResponsesInv, protocol = "responses",
         NEW f \in Event[protocol], GroupDelta(f)
  PROVE  ResponsesInv'
<1>1. Grows(f) /\ f.type = "delta" /\ Boundary = "done"
  BY TakeGrows DEF GroupDelta, Boundary
<1>2. ResponsesPast'
  BY <1>1, ResponsesPastStep
<1>3. Len(out) + 1 = New /\ New \in Nat
  BY <1>1, GrownFrames DEF New
<1>4. /\ DOMAIN pending' = DOMAIN pending \cup {Key(f)}
      /\ \A key \in DOMAIN pending \ {Key(f)} : pending'[key] = pending[key]
      /\ pending'[Key(f)].at = Append(Held(Key(f)), New)
  BY <1>3 DEF GroupDelta, Hold
<1>5. Range(pending'[Key(f)].at) = Range(Held(Key(f))) \cup {New}
  BY <1>3, <1>4, HeldTyped, HeldWithNew
<1>6. ASSUME NEW key
      PROVE  /\ key \in DOMAIN pending' <=> Since(key)' # {}
             /\ key \in DOMAIN pending' => Range(pending'[key].at) = Since(key)'
  <2>1. Since(key)' = IF Key(f) # key THEN Since(key) ELSE Since(key) \cup {New}
    BY <1>1, SinceGrows
  <2>2. CASE key # Key(f)
    BY <2>1, <2>2, <1>4 DEF ResponsesInv, ResponsesOpen
  <2>3. CASE key = Key(f)
    BY <2>1, <2>3, <1>4, <1>5, HeldIsSince
  <2> QED BY <2>2, <2>3
<1>7. ResponsesOpen'
  BY <1>6 DEF ResponsesOpen
<1> QED BY <1>2, <1>7 DEF ResponsesInv

\* What the restoration of a text that is done tells of it.
LEMMA DoneTextOK ==
  ASSUME ShapeInv, ResponsesInv, protocol = "responses",
         NEW f \in Event[protocol], f.type = "done", ~BadDone(f)
  PROVE  /\ Since(Key(f)) # {} => Whole(Since(Key(f))) = f.text
         /\ Restored(f.kind, f.text) # None
<1>1. /\ Range(Held(Key(f))) = Since(Key(f))
      /\ Held(Key(f)) = <<>> => Since(Key(f)) = {}
  BY HeldIsSince
<1>2. Combined(Held(Key(f))) = Whole(Since(Key(f)))
  BY <1>1, HeldText
<1> QED BY <1>1, <1>2 DEF BadDone

LEMMA DoneOpen ==
  ASSUME ShapeInv, ResponsesInv, protocol = "responses",
         NEW f \in Event[protocol], Done(f)
  PROVE  ResponsesInv'
<1>1. Grows(f) /\ f.type = "done" /\ Boundary = "done" /\ ~BadDone(f)
  BY TakeGrows DEF Done, Boundary
<1>2. ResponsesPast'
  BY <1>1, DoneTextOK, ResponsesPastStep
<1>3. /\ DOMAIN pending' = DOMAIN pending \ {Key(f)}
      /\ \A key \in DOMAIN pending \ {Key(f)} : pending'[key] = pending[key]
  BY DEF Done, Release
<1>4. ASSUME NEW key
      PROVE  /\ key \in DOMAIN pending' <=> Since(key)' # {}
             /\ key \in DOMAIN pending' => Range(pending'[key].at) = Since(key)'
  <2>1. Since(key)' = IF Key(f) # key THEN Since(key) ELSE {}
    BY <1>1, SinceGrows
  <2>2. CASE key # Key(f)
    BY <2>1, <2>2, <1>3 DEF ResponsesInv, ResponsesOpen
  <2>3. CASE key = Key(f)
    BY <2>1, <2>3, <1>3
  <2> QED BY <2>2, <2>3
<1>5. ResponsesOpen'
  BY <1>4 DEF ResponsesOpen
<1> QED BY <1>2, <1>5 DEF ResponsesInv

LEMMA PassResponses ==
  ASSUME ShapeInv, ResponsesInv, protocol = "responses",
         NEW f \in Event[protocol], Pass(f)
  PROVE  ResponsesInv'
<1>1. Grows(f) /\ f.type \in {"direct", "opaque"} /\ pending' = pending /\ Boundary = "done"
  BY TakeGrows DEF Pass, Boundary
<1>2. ResponsesPast'
  BY <1>1, ResponsesPastStep
<1>3. ASSUME NEW key PROVE Since(key)' = Since(key)
  BY <1>1, SinceGrows
<1>4. ResponsesOpen'
  BY <1>1, <1>3 DEF ResponsesInv, ResponsesOpen
<1> QED BY <1>2, <1>4 DEF ResponsesInv

-----------------------------------------------------------------------------
LEMMA OpenInit == Init => OpenInv
<1> SUFFICES ASSUME Init PROVE OpenInv
  OBVIOUS
<1>1. frames = <<>> /\ pending = <<>> /\ DOMAIN frames = {} /\ DOMAIN pending = {}
  BY DEF Init
<1>2. \A type, key : Of(type, key) = {}
  BY <1>1 DEF Of
<1> QED BY <1>1, <1>2 DEF OpenInv, MessagesInv, MessagesPast, MessagesStopped, MessagesOpen,
                          ResponsesInv, ResponsesPast, ResponsesOpen, Open, Since

LEMMA OpenStep ==
  ASSUME ShapeInv, OpenInv, [Next]_vars
  PROVE  OpenInv'
<1>0. protocol \in {"messages", "responses"} /\ protocol \in DOMAIN Event
  BY EventAssumption DEF ShapeInv, StreamShape
<1>1. ASSUME NEW f \in Event[protocol],
             \/ OpenBlock(f) \/ BlockDelta(f) \/ StopBlock(f)
             \/ GroupDelta(f) \/ Done(f) \/ Pass(f)
      PROVE  OpenInv'
  <2>1. outcome = "open" /\ protocol' = protocol
    BY <1>1, TakeGrows DEF OpenBlock, BlockDelta, StopBlock, GroupDelta, Done, Pass, Take
  <2>2. f.type \notin (IF protocol = "messages" THEN {"done"} ELSE {"start", "stop"})
    BY <1>0, EventIs
  <2>3. CASE protocol = "messages"
    <3>1. MessagesInv
      BY <2>1, <2>3 DEF OpenInv
    <3>2. MessagesInv'
      BY <1>1, <2>2, <2>3, <3>1, OpenBlockOpen, BlockDeltaOpen, StopBlockOpen, PassOpen
         DEF GroupDelta, Done
    <3> QED BY <3>2, <2>1, <2>3 DEF OpenInv
  <2>4. CASE protocol = "responses"
    <3>1. ResponsesInv
      BY <2>1, <2>4 DEF OpenInv
    <3>2. ResponsesInv'
      BY <1>1, <2>2, <2>4, <3>1, GroupDeltaOpen, DoneOpen, PassResponses
         DEF OpenBlock, BlockDelta, StopBlock
    <3> QED BY <3>2, <2>1, <2>4 DEF OpenInv
  <2> QED BY <2>3, <2>4, <1>0
<1>2. ASSUME NEW f \in Event[protocol], Refuse(f)
      PROVE  OpenInv'
  BY <1>2 DEF Refuse, OpenInv
<1>3. CASE EndStream
  BY <1>3 DEF EndStream, OpenInv
<1>4. CASE UNCHANGED vars
  <2>1. /\ frames' = frames /\ protocol' = protocol /\ pending' = pending /\ outcome' = outcome
    BY <1>4 DEF vars
  <2>2. \A n : Key(frames[n])' = Key(frames[n])
    BY <2>1 DEF Key
  <2>3. \A type, key : Of(type, key)' = Of(type, key)
    BY <2>1, <2>2 DEF Of
  <2>4. \A n, type : Before(n, type)' = Before(n, type)
    BY <2>1, <2>2 DEF Before
  <2>5. Boundary' = Boundary
    BY <2>1 DEF Boundary
  <2>6. \A key : Open(key)' = Open(key) /\ Since(key)' = Since(key)
    BY <2>3, <2>5 DEF Open, Since
  <2>7. \A n : OpenAt(n)' = OpenAt(n) /\ GroupOf(n)' = GroupOf(n)
    BY <2>1, <2>2, <2>4, <2>5 DEF OpenAt, GroupOf
  <2>8. ASSUME NEW n PROVE TextKind(n)' = TextKind(n) /\ DeltasOf(n)' = DeltasOf(n)
    <3>1. TextKind(n)' = TextKind(n)
      BY <2>1 DEF TextKind, OpenAt, Before, Key
    <3>2. DeltasOf(n)' = DeltasOf(n)
      BY <2>1 DEF DeltasOf, GroupOf, Before, Boundary, Key
    <3> QED BY <3>1, <3>2
  <2>9. \A ns : Whole(ns)' = Whole(ns)
    BY <2>1 DEF Whole
  <2>10. \A n : BlockOK(n)' = BlockOK(n) /\ Whole(DeltasOf(n))' = Whole(DeltasOf(n))
    BY <2>1, <2>8, <2>9 DEF BlockOK, Restored, Whole
  <2>11. MessagesInv' = MessagesInv
    BY <2>1, <2>2, <2>3, <2>6, <2>7, <2>8, <2>10
       DEF MessagesInv, MessagesPast, MessagesStopped, MessagesOpen
  <2>12. ResponsesInv' = ResponsesInv
    BY <2>1, <2>6, <2>8, <2>10 DEF ResponsesInv, ResponsesPast, ResponsesOpen, Restored
  <2> QED BY <2>1, <2>11, <2>12 DEF OpenInv
<1> QED BY <1>1, <1>2, <1>3, <1>4 DEF Next

\* What is held back of a key are the deltas of its text that is not complete,
\* and the events before it were complete and in their order: a block has its
\* whole text when it stops, a done event repeats the deltas before it.
THEOREM OpenInvariant == Spec => [](ShapeInv /\ OpenInv)
<1> DEFINE Inv == ShapeInv /\ OpenInv
<1>1. Init => Inv
  BY ShapeInit, OpenInit
<1>2. Inv /\ [Next]_vars => Inv'
  BY ShapeStep, OpenStep
<1> QED BY <1>1, <1>2, PTL DEF Spec

-----------------------------------------------------------------------------
LEMMA HeldGrows ==
  ASSUME NEW key
  PROVE  Held(key)' = IF key \in DOMAIN pending' THEN pending'[key].at ELSE <<>>
BY DEF Held

LEMMA RestoredStays ==
  ASSUME ShapeInv, NEW f \in Event[protocol], Grows(f), NEW n \in DOMAIN frames,
         Members(n)' = Members(n)
  PROVE  RestoredText(n)' = RestoredText(n)
<1>1. TextKind(n)' = TextKind(n)
  BY PastStays
<1>2. Members(n) \in SUBSET DOMAIN frames
  BY DEF Members
<1>3. Whole(Members(n))' = TextAt(frames', Members(n))
  BY DEF Whole
<1>4. Whole(Members(n))' = Whole(Members(n))
  BY <1>2, <1>3, WholeStays DEF Whole
<1> QED BY <1>1, <1>4 DEF RestoredText, Restored

LEMMA WrittenStays ==
  ASSUME ShapeInv, NEW f \in Event[protocol], Grows(f), NEW n \in DOMAIN frames,
         WrittenDelta(n), out'[n] = out[n],
         n \in Range(Held(Key(frames[n])))' <=> n \in Range(Held(Key(frames[n]))),
         ~Kept(n) => Members(n)' = Members(n)
  PROVE  WrittenDelta(n)'
<1>1. /\ frames'[n] = frames[n] /\ TextKind(n)' = TextKind(n) /\ protocol' = protocol
  BY GrownFrames, PastStays DEF Grows
<1>2. Kept(n)' <=> Kept(n)
  BY <1>1 DEF Kept
<1>3. CASE Kept(n)
  BY <1>1, <1>2, <1>3 DEF WrittenDelta
<1>4. CASE ~Kept(n)
  <2>1. RestoredText(n)' = RestoredText(n) /\ Members(n)' = Members(n)
    BY <1>4, RestoredStays
  <2> QED BY <2>1, <1>2, <1>4 DEF WrittenDelta
<1> QED BY <1>3, <1>4

\* A delta of the block that is open, or of the text that is, is held back or
\* not looked at.
LEMMA SinceKept ==
  ASSUME ShapeInv, OpenInv, outcome = "open", NEW key, NEW n \in Since(key),
         protocol = "messages" => Open(key) # {}
  PROVE  /\ Kept(n)
         /\ protocol = "messages" => TextKind(n) = PendingKind(key)
<1>0. protocol \in {"messages", "responses"}
  BY EventAssumption DEF ShapeInv, StreamShape
<1>1. n \in DOMAIN frames /\ frames[n].type = "delta" /\ Key(frames[n]) = key
  BY DEF Since, Of
<1>2. CASE protocol = "responses"
  <2>1. ResponsesInv
    BY <1>2 DEF OpenInv
  <2> QED BY <2>1, <1>1, <1>2, HeldIsSince DEF Kept
<1>3. CASE protocol = "messages"
  <2>1. MessagesInv /\ Boundary = "start"
    BY <1>3 DEF OpenInv, Boundary
  <2>2. PICK o \in Open(key) : TRUE
    BY <1>3
  <2>3. /\ o \in Of("start", key) /\ o \in DOMAIN frames /\ o < n
        /\ \A k \in Of("start", key) : k <= o
        /\ \A k \in Of("stop", key) : k < o
        /\ frames[o].type = "start" /\ Key(frames[o]) = key
    BY <2>1, <2>2 DEF Open, Since, Of, MessagesInv, MessagesOpen
  <2>4. OpenAt(o) = {}
    BY <2>1, <2>3 DEF MessagesInv, MessagesPast
  <2>5. /\ Before(n, "start") = {k \in Of("start", key) : k < n}
        /\ Before(n, "stop") = {k \in Of("stop", key) : k < n}
        /\ Before(o, "start") = {k \in Of("start", key) : k < o}
        /\ Before(o, "stop") = {k \in Of("stop", key) : k < o}
    BY <1>1, <2>3, BeforeIs
  <2>6. n \in Nat /\ o \in Nat /\ \A type : Of(type, key) \subseteq Nat
    BY <1>1, <2>3, FramesDomain DEF Of
  <2>7. o \in OpenAt(n)
    BY <2>3, <2>5, <2>6 DEF OpenAt
  <2>8. ASSUME NEW m \in OpenAt(n), m # o PROVE FALSE
    <3>1. m \in Of("start", key) /\ m < n /\ \A k \in Before(n, "stop") : k < m
      BY <2>5 DEF OpenAt
    <3>2. m < o
      BY <3>1, <2>3, <2>6, <2>8
    <3>3. \A k \in Before(o, "stop") : k < m
      BY <3>1, <2>3, <2>5, <2>6
    <3>4. m \in OpenAt(o)
      BY <3>1, <3>2, <3>3, <2>5 DEF OpenAt
    <3> QED BY <3>4, <2>4
  <2>9. OpenAt(n) = {o}
    BY <2>7, <2>8
  <2>10. TextKind(n) = frames[o].kind
    BY <2>9, <1>1, <1>3 DEF TextKind
  <2>11. /\ PendingKind(key) = frames[o].kind
         /\ Range(Held(key)) = IF PendingKind(key) = "other" THEN {} ELSE Since(key)
    BY <2>1, <2>2, <1>3, OpenBlockIs
  <2> QED BY <2>10, <2>11, <1>1, <1>3 DEF Kept
<1> QED BY <1>0, <1>2, <1>3

\* A frame that leaves as it is, and whose text, if it has one, is not complete.
LEMMA AppendOut ==
  ASSUME ShapeInv, OpenInv, OutInv, outcome = "open",
         NEW f \in Event[protocol], Grows(f), f.type \notin {"done", "malformed"},
         f.type = "delta" /\ protocol = "messages" => Open(Key(f)) # {},
         out'[New] = f, \A n \in DOMAIN out : out'[n] = out[n],
         \A key : \A n \in DOMAIN frames : n \in Range(Held(key))' <=> n \in Range(Held(key)),
         \A n : n = New /\ f.type = "delta" => Kept(n)'
  PROVE  OutInv'
<1>1. /\ DOMAIN out = DOMAIN frames /\ DOMAIN frames' = DOMAIN frames \cup {New}
      /\ frames'[New] = f /\ \A n \in DOMAIN frames : frames'[n] = frames[n]
      /\ \A n \in DOMAIN frames : Key(frames[n])' = Key(frames[n])
  BY GrownFrames, KeyGrows
<1>2. ASSUME NEW n \in DOMAIN frames, frames[n].type = "delta"
      PROVE  WrittenDelta(n)'
  <2>1. WrittenDelta(n) /\ out'[n] = out[n]
    BY <1>1, <1>2 DEF OutInv
  <2>2. ~Kept(n) => Members(n)' = Members(n)
    <3>1. SUFFICES ASSUME ~Kept(n) PROVE Members(n)' = Members(n)
      OBVIOUS
    <3>2. f.type = "delta" /\ Key(f) = Key(frames[n]) => n \notin Since(Key(frames[n]))
      BY <3>1, SinceKept
    <3> QED BY <3>2, MembersStay
  <2>3. n \in Range(Held(Key(frames[n])))' <=> n \in Range(Held(Key(frames[n])))
    <3>1. PICK key : key = Key(frames[n])
      OBVIOUS
    <3>2. Held(Key(frames[n]))' = Held(key)'
      BY <3>1, <1>1 DEF Held
    <3>3. Range(Held(Key(frames[n])))' = Range(Held(key))'
      BY <3>2 DEF Range
    <3> QED BY <3>1, <3>3
  <2> QED BY <2>1, <2>2, <2>3, WrittenStays
<1>3. ASSUME NEW n, n = New, f.type = "delta"
      PROVE  WrittenDelta(n)'
  BY <1>1, <1>3 DEF WrittenDelta
<1>4. ASSUME NEW n \in DOMAIN frames'
      PROVE  /\ frames'[n].type # "malformed"
             /\ frames'[n].type \notin {"delta", "done"} => out'[n] = frames'[n]
             /\ frames'[n].type = "done" => out'[n].text = Restored(frames'[n].kind, frames'[n].text)
             /\ frames'[n].type = "delta" => WrittenDelta(n)'
  <2>1. CASE n \in DOMAIN frames
    BY <2>1, <1>1, <1>2 DEF OutInv
  <2>2. CASE n = New
    BY <2>2, <1>1, <1>3
  <2> QED BY <2>1, <2>2, <1>1
<1> QED BY <1>4 DEF OutInv, Restored

\* A text that is complete: the first of its deltas carries it, the others nothing.
LEMMA ReleaseOut ==
  ASSUME ShapeInv, OpenInv, OutInv, outcome = "open",
         NEW f \in Event[protocol], Grows(f), f.type \in {"stop", "done"},
         NEW key, key = Key(f), Release(key), NEW text, text # None,
         \A n \in DOMAIN out : out'[n] = Rewritten(Held(key), text)[n],
         f.type = "stop" => out'[New] = f,
         f.type = "done" => out'[New].text = Restored(f.kind, f.text),
         Range(Held(key)) # {} => Range(Held(key)) = Since(key),
         \A n \in Range(Held(key)) :
            /\ Restored(TextKind(n), Whole(Since(key))) = text
            /\ ~(protocol = "messages" /\ TextKind(n) = "other")
  PROVE  OutInv'
<1> DEFINE at == Held(key)
<1>1. /\ DOMAIN out = DOMAIN frames /\ DOMAIN frames' = DOMAIN frames \cup {New}
      /\ frames'[New] = f /\ \A n \in DOMAIN frames : frames'[n] = frames[n]
      /\ \A n \in DOMAIN frames : Key(frames[n])' = Key(frames[n])
      /\ protocol' = protocol
  BY GrownFrames, KeyGrows DEF Grows
<1>2. /\ at \in Seq(Nat) /\ Increasing(at)
      /\ \A n \in Range(at) :
           n \in DOMAIN out /\ frames[n].type = "delta" /\ Key(frames[n]) = key /\ out[n] = frames[n]
  BY HeldTyped
<1>3. /\ Range(Held(key))' = {}
      /\ \A k : k # key => Range(Held(k))' = Range(Held(k))
  <2>1. /\ DOMAIN pending' = DOMAIN pending \ {key}
        /\ \A k \in DOMAIN pending \ {key} : pending'[k] = pending[k]
    BY DEF Release
  <2>2. Held(key)' = <<>> /\ \A k : k # key => Held(k)' = Held(k)
    BY <2>1 DEF Held
  <2> QED BY <2>2 DEF Range
<1>4. ASSUME NEW n \in DOMAIN frames
      PROVE  /\ n \notin Range(at) => out'[n] = out[n]
             /\ n \in Range(at) => out'[n].text = IF n = at[1] THEN text ELSE <<>>
  <2>1. /\ n \notin Range(at) => Rewritten(at, text)[n] = out[n]
        /\ n \in Range(at) => Rewritten(at, text)[n].text = IF n = at[1] THEN text ELSE <<>>
    <3> HIDE DEF at
    <3>1. n \in DOMAIN out
      BY <1>1
    <3>2. n \notin Range(at) => Rewritten(at, text)[n] = out[n]
      BY <3>1 DEF Rewritten
    <3>3. n \in Range(at) => Rewritten(at, text)[n].text = IF n = at[1] THEN text ELSE <<>>
      BY <3>1, RewrittenText
    <3> QED BY <3>2, <3>3
  <2> QED BY <2>1, <1>1
<1> HIDE DEF at
<1>5. \A n \in DOMAIN frames : Members(n)' = Members(n)
  BY MembersStay
<1>6. ASSUME NEW n \in DOMAIN frames, n \in Range(at)
      PROVE  WrittenDelta(n)'
  <2>1. at # <<>> /\ Range(at) = Since(key) /\ n \in Since(key) /\ Key(frames[n]) = key
    BY <1>2, <1>6 DEF at, Range
  <2>2. Members(n) = Since(key)
    BY <2>1, MembersSince
  <2>3. RestoredText(n) = text /\ RestoredText(n)' = text
    BY <2>2, <1>5, <1>6, RestoredStays DEF RestoredText, at
  <2>4. TextKind(n)' = TextKind(n) /\ Key(frames[n])' = key
    BY <2>1, <1>1, PastStays
  <2>5. ~Kept(n)'
    <3>1. n \notin Range(Held(Key(frames[n])))'
      BY <2>4, <1>3 DEF Held, Range
    <3> QED BY <3>1, <2>4, <1>1, <1>6 DEF Kept, at
  <2>6. n = at[1] <=> \A m \in Members(n) : n <= m
    <3>1. Len(at) \in Nat \ {0} /\ DOMAIN at = 1..Len(at) /\ at[1] \in Since(key)
      BY <2>1, <1>2 DEF Range
    <3>2. PICK i \in DOMAIN at : at[i] = n
      BY <1>6 DEF Range
    <3>3. \A m \in Since(key) : at[1] <= m
      <4> SUFFICES ASSUME NEW m \in Since(key) PROVE at[1] <= m
        OBVIOUS
      <4>1. PICK j \in DOMAIN at : at[j] = m
        BY <2>1 DEF Range
      <4>2. j = 1 \/ 1 < j
        BY <3>1
      <4>3. at[1] \in Nat /\ at[j] \in Nat
        BY <1>2, <3>1
      <4>4. 1 < j => at[1] < at[j]
        BY <1>2, <3>1 DEF Increasing
      <4> QED BY <4>1, <4>2, <4>3, <4>4
    <3>4. n \in Nat /\ at[1] \in Nat
      BY <1>2, <3>1, FramesDomain
    <3> QED BY <3>1, <3>3, <3>4, <2>1, <2>2
  <2>7. out'[n].text = IF \A m \in Members(n) : n <= m THEN RestoredText(n)' ELSE <<>>
    BY <2>3, <2>6, <1>4, <1>6
  <2>8. Members(n)' = Members(n)
    BY <1>5
  <2> QED BY <2>3, <2>5, <2>7, <2>8 DEF WrittenDelta
<1>7. ASSUME NEW n \in DOMAIN frames, frames[n].type = "delta", n \notin Range(at)
      PROVE  WrittenDelta(n)'
  <2>1. WrittenDelta(n) /\ out'[n] = out[n]
    BY <1>1, <1>4, <1>7 DEF OutInv
  <2>2. n \in Range(Held(Key(frames[n])))' <=> n \in Range(Held(Key(frames[n])))
    <3>1. PICK k : k = Key(frames[n])
      OBVIOUS
    <3>2. Range(Held(Key(frames[n])))' = Range(Held(k))'
      BY <3>1, <1>1 DEF Held, Range
    <3> QED BY <3>1, <3>2, <1>3, <1>7 DEF at
  <2> QED BY <2>1, <2>2, <1>5, WrittenStays
<1>8. ASSUME NEW n \in DOMAIN frames'
      PROVE  /\ frames'[n].type # "malformed"
             /\ frames'[n].type \notin {"delta", "done"} => out'[n] = frames'[n]
             /\ frames'[n].type = "done" => out'[n].text = Restored(frames'[n].kind, frames'[n].text)
             /\ frames'[n].type = "delta" => WrittenDelta(n)'
  <2>1. CASE n \in DOMAIN frames
    <3>1. n \in Range(at) => frames[n].type = "delta"
      BY <1>2
    <3> QED BY <3>1, <2>1, <1>1, <1>4, <1>6, <1>7 DEF OutInv
  <2>2. CASE n = New
    BY <2>2, <1>1
  <2> QED BY <2>1, <2>2, <1>1
<1> QED BY <1>8 DEF OutInv, Restored

LEMMA OpenBlockOut ==
  ASSUME ShapeInv, OpenInv, OutInv, outcome = "open", NEW f \in Event[protocol], OpenBlock(f)
  PROVE  OutInv'
<1>1. Grows(f) /\ f.type = "start" /\ Key(f) \notin DOMAIN pending
  BY TakeGrows DEF OpenBlock, BadStart
<1>2. /\ DOMAIN pending' = DOMAIN pending \cup {Key(f)}
      /\ \A key \in DOMAIN pending \ {Key(f)} : pending'[key] = pending[key]
      /\ pending'[Key(f)].at = <<>>
  BY DEF OpenBlock, Hold
<1>3. \A key : Held(key)' = Held(key)
  BY <1>1, <1>2 DEF Held
<1>4. \A key : Range(Held(key))' = Range(Held(key))
  BY <1>3 DEF Range
<1>5. out'[New] = f /\ \A n \in DOMAIN out : out'[n] = out[n]
  BY OpenBlockShape
<1> QED BY <1>1, <1>4, <1>5, AppendOut

LEMMA PassOut ==
  ASSUME ShapeInv, OpenInv, OutInv, outcome = "open", NEW f \in Event[protocol], Pass(f)
  PROVE  OutInv'
<1>1. Grows(f) /\ f.type \in {"direct", "opaque"} /\ pending' = pending
  BY TakeGrows DEF Pass
<1>2. \A key : Range(Held(key))' = Range(Held(key))
  BY <1>1 DEF Held, Range
<1>3. out'[New] = f /\ \A n \in DOMAIN out : out'[n] = out[n]
  BY PassShape
<1> QED BY <1>1, <1>2, <1>3, AppendOut

LEMMA HoldOut ==
  ASSUME ShapeInv, OpenInv, OutInv, outcome = "open",
         NEW f \in Event[protocol], Grows(f), f.type = "delta",
         protocol = "messages" => Open(Key(f)) # {},
         out'[New] = f, \A n \in DOMAIN out : out'[n] = out[n],
         Hold(Key(f), f.kind, Append(Held(Key(f)), New))
  PROVE  OutInv'
<1>1. /\ DOMAIN pending' = DOMAIN pending \cup {Key(f)}
      /\ \A key \in DOMAIN pending \ {Key(f)} : pending'[key] = pending[key]
      /\ pending'[Key(f)].at = Append(Held(Key(f)), New)
  BY DEF Hold
<1>2. New \in Nat /\ New \notin DOMAIN frames
      /\ frames'[New] = f /\ \A n : n = New => Key(frames[n])' = Key(f)
  BY GrownFrames, KeyGrows
<1>3. Range(pending'[Key(f)].at) = Range(Held(Key(f))) \cup {New}
  BY <1>1, <1>2, HeldTyped, HeldWithNew
<1>4. ASSUME NEW key
      PROVE  /\ key # Key(f) => Range(Held(key))' = Range(Held(key))
             /\ key = Key(f) => Range(Held(key))' = Range(Held(key)) \cup {New}
  <2>1. CASE key # Key(f)
    BY <2>1, <1>1 DEF Held, Range
  <2>2. CASE key = Key(f)
    <3>1. Held(key)' = pending'[Key(f)].at
      BY <2>2, <1>1 DEF Held
    <3>2. Range(Held(key))' = Range(pending'[Key(f)].at)
      BY <3>1 DEF Range
    <3> QED BY <3>2, <2>2, <1>3
  <2> QED BY <2>1, <2>2
<1>5. \A key : \A n \in DOMAIN frames : n \in Range(Held(key))' <=> n \in Range(Held(key))
  BY <1>2, <1>4
<1>6. ASSUME NEW n, n = New PROVE Kept(n)'
  <2>1. PICK key : key = Key(f)
    OBVIOUS
  <2>2. n \in Range(Held(key))'
    BY <2>1, <1>4, <1>6
  <2>3. Range(Held(Key(frames[n])))' = Range(Held(key))'
    BY <2>1, <1>2, <1>6 DEF Held, Range
  <2> QED BY <2>2, <2>3 DEF Kept
<1> QED BY <1>5, <1>6, AppendOut

LEMMA BlockDeltaOut ==
  ASSUME ShapeInv, OpenInv, OutInv, outcome = "open", NEW f \in Event[protocol], BlockDelta(f)
  PROVE  OutInv'
<1>1. /\ Grows(f) /\ f.type = "delta" /\ PendingKind(Key(f)) \in {"other", f.kind}
      /\ protocol = "messages" /\ MessagesInv
  BY TakeGrows DEF BlockDelta, BadBlockDelta, OpenInv
<1>2. f.kind # None /\ "other" # None
  <2>1. f.kind \in {"text", "tool", "other"}
    BY EventIs DEF ShapeInv, StreamShape
  <2> QED BY <2>1, EventAssumption
<1>3. Open(Key(f)) # {}
  BY <1>1, <1>2, OpenBlockIs
<1>4. out'[New] = f /\ \A n \in DOMAIN out : out'[n] = out[n]
  BY BlockDeltaShape
<1>5. CASE PendingKind(Key(f)) = "other"
  <2>1. pending' = pending
    BY <1>5 DEF BlockDelta
  <2>2. \A key : Range(Held(key))' = Range(Held(key))
    BY <2>1 DEF Held, Range
  <2>3. ASSUME NEW n, n = New PROVE Kept(n)'
    <3>1. TextKind(n)' = "other"
      BY <1>1, <1>3, <1>5, <2>3, NewTextKind
    <3> QED BY <3>1, <1>1 DEF Kept, Grows
  <2> QED BY <2>2, <2>3, <1>1, <1>3, <1>4, AppendOut
<1>6. CASE PendingKind(Key(f)) # "other"
  <2>1. Len(out) + 1 = New
    BY <1>1, GrownFrames DEF New
  <2>2. Hold(Key(f), f.kind, Append(Held(Key(f)), New))
    BY <2>1, <1>6 DEF BlockDelta
  <2> QED BY <2>2, <1>1, <1>3, <1>4, HoldOut
<1> QED BY <1>5, <1>6

LEMMA GroupDeltaOut ==
  ASSUME ShapeInv, OpenInv, OutInv, outcome = "open", NEW f \in Event[protocol], GroupDelta(f)
  PROVE  OutInv'
<1>1. Grows(f) /\ f.type = "delta" /\ protocol = "responses"
  BY TakeGrows DEF GroupDelta
<1>2. Len(out) + 1 = New
  BY <1>1, GrownFrames DEF New
<1>3. Hold(Key(f), f.kind, Append(Held(Key(f)), New))
  BY <1>2 DEF GroupDelta
<1>4. out'[New] = f /\ \A n \in DOMAIN out : out'[n] = out[n]
  BY GroupDeltaShape
<1> QED BY <1>1, <1>3, <1>4, HoldOut

LEMMA StopBlockOut ==
  ASSUME ShapeInv, OpenInv, OutInv, outcome = "open", NEW f \in Event[protocol], StopBlock(f)
  PROVE  OutInv'
<1>1. Grows(f) /\ f.type = "stop" /\ ~BadStop(f) /\ Release(Key(f))
  BY TakeGrows DEF StopBlock
<1>2. protocol = "messages" /\ MessagesInv
  <2>1. protocol \in DOMAIN Event
    BY DEF ShapeInv, StreamShape
  <2>2. protocol = "messages"
    BY <2>1, <1>1, EventIs
  <2> QED BY <2>2 DEF OpenInv
<1>3. PICK key : key = Key(f)
  OBVIOUS
<1>4. PICK text : text = Restored(PendingKind(key), Combined(Held(key)))
  OBVIOUS
<1>5. text # None /\ Open(key) # {}
  BY <1>1, <1>2, <1>3, <1>4, OpenBlockIs DEF BadStop
<1>6. out'[New] = f /\ \A n \in DOMAIN out : out'[n] = Rewritten(Held(key), text)[n]
  BY <1>3, <1>4, StopBlockShape
<1>7. Range(Held(key)) = IF PendingKind(key) = "other" THEN {} ELSE Since(key)
  BY <1>2, <1>5, OpenBlockIs
<1>8. ASSUME NEW n \in Range(Held(key))
      PROVE  /\ Restored(TextKind(n), Whole(Since(key))) = text
             /\ ~(protocol = "messages" /\ TextKind(n) = "other")
  <2>1. n \in Since(key) /\ PendingKind(key) # "other" /\ Range(Held(key)) = Since(key)
    BY <1>7, <1>8
  <2>2. TextKind(n) = PendingKind(key)
    BY <2>1, <1>2, <1>5, SinceKept
  <2>3. Combined(Held(key)) = Whole(Since(key))
    BY <2>1, HeldText
  <2> QED BY <2>1, <2>2, <2>3, <1>4
<1>9. Range(Held(key)) # {} => Range(Held(key)) = Since(key)
  BY <1>7
<1>10. Release(key)
  BY <1>1, <1>3
<1> QED BY <1>1, <1>3, <1>5, <1>6, <1>8, <1>9, <1>10, ReleaseOut

LEMMA DoneOut ==
  ASSUME ShapeInv, OpenInv, OutInv, outcome = "open", NEW f \in Event[protocol], Done(f)
  PROVE  OutInv'
<1>1. Grows(f) /\ f.type = "done" /\ ~BadDone(f) /\ Release(Key(f))
  BY TakeGrows DEF Done
<1>2. protocol = "responses" /\ ResponsesInv
  <2>1. protocol \in DOMAIN Event
    BY DEF ShapeInv, StreamShape
  <2>2. protocol = "responses"
    BY <2>1, <1>1, EventIs
  <2> QED BY <2>2 DEF OpenInv
<1>3. PICK key : key = Key(f)
  OBVIOUS
<1>4. PICK text : text = Restored(f.kind, f.text)
  OBVIOUS
<1>5. /\ text # None
      /\ Since(key) # {} => Whole(Since(key)) = f.text
  BY <1>1, <1>2, <1>3, <1>4, DoneTextOK
<1>6. /\ out'[New] = [f EXCEPT !.text = text]
      /\ \A n \in DOMAIN out : out'[n] = Rewritten(Held(key), text)[n]
  BY <1>3, <1>4, DoneShape
<1>7. out'[New].text = text
  <2>1. protocol \in DOMAIN Event /\ Matches(f, f)
    BY MatchesSelf DEF ShapeInv, StreamShape
  <2>2. [f EXCEPT !.text = text].text = text
    BY <2>1, MatchesFields
  <2> QED BY <2>2, <1>6
<1>8. Range(Held(key)) = Since(key)
  BY <1>2, HeldIsSince
<1>9. ASSUME NEW n \in Range(Held(key))
      PROVE  /\ Restored(TextKind(n), Whole(Since(key))) = text
             /\ ~(protocol = "messages" /\ TextKind(n) = "other")
  <2>1. n \in Since(key) /\ frames[n].type = "delta" /\ Key(frames[n]) = Key(f)
    BY <1>3, <1>8, <1>9 DEF Since, Of
  <2>2. frames[n].kind = f.kind
    BY <2>1, <1>2 DEF Key
  <2>3. TextKind(n) = f.kind
    BY <2>1, <2>2, <1>2 DEF TextKind
  <2> QED BY <2>1, <2>3, <1>2, <1>4, <1>5
<1>10. /\ Release(key) /\ key = Key(f) /\ text # None /\ f.type \in {"stop", "done"}
       /\ f.type = "stop" => out'[New] = f
       /\ f.type = "done" => out'[New].text = Restored(f.kind, f.text)
       /\ Range(Held(key)) # {} => Range(Held(key)) = Since(key)
       /\ \A n \in DOMAIN out : out'[n] = Rewritten(Held(key), text)[n]
       /\ Grows(f)
  BY <1>1, <1>3, <1>4, <1>5, <1>6, <1>7, <1>8
<1> QED BY <1>9, <1>10, ReleaseOut

LEMMA OutStep ==
  ASSUME ShapeInv, OpenInv, OutInv, [Next]_vars
  PROVE  OutInv'
<1>1. ASSUME NEW f \in Event[protocol],
             \/ OpenBlock(f) \/ BlockDelta(f) \/ StopBlock(f)
             \/ GroupDelta(f) \/ Done(f) \/ Pass(f)
      PROVE  OutInv'
  <2>1. outcome = "open"
    BY <1>1 DEF OpenBlock, BlockDelta, StopBlock, GroupDelta, Done, Pass, Take
  <2> QED BY <2>1, <1>1, OpenBlockOut, BlockDeltaOut, StopBlockOut, GroupDeltaOut, DoneOut, PassOut
<1>2. ASSUME NEW f \in Event[protocol], Refuse(f)
      PROVE  OutInv'
  BY <1>2 DEF Refuse, OutInv
<1>3. CASE EndStream
  BY <1>3 DEF EndStream, OutInv
<1>4. CASE UNCHANGED vars
  <2>1. /\ frames' = frames /\ protocol' = protocol /\ pending' = pending /\ outcome' = outcome
        /\ out' = out
    BY <1>4 DEF vars
  <2>2. ASSUME NEW n PROVE WrittenDelta(n)' <=> WrittenDelta(n)
    <3>1. TextKind(n)' = TextKind(n)
      BY <2>1 DEF TextKind, OpenAt, Before, Key
    <3>2. Members(n)' = Members(n)
      BY <2>1 DEF Members, GroupOf, Before, Boundary, Key
    <3>3. Whole(Members(n))' = Whole(Members(n))
      BY <2>1, <3>2 DEF Whole
    <3>4. RestoredText(n)' = RestoredText(n)
      BY <3>1, <3>3 DEF RestoredText, Restored
    <3>5. Kept(n)' <=> Kept(n)
      <4>1. Range(Held(Key(frames[n])))' = Range(Held(Key(frames[n])))
        BY <2>1 DEF Range, Held, Key
      <4> QED BY <4>1, <3>1, <2>1 DEF Kept
    <3> QED BY <2>1, <3>2, <3>4, <3>5 DEF WrittenDelta
  <2> QED BY <2>1, <2>2 DEF OutInv, Restored
<1> QED BY <1>1, <1>2, <1>3, <1>4 DEF Next

LEMMA OutInit == Init => OutInv
BY DEF Init, OutInv

-----------------------------------------------------------------------------
(***************************************************************************)
(* A stream is delivered if it is well-formed, and refused otherwise.      *)
(***************************************************************************)
LEMMA EmptyText == <<>> \in Texts /\ <<>> # None
<1>1. <<>> \in Texts
  BY DEF Texts
<1> QED BY <1>1, EventAssumption

LEMMA NotNone ==
  ASSUME ShapeInv, OpenInv, OutInv, outcome = "open", NEW n \in DOMAIN out
  PROVE  out[n].text # None
<1>1. /\ n \in DOMAIN frames /\ frames[n] \in Event[protocol] /\ protocol \in DOMAIN Event
  BY SeqShape DEF ShapeInv, StreamShape
<1>2. frames[n].text # None /\ <<>> # None
  BY <1>1, EventIs, EventAssumption, EmptyText
<1>3. CASE frames[n].type = "delta"
  BY <1>1, <1>2, <1>3 DEF OutInv, WrittenDelta
<1>4. CASE frames[n].type = "done"
  <2>1. protocol = "responses"
    BY <1>1, <1>4, EventIs
  <2>2. ResponsesPast
    BY <2>1 DEF OpenInv, ResponsesInv
  <2> QED BY <2>2, <1>1, <1>4 DEF ResponsesPast, OutInv
<1>5. CASE frames[n].type \notin {"delta", "done"}
  BY <1>1, <1>2, <1>5 DEF OutInv
<1> QED BY <1>3, <1>4, <1>5

LEMMA DirectIs ==
  ASSUME ShapeInv, OutInv, outcome = "open", NEW n \in DOMAIN out
  PROVE  Direct(out[n]) =
            IF frames[n].type = "direct" \/ (frames[n].type = "start" /\ frames[n].kind # "other")
            THEN Restore(frames[n].text)
            ELSE out[n].text
<1>1. /\ n \in DOMAIN frames /\ frames[n] \in Event[protocol] /\ protocol \in DOMAIN Event
      /\ Matches(out[n], frames[n])
  BY SeqShape DEF ShapeInv, StreamShape
<1>2. out[n].type = frames[n].type /\ out[n].kind = frames[n].kind
  BY <1>1, MatchesFields
<1>3. frames[n].type \in {"direct", "start"} => out[n] = frames[n]
  BY <1>1 DEF OutInv
<1> QED BY <1>2, <1>3 DEF Direct

\* A stream that was refused at a frame is not well-formed up to that frame.
LEMMA RefusedBad ==
  ASSUME ShapeInv, OpenInv, OutInv, NEW f \in Event[protocol], Refuse(f)
  PROVE  \E n \in DOMAIN frames' : ~WellFormed(n)'
<1>1. Grows(f) /\ outcome = "open" /\ protocol \in DOMAIN Event /\ protocol' = protocol
  BY DEF Refuse, Grows, ShapeInv, StreamShape
<1>2. PICK n : n = New
  OBVIOUS
<1>3. PICK key : key = Key(f)
  OBVIOUS
<1>4. /\ n \in DOMAIN frames' /\ frames'[n] = f /\ DOMAIN frames \subseteq DOMAIN frames'
      /\ \A m \in DOMAIN frames : frames'[m] = frames[m]
      /\ OpenAt(n)' = Open(key)
  BY <1>1, <1>2, <1>3, GrownFrames, NewPast
<1>5. f.type \notin (IF protocol = "messages" THEN {"done"} ELSE {"start", "stop"})
      /\ protocol \in {"messages", "responses"}
  BY <1>1, EventIs
<1>6. CASE f.type = "malformed"
  <2>1. ~WellFormed(n)'
    BY <1>4, <1>6 DEF WellFormed
  <2> QED BY <2>1, <1>4
<1>7. CASE BadStart(f)
  <2>1. f.type = "start" /\ key \in DOMAIN pending /\ protocol = "messages"
    BY <1>3, <1>5, <1>7 DEF BadStart
  <2>2. Open(key) # {}
    BY <2>1, <1>1 DEF OpenInv, MessagesInv, MessagesOpen
  <2>3. ~WellFormed(n)'
    BY <2>1, <2>2, <1>4 DEF WellFormed
  <2> QED BY <2>3, <1>4
<1>8. CASE BadBlockDelta(f)
  <2>1. f.type = "delta" /\ protocol = "messages" /\ PendingKind(key) \notin {"other", f.kind}
        /\ MessagesInv
    BY <1>1, <1>3, <1>8 DEF BadBlockDelta, OpenInv
  <2>2. Open(key) # {} => TextKind(n)' = PendingKind(key)
    BY <2>1, <1>1, <1>2, <1>3, NewTextKind
  <2>3. ~WellFormed(n)'
    BY <2>1, <2>2, <1>1, <1>4 DEF WellFormed
  <2> QED BY <2>3, <1>4
<1>9. CASE BadStop(f)
  <2>1. f.type = "stop" /\ protocol = "messages" /\ MessagesInv
    BY <1>1, <1>5, <1>9 DEF BadStop, OpenInv
  <2>2. CASE Open(key) = {}
    <3>1. ~WellFormed(n)'
      BY <2>1, <2>2, <1>4 DEF WellFormed
    <3> QED BY <3>1, <1>4
  <2>3. CASE Open(key) # {}
    <3>1. PICK o \in Open(key) : TRUE
      BY <2>3
    <3>2. /\ PendingKind(key) = frames[o].kind /\ PendingKind(key) # None
          /\ DeltasOf(o) = Since(key)
          /\ Range(Held(key)) = IF PendingKind(key) = "other" THEN {} ELSE Since(key)
      BY <3>1, <2>1, OpenBlockIs
    <3>3. o \in DOMAIN frames /\ frames[o].type = "start" /\ frames'[o] = frames[o]
      BY <3>1, <1>4 DEF Open, Of
    <3>4. DeltasOf(o)' = DeltasOf(o)
      BY <3>3, <2>1, <1>1, DeltasOfStay
    <3>5. DeltasOf(o) \in SUBSET DOMAIN frames
      BY DEF DeltasOf
    <3>6. Whole(DeltasOf(o))' = TextAt(frames', DeltasOf(o))
      BY <3>4 DEF Whole
    <3>7. Whole(DeltasOf(o))' = Whole(Since(key))
      BY <3>2, <3>5, <3>6, <1>1, WholeStays DEF Whole
    <3>8. Held(key) \in Seq(Nat)
      BY HeldTyped
    <3>9. CASE PendingKind(key) = "other"
      <4>1. Held(key) = <<>>
        <5>1. Range(Held(key)) = {}
          BY <3>2, <3>9
        <5>2. DOMAIN Held(key) = {}
          BY <5>1 DEF Range
        <5> QED BY <5>2, <3>8
      <4>2. Combined(Held(key)) = <<>>
        BY <4>1, FlatEmpty DEF Combined
      <4>3. Restored("other", <<>>) = <<>>
        BY DEF Restored
      <4>4. <<>> # None
        BY EmptyText
      <4> QED BY <4>2, <4>3, <4>4, <3>9, <3>2, <1>3, <1>9 DEF BadStop
    <3>10. CASE PendingKind(key) # "other"
      <4>1. \/ DeltasOf(o) = {}
            \/ Restored(frames[o].kind, Whole(DeltasOf(o))') = None
        <5>1. CASE Held(key) = <<>>
          <6>1. Range(<<>>) = {}
            BY DEF Range
          <6> QED BY <5>1, <6>1, <3>2, <3>10
        <5>2. CASE Restored(PendingKind(key), Combined(Held(key))) = None
          <6>1. Combined(Held(key)) = Whole(Since(key))
            BY <3>2, <3>10, HeldText
          <6> QED BY <6>1, <5>2, <3>2, <3>7
        <5> QED BY <5>1, <5>2, <3>2, <3>10, <1>3, <1>9 DEF BadStop
      <4>2. ~WellFormed(o)'
        BY <4>1, <3>2, <3>3, <3>4, <3>10 DEF WellFormed, Restored
      <4> QED BY <4>2, <3>3, <1>4
    <3> QED BY <3>9, <3>10
  <2> QED BY <2>2, <2>3
<1>10. CASE BadDone(f)
  <2>1. f.type = "done" /\ protocol = "responses" /\ ResponsesInv
    BY <1>1, <1>5, <1>10 DEF BadDone, OpenInv
  <2>2. DeltasOf(n)' = Since(key)
    BY <2>1, <1>1, <1>2, <1>3, NewDone
  <2>3. Since(key) \in SUBSET DOMAIN frames
    BY DEF Since, Of
  <2>4. Whole(DeltasOf(n))' = TextAt(frames', Since(key))
    BY <2>2 DEF Whole
  <2>5. Whole(DeltasOf(n))' = Whole(Since(key))
    BY <2>3, <2>4, <1>1, WholeStays DEF Whole
  <2>6. /\ Range(Held(key)) = Since(key)
        /\ Combined(Held(key)) = Whole(Since(key))
    BY <2>1, HeldIsSince, HeldText
  <2>7. Held(key) # <<>> => Since(key) # {}
    <3>1. Held(key) \in Seq(Nat)
      BY HeldTyped
    <3>2. Held(key) # <<>> => Held(key)[1] \in Range(Held(key))
      BY <3>1 DEF Range
    <3> QED BY <3>2, <2>6
  <2>8. ~WellFormed(n)'
    BY <2>1, <2>2, <2>5, <2>6, <2>7, <1>3, <1>4, <1>10 DEF WellFormed, BadDone, Restored
  <2> QED BY <2>8, <1>4
<1> QED BY <1>6, <1>7, <1>8, <1>9, <1>10 DEF Refuse

\* A stream that was refused at its end has a text that is not complete, or one
\* that cannot be restored.
LEMMA EndRefusedBad ==
  ASSUME ShapeInv, OpenInv, OutInv, outcome = "open",
         DOMAIN pending # {} \/ \E n \in DOMAIN out : Direct(out[n]) = None
  PROVE  \E n \in DOMAIN frames : ~WellFormed(n)
<1>0. protocol \in {"messages", "responses"} /\ DOMAIN out \subseteq DOMAIN frames
      /\ protocol \in DOMAIN Event
  BY SeqShape, EventAssumption DEF ShapeInv, StreamShape
<1>1. CASE DOMAIN pending # {}
  <2>1. PICK key \in DOMAIN pending : TRUE
    BY <1>1
  <2>2. CASE protocol = "messages"
    <3>1. PICK o \in Open(key) : TRUE
      BY <2>1, <2>2 DEF OpenInv, MessagesInv, MessagesOpen
    <3>2. o \in DOMAIN frames /\ frames[o].type = "start" /\ Key(frames[o]) = key
          /\ \A k \in Of("stop", key) : k < o
      BY <3>1 DEF Open, Of
    <3>3. \A m \in DOMAIN frames : ~(m > o /\ frames[m].type = "stop" /\ Key(frames[m]) = key)
      BY <3>2, FramesDomain DEF Of
    <3>4. ~WellFormed(o)
      BY <3>2, <3>3 DEF WellFormed
    <3> QED BY <3>2, <3>4
  <2>3. CASE protocol = "responses"
    <3>1. Since(key) # {}
      BY <2>1, <2>3 DEF OpenInv, ResponsesInv, ResponsesOpen
    <3>2. PICK n \in Since(key) : TRUE
      BY <3>1
    <3>3. n \in DOMAIN frames /\ frames[n].type = "delta" /\ Key(frames[n]) = key
          /\ \A k \in Of("done", key) : k < n
      BY <3>2, <2>3 DEF Since, Of, Boundary
    <3>4. \A m \in DOMAIN frames : ~(m > n /\ frames[m].type = "done" /\ Key(frames[m]) = key)
      BY <3>3, FramesDomain DEF Of
    <3>5. ~WellFormed(n)
      BY <3>3, <3>4, <2>3 DEF WellFormed
    <3> QED BY <3>3, <3>5
  <2> QED BY <1>0, <2>2, <2>3
<1>2. CASE \E n \in DOMAIN out : Direct(out[n]) = None
  <2>1. PICK n \in DOMAIN out : Direct(out[n]) = None
    BY <1>2
  <2>2. /\ frames[n].type = "direct" \/ (frames[n].type = "start" /\ frames[n].kind # "other")
        /\ Restore(frames[n].text) = None
    BY <2>1, DirectIs, NotNone
  <2>3. ~WellFormed(n)
    BY <2>2 DEF WellFormed
  <2> QED BY <2>3, <1>0
<1> QED BY <1>1, <1>2

\* A stream that was delivered is well-formed.
LEMMA DeliveredGood ==
  ASSUME ShapeInv, OpenInv, OutInv, outcome = "open",
         DOMAIN pending = {}, \A m \in DOMAIN out : Direct(out[m]) # None,
         NEW n \in DOMAIN frames
  PROVE  WellFormed(n)
<1>0. /\ protocol \in {"messages", "responses"} /\ protocol \in DOMAIN Event
      /\ n \in DOMAIN out /\ frames[n] \in Event[protocol] /\ n \in Nat
  BY SeqShape, EventAssumption, FramesDomain DEF ShapeInv, StreamShape
<1>1. /\ frames[n].type \in Type
      /\ frames[n].type \notin (IF protocol = "messages" THEN {"done"} ELSE {"start", "stop"})
      /\ frames[n].type = "direct" => frames[n].kind # "other"
  BY <1>0, EventIs
<1>2. frames[n].type = "direct" \/ (frames[n].type = "start" /\ frames[n].kind # "other")
        => Restore(frames[n].text) # None
  BY <1>0, DirectIs
<1>3. CASE frames[n].type = "start"
  <2>1. protocol = "messages" /\ MessagesInv
    BY <1>0, <1>1, <1>3 DEF OpenInv
  <2>2. OpenAt(n) = {}
    BY <2>1, <1>3 DEF MessagesInv, MessagesPast
  <2>3. n \notin Open(Key(frames[n]))
    BY <2>1 DEF MessagesInv, MessagesOpen
  <2>4. PICK k \in Of("stop", Key(frames[n])) : ~(k < n)
    BY <2>3, <1>3 DEF Open, Of
  <2>5. k \in DOMAIN frames /\ frames[k].type = "stop" /\ Key(frames[k]) = Key(frames[n]) /\ k > n
        /\ n < k
    <3>1. k \in DOMAIN frames /\ frames[k].type = "stop" /\ Key(frames[k]) = Key(frames[n])
      BY DEF Of
    <3>2. k # n /\ k \in Nat
      BY <3>1, <1>3, FramesDomain
    <3> QED BY <3>1, <3>2, <2>4, <1>0
  <2>6. BlockOK(n)
    BY <2>1, <2>4, <2>5, <1>3 DEF MessagesInv, MessagesStopped
  <2> QED BY <2>2, <2>5, <2>6, <1>2, <1>3 DEF WellFormed, BlockOK
<1>4. CASE frames[n].type = "delta" /\ protocol = "messages"
  BY <1>4 DEF OpenInv, MessagesInv, MessagesPast, WellFormed
<1>5. CASE frames[n].type = "delta" /\ protocol = "responses"
  <2>1. Since(Key(frames[n])) = {}
    BY <1>5 DEF OpenInv, ResponsesInv, ResponsesOpen
  <2>2. PICK k \in Of("done", Key(frames[n])) : ~(k < n)
    BY <2>1, <1>5 DEF Since, Of, Boundary
  <2>3. k \in DOMAIN frames /\ frames[k].type = "done" /\ Key(frames[k]) = Key(frames[n]) /\ k > n
    <3>1. k \in DOMAIN frames /\ frames[k].type = "done" /\ Key(frames[k]) = Key(frames[n])
      BY DEF Of
    <3>2. k # n /\ k \in Nat
      BY <3>1, <1>5, FramesDomain
    <3> QED BY <3>1, <3>2, <2>2, <1>0
  <2> QED BY <2>3, <1>5 DEF WellFormed
<1>6. CASE frames[n].type = "stop"
  <2>1. protocol = "messages" /\ MessagesInv
    BY <1>0, <1>1, <1>6 DEF OpenInv
  <2> QED BY <2>1, <1>6 DEF MessagesInv, MessagesPast, WellFormed
<1>7. CASE frames[n].type = "done"
  <2>1. protocol = "responses" /\ ResponsesInv
    BY <1>0, <1>1, <1>7 DEF OpenInv
  <2> QED BY <2>1, <1>7 DEF ResponsesInv, ResponsesPast, WellFormed
<1>8. CASE frames[n].type = "direct"
  BY <1>2, <1>8 DEF WellFormed
<1>9. CASE frames[n].type = "opaque"
  BY <1>9 DEF WellFormed
<1>10. frames[n].type # "malformed"
  BY DEF OutInv
<1> QED BY <1>0, <1>1, <1>3, <1>4, <1>5, <1>6, <1>7, <1>8, <1>9, <1>10 DEF Type

LEMMA WellFormedSame ==
  ASSUME frames' = frames, protocol' = protocol, NEW n
  PROVE  WellFormed(n)' <=> WellFormed(n)
<1>1. OpenAt(n)' = OpenAt(n)
  BY DEF OpenAt, Before, Key
<1>2. TextKind(n)' = TextKind(n)
  BY DEF TextKind, OpenAt, Before, Key
<1>3. DeltasOf(n)' = DeltasOf(n)
  BY DEF DeltasOf, GroupOf, Before, Boundary, Key
<1>4. Whole(DeltasOf(n))' = Whole(DeltasOf(n))
  BY <1>3 DEF Whole
<1>5. \A m : Key(frames[m])' = Key(frames[m])
  BY DEF Key
<1> QED BY <1>1, <1>2, <1>3, <1>4, <1>5 DEF WellFormed, Restored

WellFormedInv == ShapeInv /\ OpenInv /\ OutInv /\ DeliversWellFormed

LEMMA DeliversStep ==
  ASSUME WellFormedInv, [Next]_vars
  PROVE  DeliversWellFormed'
<1>0. ShapeInv /\ OpenInv /\ OutInv /\ DeliversWellFormed
  BY DEF WellFormedInv
<1>1. ASSUME NEW f \in Event[protocol],
             \/ OpenBlock(f) \/ BlockDelta(f) \/ StopBlock(f)
             \/ GroupDelta(f) \/ Done(f) \/ Pass(f)
      PROVE  DeliversWellFormed'
  <2>1. outcome' = "open"
    BY <1>1 DEF OpenBlock, BlockDelta, StopBlock, GroupDelta, Done, Pass, Take
  <2> QED BY <2>1 DEF DeliversWellFormed
<1>2. ASSUME NEW f \in Event[protocol], Refuse(f)
      PROVE  DeliversWellFormed'
  <2>1. outcome' = "refused"
    BY <1>2 DEF Refuse
  <2>2. \E n \in DOMAIN frames' : ~WellFormed(n)'
    BY <1>0, <1>2, RefusedBad
  <2> QED BY <2>1, <2>2 DEF DeliversWellFormed
<1>3. CASE EndStream
  <2>1. frames' = frames /\ protocol' = protocol /\ outcome = "open"
    BY <1>3 DEF EndStream
  <2>2. CASE DOMAIN pending # {} \/ \E n \in DOMAIN out : Direct(out[n]) = None
    <3>1. outcome' = "refused"
      BY <2>2, <1>3 DEF EndStream
    <3>2. PICK n \in DOMAIN frames : ~WellFormed(n)
      BY <2>1, <2>2, <1>0, EndRefusedBad
    <3>3. n \in DOMAIN frames' /\ ~WellFormed(n)'
      BY <2>1, <3>2, WellFormedSame
    <3> QED BY <3>1, <3>3 DEF DeliversWellFormed
  <2>3. CASE ~(DOMAIN pending # {} \/ \E n \in DOMAIN out : Direct(out[n]) = None)
    <3>1. outcome' = "delivered"
      BY <2>3, <1>3 DEF EndStream
    <3>2. ASSUME NEW n \in DOMAIN frames' PROVE WellFormed(n)'
      <4>1. WellFormed(n)
        BY <2>1, <2>3, <1>0, DeliveredGood
      <4> QED BY <4>1, <2>1, WellFormedSame
    <3> QED BY <3>1, <3>2 DEF DeliversWellFormed
  <2> QED BY <2>2, <2>3
<1>4. CASE UNCHANGED vars
  <2>1. frames' = frames /\ protocol' = protocol /\ outcome' = outcome
    BY <1>4 DEF vars
  <2>2. \A n : WellFormed(n)' <=> WellFormed(n)
    BY <2>1, WellFormedSame
  <2> QED BY <2>1, <2>2, <1>0 DEF DeliversWellFormed
<1> QED BY <1>1, <1>2, <1>3, <1>4 DEF Next

LEMMA WellFormedStep ==
  WellFormedInv /\ [Next]_vars => WellFormedInv'
<1> SUFFICES ASSUME WellFormedInv, [Next]_vars PROVE WellFormedInv'
  OBVIOUS
<1>1. ShapeInv'
  BY ShapeStep DEF WellFormedInv
<1>2. OpenInv'
  BY OpenStep DEF WellFormedInv
<1>3. OutInv'
  BY OutStep DEF WellFormedInv
<1> QED BY <1>1, <1>2, <1>3, DeliversStep DEF WellFormedInv

LEMMA WellFormedInit == Init => WellFormedInv
<1>1. Init => DeliversWellFormed
  BY DEF Init, DeliversWellFormed
<1> QED BY <1>1, ShapeInit, OpenInit, OutInit DEF WellFormedInv

\* Until the stream ends, every frame is written as the provider sent it, or
\* with the restored text of its own group, which the first delta carries.
THEOREM RestorationInvariant == Spec => []WellFormedInv
<1> QED BY WellFormedInit, WellFormedStep, PTL DEF Spec

\* A stream is delivered if every one of its texts is complete and restorable,
\* and refused otherwise (DeliversWellFormed).
THEOREM WellFormedDelivered == Spec => []DeliversWellFormed
<1>1. WellFormedInv => DeliversWellFormed
  BY DEF WellFormedInv
<1> QED BY <1>1, RestorationInvariant, PTL

-----------------------------------------------------------------------------
(***************************************************************************)
(* The client reads every text restored as a whole, or nothing.            *)
(***************************************************************************)
\* Restoring a text gives a text, or fails.
RestoresTexts == \A text \in Texts : RestoresText(text)

LEMMA SameText ==
  ASSUME NEW s, NEW ns
  PROVE  Abstract!TextAt(s, ns) = TextAt(s, ns)
<1>1. ASSUME NEW q PROVE Abstract!FlattenSeq(q) = FlattenSeq(q)
  BY DEF Abstract!FlattenSeq, FlattenSeq
<1>2. Abstract!Cardinality(ns) = Cardinality(ns)
  BY DEF Abstract!Cardinality, Cardinality
<1>3. Abstract!InOrder(ns) = InOrder(ns)
  BY <1>2 DEF Abstract!InOrder, InOrder
<1> QED BY <1>1, <1>3 DEF Abstract!TextAt, TextAt, Abstract!Flat, Flat

LEMMA PrefixIs ==
  ASSUME NEW s, NEW t, IsSeq(s), IsSeq(t), Len(s) <= Len(t), \A i \in 1..Len(s) : s[i] = t[i]
  PROVE  IsPrefix(s, t)
<1> DEFINE S == Range(s) \cup Range(t)
<1>1. s \in Seq(S) /\ t \in Seq(S)
  BY SeqMonotonic DEF IsSeq
<1> HIDE DEF S
<1>2. Len(s) \in Nat /\ Len(t) \in Nat /\ 1 \in Int /\ Len(s) \in Int
  BY <1>1
<1>3. \A i \in 1..Len(s) : s[i] \in S /\ t[i] \in S
  BY <1>1, <1>2
<1> DEFINE L == IF 1 <= Len(s) THEN Len(s) - 1 + 1 ELSE 0
<1>4. /\ SubSeq(s, 1, Len(s)) \in Seq(S) /\ Len(SubSeq(s, 1, Len(s))) = L
      /\ \A i \in 1..(Len(s) - 1 + 1) : SubSeq(s, 1, Len(s))[i] = s[1 + i - 1]
  BY <1>2, <1>3, SubSeqProperties
<1>5. /\ SubSeq(t, 1, Len(s)) \in Seq(S) /\ Len(SubSeq(t, 1, Len(s))) = L
      /\ \A i \in 1..(Len(s) - 1 + 1) : SubSeq(t, 1, Len(s))[i] = t[1 + i - 1]
  BY <1>2, <1>3, SubSeqProperties
<1>6. L = Len(s) /\ Len(s) - 1 + 1 = Len(s) /\ \A i \in 1..Len(s) : 1 + i - 1 = i
  BY <1>2
<1> HIDE DEF L
<1>7. \A i \in 1..Len(s) : SubSeq(s, 1, Len(s))[i] = SubSeq(t, 1, Len(s))[i]
  BY <1>4, <1>5, <1>6
<1>8. SubSeq(s, 1, Len(s)) = SubSeq(t, 1, Len(s))
  BY <1>4, <1>5, <1>6, <1>7, SeqEqual
<1> QED BY <1>8 DEF IsPrefix

\* The provider only ever adds a part.
LEMMA PartsGrow ==
  ASSUME ShapeInv, NEW f \in Event[protocol], Grows(f)
  PROVE  Abstract!IsPrefix(Parts(frames), Parts(frames)')
<1>1. PICK s : s = Parts(frames)
  OBVIOUS
<1>2. PICK t : t = Parts(frames)'
  OBVIOUS
<1>3. /\ Len(frames) \in Nat /\ DOMAIN frames = 1..Len(frames)
      /\ New \in Nat /\ DOMAIN frames' = 1..New /\ New = Len(frames) + 1
      /\ \A n \in DOMAIN frames : frames'[n] = frames[n] /\ n \in DOMAIN frames'
  BY GrownFrames, SeqShape DEF New
<1>4. /\ DOMAIN s = 1..Len(frames) /\ s = [n \in 1..Len(frames) |-> s[n]]
      /\ \A n \in DOMAIN frames :
           s[n] = [group |-> GroupOf(n), kind |-> TextKind(n), text |-> frames[n].text]
  BY <1>1, <1>3 DEF Parts
<1>5. t = [n \in DOMAIN frames' |->
             [group |-> GroupOf(n)', kind |-> TextKind(n)', text |-> frames'[n].text]]
  BY <1>2 DEF Parts
<1>6. /\ DOMAIN t = 1..New /\ t = [n \in 1..New |-> t[n]]
      /\ \A n \in DOMAIN frames :
           t[n] = [group |-> GroupOf(n)', kind |-> TextKind(n)', text |-> frames'[n].text]
  BY <1>3, <1>5
<1>7. \A n \in DOMAIN frames : s[n] = t[n]
  BY <1>3, <1>4, <1>6, PastStays
<1>8. IsSeq(s) /\ Len(s) = Len(frames) /\ IsSeq(t) /\ Len(t) = New
  BY <1>3, <1>4, <1>6, SeqMap
<1>9. IsPrefix(s, t)
  BY <1>3, <1>7, <1>8, PrefixIs
<1> QED BY <1>1, <1>2, <1>9 DEF Abstract!IsPrefix, IsPrefix

-----------------------------------------------------------------------------
\* The block that a delta is a part of is the last that started before it.
LEMMA OpenAtLast ==
  ASSUME ShapeInv, MessagesPast, NEW n \in DOMAIN frames, NEW o \in OpenAt(n),
         NEW p \in Before(n, "start")
  PROVE  p <= o
<1>1. /\ o \in Before(n, "start") /\ \A k \in Before(n, "stop") : k < o
  BY DEF OpenAt
<1>2. /\ p \in DOMAIN frames /\ frames[p].type = "start" /\ Key(frames[p]) = Key(frames[n])
      /\ p < n /\ o \in DOMAIN frames /\ frames[o].type = "start"
      /\ Key(frames[o]) = Key(frames[n]) /\ p \in Nat /\ o \in Nat /\ n \in Nat
  BY <1>1, BeforeIs, FramesDomain DEF Of
<1>3. SUFFICES ASSUME o < p PROVE FALSE
  BY <1>2
<1>4. o \in Before(p, "start")
  BY <1>2, <1>3, BeforeIs DEF Of
<1>5. Before(p, "stop") \subseteq Before(n, "stop")
  <2>1. \A k \in DOMAIN frames : k \in Nat
    BY FramesDomain
  <2>2. \A k \in Of("stop", Key(frames[n])) : k < p => k < n
    BY <1>2, <2>1 DEF Of
  <2> QED BY <1>2, <2>2, BeforeIs
<1>6. o \in OpenAt(p)
  BY <1>1, <1>4, <1>5 DEF OpenAt
<1> QED BY <1>2, <1>6 DEF MessagesPast

\* All parts of a text are of one kind.
LEMMA SameKind ==
  ASSUME ShapeInv, OpenInv, outcome = "open", NEW m \in DOMAIN frames, NEW n \in DOMAIN frames,
         GroupOf(m) = GroupOf(n)
  PROVE  TextKind(m) = TextKind(n)
<1>0. protocol \in {"messages", "responses"}
  BY EventAssumption DEF ShapeInv, StreamShape
<1>1. CASE frames[n].type # "delta"
  BY <1>1, GroupOfFrame
<1>2. CASE frames[m].type # "delta"
  BY <1>2, GroupOfFrame
<1>3. CASE frames[m].type = "delta" /\ frames[n].type = "delta"
  <2>1. Key(frames[m]) = Key(frames[n]) /\ Before(m, Boundary) = Before(n, Boundary)
    BY <1>3, GroupOfDelta
  <2>2. CASE protocol = "responses"
    <3>1. frames[m].kind = frames[n].kind
      BY <2>1, <2>2 DEF Key
    <3> QED BY <3>1, <2>2, <1>3 DEF TextKind
  <2>3. CASE protocol = "messages"
    <3>1. MessagesPast /\ Boundary = "start"
      BY <2>3 DEF OpenInv, MessagesInv, Boundary
    <3>2. OpenAt(m) # {} /\ OpenAt(n) # {}
      BY <3>1, <1>3 DEF MessagesPast
    <3>3. \A o \in OpenAt(m), p \in OpenAt(n) : o = p
      <4>1. ASSUME NEW o \in OpenAt(m), NEW p \in OpenAt(n) PROVE o = p
        <5>1. o \in Before(m, "start") /\ p \in Before(n, "start")
          BY DEF OpenAt
        <5>2. p <= o /\ o <= p
          BY <5>1, <2>1, <3>1, OpenAtLast
        <5>3. o \in Nat /\ p \in Nat
          BY <5>1, BeforeIs, FramesDomain DEF Of
        <5> QED BY <5>2, <5>3
      <4> QED BY <4>1
    <3>4. OpenAt(m) = OpenAt(n)
      BY <3>2, <3>3
    <3> QED BY <3>2, <3>4, <2>3, <1>3 DEF TextKind
  <2> QED BY <1>0, <2>2, <2>3
<1> QED BY <1>1, <1>2, <1>3

-----------------------------------------------------------------------------
\* A frame that is looked at by itself carries its whole text.
LEMMA DeliveredFrame ==
  ASSUME RestoresTexts, ShapeInv, OpenInv, OutInv, outcome = "open",
         \A m \in DOMAIN out : Direct(out[m]) # None,
         NEW o, \A m \in DOMAIN out : o[m].text = Direct(out[m]),
         NEW n \in DOMAIN frames, frames[n].type # "delta"
  PROVE  TextAt(o, Members(n)) = RestoredText(n) /\ RestoredText(n) # None
<1>0. /\ protocol \in DOMAIN Event /\ n \in DOMAIN out /\ frames[n] \in Event[protocol]
      /\ Len(frames) \in Nat /\ DOMAIN frames = 1..Len(frames) /\ n \in Nat
  BY SeqShape, FramesDomain DEF ShapeInv, StreamShape
<1>1. /\ frames[n].type \in Type /\ frames[n].kind \in {"text", "tool", "other"}
      /\ frames[n].text \in Texts
      /\ frames[n].type \in {"stop", "opaque"} => frames[n].kind = "other"
      /\ frames[n].type = "direct" => frames[n].kind # "other"
  BY <1>0, EventIs
<1>2. Members(n) = {n}
  BY MembersOfFrame
<1>20. ASSUME NEW s, s[n].text \in Texts PROVE TextAt(s, {n}) = s[n].text
  <2>1. \A m \in {n} : n <= m /\ (m # n => s[m].text = <<>>)
    BY <1>0
  <2>2. n \in {n} /\ {n} \in SUBSET (1..Len(frames))
    BY <1>0
  <2> QED BY <2>1, <2>2, <1>0, <1>20, TextOfFirst
<1>3. Whole(Members(n)) = frames[n].text
  BY <1>1, <1>2, <1>20 DEF Whole
<1>4. o[n].text = Restored(TextKind(n), frames[n].text)
  <2>1. o[n].text = Direct(out[n])
    BY <1>0
  <2>2. Direct(out[n]) =
            IF frames[n].type = "direct" \/ (frames[n].type = "start" /\ frames[n].kind # "other")
            THEN Restore(frames[n].text)
            ELSE out[n].text
    BY <1>0, DirectIs
  <2>3. CASE frames[n].type \in {"direct", "start"}
    <3>1. TextKind(n) = IF frames[n].kind = "other" THEN "other" ELSE "text"
      BY <2>3 DEF TextKind
    <3>2. frames[n].type = "start" => out[n] = frames[n]
      BY DEF OutInv
    <3> QED BY <3>1, <3>2, <2>1, <2>2, <2>3, <1>1 DEF Restored
  <2>4. CASE frames[n].type \in {"stop", "opaque"}
    <3>1. TextKind(n) = "other" /\ out[n] = frames[n]
      BY <2>4, <1>1 DEF TextKind, OutInv
    <3> QED BY <3>1, <2>1, <2>2, <2>4 DEF Restored
  <2>5. CASE frames[n].type = "done"
    <3>1. TextKind(n) = frames[n].kind /\ out[n].text = Restored(frames[n].kind, frames[n].text)
      BY <2>5 DEF TextKind, OutInv
    <3> QED BY <3>1, <2>1, <2>2, <2>5
  <2>6. frames[n].type # "malformed"
    BY DEF OutInv
  <2> QED BY <2>3, <2>4, <2>5, <2>6, <1>1 DEF Type
<1>5. o[n].text # None
  BY <1>0
<1>6. o[n].text \in Texts
  BY <1>1, <1>4, <1>5 DEF RestoresTexts, RestoresText, Restored
<1>7. TextAt(o, Members(n)) = o[n].text
  BY <1>2, <1>6, <1>20
<1> QED BY <1>3, <1>4, <1>5, <1>7 DEF RestoredText

\* The first delta of a text carries the whole of it, or none of them is changed.
LEMMA DeliveredDelta ==
  ASSUME RestoresTexts, ShapeInv, OpenInv, OutInv, outcome = "open", DOMAIN pending = {},
         NEW o, \A m \in DOMAIN out : o[m].text = Direct(out[m]),
         NEW n \in DOMAIN frames, frames[n].type = "delta"
  PROVE  TextAt(o, Members(n)) = RestoredText(n) /\ RestoredText(n) # None
<1>0. /\ DOMAIN out = DOMAIN frames /\ n \in Members(n)
      /\ Len(frames) \in Nat /\ Members(n) \in SUBSET (1..Len(frames))
      /\ Members(n) \in SUBSET Nat
  BY SeqShape, FramesDomain DEF ShapeInv, StreamShape, Members
<1>1. ASSUME NEW m \in Members(n)
      PROVE  /\ m \in DOMAIN frames /\ frames[m].type = "delta" /\ frames[m].text \in Texts
             /\ TextKind(m) = TextKind(n) /\ Members(m) = Members(n)
             /\ o[m].text = out[m].text
             /\ WrittenDelta(m)
             /\ Kept(m) <=> protocol = "messages" /\ TextKind(n) = "other"
  <2>1. m \in DOMAIN frames /\ GroupOf(m) = GroupOf(n)
    BY DEF Members
  <2>2. frames[m].type = "delta"
    BY <2>1, GroupOfFrame
  <2>3. TextKind(m) = TextKind(n)
    BY <2>1, SameKind
  <2>4. Members(m) = Members(n)
    BY <2>1 DEF Members
  <2>5. frames[m].text \in Texts
    <3>1. frames[m] \in Event[protocol] /\ protocol \in DOMAIN Event
      BY <2>1 DEF ShapeInv, StreamShape
    <3> QED BY <3>1, EventIs
  <2>6. o[m].text = out[m].text
    BY <1>0, <2>1, <2>2, DirectIs
  <2>7. WrittenDelta(m)
    BY <2>1, <2>2 DEF OutInv
  <2>8. Range(Held(Key(frames[m]))) = {}
    BY DEF Held, Range
  <2> QED BY <2>1, <2>2, <2>3, <2>4, <2>5, <2>6, <2>7, <2>8 DEF Kept
<1>2. Whole(Members(n)) \in Texts
  BY <1>0, <1>1, TextTyped DEF Whole
<1>3. CASE protocol = "messages" /\ TextKind(n) = "other"
  <2>1. \A m \in Members(n) : o[m].text = frames[m].text
    BY <1>1, <1>3 DEF WrittenDelta
  <2>2. TextAt(o, Members(n)) = Whole(Members(n))
    BY <2>1, <1>0, TextAgrees DEF Whole
  <2>3. RestoredText(n) = Whole(Members(n))
    BY <1>3 DEF RestoredText, Restored
  <2> QED BY <2>2, <2>3, <1>2, EventAssumption
<1>4. CASE ~(protocol = "messages" /\ TextKind(n) = "other")
  <2>1. ASSUME NEW m \in Members(n)
        PROVE  /\ RestoredText(n) # None
               /\ o[m].text = IF \A k \in Members(n) : m <= k THEN RestoredText(n) ELSE <<>>
    <3>1. RestoredText(m) = RestoredText(n)
      BY <1>1 DEF RestoredText
    <3> QED BY <3>1, <1>1, <1>4 DEF WrittenDelta
  <2>2. RestoredText(n) \in Texts
    <3>1. RestoredText(n) # None
      BY <2>1, <1>0
    <3> QED BY <3>1, <1>2 DEF RestoredText, Restored, RestoresTexts, RestoresText
  <2>3. PICK first \in Members(n) : \A m \in Members(n) : first <= m
    BY <1>0, LeastNumber
  <2>4. o[first].text = RestoredText(n) /\ o[first].text \in Texts
    BY <2>1, <2>2, <2>3
  <2>5. \A m \in Members(n) : first <= m /\ (m # first => o[m].text = <<>>)
    <3>1. ASSUME NEW m \in Members(n), m # first PROVE o[m].text = <<>>
      <4>1. ~(m <= first)
        BY <2>3, <3>1, <1>0
      <4> QED BY <4>1, <2>1
    <3> QED BY <3>1, <2>3
  <2>6. TextAt(o, Members(n)) = o[first].text
    <3>1. PICK ns : ns = Members(n)
      OBVIOUS
    <3>2. PICK L : L = Len(frames)
      OBVIOUS
    <3>3. L \in Nat /\ ns \in SUBSET (1..L) /\ first \in ns
      BY <1>0, <3>1, <3>2
    <3>4. \A m \in ns : first <= m /\ (m # first => o[m].text = <<>>)
      BY <2>5, <3>1
    <3>5. TextAt(o, ns) = o[first].text
      BY <2>4, <3>3, <3>4, TextOfFirst
    <3> QED BY <3>1, <3>5
  <2> QED BY <2>1, <2>4, <2>6, <1>0
<1> QED BY <1>3, <1>4

-----------------------------------------------------------------------------
\* What the abstract stream says of a text, in terms of its frames.
LEMMA AbstractText ==
  ASSUME ShapeInv, OpenInv, outcome = "open", NEW n \in DOMAIN frames
  PROVE  /\ Abstract!KindOf(GroupOf(n)) = TextKind(n)
         /\ Abstract!TextOf(GroupOf(n)) = Whole(Members(n))
<1> DEFINE w == Parts(frames)
           group == GroupOf(n)
<1>1. /\ DOMAIN w = DOMAIN frames
      /\ \A m \in DOMAIN frames :
           w[m].group = GroupOf(m) /\ w[m].kind = TextKind(m) /\ w[m].text = frames[m].text
  BY DEF Parts
<1>2. Abstract!Range(w) = {w[m] : m \in DOMAIN frames}
  BY <1>1 DEF Abstract!Range
<1>3. Abstract!KindOf(group) = (CHOOSE part \in Abstract!Range(w) : part.group = group).kind
  BY DEF Abstract!KindOf
<1>4. Abstract!TextOf(group) = Abstract!TextAt(w, {m \in DOMAIN w : w[m].group = group})
  BY DEF Abstract!TextOf
<1> HIDE DEF w
<1>5. Abstract!KindOf(group) = TextKind(n)
  <2> DEFINE part == CHOOSE part \in Abstract!Range(w) : part.group = group
  <2>1. w[n] \in Abstract!Range(w) /\ w[n].group = group
    BY <1>1, <1>2
  <2>2. part \in Abstract!Range(w) /\ part.group = group
    <3> HIDE DEF group
    <3> QED BY <2>1
  <2>3. PICK m \in DOMAIN frames : part = w[m]
    <3> HIDE DEF part
    <3> QED BY <2>2, <1>2
  <2>4. GroupOf(m) = GroupOf(n) /\ part.kind = TextKind(m)
    <3> HIDE DEF part
    <3> QED BY <2>2, <2>3, <1>1
  <2>5. TextKind(m) = TextKind(n)
    BY <2>4, SameKind
  <2> QED BY <2>4, <2>5, <1>3
<1>6. {m \in DOMAIN w : w[m].group = group} = Members(n)
  BY <1>1 DEF Members
<1>7. TextAt(w, Members(n)) = TextAt(frames, Members(n))
  <2>1. Len(frames) \in Nat /\ Members(n) \in SUBSET (1..Len(frames))
    BY FramesDomain DEF Members
  <2>2. \A m \in Members(n) : w[m].text = frames[m].text
    BY <1>1 DEF Members
  <2> QED BY <2>1, <2>2, TextAgrees
<1>8. Abstract!TextOf(group) = TextAt(w, Members(n))
  BY <1>4, <1>6, SameText
<1> QED BY <1>5, <1>7, <1>8 DEF Whole

LEMMA TakesWrite ==
  ASSUME ShapeInv, NEW f \in Event[protocol], Take(f)
  PROVE  Abstract!Write
<1>1. Grows(f) /\ outcome = "open" /\ outcome' = "open"
  BY TakeGrows DEF Take
<1>2. Reads = <<>> /\ Reads' = <<>>
  BY <1>1 DEF Reads
<1>3. Abstract!IsPrefix(Parts(frames), Parts(frames)')
  BY <1>1, PartsGrow
<1> QED BY <1>1, <1>2, <1>3 DEF Abstract!Write

LEMMA RefusesAbstract ==
  ASSUME ShapeInv, NEW f \in Event[protocol], Refuse(f)
  PROVE  Abstract!Refuse
<1>1. Grows(f) /\ outcome = "open" /\ outcome' = "refused"
  BY DEF Refuse, Grows
<1>2. Reads = <<>> /\ Reads' = <<>>
  BY <1>1 DEF Reads
<1>3. Abstract!IsPrefix(Parts(frames), Parts(frames)')
  BY <1>1, PartsGrow
<1> QED BY <1>1, <1>2, <1>3 DEF Abstract!Refuse

\* Nothing but what the provider sent determines the parts of the stream.
LEMMA PartsSame ==
  ASSUME frames' = frames, protocol' = protocol
  PROVE  /\ \A n : GroupOf(n)' = GroupOf(n) /\ TextKind(n)' = TextKind(n)
         /\ Parts(frames)' = Parts(frames)
<1>1. \A n : GroupOf(n)' = GroupOf(n)
  BY DEF GroupOf, Before, Boundary, Key
<1>2. \A n : TextKind(n)' = TextKind(n)
  BY DEF TextKind, OpenAt, Before, Key
<1>3. Parts(frames)' = [n \in DOMAIN frames' |->
             [group |-> GroupOf(n)', kind |-> TextKind(n)', text |-> frames'[n].text]]
  BY DEF Parts
<1> QED BY <1>1, <1>2, <1>3 DEF Parts

LEMMA EndRefusesAbstract ==
  ASSUME ShapeInv, EndStream, outcome' = "refused"
  PROVE  Abstract!Refuse
<1>1. frames' = frames /\ protocol' = protocol /\ outcome = "open"
  BY DEF EndStream
<1>2. Reads = <<>> /\ Reads' = <<>>
  BY <1>1 DEF Reads
<1>3. Abstract!IsPrefix(Parts(frames), Parts(frames)')
  <2>1. PICK s : s = Parts(frames)
    OBVIOUS
  <2>2. Parts(frames)' = s
    BY <1>1, <2>1, PartsSame
  <2>3. IsSeq(s) /\ Len(s) \in Nat
    <3>1. DOMAIN s = 1..Len(frames) /\ s = [n \in 1..Len(frames) |-> s[n]] /\ Len(frames) \in Nat
      BY <2>1, FramesDomain DEF Parts
    <3> QED BY <3>1, SeqMap
  <2>4. IsPrefix(s, s)
    BY <2>3, PrefixIs
  <2> QED BY <2>1, <2>2, <2>4 DEF Abstract!IsPrefix, IsPrefix
<1> QED BY <1>1, <1>2, <1>3 DEF Abstract!Refuse

LEMMA DeliversAbstract ==
  ASSUME RestoresTexts, ShapeInv, OpenInv, OutInv, EndStream, outcome' = "delivered"
  PROVE  Abstract!Deliver
<1>1. /\ outcome = "open" /\ DOMAIN pending = {}
      /\ \A n \in DOMAIN out : Direct(out[n]) # None
      /\ out' = [n \in DOMAIN out |-> [out[n] EXCEPT !.text = Direct(out[n])]]
      /\ frames' = frames /\ protocol' = protocol
  BY DEF EndStream
<1>2. DOMAIN out = DOMAIN frames /\ DOMAIN out' = DOMAIN out
  BY <1>1, SeqShape DEF ShapeInv, StreamShape
<1>3. \A n \in DOMAIN out : out'[n].text = Direct(out[n])
  <2>1. ASSUME NEW n \in DOMAIN out PROVE out'[n].text = Direct(out[n])
    <3>1. PICK e : e = out[n]
      OBVIOUS
    <3>2. PICK f : f = frames[n]
      OBVIOUS
    <3>3. f \in Event[protocol] /\ protocol \in DOMAIN Event /\ Matches(e, f)
      BY <3>1, <3>2, <1>2 DEF ShapeInv, StreamShape
    <3>4. out'[n] = [e EXCEPT !.text = Direct(e)]
      BY <1>1, <3>1
    <3> QED BY <3>1, <3>3, <3>4, MatchesFields
  <2> QED BY <2>1
<1>4. ASSUME NEW n \in DOMAIN frames
      PROVE  /\ TextAt(out', Members(n)) =
                   Restored(Abstract!KindOf(GroupOf(n)), Abstract!TextOf(GroupOf(n)))
             /\ TextAt(out', Members(n)) # None
  <2>1. TextAt(out', Members(n)) = RestoredText(n) /\ RestoredText(n) # None
    BY <1>1, <1>3, DeliveredFrame, DeliveredDelta
  <2>2. RestoredText(n) = Restored(Abstract!KindOf(GroupOf(n)), Abstract!TextOf(GroupOf(n)))
    BY <1>1, AbstractText DEF RestoredText
  <2> QED BY <2>1, <2>2
<1>5. Abstract!Groups = {GroupOf(n) : n \in DOMAIN frames}
  <2>1. PICK w : w = Parts(frames)
    OBVIOUS
  <2>2. DOMAIN w = DOMAIN frames /\ \A n \in DOMAIN frames : w[n].group = GroupOf(n)
    BY <2>1 DEF Parts
  <2>3. Abstract!Range(w) = {w[n] : n \in DOMAIN frames}
    BY <2>2 DEF Abstract!Range
  <2>4. Abstract!Groups = {part.group : part \in Abstract!Range(w)}
    BY <2>1 DEF Abstract!Groups
  <2> QED BY <2>2, <2>3, <2>4
<1>6. Reads' = [group \in {GroupOf(n)' : n \in DOMAIN out'} |->
                   TextAt(out', {n \in DOMAIN out' : GroupOf(n)' = group})]
  BY DEF Reads
<1>7. \A n : GroupOf(n)' = GroupOf(n)
  BY <1>1, PartsSame
<1>8. {GroupOf(n)' : n \in DOMAIN out'} = Abstract!Groups
  BY <1>2, <1>5, <1>7
<1>9. ASSUME NEW group \in Abstract!Groups
      PROVE  /\ TextAt(out', {n \in DOMAIN out' : GroupOf(n)' = group}) =
                   Restored(Abstract!KindOf(group), Abstract!TextOf(group))
             /\ TextAt(out', {n \in DOMAIN out' : GroupOf(n)' = group}) # None
  <2>1. PICK n \in DOMAIN frames : group = GroupOf(n)
    BY <1>5
  <2>2. {m \in DOMAIN out' : GroupOf(m)' = group} = Members(n)
    BY <1>2, <1>7, <2>1 DEF Members
  <2> QED BY <2>1, <2>2, <1>4
<1>10. Reads' = [group \in Abstract!Groups |->
                    Restored(Abstract!KindOf(group), Abstract!TextOf(group))]
  BY <1>6, <1>8, <1>9
<1>11. \A group \in Abstract!Groups : Reads'[group] # None
  BY <1>9, <1>10
<1>12. Parts(frames)' = Parts(frames)
  BY <1>1, PartsSame
<1> QED BY <1>1, <1>10, <1>11, <1>12 DEF Abstract!Deliver

LEMMA StepRefines ==
  ASSUME RestoresTexts, WellFormedInv, [Next]_vars
  PROVE  [Abstract!Next]_(Abstract!vars)
<1>0. ShapeInv /\ OpenInv /\ OutInv
  BY DEF WellFormedInv
<1>1. ASSUME NEW f \in Event[protocol],
             \/ OpenBlock(f) \/ BlockDelta(f) \/ StopBlock(f)
             \/ GroupDelta(f) \/ Done(f) \/ Pass(f)
      PROVE  Abstract!Write
  <2>1. Take(f)
    BY <1>1 DEF OpenBlock, BlockDelta, StopBlock, GroupDelta, Done, Pass
  <2> QED BY <2>1, <1>0, TakesWrite
<1>2. ASSUME NEW f \in Event[protocol], Refuse(f)
      PROVE  Abstract!Refuse
  BY <1>0, <1>2, RefusesAbstract
<1>3. CASE EndStream
  <2>1. outcome' \in {"refused", "delivered"}
    BY <1>3 DEF EndStream
  <2> QED BY <2>1, <1>0, <1>3, EndRefusesAbstract, DeliversAbstract DEF Abstract!Next
<1>4. CASE UNCHANGED vars
  <2>1. /\ frames' = frames /\ protocol' = protocol /\ outcome' = outcome /\ out' = out
    BY <1>4 DEF vars
  <2>2. /\ \A n : GroupOf(n)' = GroupOf(n)
        /\ Parts(frames)' = Parts(frames)
    BY <2>1, PartsSame
  <2>3. Reads' = Reads
    BY <2>1, <2>2 DEF Reads
  <2> QED BY <2>1, <2>2, <2>3 DEF Abstract!vars
<1> QED BY <1>1, <1>2, <1>3, <1>4 DEF Next, Abstract!Next

LEMMA InitRefines == Init => Abstract!Init
<1>1. ASSUME Init PROVE Parts(frames) = <<>> /\ Reads = <<>>
  <2>1. frames = <<>> /\ outcome = "open"
    BY <1>1 DEF Init
  <2> QED BY <2>1 DEF Parts, Reads
<1> QED BY <1>1 DEF Abstract!Init, Init

\* However a text is cut into deltas, and whatever other texts they interleave
\* with, the client reads it restored as a whole, or reads nothing at all
\* (ReadsRestored): restoring an event stream implements RestoredStream.
THEOREM RestoresAsAWhole ==
  ASSUME RestoresTexts
  PROVE  Spec => ReadsRestored
<1>1. WellFormedInv /\ [Next]_vars => [Abstract!Next]_(Abstract!vars)
  BY StepRefines
<1> QED BY <1>1, InitRefines, RestorationInvariant, PTL DEF Spec, ReadsRestored, Abstract!Spec
=============================================================================
