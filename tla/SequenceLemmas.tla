--------------------------- MODULE SequenceLemmas ---------------------------
(* Facts about sequences, of any elements, that the proofs of several modules *)
(* rest on: induction on their lengths, definitions by recursion on them, what*)
(* FlattenSeq makes of them, maps over their elements, what is picked from    *)
(* them by position or by membership, and appending.                          *)
EXTENDS Integers, SequencesExt, SequenceTheorems, WellFoundedInduction, TLAPS

(* Induction on the natural numbers, for a set that is closed under successor.*)
Below == {pair \in Nat \X Nat : pair[1] < pair[2]}

(* There is no endless descent below a natural number.                        *)
LEMMA BelowWellFounded == IsWellFoundedOn(Below, Nat)
  BY NatLessThanWellFounded, Zenon DEF OpToRel, Below

(* A set that has 0 and every successor has all natural numbers.              *)
LEMMA AllNaturals ==
    ASSUME NEW S, 0 \in S, \A n \in Nat : n \in S => n + 1 \in S
    PROVE  \A n \in Nat : n \in S
<1>. SUFFICES ASSUME Nat \ S # {}  PROVE FALSE
  OBVIOUS
<1>1. PICK least \in Nat \ S : \A n \in Nat \ S : ~(<<n, least>> \in Below)
  BY BelowWellFounded, WFMin, Nat \ S \subseteq Nat, Zenon
<1>2. \A n \in Nat : n < least => n \in S
  BY <1>1 DEF Below
<1>3. least # 0 /\ least - 1 \in Nat /\ least - 1 < least /\ (least - 1) + 1 = least
  BY <1>1
<1>. QED  BY <1>1, <1>2, <1>3

(* A set of numbers that is bounded has a least and a greatest one.           *)
LEMMA LeastOf ==
    ASSUME NEW S \in SUBSET Nat, S # {}
    PROVE  \E least \in S : \A n \in S : least <= n
<1>1. PICK least \in S : \A n \in S : ~(<<n, least>> \in Below)
  BY BelowWellFounded, WFMin, Zenon
<1>2. \A n \in S : n \in Nat /\ least \in Nat /\ ~(n < least)
  BY <1>1 DEF Below
<1>. QED  BY <1>2

(* A bounded set of natural numbers has a greatest one.                       *)
LEMMA GreatestOf ==
    ASSUME NEW S \in SUBSET Nat, S # {}, NEW bound \in Nat, \A n \in S : n <= bound
    PROVE  \E greatest \in S : \A n \in S : n <= greatest
<1>. DEFINE left == {bound - n : n \in S}
<1>1. left \in SUBSET Nat /\ left # {}
  <2>1. \A n \in S : bound - n \in Nat
    OBVIOUS
  <2>2. PICK n \in S : TRUE
    OBVIOUS
  <2>. QED  BY <2>1, <2>2
<1>2. PICK least \in left : \A m \in left : least <= m
  BY <1>1, LeastOf
<1>3. PICK n \in S : least = bound - n
  BY <1>2
<1>4. \A other \in S : bound - n <= bound - other
  BY <1>2, <1>3
<1>5. \A other \in S : other <= n
  BY <1>4
<1>. QED  BY <1>5

(* A recursive definition over an initial part of the natural numbers: the    *)
(* function it defines exists, and its values are of the type that each step  *)
(* keeps. step is the pair of the index and the value before it, to the next. *)
Recursive(V, base, step, n) ==
    \E f \in [0 .. n -> V] : f[0] = base /\ \A i \in 1 .. n : f[i] = step[<<i, f[i - 1]>>]

(* Such a function exists when each step keeps the type.                      *)
LEMMA Recursion ==
    ASSUME NEW V, NEW base \in V, NEW step, NEW n \in Nat,
           \A i \in 1 .. n, v \in V : step[<<i, v>>] \in V
    PROVE  Recursive(V, base, step, n)
<1>. DEFINE Upto(m) == \E f \in [0 .. m -> V] :
                          f[0] = base /\ \A i \in 1 .. m : f[i] = step[<<i, f[i - 1]>>]
            S == {m \in Nat : m <= n => Upto(m)}
<1>1. 0 \in S
  <2>1. [i \in 0 .. 0 |-> base] \in [0 .. 0 -> V] /\ [i \in 0 .. 0 |-> base][0] = base /\ 1 .. 0 = {}
    OBVIOUS
  <2>. QED  BY <2>1
<1>2. ASSUME NEW m \in Nat, m \in S  PROVE m + 1 \in S
  <2>. SUFFICES ASSUME m + 1 <= n  PROVE Upto(m + 1)
    OBVIOUS
  <2>1. PICK f \in [0 .. m -> V] : f[0] = base /\ \A i \in 1 .. m : f[i] = step[<<i, f[i - 1]>>]
    BY <1>2
  <2>2. m \in 0 .. m /\ m + 1 \in 1 .. n
    OBVIOUS
  <2>3. step[<<m + 1, f[m]>>] \in V
    BY <2>1, <2>2
  <2>. DEFINE g == [i \in 0 .. m + 1 |-> IF i = m + 1 THEN step[<<m + 1, f[m]>>] ELSE f[i]]
  <2>4. g \in [0 .. m + 1 -> V]
    <3>1. \A i \in 0 .. m + 1 : i # m + 1 => i \in 0 .. m
      OBVIOUS
    <3>. QED  BY <2>1, <2>3, <3>1
  <2>5. g[0] = base
    <3>1. 0 \in 0 .. m + 1 /\ 0 # m + 1
      OBVIOUS
    <3>. QED  BY <2>1, <3>1
  <2>6. ASSUME NEW i \in 1 .. m + 1  PROVE g[i] = step[<<i, g[i - 1]>>]
    <3>1. CASE i = m + 1
      <4>1. i \in 0 .. m + 1 /\ i - 1 = m /\ m \in 0 .. m + 1 /\ m # m + 1
        BY <3>1
      <4>. QED  BY <3>1, <4>1
    <3>2. CASE i # m + 1
      <4>1. i \in 1 .. m /\ i \in 0 .. m + 1 /\ i - 1 \in 0 .. m + 1 /\ i - 1 # m + 1
        BY <3>2
      <4>. QED  BY <2>1, <3>2, <4>1
    <3>. QED  BY <3>1, <3>2
  <2>. HIDE DEF g
  <2>. QED  BY <2>4, <2>5, <2>6
<1>. HIDE DEF S
<1>3. n \in S
  BY <1>1, <1>2, AllNaturals
<1>. QED  BY <1>3 DEF S, Recursive

(* What FlattenSeq computes: the sequences one after the other.               *)
Joins(f, s) ==
    f[0] = <<>> /\ \A i \in 1 .. Len(s) : f[i] = f[i - 1] \o s[i]

(* The same as the definition in SequencesExt has it, which begins with the   *)
(* first sequence.                                                            *)
Flattening(f, s) ==
    f = [i \in 1 .. Len(s) |-> IF i = 1 THEN s[i] ELSE f[i - 1] \o s[i]]

(* FlattenSeq is the last of these values.                                    *)
LEMMA Flattened ==
    ASSUME NEW V, NEW s \in Seq(Seq(V))
    PROVE  \E f \in [0 .. Len(s) -> Seq(V)] : Joins(f, s) /\ FlattenSeq(s) = f[Len(s)]
<1>1. Len(s) \in Nat /\ \A i \in 1 .. Len(s) : s[i] \in Seq(V)
  OBVIOUS
<1>. DEFINE n == Len(s)
            step == [p \in (1 .. n) \X Seq(V) |-> p[2] \o s[p[1]]]
<1>2. \A i \in 1 .. n, v \in Seq(V) : step[<<i, v>>] = v \o s[i] /\ v \o s[i] \in Seq(V)
  <2>1. ASSUME NEW i \in 1 .. n, NEW v \in Seq(V)  PROVE v \o s[i] \in Seq(V)
    <3>1. s[i] \in Seq(V)
      BY <1>1
    <3>2. PICK t \in Seq(V) : t = s[i]
      BY <3>1
    <3>. QED  BY <3>2, ConcatProperties
  <2>2. ASSUME NEW i \in 1 .. n, NEW v \in Seq(V)  PROVE step[<<i, v>>] = v \o s[i]
    OBVIOUS
  <2>. QED  BY <2>1, <2>2
<1>. HIDE DEF step
<1>3. <<>> \in Seq(V)
  OBVIOUS
<1>4. PICK f \in [0 .. n -> Seq(V)] : f[0] = <<>> /\ \A i \in 1 .. n : f[i] = step[<<i, f[i - 1]>>]
  <2>1. \A i \in 1 .. n, v \in Seq(V) : step[<<i, v>>] \in Seq(V)
    BY <1>2, Zenon
  <2>. HIDE DEF n
  <2>2. n \in Nat
    BY <1>1 DEF n
  <2>3. PICK base : base = <<>> /\ base \in Seq(V)
    BY <1>3
  <2>4. Recursive(Seq(V), base, step, n)
    BY <2>1, <2>2, <2>3, Recursion
  <2>. QED  BY <2>3, <2>4, Zenon DEF Recursive
<1>5. ASSUME NEW i \in 1 .. n  PROVE f[i] = f[i - 1] \o s[i]
  <2>1. i - 1 \in 0 .. n
    BY <1>1
  <2>2. f[i - 1] \in Seq(V)
    BY <1>4, <2>1
  <2>. QED  BY <1>2, <1>4, <2>2
<1>6. CASE n = 0
  <2>1. s = <<>> /\ FlattenSeq(s) = s
    BY <1>6 DEF FlattenSeq
  <2>2. FlattenSeq(s) = f[n]
    BY <1>4, <1>6, <2>1
  <2>. QED  BY <1>4, <1>5, <2>2 DEF Joins
<1>7. CASE n # 0
  <2>. DEFINE part == [i \in 1 .. n |-> f[i]]
              flatten == CHOOSE g : Flattening(g, s)
  <2>1. Flattening(part, s)
    <3>1. ASSUME NEW i \in 1 .. n  PROVE part[i] = IF i = 1 THEN s[i] ELSE part[i - 1] \o s[i]
      <4>1. CASE i = 1
        <5>1. f[1] = f[0] \o s[1]
          <6>1. 1 - 1 = 0 /\ 1 \in 1 .. n
            BY <4>1
          <6>2. f[1] = f[1 - 1] \o s[1]
            BY <1>5, <6>1, Zenon
          <6>. QED  BY <6>1, <6>2, Zenon
        <5>2. PICK t \in Seq(V) : t = s[1]
          BY <1>1, <4>1
        <5>3. <<>> \o t = t
          OBVIOUS
        <5>. QED  BY <1>4, <4>1, <5>1, <5>2, <5>3
      <4>2. CASE i # 1
        <5>1. i - 1 \in 1 .. n
          BY <1>1, <4>2
        <5>. QED  BY <1>5, <4>2, <5>1
      <4>. QED  BY <4>1, <4>2
    <3>. QED  BY <3>1 DEF Flattening
  <2>2. Flattening(flatten, s)
    BY <2>1
  <2>3. FlattenSeq(s) = flatten[n]
    BY <1>7, Zenon DEF FlattenSeq, Flattening
  <2>. HIDE DEF flatten, part
  <2>4. \A i \in 1 .. n : flatten[i] = IF i = 1 THEN s[i] ELSE flatten[i - 1] \o s[i]
    BY <2>2 DEF Flattening
  <2>5. \A i \in 1 .. n : part[i] = IF i = 1 THEN s[i] ELSE part[i - 1] \o s[i]
    BY <2>1 DEF Flattening
  <2>. DEFINE S == {i \in Nat : i \in 1 .. n => flatten[i] = part[i]}
  <2>6. 0 \in S
    OBVIOUS
  <2>7. ASSUME NEW i \in Nat, i \in S  PROVE i + 1 \in S
    <3>. SUFFICES ASSUME i + 1 \in 1 .. n  PROVE flatten[i + 1] = part[i + 1]
      OBVIOUS
    <3>1. CASE i = 0
      BY <2>4, <2>5, <3>1
    <3>2. CASE i # 0
      <4>1. i \in 1 .. n /\ i + 1 # 1 /\ (i + 1) - 1 = i
        BY <1>1, <3>2
      <4>2. flatten[i] = part[i]
        BY <2>7, <4>1
      <4>. QED  BY <2>4, <2>5, <4>1, <4>2
    <3>. QED  BY <3>1, <3>2
  <2>. HIDE DEF S
  <2>8. n \in S
    BY <1>1, <2>6, <2>7, AllNaturals
  <2>9. flatten[n] = f[n]
    <3>1. n \in 1 .. n
      BY <1>1, <1>7
    <3>. QED  BY <2>8, <3>1 DEF S, part
  <2>. QED  BY <1>4, <1>5, <2>3, <2>9 DEF Joins
<1>. QED  BY <1>6, <1>7

(* It keeps the type of the elements,                                         *)
LEMMA FlattenTyped ==
    ASSUME NEW V, NEW s \in Seq(Seq(V))
    PROVE  FlattenSeq(s) \in Seq(V)
<1>1. PICK f \in [0 .. Len(s) -> Seq(V)] : FlattenSeq(s) = f[Len(s)]
  BY Flattened
<1>2. Len(s) \in 0 .. Len(s)
  OBVIOUS
<1>. QED  BY <1>1, <1>2

(* puts what is appended at the end,                                          *)
LEMMA FlattenAppend ==
    ASSUME NEW V, NEW s \in Seq(Seq(V)), NEW more \in Seq(V)
    PROVE  FlattenSeq(Append(s, more)) = FlattenSeq(s) \o more
<1>. DEFINE t == Append(s, more)
            n == Len(s)
<1>1. /\ t \in Seq(Seq(V)) /\ n \in Nat /\ Len(t) = n + 1 /\ t[n + 1] = more
      /\ \A i \in 1 .. n : t[i] = s[i]
  OBVIOUS
<1>. HIDE DEF t, n
<1>2. PICK f \in [0 .. n -> Seq(V)] : Joins(f, s) /\ FlattenSeq(s) = f[n]
  BY Flattened DEF n
<1>3. PICK g \in [0 .. Len(t) -> Seq(V)] : Joins(g, t) /\ FlattenSeq(t) = g[Len(t)]
  BY <1>1, Flattened, Zenon
<1>4. \A i \in 1 .. n : f[i] = f[i - 1] \o s[i] /\ g[i] = g[i - 1] \o s[i]
  <2>1. \A i \in 1 .. n : i \in 1 .. n + 1
    BY <1>1
  <2>2. \A i \in 1 .. n : f[i] = f[i - 1] \o s[i]
    BY <1>2, Zenon DEF Joins, n
  <2>3. \A i \in 1 .. n + 1 : g[i] = g[i - 1] \o t[i]
    BY <1>1, <1>3, Zenon DEF Joins
  <2>. QED  BY <1>1, <2>1, <2>2, <2>3, Zenon
<1>. DEFINE S == {i \in Nat : i \in 0 .. n => f[i] = g[i]}
<1>5. 0 \in S
  BY <1>2, <1>3 DEF Joins
<1>6. ASSUME NEW i \in Nat, i \in S  PROVE i + 1 \in S
  <2>. SUFFICES ASSUME i + 1 \in 0 .. n  PROVE f[i + 1] = g[i + 1]
    OBVIOUS
  <2>1. i + 1 \in 1 .. n /\ (i + 1) - 1 = i /\ i \in 0 .. n
    BY <1>1
  <2>2. f[i] = g[i]
    BY <1>6, <2>1
  <2>3. f[i + 1] = f[i] \o s[i + 1] /\ g[i + 1] = g[i] \o s[i + 1]
    BY <1>4, <2>1
  <2>. QED  BY <2>2, <2>3, Zenon
<1>. HIDE DEF S
<1>7. n \in S
  BY <1>1, <1>5, <1>6, AllNaturals
<1>8. f[n] = g[n]
  BY <1>1, <1>7 DEF S
<1>9. g[n + 1] = g[n] \o more
  <2>1. n + 1 \in 1 .. Len(t) /\ (n + 1) - 1 = n
    BY <1>1
  <2>2. g[n + 1] = g[(n + 1) - 1] \o t[n + 1]
    BY <1>3, <2>1, Zenon DEF Joins
  <2>. QED  BY <1>1, <2>1, <2>2
<1>10. FlattenSeq(t) = g[n + 1]
  BY <1>1, <1>3
<1>. QED  BY <1>2, <1>8, <1>9, <1>10 DEF t

(* makes nothing of nothing,                                                  *)
LEMMA FlattenNothing == ASSUME NEW s, s \in Seq({}) \/ Len(s) = 0 PROVE FlattenSeq(s) = s
<1>1. Len(s) = 0
  OBVIOUS
<1>. QED  BY <1>1 DEF FlattenSeq

(* Induction on sequences, for a set that is closed under Append.             *)
LEMMA AllSequences ==
    ASSUME NEW V, NEW S, <<>> \in S, \A s \in Seq(V), e \in V : s \in S => Append(s, e) \in S
    PROVE  \A s \in Seq(V) : s \in S
<1>. DEFINE N == {n \in Nat : \A s \in Seq(V) : Len(s) = n => s \in S}
<1>1. 0 \in N
  <2>1. \A s \in Seq(V) : Len(s) = 0 => s = <<>>
    OBVIOUS
  <2>. QED  BY <2>1
<1>2. ASSUME NEW n \in Nat, n \in N  PROVE n + 1 \in N
  <2>1. ASSUME NEW s \in Seq(V), Len(s) = n + 1  PROVE s \in S
    <3>1. s # <<>>
      BY <2>1
    <3>2. PICK t \in Seq(V), e \in V : s = Append(t, e)
      BY <3>1, SequenceEmptyOrAppend
    <3>3. Len(t) = n
      <4>1. Len(s) = Len(t) + 1
        BY <3>2
      <4>. QED  BY <2>1, <4>1
    <3>. QED  BY <1>2, <3>2, <3>3
  <2>. QED  BY <2>1
<1>. HIDE DEF N
<1>3. \A n \in Nat : n \in N
  BY <1>1, <1>2, AllNaturals
<1>. QED  BY <1>3 DEF N

(* and distributes over concatenation.                                        *)
LEMMA FlattenConcat ==
    ASSUME NEW V, NEW s \in Seq(Seq(V)), NEW t \in Seq(Seq(V))
    PROVE  FlattenSeq(s \o t) = FlattenSeq(s) \o FlattenSeq(t)
<1>. DEFINE S == {u \in Seq(Seq(V)) : FlattenSeq(s \o u) = FlattenSeq(s) \o FlattenSeq(u)}
<1>1. <<>> \in S
  <2>1. s \o <<>> = s
    OBVIOUS
  <2>2. PICK all \in Seq(V) : all = FlattenSeq(s)
    BY FlattenTyped
  <2>3. all \o <<>> = all
    OBVIOUS
  <2>4. FlattenSeq(<<>>) = <<>>
    BY FlattenNothing
  <2>5. FlattenSeq(s) \o FlattenSeq(<<>>) = FlattenSeq(s)
    BY <2>2, <2>3, <2>4, Zenon
  <2>. QED  BY <2>1, <2>5
<1>2. ASSUME NEW u \in Seq(Seq(V)), NEW e \in Seq(V), u \in S  PROVE Append(u, e) \in S
  <2>1. s \o Append(u, e) = Append(s \o u, e)
    OBVIOUS
  <2>2. FlattenSeq(Append(u, e)) = FlattenSeq(u) \o e
    BY FlattenAppend
  <2>3. s \o u \in Seq(Seq(V))
    BY ConcatProperties
  <2>4. FlattenSeq(Append(s \o u, e)) = FlattenSeq(s \o u) \o e
    BY <2>3, FlattenAppend
  <2>5. PICK a \in Seq(V), b \in Seq(V) : a = FlattenSeq(s) /\ b = FlattenSeq(u)
    BY FlattenTyped
  <2>6. (a \o b) \o e = a \o (b \o e)
    OBVIOUS
  <2>7. FlattenSeq(s \o u) = a \o b
    BY <1>2, <2>5
  <2>8. FlattenSeq(s \o Append(u, e)) = FlattenSeq(s) \o FlattenSeq(Append(u, e))
    BY <2>1, <2>2, <2>4, <2>5, <2>6, <2>7, Zenon
  <2>9. Append(u, e) \in Seq(Seq(V))
    OBVIOUS
  <2>. QED  BY <2>8, <2>9
<1>. HIDE DEF S
<1>3. t \in S
  BY <1>1, <1>2, AllSequences
<1>. QED  BY <1>3 DEF S

(* Where the elements of a flattened sequence come from: each from one place  *)
(* of one of the sequences, in the order of these places.                     *)
PlacesIn(ss) == {p \in Nat \X Nat : p[1] \in 1 .. Len(ss) /\ p[2] \in 1 .. Len(ss[p[1]])}

(* The order of places, and a function that says where each element comes     *)
(* from.                                                                      *)
Earlier(p, q) == p[1] < q[1] \/ (p[1] = q[1] /\ p[2] < q[2])

Locates(at, all, ss) ==
    /\ at \in [1 .. Len(all) -> PlacesIn(ss)]
    /\ \A k \in 1 .. Len(all) : all[k] = ss[at[k][1]][at[k][2]]
    /\ \A p \in PlacesIn(ss) : \E k \in 1 .. Len(all) : at[k] = p
    /\ \A k, l \in 1 .. Len(all) : k < l => Earlier(at[k], at[l])

(* One more sequence adds its own places behind those of the others.          *)
LEMMA LocatesMore ==
    ASSUME NEW V, NEW ss \in Seq(Seq(V)), NEW more \in Seq(V), NEW all \in Seq(V), NEW at,
           Locates(at, all, ss)
    PROVE  \E now : Locates(now, all \o more, Append(ss, more))
<1>. DEFINE n == Len(ss)
            l == Len(all)
            m == Len(more)
            tt == Append(ss, more)
            now == [k \in 1 .. l + m |-> IF k <= l THEN at[k] ELSE <<n + 1, k - l>>]
<1>1. n \in Nat /\ l \in Nat /\ m \in Nat
  OBVIOUS
<1>2. Len(all \o more) = l + m
  OBVIOUS
<1>3. /\ \A k \in 1 .. l : (all \o more)[k] = all[k]
      /\ \A k \in 1 .. l + m : k > l => (all \o more)[k] = more[k - l]
  OBVIOUS
<1>4. Len(tt) = n + 1 /\ tt[n + 1] = more /\ \A i \in 1 .. n : tt[i] = ss[i]
  OBVIOUS
<1>. HIDE DEF n, l, m, tt
<1>5. \A i, j : <<i, j>> \in PlacesIn(ss) <=> i \in 1 .. n /\ j \in 1 .. Len(ss[i])
  <2>1. \A i \in 1 .. n : Len(ss[i]) \in Nat
    BY DEF n
  <2>. QED  BY <1>1, <2>1 DEF PlacesIn, n
<1>6. \A i, j : <<i, j>> \in PlacesIn(tt) <=> <<i, j>> \in PlacesIn(ss) \/ (i = n + 1 /\ j \in 1 .. m)
  <2>1. \A i, j : <<i, j>> \in PlacesIn(tt) <=> i \in 1 .. n + 1 /\ j \in 1 .. Len(tt[i])
    <3>1. \A i \in 1 .. n + 1 : Len(tt[i]) \in Nat
      <4>1. \A i \in 1 .. n : Len(ss[i]) \in Nat
        BY DEF n
      <4>. QED  BY <1>1, <1>4, <4>1 DEF m
    <3>. QED  BY <1>1, <1>4, <3>1 DEF PlacesIn
  <2>2. \A i : i \in 1 .. n + 1 <=> i \in 1 .. n \/ i = n + 1
    BY <1>1
  <2>. QED  BY <1>1, <1>4, <1>5, <2>1, <2>2, Zenon DEF m
<1>7. /\ at \in [1 .. l -> PlacesIn(ss)]
      /\ \A k \in 1 .. l : all[k] = ss[at[k][1]][at[k][2]]
      /\ \A p \in PlacesIn(ss) : \E k \in 1 .. l : at[k] = p
      /\ \A j, k \in 1 .. l : j < k => Earlier(at[j], at[k])
  BY Zenon DEF Locates, l
<1>8. \A ss2, p : p \in PlacesIn(ss2) => p = <<p[1], p[2]>> /\ p[1] \in Nat /\ p[2] \in Nat
  BY DEF PlacesIn
<1>9. \A k \in 1 .. l : at[k] = <<at[k][1], at[k][2]>> /\ at[k] \in PlacesIn(ss) /\ at[k][1] \in 1 .. n /\ at[k][2] \in Nat
  BY <1>5, <1>7, <1>8
<1>10. \A k \in 1 .. l + m : IF k <= l THEN k \in 1 .. l /\ now[k] = at[k]
                             ELSE k - l \in 1 .. m /\ now[k] = <<n + 1, k - l>>
  BY <1>1
<1>. HIDE DEF now
<1>11. now \in [1 .. l + m -> PlacesIn(tt)]
  <2>. SUFFICES ASSUME NEW k \in 1 .. l + m  PROVE now[k] \in PlacesIn(tt)
    BY DEF now
  <2>1. CASE k <= l
    <3>1. k \in 1 .. l /\ now[k] = at[k]
      BY <1>10, <2>1
    <3>2. <<at[k][1], at[k][2]>> \in PlacesIn(ss)
      BY <1>9, <3>1, Zenon
    <3>3. <<at[k][1], at[k][2]>> \in PlacesIn(tt)
      BY <1>6, <3>2, Zenon
    <3>. QED  BY <1>9, <3>1, <3>3, Zenon
  <2>2. CASE ~(k <= l)
    BY <1>6, <1>10, <2>2
  <2>. QED  BY <2>1, <2>2
<1>12. ASSUME NEW k \in 1 .. l + m  PROVE (all \o more)[k] = tt[now[k][1]][now[k][2]]
  <2>1. CASE k <= l
    <3>1. k \in 1 .. l /\ now[k] = at[k]
      BY <1>10, <2>1
    <3>2. (all \o more)[k] = all[k] /\ all[k] = ss[at[k][1]][at[k][2]]
      BY <1>3, <1>7, <3>1, Zenon
    <3>3. tt[at[k][1]] = ss[at[k][1]]
      BY <1>4, <1>9, <3>1
    <3>. QED  BY <3>1, <3>2, <3>3, Zenon
  <2>2. CASE ~(k <= l)
    <3>1. now[k] = <<n + 1, k - l>> /\ k > l
      BY <1>1, <1>10, <2>2
    <3>2. now[k][1] = n + 1 /\ now[k][2] = k - l
      BY <3>1
    <3>. QED  BY <1>3, <1>4, <3>1, <3>2
  <2>. QED  BY <2>1, <2>2
<1>13. ASSUME NEW p \in PlacesIn(tt)  PROVE \E k \in 1 .. l + m : now[k] = p
  <2>1. p = <<p[1], p[2]>>
    BY <1>8
  <2>2. CASE p \in PlacesIn(ss)
    <3>1. PICK k \in 1 .. l : at[k] = p
      BY <1>7, <2>2
    <3>2. k \in 1 .. l + m /\ k <= l
      BY <1>1
    <3>. QED  BY <1>10, <3>1, <3>2
  <2>3. CASE p[1] = n + 1 /\ p[2] \in 1 .. m
    <3>1. p[2] + l \in 1 .. l + m /\ ~(p[2] + l <= l) /\ (p[2] + l) - l = p[2]
      BY <1>1, <2>3
    <3>. QED  BY <1>10, <2>1, <2>3, <3>1
  <2>. QED  BY <1>6, <2>1, <2>2, <2>3
<1>14. ASSUME NEW j \in 1 .. l + m, NEW k \in 1 .. l + m, j < k  PROVE Earlier(now[j], now[k])
  <2>1. CASE k <= l
    <3>1. j \in 1 .. l /\ k \in 1 .. l /\ now[j] = at[j] /\ now[k] = at[k]
      <4>1. j <= l
        BY <1>1, <1>14, <2>1
      <4>. QED  BY <1>10, <2>1, <4>1
    <3>. QED  BY <1>7, <1>14, <3>1, Zenon
  <2>2. CASE j <= l /\ ~(k <= l)
    <3>1. now[j][1] \in 1 .. n /\ now[k][1] = n + 1
      BY <1>9, <1>10, <2>2
    <3>. QED  BY <1>1, <3>1 DEF Earlier
  <2>3. CASE ~(j <= l)
    <3>1. now[j] = <<n + 1, j - l>> /\ now[k] = <<n + 1, k - l>>
      BY <1>1, <1>10, <1>14, <2>3
    <3>2. now[j][1] = now[k][1] /\ now[j][2] = j - l /\ now[k][2] = k - l
      BY <3>1
    <3>. QED  BY <1>1, <1>14, <3>2 DEF Earlier
  <2>. QED  BY <2>1, <2>2, <2>3
<1>15. Locates(now, all \o more, tt)
  BY <1>2, <1>11, <1>12, <1>13, <1>14 DEF Locates
<1>. QED  BY <1>15 DEF tt

(* Every element of a flattened sequence has its place.                       *)
LEMMA FlattenLocated ==
    ASSUME NEW V, NEW s \in Seq(Seq(V))
    PROVE  \E at : Locates(at, FlattenSeq(s), s)
<1>. DEFINE S == {u \in Seq(Seq(V)) : \E at : Locates(at, FlattenSeq(u), u)}
<1>1. <<>> \in S
  <2>1. FlattenSeq(<<>>) = <<>>
    BY FlattenNothing
  <2>2. PlacesIn(<<>>) = {}
    BY DEF PlacesIn
  <2>3. [k \in 1 .. 0 |-> k] \in [1 .. 0 -> PlacesIn(<<>>)] /\ Len(<<>>) = 0
    OBVIOUS
  <2>4. Locates([k \in 1 .. 0 |-> k], <<>>, <<>>)
    BY <2>2, <2>3 DEF Locates
  <2>. QED  BY <2>1, <2>4
<1>2. ASSUME NEW u \in Seq(Seq(V)), NEW e \in Seq(V), u \in S  PROVE Append(u, e) \in S
  <2>1. FlattenSeq(Append(u, e)) = FlattenSeq(u) \o e
    BY FlattenAppend
  <2>2. FlattenSeq(u) \in Seq(V)
    BY FlattenTyped
  <2>3. PICK at : Locates(at, FlattenSeq(u), u)
    BY <1>2
  <2>4. \E now : Locates(now, FlattenSeq(u) \o e, Append(u, e))
    BY <2>2, <2>3, LocatesMore
  <2>5. Append(u, e) \in Seq(Seq(V))
    OBVIOUS
  <2>. QED  BY <2>1, <2>4, <2>5
<1>. HIDE DEF S
<1>3. s \in S
  BY <1>1, <1>2, AllSequences
<1>. QED  BY <1>3 DEF S

(* The values of a function at the elements of a sequence, one after another. *)
FlattenMap(g, s) == FlattenSeq([i \in DOMAIN s |-> g[s[i]]])

(* Of the empty sequence there are no values.                                 *)
LEMMA MapEmpty == ASSUME NEW g  PROVE FlattenMap(g, <<>>) = <<>>
<1>1. Len([i \in DOMAIN <<>> |-> g[<<>>[i]]]) = 0 /\ [i \in DOMAIN <<>> |-> g[<<>>[i]]] = <<>>
  OBVIOUS
<1>. QED  BY <1>1, FlattenNothing DEF FlattenMap

(* The values are those the function has.                                     *)
LEMMA MapTyped ==
    ASSUME NEW V, NEW W, NEW g \in [V -> Seq(W)], NEW s \in Seq(V)
    PROVE  /\ [i \in DOMAIN s |-> g[s[i]]] \in Seq(Seq(W))
           /\ FlattenMap(g, s) \in Seq(W)
<1>1. PICK n \in Nat : DOMAIN s = 1 .. n /\ \A i \in 1 .. n : s[i] \in V
  BY Len(s) \in Nat
<1>2. [i \in DOMAIN s |-> g[s[i]]] \in Seq(Seq(W))
  BY <1>1
<1>. QED  BY <1>2, FlattenTyped DEF FlattenMap

(* An appended element's values come last.                                    *)
LEMMA MapAppend ==
    ASSUME NEW V, NEW W, NEW g \in [V -> Seq(W)], NEW s \in Seq(V), NEW e \in V
    PROVE  FlattenMap(g, Append(s, e)) = FlattenMap(g, s) \o g[e]
<1>. DEFINE image == [i \in DOMAIN s |-> g[s[i]]]
            longer == [i \in DOMAIN Append(s, e) |-> g[Append(s, e)[i]]]
<1>1. image \in Seq(Seq(W)) /\ g[e] \in Seq(W)
  BY MapTyped
<1>2. PICK n \in Nat : /\ DOMAIN s = 1 .. n /\ DOMAIN Append(s, e) = 1 .. n + 1
                       /\ Append(s, e)[n + 1] = e /\ \A i \in 1 .. n : Append(s, e)[i] = s[i]
  BY Len(s) \in Nat
<1>3. image = [i \in 1 .. n |-> g[s[i]]] /\ Len(image) = n
  BY <1>2
<1>4. longer = [i \in 1 .. n + 1 |-> g[Append(s, e)[i]]]
  BY <1>2
<1>5. Append(image, g[e]) = [i \in 1 .. n + 1 |-> IF i = n + 1 THEN g[e] ELSE image[i]]
  BY <1>3
<1>6. \A i \in 1 .. n + 1 : (IF i = n + 1 THEN g[e] ELSE image[i]) = g[Append(s, e)[i]]
  <2>1. \A i \in 1 .. n + 1 : i # n + 1 => i \in 1 .. n
    OBVIOUS
  <2>. QED  BY <1>2, <1>3, <2>1
<1>. HIDE DEF image
<1>7. longer = Append(image, g[e])
  BY <1>4, <1>5, <1>6
<1>8. FlattenSeq(Append(image, g[e])) = FlattenSeq(image) \o g[e]
  BY <1>1, FlattenAppend
<1>. QED  BY <1>7, <1>8 DEF FlattenMap, image

(* Mapping distributes over concatenation, for any function with sequences    *)
(* as values.                                                                 *)
Distributes(g, V) == \A s, t \in Seq(V) : FlattenMap(g, s \o t) = FlattenMap(g, s) \o FlattenMap(g, t)

LEMMA MapConcat ==
    ASSUME NEW V, NEW W, NEW g \in [V -> Seq(W)]
    PROVE  Distributes(g, V)
<1>. SUFFICES ASSUME NEW s \in Seq(V), NEW t \in Seq(V)
              PROVE  FlattenMap(g, s \o t) = FlattenMap(g, s) \o FlattenMap(g, t)
  BY DEF Distributes
<1>. DEFINE S == {u \in Seq(V) : FlattenMap(g, s \o u) = FlattenMap(g, s) \o FlattenMap(g, u)}
<1>1. <<>> \in S
  <2>1. PICK all \in Seq(W) : all = FlattenMap(g, s)
    BY MapTyped
  <2>2. s \o <<>> = s /\ all \o <<>> = all
    OBVIOUS
  <2>3. <<>> \in Seq(V)
    OBVIOUS
  <2>. QED  BY <2>1, <2>2, <2>3, MapEmpty
<1>2. ASSUME NEW u \in Seq(V), NEW e \in V, u \in S  PROVE Append(u, e) \in S
  <2>1. s \o Append(u, e) = Append(s \o u, e) /\ Append(u, e) \in Seq(V)
    OBVIOUS
  <2>2. FlattenMap(g, Append(u, e)) = FlattenMap(g, u) \o g[e]
    BY MapAppend
  <2>3. s \o u \in Seq(V)
    BY ConcatProperties
  <2>4. FlattenMap(g, Append(s \o u, e)) = FlattenMap(g, s \o u) \o g[e]
    BY <2>3, MapAppend
  <2>5. PICK a \in Seq(W), b \in Seq(W), c \in Seq(W) :
            a = FlattenMap(g, s) /\ b = FlattenMap(g, u) /\ c = g[e]
    BY MapTyped
  <2>6. (a \o b) \o c = a \o (b \o c)
    OBVIOUS
  <2>7. FlattenMap(g, s \o u) = a \o b
    BY <1>2, <2>5
  <2>8. FlattenMap(g, s \o Append(u, e)) = FlattenMap(g, s) \o FlattenMap(g, Append(u, e))
    BY <2>1, <2>2, <2>4, <2>5, <2>6, <2>7, Zenon
  <2>. QED  BY <2>1, <2>8
<1>. HIDE DEF S
<1>3. t \in S
  BY <1>1, <1>2, AllSequences
<1>. QED  BY <1>3 DEF S

(* Mapping what was flattened is flattening what was mapped.                  *)
LEMMA MapFlatten ==
    ASSUME NEW V, NEW W, NEW g \in [V -> Seq(W)], NEW ss \in Seq(Seq(V))
    PROVE  FlattenMap(g, FlattenSeq(ss)) = FlattenSeq([i \in DOMAIN ss |-> FlattenMap(g, ss[i])])
<1>0. Distributes(g, V)
  BY MapConcat
<1>. DEFINE h == [s \in Seq(V) |-> FlattenMap(g, s)]
            S == {u \in Seq(Seq(V)) : FlattenMap(g, FlattenSeq(u)) = FlattenMap(h, u)}
<1>1. h \in [Seq(V) -> Seq(W)]
  BY MapTyped
<1>2. \A s \in Seq(V) : h[s] = FlattenMap(g, s)
  OBVIOUS
<1>. HIDE DEF h
<1>3. <<>> \in S
  <2>1. FlattenSeq(<<>>) = <<>>
    BY FlattenNothing
  <2>2. <<>> \in Seq(Seq(V))
    OBVIOUS
  <2>. QED  BY <2>1, <2>2, MapEmpty
<1>4. ASSUME NEW u \in Seq(Seq(V)), NEW e \in Seq(V), u \in S  PROVE Append(u, e) \in S
  <2>1. FlattenSeq(Append(u, e)) = FlattenSeq(u) \o e
    BY FlattenAppend
  <2>2. FlattenSeq(u) \in Seq(V)
    BY FlattenTyped
  <2>3. FlattenMap(g, FlattenSeq(u) \o e) = FlattenMap(g, FlattenSeq(u)) \o FlattenMap(g, e)
    <3>1. PICK all \in Seq(V) : all = FlattenSeq(u)
      BY <2>2
    <3>2. FlattenMap(g, all \o e) = FlattenMap(g, all) \o FlattenMap(g, e)
      BY <1>0 DEF Distributes
    <3>. QED  BY <3>1, <3>2
  <2>4. FlattenMap(h, Append(u, e)) = FlattenMap(h, u) \o h[e]
    BY <1>1, MapAppend
  <2>5. FlattenMap(g, FlattenSeq(Append(u, e))) = FlattenMap(h, Append(u, e))
    BY <1>2, <1>4, <2>1, <2>3, <2>4
  <2>6. Append(u, e) \in Seq(Seq(V))
    OBVIOUS
  <2>. QED  BY <2>5, <2>6
<1>. HIDE DEF S
<1>5. ss \in S
  BY <1>3, <1>4, AllSequences
<1>6. [i \in DOMAIN ss |-> h[ss[i]]] = [i \in DOMAIN ss |-> FlattenMap(g, ss[i])]
  BY <1>2
<1>. QED  BY <1>5, <1>6 DEF S, FlattenMap

(* The elements at the positions in a set, in order.                          *)
Picked(seq, positions) ==
    FlattenSeq([i \in DOMAIN seq |-> IF i \in positions THEN <<seq[i]>> ELSE <<>>])

(* The positions the picked elements come from increase.                      *)
Increases(at, s, positions, picked) ==
    /\ at \in [1 .. Len(picked) -> positions]
    /\ \A k \in 1 .. Len(picked) : picked[k] = s[at[k]]
    /\ \A i \in positions : \E k \in 1 .. Len(picked) : at[k] = i
    /\ \A k, l \in 1 .. Len(picked) : k < l => at[k] < at[l]

(* What is picked was there, and in that order.                               *)
LEMMA PickedLocated ==
    ASSUME NEW V, NEW s \in Seq(V), NEW positions
    PROVE  /\ Picked(s, positions) \in Seq(V)
           /\ \E at : Increases(at, s, positions \cap DOMAIN s, Picked(s, positions))
<1>. DEFINE ss == [i \in DOMAIN s |-> IF i \in positions THEN <<s[i]>> ELSE <<>>]
            all == FlattenSeq(ss)
<1>1. PICK n \in Nat : DOMAIN s = 1 .. n /\ \A i \in 1 .. n : s[i] \in V
  BY Len(s) \in Nat
<1>2. ss \in Seq(Seq(V)) /\ Len(ss) = n
  BY <1>1
<1>3. \A i \in 1 .. n : ss[i] = IF i \in positions THEN <<s[i]>> ELSE <<>>
  BY <1>1
<1>4. \A i, j : <<i, j>> \in PlacesIn(ss) <=> i \in positions \cap 1 .. n /\ j = 1
  BY <1>2, <1>3 DEF PlacesIn
<1>. HIDE DEF ss
<1>5. PICK from : Locates(from, all, ss)
  BY <1>2, FlattenLocated
<1>6. all \in Seq(V) /\ Len(all) \in Nat
  BY <1>2, FlattenTyped
<1>. HIDE DEF all
<1>7. \A p : p \in PlacesIn(ss) => p = <<p[1], p[2]>>
  BY DEF PlacesIn
<1>. DEFINE at == [k \in 1 .. Len(all) |-> from[k][1]]
<1>8. /\ from \in [1 .. Len(all) -> PlacesIn(ss)]
      /\ \A k \in 1 .. Len(all) : all[k] = ss[from[k][1]][from[k][2]]
      /\ \A p \in PlacesIn(ss) : \E k \in 1 .. Len(all) : from[k] = p
      /\ \A j, k \in 1 .. Len(all) : j < k => Earlier(from[j], from[k])
  BY <1>5, Zenon DEF Locates
<1>9. \A k \in 1 .. Len(all) : at[k] \in positions \cap 1 .. n /\ from[k] = <<at[k], 1>>
  <2>1. ASSUME NEW k \in 1 .. Len(all)  PROVE at[k] \in positions \cap 1 .. n /\ from[k] = <<at[k], 1>>
    <3>1. from[k] \in PlacesIn(ss) /\ from[k] = <<from[k][1], from[k][2]>>
      BY <1>7, <1>8
    <3>2. at[k] = from[k][1]
      OBVIOUS
    <3>3. <<from[k][1], from[k][2]>> \in PlacesIn(ss)
      BY <3>1, Zenon
    <3>4. from[k][1] \in positions \cap 1 .. n /\ from[k][2] = 1
      <4>1. PICK i, j : i = from[k][1] /\ j = from[k][2]
        OBVIOUS
      <4>2. <<i, j>> \in PlacesIn(ss)
        BY <3>3, <4>1
      <4>. QED  BY <1>4, <4>1, <4>2
    <3>. QED  BY <3>1, <3>2, <3>4
  <2>. QED  BY <2>1
<1>10. at \in [1 .. Len(all) -> positions \cap DOMAIN s]
  BY <1>1, <1>9
<1>. HIDE DEF at
<1>11. ASSUME NEW k \in 1 .. Len(all)  PROVE all[k] = s[at[k]]
  <2>1. all[k] = ss[at[k]][1]
    <3>1. from[k][1] = at[k] /\ from[k][2] = 1
      BY <1>9
    <3>. QED  BY <1>8, <3>1, Zenon
  <2>2. ss[at[k]] = <<s[at[k]]>>
    BY <1>3, <1>9
  <2>. QED  BY <2>1, <2>2
<1>12. ASSUME NEW i \in positions \cap DOMAIN s  PROVE \E k \in 1 .. Len(all) : at[k] = i
  <2>1. <<i, 1>> \in PlacesIn(ss)
    BY <1>1, <1>4
  <2>2. PICK k \in 1 .. Len(all) : from[k] = <<i, 1>>
    BY <1>8, <2>1, Zenon
  <2>3. <<at[k], 1>> = <<i, 1>>
    BY <1>9, <2>2, Zenon
  <2>. QED  BY <2>3
<1>13. ASSUME NEW j \in 1 .. Len(all), NEW k \in 1 .. Len(all), j < k  PROVE at[j] < at[k]
  <2>1. Earlier(<<at[j], 1>>, <<at[k], 1>>)
    BY <1>8, <1>9, <1>13, Zenon
  <2>. QED  BY <1>9, <2>1 DEF Earlier
<1>14. Increases(at, s, positions \cap DOMAIN s, all)
  BY <1>10, <1>11, <1>12, <1>13 DEF Increases
<1>15. Picked(s, positions) = all
  BY DEF Picked, all, ss
<1>. QED  BY <1>6, <1>14, <1>15

(* Picking all leaves the sequence as it is,                                  *)
LEMMA PickedAll ==
    ASSUME NEW V, NEW s \in Seq(V), NEW positions, DOMAIN s \subseteq positions
    PROVE  Picked(s, positions) = s
<1>. DEFINE S == {u \in Seq(V) : FlattenSeq([i \in DOMAIN u |-> <<u[i]>>]) = u}
            g == [v \in V |-> <<v>>]
<1>1. g \in [V -> Seq(V)] /\ \A v \in V : g[v] = <<v>>
  OBVIOUS
<1>. HIDE DEF g
<1>2. \A u \in Seq(V) : FlattenMap(g, u) = FlattenSeq([i \in DOMAIN u |-> <<u[i]>>])
  <2>1. ASSUME NEW u \in Seq(V)  PROVE [i \in DOMAIN u |-> <<u[i]>>] = [i \in DOMAIN u |-> g[u[i]]]
    BY <1>1
  <2>. QED  BY <2>1 DEF FlattenMap
<1>3. <<>> \in S
  <2>1. <<>> \in Seq(V)
    OBVIOUS
  <2>. QED  BY <1>2, <2>1, MapEmpty
<1>4. ASSUME NEW u \in Seq(V), NEW e \in V, u \in S  PROVE Append(u, e) \in S
  <2>1. Append(u, e) \in Seq(V) /\ Append(u, e) = u \o <<e>>
    OBVIOUS
  <2>2. FlattenMap(g, Append(u, e)) = FlattenMap(g, u) \o g[e]
    BY <1>1, MapAppend
  <2>. QED  BY <1>1, <1>2, <1>4, <2>1, <2>2
<1>. HIDE DEF S
<1>5. s \in S
  BY <1>3, <1>4, AllSequences
<1>6. Picked(s, positions) = FlattenSeq([i \in DOMAIN s |-> <<s[i]>>])
  <2>1. [i \in DOMAIN s |-> IF i \in positions THEN <<s[i]>> ELSE <<>>] = [i \in DOMAIN s |-> <<s[i]>>]
    OBVIOUS
  <2>. QED  BY <2>1 DEF Picked
<1>. QED  BY <1>5, <1>6 DEF S

(* and nothing is picked only where no position is.                           *)
LEMMA PickedNone ==
    ASSUME NEW V, NEW s \in Seq(V), NEW positions
    PROVE  Picked(s, positions) = <<>> <=> positions \cap DOMAIN s = {}
<1>1. PICK picked \in Seq(V) : picked = Picked(s, positions)
  BY PickedLocated
<1>2. PICK at : Increases(at, s, positions \cap DOMAIN s, picked)
  BY <1>1, PickedLocated
<1>3. Len(picked) \in Nat /\ (picked = <<>> <=> Len(picked) = 0)
  OBVIOUS
<1>4. CASE Len(picked) = 0
  <2>1. \A i \in positions \cap DOMAIN s : FALSE
    BY <1>2, <1>4 DEF Increases
  <2>. QED  BY <1>1, <1>3, <1>4, <2>1
<1>5. CASE Len(picked) # 0
  <2>1. 1 \in 1 .. Len(picked)
    BY <1>3, <1>5
  <2>2. at[1] \in positions \cap DOMAIN s
    BY <1>2, <2>1 DEF Increases
  <2>. QED  BY <1>1, <1>3, <1>5, <2>2
<1>. QED  BY <1>4, <1>5

(* The values of a single element.                                            *)
LEMMA MapOne ==
    ASSUME NEW V, NEW W, NEW g \in [V -> Seq(W)], NEW v \in V
    PROVE  FlattenMap(g, <<v>>) = g[v]
<1>1. FlattenMap(g, Append(<<>>, v)) = FlattenMap(g, <<>>) \o g[v]
  <2>1. <<>> \in Seq(V)
    OBVIOUS
  <2>. QED  BY <2>1, MapAppend
<1>2. PICK t \in Seq(W) : t = g[v]
  OBVIOUS
<1>3. Append(<<>>, v) = <<v>> /\ <<>> \o t = t
  OBVIOUS
<1>. QED  BY <1>1, <1>2, <1>3, MapEmpty

(* Flattening a sequence of singletons gives their elements.                  *)
LEMMA FlattenSingles ==
    ASSUME NEW V, NEW s \in Seq(V)
    PROVE  FlattenSeq([i \in DOMAIN s |-> <<s[i]>>]) = s
<1>1. Picked(s, DOMAIN s) = s
  BY PickedAll
<1>2. [i \in DOMAIN s |-> IF i \in DOMAIN s THEN <<s[i]>> ELSE <<>>] = [i \in DOMAIN s |-> <<s[i]>>]
  OBVIOUS
<1>. QED  BY <1>1, <1>2 DEF Picked

(* The elements that belong to a set, in order.                               *)
Among(s, T) == Picked(s, {i \in DOMAIN s : s[i] \in T})

(* Picking by membership is a map: an element to itself or to nothing.        *)
Alone(V, T) == [v \in V |-> IF v \in T THEN <<v>> ELSE <<>>]

LEMMA AmongIs ==
    ASSUME NEW V, NEW s \in Seq(V), NEW T
    PROVE  Among(s, T) = FlattenMap(Alone(V, T), s) /\ Alone(V, T) \in [V -> Seq(V)]
<1>1. DOMAIN s = 1 .. Len(s) /\ \A i \in DOMAIN s : s[i] \in V
  OBVIOUS
<1>2. \A i \in DOMAIN s : i \in {j \in DOMAIN s : s[j] \in T} <=> s[i] \in T
  OBVIOUS
<1>3. \A i \in DOMAIN s : Alone(V, T)[s[i]] = IF s[i] \in T THEN <<s[i]>> ELSE <<>>
  BY <1>1 DEF Alone
<1>4. [i \in DOMAIN s |-> IF i \in {j \in DOMAIN s : s[j] \in T} THEN <<s[i]>> ELSE <<>>]
         = [i \in DOMAIN s |-> Alone(V, T)[s[i]]]
  BY <1>2, <1>3
<1>5. Alone(V, T) \in [V -> Seq(V)]
  BY DEF Alone
<1>. QED  BY <1>4, <1>5 DEF Among, Picked, FlattenMap

(* What is picked is of both types.                                           *)
LEMMA AmongTyped ==
    ASSUME NEW V, NEW s \in Seq(V), NEW T
    PROVE  Among(s, T) \in Seq(V) /\ Among(s, T) \in Seq(T)
<1>. DEFINE positions == {i \in DOMAIN s : s[i] \in T}
<1>1. PICK picked \in Seq(V) : picked = Picked(s, positions)
  BY PickedLocated
<1>2. PICK at : Increases(at, s, positions \cap DOMAIN s, picked)
  BY <1>1, PickedLocated
<1>3. \A k \in 1 .. Len(picked) : picked[k] \in T
  BY <1>2 DEF Increases
<1>4. picked \in Seq(T)
  BY <1>3
<1>. QED  BY <1>1, <1>4 DEF Among

(* Two sets that agree on the elements pick the same,                         *)
LEMMA AmongSame ==
    ASSUME NEW s, NEW T, NEW U, \A i \in DOMAIN s : s[i] \in T <=> s[i] \in U
    PROVE  Among(s, T) = Among(s, U)
<1>1. {i \in DOMAIN s : s[i] \in T} = {i \in DOMAIN s : s[i] \in U}
  OBVIOUS
<1>. QED  BY <1>1 DEF Among

(* a set that has them all picks them all,                                    *)
LEMMA AmongAll ==
    ASSUME NEW V, NEW s \in Seq(V), NEW T, \A i \in DOMAIN s : s[i] \in T
    PROVE  Among(s, T) = s
<1>1. DOMAIN s \subseteq {i \in DOMAIN s : s[i] \in T}
  OBVIOUS
<1>. QED  BY <1>1, PickedAll DEF Among

(* and nothing is picked when none belongs to the set.                        *)
LEMMA AmongNone ==
    ASSUME NEW V, NEW s \in Seq(V), NEW T
    PROVE  Among(s, T) = <<>> <=> \A i \in DOMAIN s : s[i] \notin T
<1>1. {i \in DOMAIN s : s[i] \in T} \cap DOMAIN s = {} <=> \A i \in DOMAIN s : s[i] \notin T
  OBVIOUS
<1>. QED  BY <1>1, PickedNone DEF Among

(* Picking distributes over concatenation,                                    *)
Splits(V, T) == \A s, t \in Seq(V) : Among(s \o t, T) = Among(s, T) \o Among(t, T)

LEMMA AmongConcat ==
    ASSUME NEW V, NEW T
    PROVE  Splits(V, T)
<1>. SUFFICES ASSUME NEW s \in Seq(V), NEW t \in Seq(V)
              PROVE  Among(s \o t, T) = Among(s, T) \o Among(t, T)
  BY DEF Splits
<1>1. Distributes(Alone(V, T), V)
  BY AmongIs, MapConcat
<1>2. PICK all \in Seq(V) : all = s \o t
  BY ConcatProperties
<1>3. FlattenMap(Alone(V, T), s \o t) = FlattenMap(Alone(V, T), s) \o FlattenMap(Alone(V, T), t)
  BY <1>1 DEF Distributes
<1>4. /\ Among(all, T) = FlattenMap(Alone(V, T), all)
      /\ Among(s, T) = FlattenMap(Alone(V, T), s)
      /\ Among(t, T) = FlattenMap(Alone(V, T), t)
  BY AmongIs
<1>. QED  BY <1>2, <1>3, <1>4

(* so it can be done before flattening or after it,                           *)
LEMMA AmongFlatten ==
    ASSUME NEW V, NEW ss \in Seq(Seq(V)), NEW T
    PROVE  Among(FlattenSeq(ss), T) = FlattenSeq([i \in DOMAIN ss |-> Among(ss[i], T)])
<1>1. PICK g : g = Alone(V, T) /\ g \in [V -> Seq(V)]
  <2>1. <<>> \in Seq(V)
    OBVIOUS
  <2>. QED  BY <2>1, AmongIs
<1>2. FlattenMap(g, FlattenSeq(ss)) = FlattenSeq([i \in DOMAIN ss |-> FlattenMap(g, ss[i])])
  BY <1>1, MapFlatten
<1>3. PICK all \in Seq(V) : all = FlattenSeq(ss)
  BY FlattenTyped
<1>4. Among(all, T) = FlattenMap(g, all)
  BY <1>1, AmongIs
<1>5. \A i \in DOMAIN ss : ss[i] \in Seq(V)
  BY DOMAIN ss = 1 .. Len(ss)
<1>6. ASSUME NEW i \in DOMAIN ss  PROVE Among(ss[i], T) = FlattenMap(g, ss[i])
  BY <1>1, <1>5, AmongIs
<1>7. [i \in DOMAIN ss |-> Among(ss[i], T)] = [i \in DOMAIN ss |-> FlattenMap(g, ss[i])]
  BY <1>6
<1>. QED  BY <1>2, <1>3, <1>4, <1>7

(* or one element at a time.                                                  *)
LEMMA AmongSingles ==
    ASSUME NEW V, NEW s \in Seq(V), NEW T
    PROVE  FlattenSeq([i \in DOMAIN s |-> Among(<<s[i]>>, T)]) = Among(s, T)
<1>. DEFINE ss == [i \in DOMAIN s |-> <<s[i]>>]
<1>1. DOMAIN s = 1 .. Len(s) /\ \A i \in DOMAIN s : s[i] \in V
  OBVIOUS
<1>2. ss \in Seq(Seq(V)) /\ DOMAIN ss = DOMAIN s /\ \A i \in DOMAIN s : ss[i] = <<s[i]>>
  BY <1>1
<1>3. FlattenSeq(ss) = s
  BY FlattenSingles
<1>. HIDE DEF ss
<1>4. Among(FlattenSeq(ss), T) = FlattenSeq([i \in DOMAIN ss |-> Among(ss[i], T)])
  BY <1>2, AmongFlatten
<1>5. [i \in DOMAIN ss |-> Among(ss[i], T)] = [i \in DOMAIN s |-> Among(<<s[i]>>, T)]
  BY <1>2
<1>. QED  BY <1>3, <1>4, <1>5

(* Picking twice is picking from the intersection.                            *)
LEMMA AmongAmong ==
    ASSUME NEW V, NEW s \in Seq(V), NEW T, NEW U
    PROVE  Among(Among(s, T), U) = Among(s, T \cap U)
<1>. DEFINE ss == [i \in DOMAIN s |-> IF s[i] \in T THEN <<s[i]>> ELSE <<>>]
<1>1. DOMAIN s = 1 .. Len(s) /\ \A i \in DOMAIN s : s[i] \in V
  OBVIOUS
<1>2. ss \in Seq(Seq(V)) /\ DOMAIN ss = DOMAIN s
      /\ \A i \in DOMAIN s : ss[i] = IF s[i] \in T THEN <<s[i]>> ELSE <<>>
  BY <1>1
<1>3. FlattenSeq(ss) = Among(s, T)
  <2>1. ss = [i \in DOMAIN s |-> IF i \in {j \in DOMAIN s : s[j] \in T} THEN <<s[i]>> ELSE <<>>]
    OBVIOUS
  <2>. QED  BY <2>1 DEF Among, Picked
<1>. HIDE DEF ss
<1>4. Among(FlattenSeq(ss), U) = FlattenSeq([i \in DOMAIN ss |-> Among(ss[i], U)])
  BY <1>2, AmongFlatten
<1>5. ASSUME NEW i \in DOMAIN s
      PROVE  Among(ss[i], U) = IF s[i] \in T \cap U THEN <<s[i]>> ELSE <<>>
  <2>1. PICK one \in Seq(V) : one = <<s[i]>> /\ \A j \in DOMAIN one : one[j] = s[i]
    <3>1. <<s[i]>> \in Seq(V) /\ \A j \in DOMAIN <<s[i]>> : <<s[i]>>[j] = s[i]
      BY <1>1
    <3>. QED  BY <3>1
  <2>2. PICK none \in Seq(V) : none = <<>>
    <3>1. <<>> \in Seq(V)
      OBVIOUS
    <3>. QED  BY <3>1
  <2>3. CASE s[i] \in T /\ s[i] \in U
    <3>1. Among(one, U) = one
      BY <2>1, <2>3, AmongAll
    <3>. QED  BY <1>2, <2>1, <2>3, <3>1
  <2>4. CASE s[i] \in T /\ s[i] \notin U
    <3>1. Among(one, U) = <<>>
      BY <2>1, <2>4, AmongNone, Zenon
    <3>. QED  BY <1>2, <2>1, <2>4, <3>1
  <2>5. CASE s[i] \notin T
    <3>1. Among(none, U) = <<>>
      BY <2>2, DOMAIN <<>> = {}, AmongNone
    <3>. QED  BY <1>2, <2>2, <2>5, <3>1
  <2>. QED  BY <2>3, <2>4, <2>5
<1>6. [i \in DOMAIN ss |-> Among(ss[i], U)]
        = [i \in DOMAIN s |-> IF i \in {j \in DOMAIN s : s[j] \in T \cap U} THEN <<s[i]>> ELSE <<>>]
  BY <1>2, <1>5
<1>. QED  BY <1>3, <1>4, <1>6 DEF Among, Picked

(* Of a single element, and of nothing.                                       *)
LEMMA AmongOne ==
    ASSUME NEW V, NEW v \in V, NEW T
    PROVE  Among(<<v>>, T) = IF v \in T THEN <<v>> ELSE <<>>
<1>1. PICK g : g = Alone(V, T) /\ g \in [V -> Seq(V)]
  <2>1. <<>> \in Seq(V)
    OBVIOUS
  <2>. QED  BY <2>1, AmongIs
<1>2. PICK s \in Seq(V) : s = <<v>>
  <2>1. <<v>> \in Seq(V)
    OBVIOUS
  <2>. QED  BY <2>1
<1>3. Among(s, T) = FlattenMap(g, s)
  BY <1>1, AmongIs
<1>4. FlattenMap(g, <<v>>) = g[v]
  BY <1>1, MapOne
<1>5. g[v] = IF v \in T THEN <<v>> ELSE <<>>
  BY <1>1 DEF Alone
<1>. QED  BY <1>2, <1>3, <1>4, <1>5

LEMMA AmongNothing == ASSUME NEW T PROVE Among(<<>>, T) = <<>>
<1>1. <<>> \in Seq({}) /\ DOMAIN <<>> = {}
  OBVIOUS
<1>. QED  BY <1>1, AmongNone

(* Short sequences, and appending to them.                                    *)
AppendsToConcat(V) ==
    \A s, t \in Seq(V) : \A e \in V : Append(s \o t, e) = s \o Append(t, e)

LEMMA AppendToConcat == ASSUME NEW V PROVE AppendsToConcat(V)
<1>1. ASSUME NEW s \in Seq(V), NEW t \in Seq(V), NEW e \in V
      PROVE  Append(s \o t, e) = s \o Append(t, e)
  OBVIOUS
<1>. QED  BY <1>1, Zenon DEF AppendsToConcat

(* What is appended comes last and changes nothing before it.                 *)
AppendsAre(V) ==
    \A s \in Seq(V) : \A e \in V :
        /\ Append(s, e) \in Seq(V) /\ Len(Append(s, e)) = Len(s) + 1
        /\ \A i \in 1 .. Len(s) : Append(s, e)[i] = s[i]
        /\ Append(s, e)[Len(s) + 1] = e

LEMMA Appends == ASSUME NEW V PROVE AppendsAre(V)
BY AppendProperties DEF AppendsAre

(* Appending to nothing, and once more.                                       *)
LEMMA Appended ==
    ASSUME NEW V, NEW a \in V, NEW b \in V, NEW none, none = <<>>
    PROVE  Append(none, a) = <<a>> /\ Append(<<a>>, b) = <<a, b>>
<1>1. Append(none, a) = <<a>>
  OBVIOUS
<1>2. Append(<<a>>, b) = <<a, b>>
  <2>1. PICK s, t : s = <<a>> /\ t = <<a, b>>
    OBVIOUS
  <2>2. /\ s \in Seq(V) /\ Len(s) = 1 /\ s[1] = a
        /\ t \in Seq(V) /\ Len(t) = 2 /\ t[1] = a /\ t[2] = b
    BY <2>1
  <2>3. PICK u : u = Append(s, b)
    OBVIOUS
  <2>4. /\ u \in Seq(V) /\ Len(u) = Len(s) + 1
        /\ \A i \in 1 .. Len(s) : u[i] = s[i]
        /\ u[Len(s) + 1] = b
    <3>1. AppendsAre(V)
      BY Appends
    <3>. QED  BY <2>2, <2>3, <3>1, Zenon DEF AppendsAre
  <2>5. Len(u) = 2 /\ u[1] = a /\ u[2] = b
    BY <2>2, <2>4
  <2>6. \A i \in 1 .. 2 : i = 1 \/ i = 2
    OBVIOUS
  <2>7. u = t
    BY <2>2, <2>4, <2>5, <2>6, SeqEqual
  <2>. QED  BY <2>1, <2>3, <2>7
<1>. QED  BY <1>1, <1>2

(* Flattening one sequence, alone or with an empty one behind it.             *)
LEMMA FlattenOne ==
    ASSUME NEW V, NEW p \in Seq(V), NEW none, none = <<>>
    PROVE  FlattenSeq(<<p>>) = p /\ FlattenSeq(<<p, none>>) = p
<1>0. none \in Seq(V) /\ <<>> \in Seq(Seq(V)) /\ none \in Seq(Seq(V)) /\ <<p>> \in Seq(Seq(V))
  OBVIOUS
<1>1. Append(none, p) = <<p>> /\ Append(<<p>>, none) = <<p, none>>
  <2>1. none \in Seq(V)
    OBVIOUS
  <2>. QED  BY <2>1, Appended
<1>2. FlattenSeq(Append(none, p)) = FlattenSeq(none) \o p
  BY <1>0, FlattenAppend
<1>3. FlattenSeq(none) = none
  BY FlattenNothing, Len(none) = 0
<1>4. none \o p = p /\ p \o none = p
  OBVIOUS
<1>5. FlattenSeq(Append(<<p>>, none)) = FlattenSeq(<<p>>) \o none
  BY <1>0, FlattenAppend
<1>. QED  BY <1>1, <1>2, <1>3, <1>4, <1>5, Zenon
=============================================================================
