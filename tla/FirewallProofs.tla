--------------------------- MODULE FirewallProofs ---------------------------
(***************************************************************************)
(* What holds of the Firewall Manager. First the policy: for any networks, *)
(* rules, servers and packets, the blocks of the rules files say what the  *)
(* policy of the last Apply asks, and an Apply leaves the rules of others  *)
(* on their side. Then the guarded Apply, for any number of concurrent     *)
(* runs, any policies and any number of administrators' edits.             *)
(***************************************************************************)
EXTENDS FirewallApply, FirewallPolicy,
        FiniteSetTheorems, SequenceTheorems, WellFoundedInduction, TLAPS

----------------------------------------------------------------------------
(* SEQUENCES. Facts of numbers and of the operators of SequencesExt. The   *)
(* induction is one over sets: the least number outside a set.             *)

(* Every set of numbers that is not empty has a least one.                 *)
LEMMA LeastNumber ==
  ASSUME NEW T \in SUBSET Nat, T # {}
  PROVE  \E n \in T : \A m \in T : n <= m
<1> DEFINE R == OpToRel(<, Nat)
<1>1. IsWellFoundedOn(R, Nat)
  BY NatLessThanWellFounded, Zenon
<1>2. ASSUME NEW m \in Nat, NEW n \in Nat PROVE <<m, n>> \in R <=> m < n
  BY Zenon DEF OpToRel
<1> HIDE DEF R
<1>3. PICK n \in T : \A m \in T : ~(<<m, n>> \in R)
  BY <1>1, WFMin
<1>4. ASSUME NEW m \in T PROVE n <= m
  <2>1. m \in Nat /\ n \in Nat /\ ~(<<m, n>> \in R)
    BY <1>3
  <2>2. ~(m < n)
    BY <1>2, <2>1
  <2>3. QED BY <2>1, <2>2
<1>5. QED BY <1>4

(* Induction over numbers, for a set of numbers: the least number          *)
(* outside it would have its predecessor inside.                           *)
LEMMA NumbersByInduction ==
  ASSUME NEW T \in SUBSET Nat, 0 \in T, \A n \in T : n + 1 \in T
  PROVE  T = Nat
<1>1. SUFFICES ASSUME Nat \ T # {} PROVE FALSE
  OBVIOUS
<1>2. PICK n \in Nat \ T : \A m \in Nat \ T : n <= m
  BY <1>1, LeastNumber
<1>3. n # 0 /\ n - 1 \in Nat
  BY <1>2
<1>4. n - 1 \in T
  BY <1>2, <1>3
<1>5. (n - 1) + 1 \in T
  BY <1>4
<1>6. QED BY <1>2, <1>3, <1>5

(* Induction over sequences, for a set of sequences.                       *)
LEMMA SequencesByInduction ==
  ASSUME NEW S, NEW T \in SUBSET Seq(S), <<>> \in T,
         \A s \in T, x \in S : Append(s, x) \in T
  PROVE  T = Seq(S)
<1> DEFINE N == {n \in Nat : \A s \in Seq(S) : Len(s) = n => s \in T}
<1>1. 0 \in N
  OBVIOUS
<1>2. ASSUME NEW n \in N PROVE n + 1 \in N
  <2> SUFFICES ASSUME NEW s \in Seq(S), Len(s) = n + 1 PROVE s \in T
    OBVIOUS
  <2> DEFINE front == SubSeq(s, 1, n)
  <2>1. n \in Nat
    OBVIOUS
  <2>2. front \in Seq(S) /\ Len(front) = n /\ s[n+1] \in S
    BY <2>1
  <2>3. s = Append(front, s[n+1])
    <3>1. /\ Append(front, s[n+1]) \in Seq(S) /\ Len(Append(front, s[n+1])) = n + 1
          /\ \A i \in 1 .. n + 1 : Append(front, s[n+1])[i] = s[i]
      BY <2>1, <2>2
    <3>2. QED BY <2>1, <3>1, SeqEqual
  <2>4. front \in T
    BY <2>1, <2>2
  <2> HIDE DEF front
  <2>5. QED BY <2>2, <2>3, <2>4
<1> HIDE DEF N
<1>3. N \in SUBSET Nat
  BY DEF N
<1>4. N = Nat
  BY <1>1, <1>2, <1>3, NumbersByInduction
<1>5. ASSUME NEW s \in Seq(S) PROVE s \in T
  <2>1. Len(s) \in N
    BY <1>4
  <2>2. QED BY <2>1 DEF N
<1>6. QED BY <1>5

(* The function FlattenSeq builds: at i, the first i sequences in one.     *)
(* It is defined by its own equation.                                      *)
Flattened(seqs) ==
  CHOOSE g : g = [i \in 1 .. Len(seqs) |-> IF i = 1 THEN seqs[i] ELSE g[i-1] \o seqs[i]]

(* A function with that equation exists for every number of sequences.     *)
LEMMA FlattenedExist ==
  ASSUME NEW seqs, NEW n \in Nat
  PROVE  \E g : g = [i \in 1 .. n |-> IF i = 1 THEN seqs[i] ELSE g[i-1] \o seqs[i]]
<1> DEFINE P(k) == \E g : g = [i \in 1 .. k |-> IF i = 1 THEN seqs[i] ELSE g[i-1] \o seqs[i]]
           T == {k \in Nat : P(k)}
<1>1. P(0)
  <2>1. <<>> = [i \in 1 .. 0 |-> IF i = 1 THEN seqs[i] ELSE <<>>[i-1] \o seqs[i]]
    OBVIOUS
  <2>2. QED BY <2>1
<1>2. ASSUME NEW k \in Nat, P(k) PROVE P(k+1)
  <2>1. PICK g : g = [i \in 1 .. k |-> IF i = 1 THEN seqs[i] ELSE g[i-1] \o seqs[i]]
    BY <1>2
  <2> DEFINE h == [i \in 1 .. k + 1 |-> IF i <= k THEN g[i]
                                        ELSE IF i = 1 THEN seqs[i] ELSE g[i-1] \o seqs[i]]
  <2>2. ASSUME NEW i \in 1 .. k + 1
        PROVE  h[i] = IF i = 1 THEN seqs[i] ELSE h[i-1] \o seqs[i]
    <3>1. CASE i <= k
      <4>1. g[i] = IF i = 1 THEN seqs[i] ELSE g[i-1] \o seqs[i]
        <5> HIDE DEF h
        <5>1. i \in 1 .. k
          BY <3>1
        <5>2. QED BY <2>1, <5>1
      <4>2. h[i] = g[i] /\ (i # 1 => h[i-1] = g[i-1])
        BY <3>1
      <4>3. QED BY <4>1, <4>2
    <3>2. CASE i = k + 1
      BY <3>2
    <3>3. QED BY <3>1, <3>2
  <2>3. h = [i \in 1 .. k + 1 |-> h[i]]
    OBVIOUS
  <2> HIDE DEF h
  <2>4. h = [i \in 1 .. k + 1 |-> IF i = 1 THEN seqs[i] ELSE h[i-1] \o seqs[i]]
    BY <2>2, <2>3
  <2>5. QED BY <2>4
<1> HIDE DEF P
<1>3. T \in SUBSET Nat /\ 0 \in T /\ \A k \in T : k + 1 \in T
  BY <1>1, <1>2
<1> HIDE DEF T
<1>4. T = Nat
  BY <1>3, NumbersByInduction
<1>5. P(n)
  BY <1>4 DEF T
<1>6. QED BY <1>5 DEF P

(* Flattened has its equation.                                             *)
LEMMA FlattenedDef ==
  ASSUME NEW seqs, Len(seqs) \in Nat
  PROVE  Flattened(seqs) = [i \in 1 .. Len(seqs) |->
            IF i = 1 THEN seqs[i] ELSE Flattened(seqs)[i-1] \o seqs[i]]
<1>1. \E g : g = [i \in 1 .. Len(seqs) |-> IF i = 1 THEN seqs[i] ELSE g[i-1] \o seqs[i]]
  BY FlattenedExist
<1>2. QED BY <1>1, Zenon DEF Flattened

(* The equation of Flattened, at one place.                                *)
LEMMA FlattenedStep ==
  ASSUME NEW seqs, Len(seqs) \in Nat, NEW i \in 1 .. Len(seqs)
  PROVE  /\ i = 1 => Flattened(seqs)[i] = seqs[1]
         /\ i # 1 => Flattened(seqs)[i] = Flattened(seqs)[i-1] \o seqs[i]
<1> DEFINE P == Flattened(seqs)
<1>1. P = [j \in 1 .. Len(seqs) |-> IF j = 1 THEN seqs[j] ELSE P[j-1] \o seqs[j]]
  BY FlattenedDef, Zenon
<1> HIDE DEF P
<1>2. P[i] = IF i = 1 THEN seqs[i] ELSE P[i-1] \o seqs[i]
  BY <1>1
<1>3. QED BY <1>2 DEF P

(* FlattenSeq is the last value of that function.                          *)
LEMMA FlattenIsPrefix ==
  ASSUME NEW seqs, Len(seqs) \in Nat, Len(seqs) # 0
  PROVE  FlattenSeq(seqs) = Flattened(seqs)[Len(seqs)]
BY Zenon DEF FlattenSeq, Flattened

(* No sequences make the empty sequence.                                   *)
LEMMA FlattenNone == FlattenSeq(<<>>) = <<>>
BY DEF FlattenSeq

(* A last sequence is appended as a whole.                                 *)
LEMMA FlattenAppend ==
  ASSUME NEW S, NEW ss \in Seq(Seq(S)), NEW t \in Seq(S)
  PROVE  FlattenSeq(Append(ss, t)) = FlattenSeq(ss) \o t
<1> DEFINE all == Append(ss, t)
           P == Flattened(ss)
           Q == Flattened(all)
           T == {n \in Nat : n + 1 \in 1 .. Len(ss) => P[n+1] = Q[n+1]}
<1>1. /\ all \in Seq(Seq(S)) /\ Len(all) = Len(ss) + 1 /\ Len(ss) \in Nat
      /\ \A i \in 1 .. Len(ss) : all[i] = ss[i]
      /\ all[Len(ss) + 1] = t
  OBVIOUS
<1> HIDE DEF all
<1>2. ASSUME NEW i \in 1 .. Len(ss)
      PROVE  /\ i = 1 => P[i] = ss[1]
             /\ i # 1 => P[i] = P[i-1] \o ss[i]
  BY <1>1, FlattenedStep
<1>3. ASSUME NEW i \in 1 .. Len(all)
      PROVE  /\ i = 1 => Q[i] = all[1]
             /\ i # 1 => Q[i] = Q[i-1] \o all[i]
  <2>1. Len(all) \in Nat
    BY <1>1
  <2>2. QED BY <2>1, FlattenedStep, Zenon
<1> HIDE DEF P, Q
<1>4. 0 \in T
  <2>1. ASSUME 1 \in 1 .. Len(ss) PROVE P[1] = Q[1]
    <3>1. 1 \in 1 .. Len(all) /\ all[1] = ss[1]
      BY <1>1, <2>1
    <3>2. QED BY <1>2, <1>3, <2>1, <3>1
  <2>2. QED BY <2>1
<1>5. ASSUME NEW n \in T PROVE n + 1 \in T
  <2> SUFFICES ASSUME n + 2 \in 1 .. Len(ss) PROVE P[n+2] = Q[n+2]
    OBVIOUS
  <2>1. n \in Nat /\ P[n+1] = Q[n+1] /\ n + 2 # 1 /\ (n + 2) - 1 = n + 1
    BY <1>1
  <2>2. P[n+2] = P[n+1] \o ss[n+2]
    BY <1>1, <1>2, <2>1
  <2>3. Q[n+2] = Q[n+1] \o all[n+2]
    <3>1. n + 2 \in 1 .. Len(all)
      BY <1>1
    <3>2. QED BY <1>3, <2>1, <3>1
  <2>4. QED BY <1>1, <2>1, <2>2, <2>3
<1>6. T \in SUBSET Nat
  OBVIOUS
<1> HIDE DEF T
<1>7. T = Nat
  BY <1>4, <1>5, <1>6, NumbersByInduction
<1>8. FlattenSeq(all) = Q[Len(ss) + 1]
  BY <1>1, FlattenIsPrefix DEF Q
<1>9. CASE ss = <<>>
  <2>1. Q[1] = t
    BY <1>1, <1>3, <1>9
  <2>2. QED BY <1>8, <1>9, <2>1, FlattenNone DEF all
<1>10. CASE ss # <<>>
  <2>1. Len(ss) # 0 /\ Len(ss) - 1 \in T
    BY <1>1, <1>7, <1>10
  <2>2. P[Len(ss)] = Q[Len(ss)]
    BY <1>1, <2>1 DEF T
  <2>3. Q[Len(ss) + 1] = Q[Len(ss)] \o t
    <3>1. Len(ss) + 1 \in 1 .. Len(all) /\ Len(ss) + 1 # 1 /\ (Len(ss) + 1) - 1 = Len(ss)
      BY <1>1, <2>1
    <3>2. QED BY <1>1, <1>3, <3>1
  <2>4. FlattenSeq(ss) = P[Len(ss)]
    BY <1>1, <2>1, FlattenIsPrefix DEF P
  <2>5. QED BY <1>8, <2>2, <2>3, <2>4 DEF all
<1>11. QED BY <1>9, <1>10

(* Sequences over a set make a sequence over it.                           *)
LEMMA FlattenType ==
  ASSUME NEW S, NEW ss \in Seq(Seq(S))
  PROVE  FlattenSeq(ss) \in Seq(S)
<1> DEFINE T == {u \in Seq(Seq(S)) : FlattenSeq(u) \in Seq(S)}
<1>1. <<>> \in T
  <2>1. <<>> \in Seq(Seq(S)) /\ <<>> \in Seq(S)
    OBVIOUS
  <2>2. QED BY <2>1, FlattenNone
<1>2. ASSUME NEW u \in T, NEW t \in Seq(S) PROVE Append(u, t) \in T
  <2>1. FlattenSeq(Append(u, t)) = FlattenSeq(u) \o t
    BY FlattenAppend
  <2>2. Append(u, t) \in Seq(Seq(S)) /\ FlattenSeq(u) \o t \in Seq(S)
    OBVIOUS
  <2>3. QED BY <2>1, <2>2
<1>3. T \in SUBSET Seq(Seq(S))
  OBVIOUS
<1> HIDE DEF T
<1>4. T = Seq(Seq(S))
  BY <1>1, <1>2, <1>3, SequencesByInduction
<1>5. QED BY <1>4 DEF T

(* FlattenSeq of two concatenated sequences of sequences.                  *)
LEMMA FlattenConcat ==
  ASSUME NEW S, NEW a \in Seq(Seq(S)), NEW b \in Seq(Seq(S))
  PROVE  FlattenSeq(a \o b) = FlattenSeq(a) \o FlattenSeq(b)
<1> DEFINE T == {u \in Seq(Seq(S)) : FlattenSeq(a \o u) = FlattenSeq(a) \o FlattenSeq(u)}
<1>1. <<>> \in T
  <2>1. FlattenSeq(a) \in Seq(S)
    BY FlattenType
  <2>2. a \o <<>> = a /\ FlattenSeq(a) \o <<>> = FlattenSeq(a) /\ <<>> \in Seq(Seq(S))
    BY <2>1
  <2>3. QED BY <2>2, FlattenNone
<1>2. ASSUME NEW u \in T, NEW t \in Seq(S) PROVE Append(u, t) \in T
  <2>1. u \in Seq(Seq(S)) /\ a \o u \in Seq(Seq(S)) /\ Append(u, t) \in Seq(Seq(S))
    OBVIOUS
  <2>2. a \o Append(u, t) = Append(a \o u, t)
    BY <2>1
  <2>3. /\ FlattenSeq(Append(a \o u, t)) = FlattenSeq(a \o u) \o t
        /\ FlattenSeq(Append(u, t)) = FlattenSeq(u) \o t
    BY <2>1, FlattenAppend
  <2>4. FlattenSeq(a) \in Seq(S) /\ FlattenSeq(u) \in Seq(S)
    BY <2>1, FlattenType
  <2>5. (FlattenSeq(a) \o FlattenSeq(u)) \o t = FlattenSeq(a) \o (FlattenSeq(u) \o t)
    BY <2>4, ConcatAssociative
  <2>6. QED BY <2>1, <2>2, <2>3, <2>5
<1>3. T \in SUBSET Seq(Seq(S))
  OBVIOUS
<1> HIDE DEF T
<1>4. T = Seq(Seq(S))
  BY <1>1, <1>2, <1>3, SequencesByInduction
<1>5. QED BY <1>4 DEF T

(* The elements of a concatenation are those of both parts.                *)
LEMMA ConcatElements ==
  ASSUME NEW S, NEW a \in Seq(S), NEW b \in Seq(S)
  PROVE  ToSet(a \o b) = ToSet(a) \cup ToSet(b)
<1> DEFINE c == a \o b
<1>1. /\ Len(a) \in Nat /\ Len(b) \in Nat /\ Len(c) = Len(a) + Len(b)
      /\ DOMAIN a = 1 .. Len(a) /\ DOMAIN b = 1 .. Len(b) /\ DOMAIN c = 1 .. Len(a) + Len(b)
      /\ \A i \in 1 .. Len(a) : i \in DOMAIN c /\ c[i] = a[i]
      /\ \A i \in 1 .. Len(b) : i + Len(a) \in DOMAIN c /\ c[i + Len(a)] = b[i]
  OBVIOUS
<1> HIDE DEF c
<1>2. ASSUME NEW i \in DOMAIN c PROVE c[i] \in ToSet(a) \cup ToSet(b)
  <2>1. CASE i <= Len(a)
    BY <1>1, <2>1 DEF ToSet
  <2>2. CASE i > Len(a)
    <3>1. i - Len(a) \in 1 .. Len(b) /\ (i - Len(a)) + Len(a) = i
      BY <1>1, <2>2
    <3>2. c[i] = b[i - Len(a)]
      BY <1>1, <3>1
    <3>3. QED BY <1>1, <3>1, <3>2 DEF ToSet
  <2>3. QED BY <1>1, <2>1, <2>2
<1>3. ToSet(a) \subseteq ToSet(c) /\ ToSet(b) \subseteq ToSet(c)
  BY <1>1 DEF ToSet
<1>4. ToSet(c) \subseteq ToSet(a) \cup ToSet(b)
  BY <1>2 DEF ToSet
<1>5. QED BY <1>3, <1>4 DEF c

(* FlattenSeq has the elements of the sequences, and no others.            *)
LEMMA FlattenElements ==
  ASSUME NEW S, NEW ss \in Seq(Seq(S)), NEW x
  PROVE  x \in ToSet(FlattenSeq(ss)) <=> \E i \in 1 .. Len(ss) : x \in ToSet(ss[i])
<1> DEFINE T == {u \in Seq(Seq(S)) :
                   x \in ToSet(FlattenSeq(u)) <=> \E i \in 1 .. Len(u) : x \in ToSet(u[i])}
<1>1. <<>> \in T
  <2>1. <<>> \in Seq(Seq(S)) /\ Len(<<>>) = 0 /\ ToSet(<<>>) = {}
    BY DEF ToSet
  <2>2. QED BY <2>1, FlattenNone
<1>2. ASSUME NEW u \in T, NEW t \in Seq(S) PROVE Append(u, t) \in T
  <2>1. u \in Seq(Seq(S)) /\ Append(u, t) \in Seq(Seq(S)) /\ FlattenSeq(u) \in Seq(S)
    BY FlattenType
  <2>2. ToSet(FlattenSeq(Append(u, t))) = ToSet(FlattenSeq(u)) \cup ToSet(t)
    <3>1. FlattenSeq(Append(u, t)) = FlattenSeq(u) \o t
      BY <2>1, FlattenAppend
    <3>2. QED BY <2>1, <3>1, ConcatElements
  <2>3. (\E i \in 1 .. Len(Append(u, t)) : x \in ToSet(Append(u, t)[i]))
          <=> (\E i \in 1 .. Len(u) : x \in ToSet(u[i])) \/ x \in ToSet(t)
    <3> DEFINE v == Append(u, t)
    <3>1. /\ Len(u) \in Nat /\ Len(v) = Len(u) + 1 /\ v[Len(u) + 1] = t
          /\ \A i \in 1 .. Len(u) : v[i] = u[i]
      BY <2>1
    <3> HIDE DEF v
    <3>2. 1 .. Len(v) = (1 .. Len(u)) \cup {Len(u) + 1}
      BY <3>1
    <3>3. (\E i \in 1 .. Len(v) : x \in ToSet(v[i]))
            <=> (\E i \in 1 .. Len(u) : x \in ToSet(u[i])) \/ x \in ToSet(t)
      BY <3>1, <3>2
    <3>4. QED BY <3>3 DEF v
  <2>4. QED BY <2>1, <2>2, <2>3
<1>3. T \in SUBSET Seq(Seq(S))
  OBVIOUS
<1> HIDE DEF T
<1>4. T = Seq(Seq(S))
  BY <1>1, <1>2, <1>3, SequencesByInduction
<1>5. QED BY <1>4 DEF T

(* x is the first element of s that lies in H.                             *)
IsFirst(s, H, x) ==
  \E i \in 1 .. Len(s) : s[i] = x /\ x \in H /\ \A j \in 1 .. (i - 1) : s[j] \notin H

(* The first hit of a concatenation: that of the first part, or that of    *)
(* the second when the first has none.                                     *)
LEMMA FirstOfConcat ==
  ASSUME NEW S, NEW a \in Seq(S), NEW b \in Seq(S), NEW H, NEW x
  PROVE  /\ IsFirst(a, H, x) => IsFirst(a \o b, H, x)
         /\ ToSet(a) \cap H = {} /\ IsFirst(b, H, x) => IsFirst(a \o b, H, x)
<1> DEFINE c == a \o b
<1>1. /\ Len(a) \in Nat /\ Len(b) \in Nat /\ Len(c) = Len(a) + Len(b)
      /\ \A i \in 1 .. Len(a) : c[i] = a[i]
      /\ \A i \in 1 .. Len(b) : c[i + Len(a)] = b[i]
  OBVIOUS
<1> HIDE DEF c
<1>2. ASSUME IsFirst(a, H, x) PROVE IsFirst(c, H, x)
  <2>1. PICK i \in 1 .. Len(a) : a[i] = x /\ x \in H /\ \A j \in 1 .. (i - 1) : a[j] \notin H
    BY <1>2 DEF IsFirst
  <2>2. i \in 1 .. Len(c) /\ c[i] = x /\ \A j \in 1 .. (i - 1) : c[j] = a[j]
    BY <1>1, <2>1
  <2>3. QED BY <2>1, <2>2 DEF IsFirst
<1>3. ASSUME ToSet(a) \cap H = {}, IsFirst(b, H, x) PROVE IsFirst(c, H, x)
  <2>1. PICK i \in 1 .. Len(b) : b[i] = x /\ x \in H /\ \A j \in 1 .. (i - 1) : b[j] \notin H
    BY <1>3 DEF IsFirst
  <2>2. i + Len(a) \in 1 .. Len(c) /\ c[i + Len(a)] = x
    BY <1>1, <2>1
  <2>3. ASSUME NEW j \in 1 .. ((i + Len(a)) - 1) PROVE c[j] \notin H
    <3>1. CASE j <= Len(a)
      <4>1. j \in 1 .. Len(a) /\ DOMAIN a = 1 .. Len(a)
        BY <1>1, <3>1
      <4>2. QED BY <1>1, <1>3, <4>1 DEF ToSet
    <3>2. CASE j > Len(a)
      <4>1. j - Len(a) \in 1 .. (i - 1) /\ j - Len(a) \in 1 .. Len(b) /\ (j - Len(a)) + Len(a) = j
        BY <1>1, <3>2
      <4>2. QED BY <1>1, <2>1, <4>1
    <3>3. QED BY <1>1, <3>1, <3>2
  <2>4. QED BY <2>1, <2>2, <2>3 DEF IsFirst
<1>4. QED BY <1>2, <1>3 DEF c

(* The first hit of many sequences: that of the first one which has a      *)
(* hit.                                                                    *)
LEMMA FirstOfFlatten ==
  ASSUME NEW S, NEW ss \in Seq(Seq(S)), NEW H, NEW x,
         NEW k \in 1 .. Len(ss), IsFirst(ss[k], H, x),
         \A i \in 1 .. (k - 1) : ToSet(ss[i]) \cap H = {}
  PROVE  IsFirst(FlattenSeq(ss), H, x)
<1> DEFINE Leads(u) == \E i \in 1 .. Len(u) : IsFirst(u[i], H, x)
                         /\ \A j \in 1 .. (i - 1) : ToSet(u[j]) \cap H = {}
           T == {u \in Seq(Seq(S)) : Leads(u) => IsFirst(FlattenSeq(u), H, x)}
<1>1. <<>> \in T
  OBVIOUS
<1>2. ASSUME NEW u \in T, NEW t \in Seq(S) PROVE Append(u, t) \in T
  <2> DEFINE v == Append(u, t)
  <2>1. /\ u \in Seq(Seq(S)) /\ v \in Seq(Seq(S)) /\ FlattenSeq(u) \in Seq(S)
        /\ FlattenSeq(v) = FlattenSeq(u) \o t
    <3>1. u \in Seq(Seq(S)) /\ v \in Seq(Seq(S))
      OBVIOUS
    <3>2. FlattenSeq(u) \in Seq(S)
      BY <3>1, FlattenType
    <3>3. FlattenSeq(v) = FlattenSeq(u) \o t
      BY <3>1, FlattenAppend
    <3>4. QED BY <3>1, <3>2, <3>3
  <2>2. /\ Len(u) \in Nat /\ Len(v) = Len(u) + 1 /\ v[Len(u) + 1] = t
        /\ \A i \in 1 .. Len(u) : v[i] = u[i]
    BY <2>1
  <2> HIDE DEF v
  <2> SUFFICES ASSUME Leads(v) PROVE IsFirst(FlattenSeq(v), H, x)
    BY <2>1 DEF v
  <2>3. PICK i \in 1 .. Len(v) : IsFirst(v[i], H, x)
                                 /\ \A j \in 1 .. (i - 1) : ToSet(v[j]) \cap H = {}
    OBVIOUS
  <2>4. CASE i <= Len(u)
    <3>1. i \in 1 .. Len(u) /\ IsFirst(u[i], H, x)
          /\ \A j \in 1 .. (i - 1) : ToSet(u[j]) \cap H = {}
      <4>1. i \in 1 .. Len(u) /\ \A j \in 1 .. (i - 1) : j \in 1 .. Len(u)
        BY <2>2, <2>4
      <4>2. v[i] = u[i] /\ \A j \in 1 .. (i - 1) : v[j] = u[j]
        BY <2>2, <4>1
      <4>3. QED BY <2>3, <4>1, <4>2
    <3>2. IsFirst(FlattenSeq(u), H, x)
      BY <3>1
    <3>3. QED BY <2>1, <3>2, FirstOfConcat
  <2>5. CASE i = Len(u) + 1
    <3>1. IsFirst(t, H, x) /\ \A j \in 1 .. Len(u) : ToSet(u[j]) \cap H = {}
      BY <2>2, <2>3, <2>5
    <3>2. ToSet(FlattenSeq(u)) \cap H = {}
      BY <2>1, <3>1, FlattenElements
    <3>3. QED BY <2>1, <3>1, <3>2, FirstOfConcat
  <2>6. QED BY <2>2, <2>4, <2>5
<1>3. T \in SUBSET Seq(Seq(S))
  OBVIOUS
<1>4. Leads(ss)
  OBVIOUS
<1> HIDE DEF T
<1>5. T = Seq(Seq(S))
  BY <1>1, <1>2, <1>3, SequencesByInduction
<1>6. QED BY <1>4, <1>5 DEF T

(* What Select concatenates: one sequence per element, of the element or   *)
(* of nothing.                                                             *)
Parts(s, T) == [i \in DOMAIN s |-> IF s[i] \in T THEN <<s[i]>> ELSE <<>>]

(* The elements of s that are in T, in their order: Select, for a test     *)
(* that is a set.                                                          *)
Kept(s, T) == FlattenSeq(Parts(s, T))

(* There is one part per element.                                          *)
LEMMA PartsLength ==
  ASSUME NEW S, NEW s \in Seq(S), NEW T
  PROVE  Len(Parts(s, T)) = Len(s) /\ DOMAIN Parts(s, T) = 1 .. Len(s)
<1>1. Len(s) \in Nat /\ DOMAIN s = 1 .. Len(s)
  OBVIOUS
<1>2. QED BY <1>1 DEF Parts

(* The part of an element.                                                 *)
LEMMA PartsAt ==
  ASSUME NEW S, NEW s \in Seq(S), NEW T, NEW i \in 1 .. Len(s)
  PROVE  Parts(s, T)[i] = IF s[i] \in T THEN <<s[i]>> ELSE <<>>
<1>1. i \in DOMAIN s
  OBVIOUS
<1>2. QED BY <1>1 DEF Parts

(* The parts are sequences over the elements that are kept.                *)
LEMMA PartsType ==
  ASSUME NEW S, NEW s \in Seq(S), NEW T
  PROVE  Parts(s, T) \in Seq(Seq(S)) /\ Parts(s, T) \in Seq(Seq(S \cap T))
<1>1. Len(s) \in Nat /\ DOMAIN s = 1 .. Len(s)
  OBVIOUS
<1>2. ASSUME NEW i \in 1 .. Len(s)
      PROVE  /\ (IF s[i] \in T THEN <<s[i]>> ELSE <<>>) \in Seq(S)
             /\ (IF s[i] \in T THEN <<s[i]>> ELSE <<>>) \in Seq(S \cap T)
  <2>1. s[i] \in S
    OBVIOUS
  <2>2. CASE s[i] \in T
    <3>1. s[i] \in S \cap T
      BY <2>1, <2>2
    <3>2. <<s[i]>> \in Seq(S) /\ <<s[i]>> \in Seq(S \cap T)
      BY <2>1, <3>1
    <3>3. QED BY <2>2, <3>2
  <2>3. CASE s[i] \notin T
    <3>1. <<>> \in Seq(S) /\ <<>> \in Seq(S \cap T)
      OBVIOUS
    <3>2. QED BY <2>3, <3>1
  <2>4. QED BY <2>2, <2>3
<1>3. Parts(s, T) \in Seq(Seq(S))
  BY <1>1, <1>2 DEF Parts
<1>4. Parts(s, T) \in Seq(Seq(S \cap T))
  BY <1>1, <1>2 DEF Parts
<1>5. QED BY <1>3, <1>4

(* What is kept was there, and is in T.                                    *)
LEMMA KeptType ==
  ASSUME NEW S, NEW s \in Seq(S), NEW T
  PROVE  Kept(s, T) \in Seq(S) /\ Kept(s, T) \in Seq(S \cap T)
BY PartsType, FlattenType DEF Kept

(* Exactly the elements in T are kept.                                     *)
LEMMA KeptElements ==
  ASSUME NEW S, NEW s \in Seq(S), NEW T
  PROVE  ToSet(Kept(s, T)) = ToSet(s) \cap T
<1>1. ASSUME NEW x PROVE x \in ToSet(Kept(s, T)) <=> x \in ToSet(s) /\ x \in T
  <2>1. x \in ToSet(Kept(s, T)) <=> \E i \in 1 .. Len(s) : x \in ToSet(Parts(s, T)[i])
    <3>1. Parts(s, T) \in Seq(Seq(S)) /\ Len(Parts(s, T)) = Len(s)
      BY PartsType, PartsLength
    <3>2. QED BY <3>1, FlattenElements DEF Kept
  <2>2. ASSUME NEW i \in 1 .. Len(s)
        PROVE  x \in ToSet(Parts(s, T)[i]) <=> s[i] = x /\ x \in T
    <3>1. Parts(s, T)[i] = IF s[i] \in T THEN <<s[i]>> ELSE <<>>
      BY PartsAt
    <3>2. ToSet(<<s[i]>>) = {s[i]} /\ ToSet(<<>>) = {}
      BY DEF ToSet
    <3>3. QED BY <3>1, <3>2
  <2>3. x \in ToSet(s) <=> \E i \in 1 .. Len(s) : s[i] = x
    BY DEF ToSet
  <2>4. QED BY <2>1, <2>2, <2>3
<1>2. QED BY <1>1

(* A concatenation, place by place.                                        *)
LEMMA ConcatAt ==
  ASSUME NEW S, NEW a \in Seq(S), NEW b \in Seq(S)
  PROVE  /\ a \o b \in Seq(S) /\ Len(a \o b) = Len(a) + Len(b)
         /\ \A i \in 1 .. Len(a) : (a \o b)[i] = a[i]
         /\ \A i \in 1 .. Len(b) : (a \o b)[Len(a) + i] = b[i]
OBVIOUS

(* The parts of a concatenation.                                           *)
LEMMA PartsConcat ==
  ASSUME NEW S, NEW a \in Seq(S), NEW b \in Seq(S), NEW T
  PROVE  Parts(a \o b, T) = Parts(a, T) \o Parts(b, T)
<1>1. Parts(a, T) \in Seq(Seq(S)) /\ Parts(b, T) \in Seq(Seq(S))
  BY PartsType
<1>2. PICK c : c = a \o b
  OBVIOUS
<1>3. PICK q : q = Parts(a, T) \o Parts(b, T)
  OBVIOUS
<1>4. /\ c \in Seq(S) /\ Len(c) = Len(a) + Len(b)
      /\ \A i \in 1 .. Len(a) : c[i] = a[i]
      /\ \A i \in 1 .. Len(b) : c[Len(a) + i] = b[i]
  BY <1>2, ConcatAt
<1>5. /\ Len(Parts(a, T)) = Len(a) /\ Len(Parts(b, T)) = Len(b)
      /\ Len(Parts(c, T)) = Len(c) /\ Parts(c, T) \in Seq(Seq(S))
  BY <1>4, PartsLength, PartsType
<1>6. /\ q \in Seq(Seq(S)) /\ Len(q) = Len(a) + Len(b)
      /\ \A i \in 1 .. Len(a) : q[i] = Parts(a, T)[i]
      /\ \A i \in 1 .. Len(b) : q[Len(a) + i] = Parts(b, T)[i]
  <2>1. PICK u : u = Parts(a, T)
    OBVIOUS
  <2>2. PICK v : v = Parts(b, T)
    OBVIOUS
  <2>3. u \in Seq(Seq(S)) /\ v \in Seq(Seq(S)) /\ Len(u) = Len(a) /\ Len(v) = Len(b)
    BY <1>1, <1>5, <2>1, <2>2
  <2>4. /\ u \o v \in Seq(Seq(S)) /\ Len(u \o v) = Len(u) + Len(v)
        /\ \A i \in 1 .. Len(u) : (u \o v)[i] = u[i]
        /\ \A i \in 1 .. Len(v) : (u \o v)[Len(u) + i] = v[i]
    <3>1. u \in Seq(Seq(S)) /\ v \in Seq(Seq(S))
      BY <2>3
    <3>2. u \o v \in Seq(Seq(S)) /\ Len(u \o v) = Len(u) + Len(v)
      BY <3>1
    <3>3. \A i \in 1 .. Len(u) : (u \o v)[i] = u[i]
      BY <3>1
    <3>4. ASSUME NEW i \in 1 .. Len(v) PROVE (u \o v)[Len(u) + i] = v[i]
      BY <3>1
    <3>5. QED BY <3>2, <3>3, <3>4
  <2>5. u \o v = q
    BY <1>3, <2>1, <2>2
  <2>6. QED BY <2>1, <2>2, <2>3, <2>4, <2>5
<1>7. Len(a) \in Nat /\ Len(b) \in Nat
  OBVIOUS
<1>8. ASSUME NEW i \in 1 .. Len(c) PROVE Parts(c, T)[i] = q[i]
  <2>0. Parts(c, T)[i] = IF c[i] \in T THEN <<c[i]>> ELSE <<>>
    <3>1. c \in Seq(S)
      BY <1>4
    <3>2. QED BY <3>1, PartsAt
  <2>1. CASE i <= Len(a)
    <3>1. i \in 1 .. Len(a) /\ c[i] = a[i] /\ q[i] = Parts(a, T)[i]
      BY <1>4, <1>6, <1>7, <2>1
    <3>2. Parts(a, T)[i] = IF a[i] \in T THEN <<a[i]>> ELSE <<>>
      BY <3>1, PartsAt
    <3>3. QED BY <2>0, <3>1, <3>2
  <2>2. CASE i > Len(a)
    <3>1. PICK k \in 1 .. Len(b) : i = Len(a) + k
      <4>1. i - Len(a) \in 1 .. Len(b) /\ i = Len(a) + (i - Len(a))
        BY <1>4, <1>7, <2>2
      <4>2. QED BY <4>1
    <3>2. c[i] = b[k] /\ q[i] = Parts(b, T)[k]
      BY <1>4, <1>6, <3>1
    <3>3. Parts(b, T)[k] = IF b[k] \in T THEN <<b[k]>> ELSE <<>>
      BY PartsAt
    <3>4. QED BY <2>0, <3>2, <3>3
  <2>3. QED BY <1>4, <1>7, <2>1, <2>2
<1>9. Parts(c, T) = q
  BY <1>4, <1>5, <1>6, <1>7, <1>8, SeqEqual
<1>10. QED BY <1>2, <1>3, <1>9

(* Selection distributes over concatenation.                               *)
LEMMA KeptConcat ==
  ASSUME NEW S, NEW a \in Seq(S), NEW b \in Seq(S), NEW T
  PROVE  Kept(a \o b, T) = Kept(a, T) \o Kept(b, T)
<1>1. Parts(a \o b, T) = Parts(a, T) \o Parts(b, T)
  BY PartsConcat
<1>2. Parts(a, T) \in Seq(Seq(S)) /\ Parts(b, T) \in Seq(Seq(S))
  BY PartsType
<1>3. QED BY <1>1, <1>2, FlattenConcat DEF Kept

(* Nothing is kept of a sequence without elements in T.                    *)
LEMMA KeptNone ==
  ASSUME NEW S, NEW s \in Seq(S), NEW T, ToSet(s) \cap T = {}
  PROVE  Kept(s, T) = <<>>
<1>1. Kept(s, T) \in Seq(S) /\ ToSet(Kept(s, T)) = {}
  BY KeptType, KeptElements
<1>2. QED BY <1>1 DEF ToSet

(* What is kept of a sequence of one element.                              *)
LEMMA KeptOne ==
  ASSUME NEW x, NEW T
  PROVE  Kept(<<x>>, T) = IF x \in T THEN <<x>> ELSE <<>>
<1> DEFINE t == IF x \in T THEN <<x>> ELSE <<>>
<1>1. Parts(<<x>>, T) = <<t>>
  BY DEF Parts
<1>2. t \in Seq({x})
  <2>1. <<x>> \in Seq({x}) /\ <<>> \in Seq({x})
    OBVIOUS
  <2>2. QED BY <2>1
<1> HIDE DEF t
<1>3. <<t>> = Append(<<>>, t) /\ <<>> \in Seq(Seq({x})) /\ <<>> \o t = t
  BY <1>2
<1>4. FlattenSeq(<<t>>) = t
  BY <1>2, <1>3, FlattenAppend, FlattenNone
<1>5. QED BY <1>1, <1>4 DEF Kept, t

(* A sequence over T is kept as it is.                                     *)
LEMMA KeptAll ==
  ASSUME NEW S, NEW s \in Seq(S), NEW T, ToSet(s) \subseteq T
  PROVE  Kept(s, T) = s
<1> DEFINE U == {u \in Seq(S) : ToSet(u) \subseteq T => Kept(u, T) = u}
<1>1. <<>> \in U
  <2>1. <<>> \in Seq(S) /\ ToSet(<<>>) = {}
    BY DEF ToSet
  <2>2. QED BY <2>1, KeptNone
<1>2. ASSUME NEW u \in U, NEW x \in S PROVE Append(u, x) \in U
  <2>1. PICK y \in Seq(S) : y = <<x>>
    <3>1. <<x>> \in Seq(S)
      OBVIOUS
    <3>2. QED BY <3>1, Zenon
  <2>2. u \in Seq(S) /\ Append(u, x) = u \o y /\ Append(u, x) \in Seq(S)
    BY <2>1
  <2>3. ToSet(u \o y) = ToSet(u) \cup {x}
    <3>1. ToSet(y) = {x}
      BY <2>1 DEF ToSet
    <3>2. ToSet(u \o y) = ToSet(u) \cup ToSet(y)
      BY <2>2, ConcatElements
    <3>3. QED BY <3>1, <3>2
  <2>4. Kept(u \o y, T) = Kept(u, T) \o Kept(y, T)
    BY <2>2, KeptConcat
  <2>5. Kept(y, T) = IF x \in T THEN y ELSE <<>>
    BY <2>1, KeptOne
  <2>6. QED BY <2>2, <2>3, <2>4, <2>5
<1>3. U \in SUBSET Seq(S)
  OBVIOUS
<1> HIDE DEF U
<1>4. U = Seq(S)
  BY <1>1, <1>2, <1>3, SequencesByInduction
<1>5. QED BY <1>4 DEF U

(* The first hit among the kept elements is the first element that is in   *)
(* T and a hit.                                                            *)
LEMMA KeptFirst ==
  ASSUME NEW S, NEW s \in Seq(S), NEW T, NEW H, NEW x, IsFirst(s, T \cap H, x)
  PROVE  IsFirst(Kept(s, T), H, x)
<1> DEFINE ss == Parts(s, T)
<1>1. /\ ss \in Seq(Seq(S)) /\ Len(ss) = Len(s)
      /\ \A i \in 1 .. Len(s) : ss[i] = IF s[i] \in T THEN <<s[i]>> ELSE <<>>
  <2>1. ss \in Seq(Seq(S)) /\ Len(ss) = Len(s)
    BY PartsType, PartsLength
  <2>2. \A i \in 1 .. Len(s) : ss[i] = IF s[i] \in T THEN <<s[i]>> ELSE <<>>
    BY PartsAt
  <2>3. QED BY <2>1, <2>2
<1> HIDE DEF ss
<1>2. PICK k \in 1 .. Len(s) : s[k] = x /\ x \in T \cap H
                               /\ \A j \in 1 .. (k - 1) : s[j] \notin T \cap H
  BY DEF IsFirst
<1>3. IsFirst(ss[k], H, x)
  <2>1. ss[k] = <<x>>
    BY <1>1, <1>2
  <2>2. Len(<<x>>) = 1 /\ <<x>>[1] = x /\ x \in H
    BY <1>2
  <2>3. QED BY <2>1, <2>2 DEF IsFirst
<1>4. ASSUME NEW j \in 1 .. (k - 1) PROVE ToSet(ss[j]) \cap H = {}
  <2>1. j \in 1 .. Len(s) /\ s[j] \notin T \cap H
    BY <1>2
  <2>2. ss[j] = IF s[j] \in T THEN <<s[j]>> ELSE <<>>
    BY <1>1, <2>1
  <2>3. ToSet(<<s[j]>>) = {s[j]} /\ ToSet(<<>>) = {}
    BY DEF ToSet
  <2>4. QED BY <2>1, <2>2, <2>3
<1>5. IsFirst(FlattenSeq(ss), H, x)
  BY <1>1, <1>3, <1>4, FirstOfFlatten
<1>6. QED BY <1>5 DEF Kept, ss

(* The sequences F gives for the elements of s, one after the other:       *)
(* Concat, for an operator that is a function.                             *)
Mapped(s, F) == FlattenSeq([i \in DOMAIN s |-> F[s[i]]])

(* The sequences that Mapped concatenates.                                 *)
LEMMA MappedParts ==
  ASSUME NEW S, NEW U, NEW s \in Seq(S), NEW F \in [S -> Seq(U)]
  PROVE  /\ [i \in DOMAIN s |-> F[s[i]]] \in Seq(Seq(U))
         /\ Len([i \in DOMAIN s |-> F[s[i]]]) = Len(s)
<1>1. Len(s) \in Nat /\ DOMAIN s = 1 .. Len(s)
  OBVIOUS
<1>2. ASSUME NEW i \in 1 .. Len(s) PROVE F[s[i]] \in Seq(U)
  <2>1. s[i] \in S
    OBVIOUS
  <2>2. QED BY <2>1
<1>3. QED BY <1>1, <1>2

(* Mapped is a sequence over what F's values are over.                     *)
LEMMA MappedType ==
  ASSUME NEW S, NEW U, NEW s \in Seq(S), NEW F \in [S -> Seq(U)]
  PROVE  Mapped(s, F) \in Seq(U)
<1> DEFINE ss == [i \in DOMAIN s |-> F[s[i]]]
<1>1. ss \in Seq(Seq(U))
  BY MappedParts
<1> HIDE DEF ss
<1>2. FlattenSeq(ss) \in Seq(U)
  BY <1>1, FlattenType
<1>3. QED BY <1>2 DEF Mapped, ss

(* The elements of Mapped are those of the values of F.                    *)
LEMMA MappedElements ==
  ASSUME NEW S, NEW U, NEW s \in Seq(S), NEW F \in [S -> Seq(U)], NEW x
  PROVE  x \in ToSet(Mapped(s, F)) <=> \E y \in ToSet(s) : x \in ToSet(F[y])
<1> DEFINE ss == [i \in DOMAIN s |-> F[s[i]]]
<1>1. ss \in Seq(Seq(U)) /\ Len(ss) = Len(s)
  BY MappedParts
<1>2. Len(s) \in Nat /\ DOMAIN s = 1 .. Len(s)
  OBVIOUS
<1>3. \A i \in 1 .. Len(s) : ss[i] = F[s[i]]
  BY <1>2
<1> HIDE DEF ss
<1>4. x \in ToSet(FlattenSeq(ss)) <=> \E i \in 1 .. Len(ss) : x \in ToSet(ss[i])
  BY <1>1, FlattenElements
<1>5. (\E i \in 1 .. Len(ss) : x \in ToSet(ss[i])) <=> \E i \in 1 .. Len(s) : x \in ToSet(F[s[i]])
  BY <1>1, <1>3
<1>6. (\E i \in 1 .. Len(s) : x \in ToSet(F[s[i]])) <=> \E y \in ToSet(s) : x \in ToSet(F[y])
  BY <1>2 DEF ToSet
<1>7. x \in ToSet(FlattenSeq(ss)) <=> x \in ToSet(Mapped(s, F))
  BY DEF Mapped, ss
<1>8. QED BY <1>4, <1>5, <1>6, <1>7

(* The first hit of Mapped: if y is the first element of s in G, and the   *)
(* values of the elements outside G have no hit, it is the first hit in    *)
(* the value of y.                                                         *)
LEMMA MappedFirst ==
  ASSUME NEW S, NEW U, NEW s \in Seq(S), NEW F \in [S -> Seq(U)],
         NEW G, NEW y, IsFirst(s, G, y), NEW H, NEW x, IsFirst(F[y], H, x),
         \A z \in ToSet(s) : z \notin G => ToSet(F[z]) \cap H = {}
  PROVE  IsFirst(Mapped(s, F), H, x)
<1> DEFINE ss == [i \in DOMAIN s |-> F[s[i]]]
<1>1. ss \in Seq(Seq(U)) /\ Len(ss) = Len(s)
  BY MappedParts
<1>2. Len(s) \in Nat /\ DOMAIN s = 1 .. Len(s)
  OBVIOUS
<1>3. \A i \in 1 .. Len(s) : ss[i] = F[s[i]]
  BY <1>2
<1> HIDE DEF ss
<1>4. PICK k \in 1 .. Len(s) : s[k] = y /\ y \in G /\ \A j \in 1 .. (k - 1) : s[j] \notin G
  BY DEF IsFirst
<1>5. k \in 1 .. Len(ss) /\ IsFirst(ss[k], H, x)
  BY <1>1, <1>3, <1>4
<1>6. ASSUME NEW j \in 1 .. (k - 1) PROVE ToSet(ss[j]) \cap H = {}
  <2>1. j \in 1 .. Len(s) /\ s[j] \notin G
    BY <1>2, <1>4
  <2>2. s[j] \in ToSet(s) /\ ss[j] = F[s[j]]
    BY <1>2, <1>3, <2>1 DEF ToSet
  <2>3. QED BY <2>1, <2>2
<1>7. IsFirst(FlattenSeq(ss), H, x)
  BY <1>1, <1>5, <1>6, FirstOfFlatten
<1>8. QED BY <1>7 DEF Mapped, ss

(* Places and elements of a sequence.                                      *)
LEMMA ElementAt ==
  ASSUME NEW S, NEW s \in Seq(S)
  PROVE  /\ DOMAIN s = 1 .. Len(s) /\ Len(s) \in Nat
         /\ \A i \in 1 .. Len(s) : s[i] \in S /\ s[i] \in ToSet(s)
         /\ \A x : x \in ToSet(s) <=> \E i \in 1 .. Len(s) : s[i] = x
         /\ ToSet(s) \subseteq S
<1>1. DOMAIN s = 1 .. Len(s) /\ Len(s) \in Nat /\ \A i \in 1 .. Len(s) : s[i] \in S
  OBVIOUS
<1>2. QED BY <1>1 DEF ToSet

(* SelectInSeq finds the first of them.                                    *)
LEMMA FirstExists ==
  ASSUME NEW S, NEW s \in Seq(S), NEW H, ToSet(s) \cap H # {}
  PROVE  \E i \in 1 .. Len(s) :
           /\ i = Min({j \in 1 .. Len(s) : s[j] \in H})
           /\ s[i] \in H /\ \A j \in 1 .. (i - 1) : s[j] \notin H
<1> DEFINE I == {j \in 1 .. Len(s) : s[j] \in H}
<1>1. Len(s) \in Nat /\ I \in SUBSET Nat
  OBVIOUS
<1>2. I # {}
  BY ElementAt
<1> HIDE DEF I
<1>3. \E i \in I : \A j \in I : i <= j
  BY <1>1, <1>2, LeastNumber
<1>4. PICK i : i = Min(I)
  OBVIOUS
<1>5. i \in I /\ \A j \in I : i <= j
  BY <1>3, <1>4, Zenon DEF Min
<1>6. i \in 1 .. Len(s) /\ s[i] \in H
  BY <1>5 DEF I
<1>7. ASSUME NEW j \in 1 .. (i - 1) PROVE s[j] \notin H
  <2>1. j \in 1 .. Len(s) /\ ~(i <= j)
    BY <1>1, <1>6
  <2>2. j \notin I
    BY <1>5, <2>1
  <2>3. QED BY <2>1, <2>2 DEF I
<1>8. QED BY <1>4, <1>6, <1>7 DEF I

(* SetToSeq lists the elements of a finite set.                            *)
LEMMA SetToSeqElements ==
  ASSUME NEW S, IsFiniteSet(S)
  PROVE  SetToSeq(S) \in Seq(S) /\ ToSet(SetToSeq(S)) = S
<1> DEFINE n == Cardinality(S)
<1>1. n \in Nat /\ ExistsBijection(1 .. n, S)
  BY FS_CardinalityType
<1> HIDE DEF n
<1>2. \E g \in [1 .. n -> S] : IsInjective(g)
  BY <1>1 DEF ExistsBijection, Bijection, Injection, IsInjective
<1>3. PICK g : g = SetToSeq(S)
  OBVIOUS
<1>4. g \in [1 .. n -> S] /\ IsInjective(g)
  BY <1>2, <1>3, Zenon DEF SetToSeq, n
<1>5. g \in Injection(1 .. n, S)
  BY <1>4 DEF Injection
<1>6. Cardinality(1 .. n) = n
  BY <1>1, FS_Interval
<1>7. g \in Surjection(1 .. n, S)
  BY <1>5, <1>6, FS_Injection DEF n
<1>8. \A x \in S : \E i \in 1 .. n : g[i] = x
  BY <1>7 DEF Surjection
<1>9. g \in Seq(S) /\ DOMAIN g = 1 .. n
  BY <1>1, <1>4
<1>10. QED BY <1>3, <1>4, <1>8, <1>9 DEF ToSet

(* A sequence is what comes before a place and what comes from there on.   *)
LEMMA SplitAt ==
  ASSUME NEW S, NEW s \in Seq(S), NEW a \in 1 .. Len(s) + 1
  PROVE  /\ SubSeq(s, 1, a - 1) \in Seq(S) /\ Len(SubSeq(s, 1, a - 1)) = a - 1
         /\ \A i \in 1 .. (a - 1) : SubSeq(s, 1, a - 1)[i] = s[i]
         /\ SubSeq(s, a, Len(s)) \in Seq(S) /\ Len(SubSeq(s, a, Len(s))) = Len(s) - a + 1
         /\ s = SubSeq(s, 1, a - 1) \o SubSeq(s, a, Len(s))
<1>0. Len(s) \in Nat /\ a \in Nat /\ a - 1 \in Nat /\ a - 1 <= Len(s) /\ a >= 1
  OBVIOUS
<1>1. PICK u : u = SubSeq(s, 1, a - 1)
  OBVIOUS
<1>2. PICK v : v = SubSeq(s, a, Len(s))
  OBVIOUS
<1>3. /\ u \in Seq(S) /\ Len(u) = a - 1
      /\ \A i \in 1 .. (a - 1) : u[i] = s[i]
  <2>1. \A i \in 1 .. (a - 1) : s[i] \in S
    BY <1>0
  <2>2. QED BY <1>0, <1>1, <2>1
<1>4. /\ v \in Seq(S) /\ Len(v) = Len(s) - a + 1
      /\ \A i \in 1 .. (Len(s) - a + 1) : v[i] = s[a + i - 1]
  <2>1. \A i \in a .. Len(s) : s[i] \in S
    BY <1>0
  <2>2. QED BY <1>0, <1>2, <2>1
<1>5. PICK w : w = u \o v
  OBVIOUS
<1>6. /\ w \in Seq(S) /\ Len(w) = Len(u) + Len(v)
      /\ \A i \in 1 .. Len(u) : w[i] = u[i]
      /\ \A i \in 1 .. Len(v) : w[Len(u) + i] = v[i]
  <2>1. u \in Seq(S) /\ v \in Seq(S)
    BY <1>3, <1>4
  <2>2. /\ u \o v \in Seq(S) /\ Len(u \o v) = Len(u) + Len(v)
        /\ \A i \in 1 .. Len(u) : (u \o v)[i] = u[i]
        /\ \A i \in 1 .. Len(v) : (u \o v)[Len(u) + i] = v[i]
    BY <2>1, ConcatAt
  <2>3. QED BY <1>5, <2>2
<1>7. ASSUME NEW i \in 1 .. Len(s) PROVE w[i] = s[i]
  <2>1. CASE i <= a - 1
    BY <1>0, <1>3, <1>6, <2>1
  <2>2. CASE i > a - 1
    <3>1. i - (a - 1) \in 1 .. Len(v) /\ Len(u) + (i - (a - 1)) = i
      BY <1>0, <1>3, <1>4, <2>2
    <3>2. w[i] = v[i - (a - 1)]
      BY <1>6, <3>1
    <3>3. a + (i - (a - 1)) - 1 = i
      BY <1>0
    <3>4. QED BY <1>4, <3>1, <3>2, <3>3
  <2>3. QED BY <1>0, <2>1, <2>2
<1>8. w = s
  BY <1>0, <1>3, <1>4, <1>6, <1>7, SeqEqual
<1>9. QED BY <1>1, <1>2, <1>3, <1>4, <1>5, <1>8

(* A sequence of one element.                                              *)
LEMMA SingletonFacts ==
  ASSUME NEW S, NEW x \in S
  PROVE  <<x>> \in Seq(S) /\ ToSet(<<x>>) = {x} /\ Len(<<x>>) = 1 /\ <<x>>[1] = x
<1>1. <<x>> \in Seq(S)
  OBVIOUS
<1>2. ToSet(<<x>>) = {x}
  BY DEF ToSet
<1>3. QED BY <1>1, <1>2

(* RemoveAt makes a sequence over the same set, shorter by one.            *)
LEMMA RemoveFacts ==
  ASSUME NEW S, NEW s \in Seq(S), NEW k \in 1 .. Len(s)
  PROVE  RemoveAt(s, k) \in Seq(S) /\ Len(RemoveAt(s, k)) = Len(s) - 1
<1>0. Len(s) \in Nat /\ k \in 1 .. Len(s) + 1 /\ k + 1 \in 1 .. Len(s) + 1 /\ k \in Nat
  OBVIOUS
<1>1. PICK u : u = SubSeq(s, 1, k - 1)
  OBVIOUS
<1>2. PICK v : v = SubSeq(s, k + 1, Len(s))
  OBVIOUS
<1>3. u \in Seq(S) /\ Len(u) = k - 1
  BY <1>0, <1>1, SplitAt
<1>4. v \in Seq(S) /\ Len(v) = Len(s) - (k + 1) + 1
  BY <1>0, <1>2, SplitAt
<1>5. u \o v \in Seq(S) /\ Len(u \o v) = Len(u) + Len(v)
  BY <1>3, <1>4
<1>6. RemoveAt(s, k) = u \o v
  BY <1>1, <1>2 DEF RemoveAt
<1>7. (k - 1) + (Len(s) - (k + 1) + 1) = Len(s) - 1
  BY <1>0
<1>8. Len(u \o v) = Len(s) - 1
  BY <1>3, <1>4, <1>5, <1>7
<1>9. QED BY <1>5, <1>6, <1>8

(* ReplaceAt makes a sequence over the same set, of the same length.       *)
LEMMA ReplaceFacts ==
  ASSUME NEW S, NEW s \in Seq(S), NEW k \in 1 .. Len(s), NEW x \in S
  PROVE  /\ ReplaceAt(s, k, x) \in Seq(S) /\ Len(ReplaceAt(s, k, x)) = Len(s)
<1>1. Len(s) \in Nat /\ s \in [1 .. Len(s) -> S]
  OBVIOUS
<1>2. ReplaceAt(s, k, x) = [i \in 1 .. Len(s) |-> IF i = k THEN x ELSE s[i]]
  BY <1>1 DEF ReplaceAt
<1>3. \A i \in 1 .. Len(s) : (IF i = k THEN x ELSE s[i]) \in S
  BY <1>1
<1>4. QED BY <1>1, <1>2, <1>3

(* An inserted element that is not kept changes nothing of what is kept.   *)
LEMMA InsertKeeps ==
  ASSUME NEW S, NEW s \in Seq(S), NEW k \in 1 .. Len(s), NEW x \in S, NEW T, x \notin T
  PROVE  InsertAt(s, k, x) \in Seq(S) /\ Kept(InsertAt(s, k, x), T) = Kept(s, T)
<1>0. k \in 1 .. Len(s) + 1
  OBVIOUS
<1>1. PICK u : u = SubSeq(s, 1, k - 1)
  OBVIOUS
<1>2. PICK v : v = SubSeq(s, k, Len(s))
  OBVIOUS
<1>3. PICK y : y = <<x>>
  OBVIOUS
<1>4. u \in Seq(S) /\ v \in Seq(S) /\ s = u \o v
  BY <1>0, <1>1, <1>2, SplitAt
<1>5. y \in Seq(S)
  BY <1>3, SingletonFacts
<1>6. u \o y \in Seq(S) /\ (u \o y) \o v \in Seq(S)
  BY <1>4, <1>5
<1>7. Kept(y, T) = <<>>
  BY <1>3, KeptOne
<1>8. Kept(u \o y, T) = Kept(u, T) \o Kept(y, T)
  BY <1>4, <1>5, KeptConcat
<1>9. Kept(u, T) \in Seq(S)
  BY <1>4, KeptType
<1>10. Kept(u \o y, T) = Kept(u, T)
  BY <1>7, <1>8, <1>9
<1>11. Kept((u \o y) \o v, T) = Kept(u \o y, T) \o Kept(v, T)
  <2>1. PICK t : t = u \o y
    OBVIOUS
  <2>2. t \in Seq(S) /\ v \in Seq(S)
    BY <1>4, <1>6, <2>1
  <2>3. Kept(t \o v, T) = Kept(t, T) \o Kept(v, T)
    BY <2>2, KeptConcat
  <2>4. QED BY <2>1, <2>3
<1>12. Kept(u \o v, T) = Kept(u, T) \o Kept(v, T)
  BY <1>4, KeptConcat
<1>13. InsertAt(s, k, x) = (u \o y) \o v
  BY <1>1, <1>2, <1>3 DEF InsertAt
<1>14. QED BY <1>4, <1>6, <1>10, <1>11, <1>12, <1>13

(* x comes before y in s.                                                  *)
Ordered(s, x, y) == \E k, l \in 1 .. Len(s) : k < l /\ s[k] = x /\ s[l] = y

(* What is kept stays in its order.                                        *)
LEMMA KeptOrder ==
  ASSUME NEW S, NEW s \in Seq(S), NEW T, NEW i \in 1 .. Len(s), NEW j \in 1 .. Len(s),
         i < j, s[i] \in T, s[j] \in T
  PROVE  Ordered(Kept(s, T), s[i], s[j])
<1>0. Len(s) \in Nat /\ i \in Nat /\ j \in Nat /\ i + 1 \in 1 .. Len(s) + 1
  OBVIOUS
<1>1. PICK u : u = SubSeq(s, 1, (i + 1) - 1)
  OBVIOUS
<1>2. PICK v : v = SubSeq(s, i + 1, Len(s))
  OBVIOUS
<1>3. /\ u \in Seq(S) /\ v \in Seq(S) /\ s = u \o v
      /\ Len(u) = (i + 1) - 1 /\ Len(v) = Len(s) - (i + 1) + 1
  BY <1>0, <1>1, <1>2, SplitAt
<1>4. /\ \A m \in 1 .. Len(u) : (u \o v)[m] = u[m]
      /\ \A m \in 1 .. Len(v) : (u \o v)[Len(u) + m] = v[m]
  BY <1>3, ConcatAt
<1>5. i \in 1 .. Len(u) /\ u[i] = s[i]
  BY <1>0, <1>3, <1>4
<1>6. j - i \in 1 .. Len(v) /\ v[j - i] = s[j]
  <2>1. j - i \in 1 .. Len(v) /\ Len(u) + (j - i) = j
    BY <1>0, <1>3
  <2>2. QED BY <1>3, <1>4, <2>1
<1>7. PICK p : p = Kept(u, T)
  OBVIOUS
<1>8. PICK q : q = Kept(v, T)
  OBVIOUS
<1>9. p \in Seq(S) /\ q \in Seq(S) /\ Kept(s, T) = p \o q
  <2>1. u \in Seq(S) /\ v \in Seq(S)
    BY <1>3
  <2>2. Kept(u, T) \in Seq(S) /\ Kept(v, T) \in Seq(S)
    BY <2>1, KeptType
  <2>3. Kept(u \o v, T) = Kept(u, T) \o Kept(v, T)
    BY <2>1, KeptConcat
  <2>4. QED BY <1>3, <1>7, <1>8, <2>2, <2>3
<1>10. s[i] \in ToSet(p)
  <2>1. s[i] \in ToSet(u)
    BY <1>3, <1>5, ElementAt
  <2>2. QED BY <1>3, <1>7, <2>1, KeptElements
<1>11. s[j] \in ToSet(q)
  <2>1. s[j] \in ToSet(v)
    BY <1>3, <1>6, ElementAt
  <2>2. QED BY <1>3, <1>8, <2>1, KeptElements
<1>12. PICK k \in 1 .. Len(p) : p[k] = s[i]
  BY <1>9, <1>10, ElementAt
<1>13. PICK m \in 1 .. Len(q) : q[m] = s[j]
  BY <1>9, <1>11, ElementAt
<1>14. /\ Len(p) \in Nat /\ Len(q) \in Nat /\ Len(p \o q) = Len(p) + Len(q)
       /\ (p \o q)[k] = p[k] /\ (p \o q)[Len(p) + m] = q[m]
  BY <1>9, <1>12, <1>13, ConcatAt
<1>15. k \in 1 .. Len(p \o q) /\ Len(p) + m \in 1 .. Len(p \o q) /\ k < Len(p) + m
  BY <1>14
<1>16. QED BY <1>9, <1>12, <1>13, <1>14, <1>15 DEF Ordered

(* A function without two equal values has as many values as arguments.    *)
LEMMA DistinctCount ==
  ASSUME NEW n \in Nat, NEW f, DOMAIN f = 1 .. n,
         \A i, j \in 1 .. n : f[i] = f[j] => i = j
  PROVE  Cardinality({f[i] : i \in 1 .. n}) = n
<1> DEFINE R == {f[i] : i \in 1 .. n}
           g == [i \in 1 .. n |-> f[i]]
<1>1. g \in Bijection(1 .. n, R)
  BY DEF Bijection, Injection, Surjection, IsInjective
<1>2. ExistsBijection(1 .. n, R)
  BY <1>1 DEF ExistsBijection
<1>3. IsFiniteSet(1 .. n) /\ Cardinality(1 .. n) = n
  BY FS_Interval
<1> HIDE DEF R
<1>4. Cardinality(R) = n
  BY <1>2, <1>3, FS_Bijection
<1>5. QED BY <1>4 DEF R

----------------------------------------------------------------------------
(* THE POLICY. What firewall.json holds and how the menus change it.       *)

(* What is known of a server: its address is one host of IPv4, its         *)
(* fields are filled in.                                                   *)
LEMMA ServerFacts ==
  ASSUME NEW s \in Servers
  PROVE  /\ s.id \in ServerIds \cup {LegacyId} /\ s.id # Star
         /\ s.label \in Labels /\ s.ip \in Hosts /\ s.ip \notin V6 /\ s.interface \in Interfaces
         /\ s.ip \in Networks /\ First[s.ip] = s.ip /\ Span[s.ip] = {s.ip} /\ Family(s.ip) = 4
         /\ s.ip # Star /\ s.interface # Star
<1>1. PICK i \in ServerIds \cup {LegacyId}, f \in ServerForms :
        s = [id |-> i, label |-> f.label, ip |-> f.ip, interface |-> f.interface]
  BY DEF Servers
<1>2. f.label \in Labels /\ f.ip \in Hosts \ V6 /\ f.interface \in Interfaces
  BY FormsAreFilledIn
<1>3. /\ s.id \in ServerIds \cup {LegacyId} /\ s.label \in Labels
      /\ s.ip \in Hosts /\ s.ip \notin V6 /\ s.interface \in Interfaces
  BY <1>1, <1>2
<1>4. s.ip \in Networks /\ Span[s.ip] = {s.ip} /\ First[s.ip] \in Span[s.ip]
  BY <1>3, NetworksHoldHosts
<1>5. s.id # Star /\ s.ip # Star /\ s.interface # Star
  BY <1>3, <1>4, StarIsNoName
<1>6. First[s.ip] = s.ip
  BY <1>4
<1>7. QED BY <1>3, <1>4, <1>5, <1>6 DEF Family

(* The form of a server makes a server.                                    *)
LEMMA ServerType ==
  ASSUME NEW i \in ServerIds \cup {LegacyId}, NEW form \in ServerForms
  PROVE  Server(i, form) \in Servers
BY DEF Server, Servers

(* The types of the fields of a rule.                                      *)
LEMMA RuleFacts ==
  ASSUME NEW r \in PolicyRules
  PROVE  /\ r.kind \in {"standard", "vpn_ban"} /\ r.enabled \in BOOLEAN
         /\ r.server \in ServerIds \cup {LegacyId, Star} /\ r.until \in Nat
         /\ r.direction \in {"input", "forward", "output"}
         /\ r.action \in {"allow", "deny", "reject"}
         /\ r.source \in Networks \cup {Star} /\ r.destination \in Networks \cup {Star}
         /\ r.invert \in BOOLEAN /\ r.protocol \in {"any", "tcp", "icmp"}
         /\ r.ports \in SUBSET Ports /\ r.interface \in Interfaces \cup {Star}
BY DEF PolicyRules

(* The form of a ban makes a rule.                                         *)
LEMMA BanType ==
  ASSUME NEW source \in Networks \cup {Star}, NEW until \in Nat, NEW enabled \in BOOLEAN,
         NEW server \in ServerIds \cup {LegacyId, Star}
  PROVE  Ban(source, until, enabled, server) \in PolicyRules
BY DEF Ban, PolicyRules

(* A form that makes a rule makes one of any server, enabled or not.       *)
LEMMA StandardType ==
  ASSUME NEW form, Standard(form, TRUE, Star) \in PolicyRules, NEW enabled \in BOOLEAN,
         NEW server \in ServerIds \cup {LegacyId, Star}
  PROVE  Standard(form, enabled, server) \in PolicyRules
BY DEF Standard, PolicyRules

(* The fields of a policy.                                                 *)
LEMMA ConfigFacts ==
  ASSUME NEW servers, NEW rules
  PROVE  /\ Config(servers, rules).version = 2 /\ Config(servers, rules).servers = servers
         /\ Config(servers, rules).rules = rules
BY DEF Config

(* What is known of a policy: its rules are normalized, their links lead   *)
(* to a server, a server is known by its id and by its label.              *)
LEMMA PolicyFacts ==
  ASSUME NEW c, IsPolicy(c)
  PROVE  /\ c.version = 2 /\ c.servers \in Seq(Servers) /\ c.rules \in Seq(PolicyRules)
         /\ ToSet(c.servers) \subseteq Servers /\ ToSet(c.rules) \subseteq PolicyRules
         /\ \A r \in ToSet(c.rules) : NormalRule(r)
         /\ \A r \in ToSet(c.rules) : r.server # Star => \E s \in ToSet(c.servers) : s.id = r.server
         /\ \A s, t \in ToSet(c.servers) : s.id = t.id \/ s.label = t.label => s = t
<1>1. c.version = 2 /\ c.servers \in Seq(Servers) /\ c.rules \in Seq(PolicyRules) /\ Accepted(c)
  BY DEF IsPolicy
<1>2. ToSet(c.servers) \subseteq Servers /\ ToSet(c.rules) \subseteq PolicyRules
  BY <1>1, ElementAt
<1>3. ASSUME NEW r \in ToSet(c.rules)
      PROVE  NormalRule(r) /\ (r.server # Star => \E s \in ToSet(c.servers) : s.id = r.server)
  <2>1. PICK i \in DOMAIN c.rules : r = c.rules[i]
    BY DEF ToSet
  <2>2. QED BY <1>1, <2>1 DEF Accepted
<1>4. ASSUME NEW s \in ToSet(c.servers), NEW t \in ToSet(c.servers), s.id = t.id \/ s.label = t.label
      PROVE  s = t
  <2>1. PICK i \in DOMAIN c.servers : s = c.servers[i]
    BY DEF ToSet
  <2>2. PICK j \in DOMAIN c.servers : t = c.servers[j]
    BY DEF ToSet
  <2>3. i = j
    BY <1>1, <1>4, <2>1, <2>2 DEF Accepted
  <2>4. QED BY <2>1, <2>2, <2>3
<1>5. QED BY <1>1, <1>2, <1>3, <1>4

(* The server a rule is linked to is the one server with its id.           *)
LEMMA ServerOfFacts ==
  ASSUME NEW c, IsPolicy(c), NEW r \in ToSet(c.rules), r.server # Star
  PROVE  /\ ServerOf(c, r) \in ToSet(c.servers) /\ ServerOf(c, r).id = r.server
         /\ \A s \in ToSet(c.servers) : s.id = r.server => s = ServerOf(c, r)
<1>1. \E s \in ToSet(c.servers) : s.id = r.server
  BY PolicyFacts
<1>2. ServerOf(c, r) \in ToSet(c.servers) /\ ServerOf(c, r).id = r.server
  BY <1>1, Zenon DEF ServerOf
<1>3. QED BY <1>2, PolicyFacts

(* The migration of version 1 makes a policy that is accepted: the links   *)
(* it adds lead to the one server it adds (load_config, config.py).        *)
LEMMA MigratedIsPolicy ==
  ASSUME NEW raw, IsVersion1(raw)
  PROVE  IsPolicy(Migrated(raw))
<1> DEFINE server == [id |-> LegacyId, label |-> raw.server.label, ip |-> raw.server.ip,
                      interface |-> raw.server.interface]
           Belongs(r) == r.kind = "vpn_ban" \/ Isolates(r, server)
           servers == IF \E r \in ToSet(raw.rules) : Belongs(r) THEN <<server>> ELSE <<>>
           Moved(r) == IF Belongs(r) THEN [r EXCEPT !.server = LegacyId] ELSE r
           rules == [i \in DOMAIN raw.rules |-> Moved(raw.rules[i])]
<1>1. /\ raw.server \in ServerForms /\ raw.rules \in Seq(PolicyRules)
      /\ \A r \in ToSet(raw.rules) : r.server = Star /\ NormalRule([r EXCEPT !.server = LegacyId])
  BY DEF IsVersion1
<1>2. Migrated(raw) = Config(servers, rules)
  BY DEF Migrated
<1>3. server = Server(LegacyId, raw.server) /\ server.id = LegacyId
  BY DEF Server
<1> HIDE DEF server
<1>4. server \in Servers /\ LegacyId # Star
  BY <1>1, <1>3, ServerType, StarIsNoName
<1>5. servers \in Seq(Servers)
  <2>1. <<server>> \in Seq(Servers) /\ <<>> \in Seq(Servers)
    BY <1>4
  <2>2. QED BY <2>1
<1>6. ASSUME NEW i \in DOMAIN raw.rules
      PROVE  /\ Moved(raw.rules[i]) \in PolicyRules /\ NormalRule(Moved(raw.rules[i]))
             /\ Moved(raw.rules[i]).server # Star =>
                  Belongs(raw.rules[i]) /\ Moved(raw.rules[i]).server = LegacyId
  <2>1. PICK r : r = raw.rules[i]
    OBVIOUS
  <2>2. r \in PolicyRules /\ r.server = Star /\ NormalRule([r EXCEPT !.server = LegacyId])
    <3>1. r \in ToSet(raw.rules)
      BY <2>1 DEF ToSet
    <3>2. r \in PolicyRules
      BY <1>1, <3>1, ElementAt
    <3>3. QED BY <1>1, <3>1, <3>2
  <2> HIDE DEF Belongs
  <2>3. CASE Belongs(r)
    <3>1. Moved(r) = [r EXCEPT !.server = LegacyId]
      BY <2>3
    <3>2. [r EXCEPT !.server = LegacyId] \in PolicyRules
      BY <2>2 DEF PolicyRules
    <3>3. [r EXCEPT !.server = LegacyId].server = LegacyId
      BY <2>2 DEF PolicyRules
    <3>4. QED BY <2>1, <2>2, <2>3, <3>1, <3>2, <3>3
  <2>4. CASE ~Belongs(r)
    <3>1. Moved(r) = r
      BY <2>4
    <3>2. NormalRule(r)
      <4>1. PICK q : q = [r EXCEPT !.server = LegacyId]
        OBVIOUS
      <4>2. /\ q.kind = r.kind /\ q.invert = r.invert /\ q.destination = r.destination
            /\ q.ports = r.ports /\ q.protocol = r.protocol /\ q.source = r.source
        BY <2>2, <4>1 DEF PolicyRules
      <4>3. r.kind # "vpn_ban"
        BY <2>4 DEF Belongs
      <4>4. NormalRule(q)
        BY <2>2, <4>1
      <4>5. QED BY <4>2, <4>3, <4>4 DEF NormalRule
    <3>3. QED BY <2>1, <2>2, <3>1, <3>2
  <2>5. QED BY <2>3, <2>4
<1>7. DOMAIN rules = DOMAIN raw.rules /\ \A i \in DOMAIN rules : rules[i] = Moved(raw.rules[i])
  OBVIOUS
<1> HIDE DEF Moved
<1>8. rules \in Seq(PolicyRules)
  <2>1. Len(raw.rules) \in Nat /\ DOMAIN raw.rules = 1 .. Len(raw.rules)
    BY <1>1
  <2>2. QED BY <1>6, <2>1
<1> HIDE DEF Belongs, rules
<1>9. Accepted(Config(servers, rules))
  <2>1. \A i, j \in DOMAIN servers : i = j
    BY DEF servers
  <2>2. ASSUME NEW i \in DOMAIN rules, rules[i].server # Star
        PROVE  \E s \in ToSet(servers) : s.id = rules[i].server
    <3>1. i \in DOMAIN raw.rules /\ Belongs(raw.rules[i]) /\ rules[i].server = LegacyId
      BY <1>6, <1>7, <2>2
    <3>2. raw.rules[i] \in ToSet(raw.rules)
      BY <3>1 DEF ToSet
    <3>3. servers = <<server>>
      BY <3>1, <3>2 DEF servers
    <3>4. server \in ToSet(servers)
      BY <1>4, <3>3, SingletonFacts
    <3>5. QED BY <1>3, <3>1, <3>4
  <2>3. \A i \in DOMAIN rules : NormalRule(rules[i])
    BY <1>6, <1>7
  <2> HIDE DEF servers
  <2>4. QED BY <2>1, <2>2, <2>3, ConfigFacts DEF Accepted
<1> HIDE DEF servers
<1>10. QED BY <1>2, <1>5, <1>8, <1>9, ConfigFacts DEF IsPolicy

(* Every load gives a policy.                                              *)
LEMMA LoadFacts ==
  ASSUME IsPolicy(stored) \/ IsVersion1(stored)
  PROVE  IsPolicy(Load) /\ (stored.version = 2 => Load = stored)
<1>1. CASE IsPolicy(stored)
  BY <1>1 DEF Load, IsPolicy
<1>2. CASE IsVersion1(stored)
  BY <1>2, MigratedIsPolicy DEF Load, IsVersion1
<1>3. QED BY <1>1, <1>2

(* While there is room for a server there is an id for it                  *)
(* (new_server_id).                                                        *)
LEMMA FreshIdExists ==
  ASSUME IsPolicy(Load), Len(Load.servers) < MaxServers
  PROVE  FreshId \in ServerIds
<1> DEFINE servers == Load.servers
           used == {servers[i].id : i \in 1 .. Len(servers)}
           f == [i \in 1 .. Len(servers) |-> servers[i].id]
<1>1. servers \in Seq(Servers) /\ Len(servers) \in Nat
  BY PolicyFacts
<1>2. f \in Surjection(1 .. Len(servers), used)
  BY DEF Surjection
<1> HIDE DEF f
<1>3. IsFiniteSet(1 .. Len(servers)) /\ Cardinality(1 .. Len(servers)) = Len(servers)
  BY <1>1, FS_Interval
<1> HIDE DEF servers
<1> HIDE DEF used
<1>4. IsFiniteSet(used) /\ Cardinality(used) <= Len(servers)
  BY <1>2, <1>3, FS_Surjection
<1>5. Cardinality(used) \in Nat /\ Cardinality(ServerIds) \in Nat /\ MaxServers \in Nat
  BY <1>4, IdsSuffice, BoundsAreNatural, FS_CardinalityType
<1>6. ~(ServerIds \subseteq used)
  <2>1. SUFFICES ASSUME ServerIds \in SUBSET used PROVE FALSE
    OBVIOUS
  <2>2. Cardinality(ServerIds) <= Cardinality(used)
    BY <1>4, <2>1, FS_Subset
  <2>3. Cardinality(ServerIds) >= MaxServers /\ Len(servers) < MaxServers
    BY IdsSuffice DEF servers
  <2>4. QED BY <1>1, <1>4, <1>5, <2>2, <2>3
<1>7. PICK i \in ServerIds : i \notin used
  BY <1>6
<1>8. \A s \in ToSet(servers) : s.id # i
  BY <1>1, <1>7, ElementAt DEF used
<1>9. QED BY <1>8, Zenon DEF FreshId, servers

(* A rule that followed its server is a rule.                              *)
LEMMA FollowsType ==
  ASSUME NEW r \in PolicyRules, NEW s \in Servers
  PROVE  Follows(r, s) \in PolicyRules
<1>1. [r EXCEPT !.destination = s.ip, !.interface = s.interface] \in PolicyRules
  BY ServerFacts DEF PolicyRules
<1>2. QED BY <1>1 DEF Follows

(* The imported clients are rules.                                         *)
LEMMA ImportedType ==
  ASSUME NEW legacy \in Legacies, NEW id \in ServerIds
  PROVE  Imported(legacy, id) \in Seq(PolicyRules)
<1> DEFINE R == [source : Networks, type : 0 .. 2, until : Nat]
           T == {x \in R : x.type \in {1, 2}}
           Form(x) == [direction |-> "forward", action |-> "deny",
                       source |-> x.source, destination |-> legacy.server.ip,
                       invert |-> TRUE, protocol |-> "any", ports |-> {},
                       interface |-> legacy.server.interface]
           F == [x \in R |-> <<IF x.type = 1 THEN Ban(x.source, x.until, TRUE, id)
                               ELSE Standard(Form(x), TRUE, id)>>]
<1>1. legacy.server \in ServerForms /\ legacy.clients \in Seq(R)
  BY FormsAreFilledIn
<1>2. legacy.server.ip \in Networks /\ legacy.server.interface \in Interfaces
  BY <1>1, FormsAreFilledIn, NetworksHoldHosts
<1>3. ASSUME NEW x \in R PROVE F[x] \in Seq(PolicyRules)
  <2>1. x.source \in Networks /\ x.until \in Nat
    OBVIOUS
  <2>2. Ban(x.source, x.until, TRUE, id) \in PolicyRules
    BY <2>1, BanType
  <2>3. Standard(Form(x), TRUE, id) \in PolicyRules
    BY <1>2, <2>1 DEF Standard, PolicyRules, Permanent
  <2>4. PICK y \in PolicyRules : y = IF x.type = 1 THEN Ban(x.source, x.until, TRUE, id)
                                    ELSE Standard(Form(x), TRUE, id)
    BY <2>2, <2>3
  <2>5. F[x] = <<y>>
    BY <2>4
  <2>6. <<y>> \in Seq(PolicyRules)
    BY <2>4, SingletonFacts
  <2>7. QED BY <2>5, <2>6
<1>4. F \in [R -> Seq(PolicyRules)]
  BY <1>3
<1>5. ASSUME NEW s \in Seq(R) PROVE Select(s, LAMBDA x : x.type \in {1, 2}) = Kept(s, T)
  <2>1. \A i \in DOMAIN s : s[i] \in T <=> s[i].type \in {1, 2}
    <3>1. \A i \in DOMAIN s : s[i] \in R
      <4> HIDE DEF R
      <4>1. QED BY ElementAt
    <3> HIDE DEF R
    <3>2. QED BY <3>1
  <2> HIDE DEF T
  <2>2. QED BY <2>1 DEF Select, Concat, Kept, Parts
<1>6. ASSUME NEW s \in Seq(R)
      PROVE  Concat(s, LAMBDA x : <<IF x.type = 1 THEN Ban(x.source, x.until, TRUE, id)
                                    ELSE Standard(Form(x), TRUE, id)>>) = Mapped(s, F)
  <2> HIDE DEF R
  <2>1. \A i \in DOMAIN s : s[i] \in R
    BY ElementAt
  <2>2. QED BY <2>1 DEF Concat, Mapped
<1>7. Kept(legacy.clients, T) \in Seq(R)
  BY <1>1, KeptType
<1>8. Imported(legacy, id) = Mapped(Kept(legacy.clients, T), F)
  <2>1. PICK k : k = Kept(legacy.clients, T)
    OBVIOUS
  <2>2. k = Select(legacy.clients, LAMBDA x : x.type \in {1, 2}) /\ k \in Seq(R)
    BY <1>1, <1>5, <1>7, <2>1
  <2>3. Concat(k, LAMBDA x : <<IF x.type = 1 THEN Ban(x.source, x.until, TRUE, id)
                               ELSE Standard(Form(x), TRUE, id)>>) = Mapped(k, F)
    BY <1>6, <2>2
  <2> HIDE DEF F
  <2>4. QED BY <2>1, <2>2, <2>3 DEF Imported
<1> HIDE DEF R, T, F
<1>9. QED BY <1>4, <1>7, <1>8, MappedType

(* The actions of the blocks of a file.                                    *)
LEMMA ActionsType ==
  ASSUME NEW text \in Seq(Items), NEW T
  PROVE  Concat(Kept(text, T), LAMBDA x : x.actions) \in Seq(CompiledActions)
<1> DEFINE F == [x \in Items |-> x.actions]
<1>1. F \in [Items -> Seq(CompiledActions)]
  BY DEF Items
<1>2. PICK k : k = Kept(text, T)
  OBVIOUS
<1>3. k \in Seq(Items)
  BY <1>2, KeptType
<1>4. \A i \in DOMAIN k : k[i] \in Items
  BY <1>3
<1>5. Concat(k, LAMBDA x : x.actions) = Mapped(k, F)
  BY <1>4 DEF Concat, Mapped
<1> HIDE DEF F
<1>6. Mapped(k, F) \in Seq(CompiledActions)
  BY <1>1, <1>3, MappedType
<1>7. QED BY <1>2, <1>5, <1>6

(* The adopted trusted sources are rules.                                  *)
LEMMA AdoptedType ==
  ASSUME NEW text \in Seq(Items)
  PROVE  Adopted(text) \in Seq(PolicyRules)
<1> DEFINE H == {x \in Items : x.kind = "hard_sources"}
           T == {a \in CompiledActions : a = Trust(a.source)}
           Form(a) == [direction |-> "input", action |-> "allow",
                       source |-> a.source, destination |-> Star,
                       invert |-> FALSE, protocol |-> "any", ports |-> {},
                       interface |-> Star]
           F == [a \in CompiledActions |-> <<Standard(Form(a), TRUE, Star)>>]
           old == Concat(Select(text, LAMBDA x : x.kind = "hard_sources"), LAMBDA x : x.actions)
<1>1. Select(text, LAMBDA x : x.kind = "hard_sources") = Kept(text, H)
  <2>1. \A i \in DOMAIN text : text[i] \in H <=> text[i].kind = "hard_sources"
    OBVIOUS
  <2> HIDE DEF H
  <2>2. QED BY <2>1 DEF Select, Concat, Kept, Parts
<1>2. old \in Seq(CompiledActions)
  <2> HIDE DEF H
  <2>1. PICK k : k = Kept(text, H)
    OBVIOUS
  <2>2. Concat(k, LAMBDA x : x.actions) \in Seq(CompiledActions)
    BY <2>1, ActionsType
  <2>3. QED BY <1>1, <2>1, <2>2
<1> HIDE DEF old
<1>3. Select(old, LAMBDA a : a = Trust(a.source)) = Kept(old, T)
  <2>1. \A i \in DOMAIN old : old[i] \in T <=> old[i] = Trust(old[i].source)
    BY <1>2
  <2> HIDE DEF T
  <2>2. QED BY <2>1 DEF Select, Concat, Kept, Parts
<1>4. F \in [CompiledActions -> Seq(PolicyRules)]
  <2>1. ASSUME NEW a \in CompiledActions PROVE Standard(Form(a), TRUE, Star) \in PolicyRules
    <3>1. a.source \in Networks \cup {Star}
      BY DEF CompiledActions
    <3>2. QED BY <3>1 DEF Standard, PolicyRules, Permanent
  <2>2. ASSUME NEW a \in CompiledActions
        PROVE  <<Standard(Form(a), TRUE, Star)>> \in Seq(PolicyRules)
    <3>1. PICK y \in PolicyRules : y = Standard(Form(a), TRUE, Star)
      BY <2>1
    <3>2. <<y>> \in Seq(PolicyRules)
      BY <3>1, SingletonFacts
    <3>3. QED BY <3>1, <3>2
  <2> HIDE DEF Form
  <2>3. QED BY <2>2
<1> HIDE DEF T
<1>5. PICK k : k = Kept(old, T)
  OBVIOUS
<1>6. k \in Seq(CompiledActions)
  BY <1>2, <1>5, KeptType
<1>7. Concat(k, LAMBDA a : <<Standard(Form(a), TRUE, Star)>>) = Mapped(k, F)
  <2>1. \A i \in DOMAIN k : k[i] \in CompiledActions
    BY <1>6
  <2>2. QED BY <2>1 DEF Concat, Mapped
<1>8. Adopted(text) = Mapped(k, F)
  <2> HIDE DEF F
  <2>1. QED BY <1>3, <1>5, <1>7 DEF Adopted, old
<1> HIDE DEF F
<1>9. QED BY <1>4, <1>6, <1>8, MappedType

----------------------------------------------------------------------------
(* THE COMPILER. The actions of the three kinds of blocks, as sets and     *)
(* by their first hit.                                                     *)

(* A sequence is one over its own elements.                                *)
LEMMA OwnElements ==
  ASSUME NEW S, NEW s \in Seq(S)
  PROVE  s \in Seq(ToSet(s))
<1>1. s \in [1 .. Len(s) -> S] /\ Len(s) \in Nat
  OBVIOUS
<1>2. \A i \in 1 .. Len(s) : s[i] \in ToSet(s)
  BY ElementAt
<1>3. QED BY <1>1, <1>2

(* The actions ClientActions makes.                                        *)
ActionFor(chain, r, s, destination) ==
  Action(chain, s.interface, First[r.source], destination, destination # Star, "any", Star, "deny")

(* Those are actions, one of which drops all and one all but the server.   *)
LEMMA ActionForType ==
  ASSUME NEW chain \in {"input", "forward"}, NEW r \in PolicyRules, r.source # Star,
         NEW s \in Servers, NEW destination \in {Star, s.ip}
  PROVE  ActionFor(chain, r, s, destination) \in CompiledActions
<1>1. s.interface \in Interfaces /\ s.ip \in Networks
  BY ServerFacts
<1>2. r.source \in Networks
  BY RuleFacts
<1>3. First[r.source] \in Networks
  BY <1>2, NetworksHoldHosts
<1>4. (destination # Star) \in BOOLEAN /\ destination \in Networks \cup {Star}
  BY <1>1
<1>5. QED BY <1>1, <1>3, <1>4 DEF ActionFor, Action, CompiledActions

(* What a client of a server is compiled to: an isolation, an active       *)
(* ban, a ban that ended.                                                  *)
LEMMA ClientActionsFacts ==
  ASSUME NEW r \in PolicyRules, r.source # Star, NEW s \in Servers, NEW day
  PROVE  /\ ClientActions(r, s, day) \in Seq(CompiledActions)
         /\ r.kind = "standard" =>
              ToSet(ClientActions(r, s, day)) = {ActionFor("forward", r, s, s.ip)}
         /\ r.kind = "vpn_ban" /\ Active(r, day) =>
              ToSet(ClientActions(r, s, day)) =
                {ActionFor("forward", r, s, Star), ActionFor("input", r, s, Star)}
         /\ r.kind = "vpn_ban" /\ ~Active(r, day) => ToSet(ClientActions(r, s, day)) = {}
<1>1. PICK x \in CompiledActions : x = ActionFor("forward", r, s, s.ip)
  BY ActionForType
<1>2. PICK y \in CompiledActions : y = ActionFor("forward", r, s, Star)
  BY ActionForType
<1>3. PICK z \in CompiledActions : z = ActionFor("input", r, s, Star)
  BY ActionForType
<1>4. CASE r.kind = "standard"
  <2>1. ClientActions(r, s, day) = <<x>>
    BY <1>1, <1>4 DEF ClientActions, ActionFor
  <2>2. <<x>> \in Seq(CompiledActions) /\ ToSet(<<x>>) = {x}
    BY <1>1, SingletonFacts
  <2>3. QED BY <1>1, <1>4, <2>1, <2>2
<1>5. CASE r.kind = "vpn_ban" /\ Active(r, day)
  <2>1. ClientActions(r, s, day) = <<y, z>>
    BY <1>2, <1>3, <1>5 DEF ClientActions, ActionFor
  <2>2. <<y, z>> \in Seq(CompiledActions)
    BY <1>2, <1>3
  <2>3. ToSet(<<y, z>>) = {y, z}
    BY DEF ToSet
  <2>4. QED BY <1>2, <1>3, <1>5, <2>1, <2>2, <2>3
<1>6. CASE r.kind = "vpn_ban" /\ ~Active(r, day)
  <2>1. ClientActions(r, s, day) = <<>>
    BY <1>6 DEF ClientActions
  <2>2. <<>> \in Seq(CompiledActions) /\ ToSet(<<>>) = {}
    BY DEF ToSet
  <2>3. QED BY <1>6, <2>1, <2>2
<1>7. QED BY <1>4, <1>5, <1>6, RuleFacts

(* r is a client of server s, as ClientRules selects them.                 *)
IsClient(r, s) == r.enabled /\ r.server = s.id /\ (r.kind = "vpn_ban" \/ Isolates(r, s))

(* ClientRules selects the clients of a server.                            *)
LEMMA ClientRulesFacts ==
  ASSUME NEW c, IsPolicy(c), NEW s
  PROVE  /\ ClientRules(c, s) \in Seq(PolicyRules)
         /\ \A r : r \in ToSet(ClientRules(c, s)) <=> r \in ToSet(c.rules) /\ IsClient(r, s)
<1> DEFINE T == {r \in PolicyRules : IsClient(r, s)}
           rules == c.rules
<1>1. rules \in Seq(PolicyRules) /\ ToSet(rules) \subseteq PolicyRules
  BY PolicyFacts
<1> HIDE DEF rules
<1>2. ClientRules(c, s) = Kept(rules, T)
  <2>1. \A i \in DOMAIN rules : rules[i] \in PolicyRules
    BY <1>1, ElementAt
  <2>2. \A i \in DOMAIN rules : rules[i] \in T <=>
          /\ rules[i].enabled /\ rules[i].server = s.id
          /\ rules[i].kind = "vpn_ban" \/ Isolates(rules[i], s)
    BY <2>1 DEF IsClient
  <2> HIDE DEF T
  <2>3. QED BY <2>2 DEF ClientRules, Select, Concat, Kept, Parts, rules
<1>3. Kept(rules, T) \in Seq(PolicyRules) /\ ToSet(Kept(rules, T)) = ToSet(rules) \cap T
  BY <1>1, KeptType, KeptElements
<1>4. QED BY <1>1, <1>2, <1>3 DEF rules

(* The actions of a server's block are those of its clients; each client   *)
(* that compiles is an address of IPv4.                                    *)
LEMMA ServerActionsFacts ==
  ASSUME NEW c, IsPolicy(c), Compiles(c), NEW s \in ToSet(c.servers), NEW day
  PROVE  /\ ServerActions(c, s, day) \in Seq(CompiledActions)
         /\ \A x : x \in ToSet(ServerActions(c, s, day)) <=>
              \E r \in ToSet(c.rules) : IsClient(r, s) /\ x \in ToSet(ClientActions(r, s, day))
         /\ \A r \in ToSet(c.rules) :
              IsClient(r, s) => r \in PolicyRules /\ r.source # Star /\ Family(r.source) = 4
<1> DEFINE rules == ClientRules(c, s)
           S == ToSet(rules)
           F == [r \in S |-> ClientActions(r, s, day)]
<1>1. rules \in Seq(PolicyRules) /\ rules \in Seq(S) /\ s \in Servers
  BY ClientRulesFacts, OwnElements, PolicyFacts
<1>2. \A r : r \in S <=> r \in ToSet(c.rules) /\ IsClient(r, s)
  BY ClientRulesFacts
<1>3. \A r \in S : r.source # Star /\ Family(r.source) = 4
  BY DEF Compiles, ClientsCompile
<1>4. S \subseteq PolicyRules
  BY <1>1, ElementAt
<1>5. ServerActions(c, s, day) = Mapped(rules, F)
  <2>1. \A i \in DOMAIN rules : rules[i] \in S
    BY DEF ToSet
  <2> HIDE DEF S
  <2>2. \A i \in DOMAIN rules : F[rules[i]] = ClientActions(rules[i], s, day)
    BY <2>1
  <2> HIDE DEF F
  <2>3. QED BY <2>2 DEF ServerActions, Concat, Mapped
<1> HIDE DEF S, rules
<1>6. ASSUME NEW r \in S PROVE ClientActions(r, s, day) \in Seq(CompiledActions)
  BY <1>1, <1>3, <1>4, ClientActionsFacts
<1>7. F \in [S -> Seq(CompiledActions)]
  BY <1>6
<1>8. \A r \in S : F[r] = ClientActions(r, s, day)
  OBVIOUS
<1> HIDE DEF F
<1>9. Mapped(rules, F) \in Seq(CompiledActions)
  BY <1>1, <1>7, MappedType
<1>10. ASSUME NEW x
       PROVE  x \in ToSet(Mapped(rules, F)) <=> \E r \in ToSet(rules) : x \in ToSet(F[r])
  BY <1>1, <1>7, MappedElements
<1>11. ASSUME NEW x
       PROVE  x \in ToSet(ServerActions(c, s, day)) <=>
                \E r \in ToSet(c.rules) : IsClient(r, s) /\ x \in ToSet(ClientActions(r, s, day))
  <2>1. (\E r \in ToSet(rules) : x \in ToSet(F[r])) <=> \E r \in S : x \in ToSet(ClientActions(r, s, day))
    BY <1>8 DEF S
  <2>2. QED BY <1>2, <1>5, <1>10, <2>1
<1>12. QED BY <1>2, <1>3, <1>4, <1>5, <1>9, <1>11

(* The actions of the Hard Source block are those of the trusted rules     *)
(* of its family.                                                          *)
LEMMA TrustedActionsFacts ==
  ASSUME NEW c, IsPolicy(c), NEW f
  PROVE  /\ TrustedActions(c, f) \in Seq(CompiledActions)
         /\ \A x : x \in ToSet(TrustedActions(c, f)) <=>
              \E r \in ToSet(c.rules) :
                Trusted(r) /\ Family(r.source) = f /\ x = Trust(r.source)
<1> DEFINE rules == c.rules
           T == {r \in PolicyRules : Trusted(r) /\ Family(r.source) = f}
           F == [r \in PolicyRules |-> <<Trust(r.source)>>]
<1>1. rules \in Seq(PolicyRules) /\ ToSet(rules) \subseteq PolicyRules
  BY PolicyFacts
<1>2. \A i \in DOMAIN rules : rules[i] \in PolicyRules
  BY <1>1, ElementAt
<1> HIDE DEF rules
<1>3. Select(rules, LAMBDA r : Trusted(r) /\ Family(r.source) = f) = Kept(rules, T)
  <2>1. \A i \in DOMAIN rules : rules[i] \in T <=> Trusted(rules[i]) /\ Family(rules[i].source) = f
    BY <1>2
  <2> HIDE DEF T
  <2>2. QED BY <2>1 DEF Select, Concat, Kept, Parts
<1>4. ASSUME NEW r \in PolicyRules
      PROVE  <<Trust(r.source)>> \in Seq(CompiledActions) /\ ToSet(<<Trust(r.source)>>) = {Trust(r.source)}
  <2>1. Trust(r.source) \in CompiledActions
    BY RuleFacts DEF Trust, Action, CompiledActions
  <2>2. QED BY <2>1, SingletonFacts
<1>5. F \in [PolicyRules -> Seq(CompiledActions)] /\ \A r \in PolicyRules : F[r] = <<Trust(r.source)>>
  BY <1>4
<1> HIDE DEF F
<1>6. PICK k : k = Kept(rules, T)
  OBVIOUS
<1>7. k \in Seq(PolicyRules) /\ ToSet(k) = ToSet(rules) \cap T
  BY <1>1, <1>6, KeptType, KeptElements
<1>8. Concat(k, LAMBDA r : <<Trust(r.source)>>) = Mapped(k, F)
  <2>1. \A i \in DOMAIN k : k[i] \in PolicyRules
    BY <1>7, ElementAt
  <2>2. QED BY <1>5, <2>1 DEF Concat, Mapped
<1>9. TrustedActions(c, f) = Mapped(k, F)
  BY <1>3, <1>6, <1>8 DEF TrustedActions, rules
<1>10. Mapped(k, F) \in Seq(CompiledActions)
  BY <1>5, <1>7, MappedType
<1>11. ASSUME NEW x
       PROVE  x \in ToSet(Mapped(k, F)) <=>
                \E r \in ToSet(rules) : Trusted(r) /\ Family(r.source) = f /\ x = Trust(r.source)
  <2>1. x \in ToSet(Mapped(k, F)) <=> \E r \in ToSet(k) : x \in ToSet(F[r])
    BY <1>5, <1>7, MappedElements
  <2>2. \A r \in ToSet(k) : x \in ToSet(F[r]) <=> x = Trust(r.source)
    BY <1>1, <1>4, <1>5, <1>7
  <2>3. \A r : r \in ToSet(k) <=> r \in ToSet(rules) /\ Trusted(r) /\ Family(r.source) = f
    BY <1>1, <1>7
  <2>4. QED BY <2>1, <2>2, <2>3
<1>12. QED BY <1>9, <1>10, <1>11 DEF rules

(* The rules of the Standard block of family f.                            *)
IsStandard(c, f, r) ==
  r.enabled /\ r.kind = "standard" /\ ~Managed(c, r) /\ f \in RuleFamilies(r)

(* The action of a rule for one port.                                      *)
ActionOf(r, port) ==
  Action(r.direction, r.interface, r.source, r.destination, r.invert, r.protocol, port, r.action)

(* The ports a rule is compiled for, Star for a rule without ports.        *)
Terms(r) == IF r.ports = {} THEN <<Star>> ELSE SetToSeq(r.ports)

(* The actions of a rule.                                                  *)
RuleActions(r) == [i \in DOMAIN Terms(r) |-> ActionOf(r, Terms(r)[i])]

(* A rule is compiled for each of its ports.                               *)
LEMMA TermsFacts ==
  ASSUME NEW r \in PolicyRules
  PROVE  /\ Terms(r) \in Seq(Ports \cup {Star})
         /\ ToSet(Terms(r)) = IF r.ports = {} THEN {Star} ELSE r.ports
<1>1. r.ports \in SUBSET Ports
  BY RuleFacts
<1>2. CASE r.ports = {}
  <2>1. Terms(r) = <<Star>>
    BY <1>2 DEF Terms
  <2>2. PICK S : S = Ports \cup {Star}
    OBVIOUS
  <2>3. Star \in S
    BY <2>2
  <2>4. <<Star>> \in Seq(S) /\ ToSet(<<Star>>) = {Star}
    BY <2>3, SingletonFacts
  <2>5. QED BY <1>2, <2>1, <2>2, <2>4
<1>3. CASE r.ports # {}
  <2>1. IsFiniteSet(Ports)
    <3>1. PICK n \in Nat : n = 65535
      OBVIOUS
    <3>2. Ports = 1 .. n
      BY <3>1 DEF Ports
    <3>3. IsFiniteSet(1 .. n)
      BY FS_Interval
    <3>4. QED BY <3>2, <3>3
  <2>2. IsFiniteSet(r.ports)
    BY <1>1, <2>1, FS_Subset
  <2>3. Terms(r) = SetToSeq(r.ports)
    BY <1>3 DEF Terms
  <2>4. Terms(r) \in Seq(r.ports) /\ ToSet(Terms(r)) = r.ports
    BY <2>2, <2>3, SetToSeqElements
  <2>5. Terms(r) \in Seq(Ports \cup {Star})
    BY <1>1, <2>4
  <2>6. QED BY <1>3, <2>4, <2>5
<1>4. QED BY <1>2, <1>3

(* The actions of a rule: at least one, one per port.                      *)
LEMMA RuleActionsFacts ==
  ASSUME NEW r \in PolicyRules
  PROVE  /\ RuleActions(r) \in Seq(CompiledActions) /\ Len(RuleActions(r)) \in Nat \ {0}
         /\ \A x : x \in ToSet(RuleActions(r)) <=> \E t \in ToSet(Terms(r)) : x = ActionOf(r, t)
<1> DEFINE terms == Terms(r)
<1>1. terms \in Seq(Ports \cup {Star}) /\ ToSet(terms) # {}
  BY TermsFacts
<1> HIDE DEF terms
<1>2. Len(terms) \in Nat /\ DOMAIN terms = 1 .. Len(terms)
      /\ \A i \in DOMAIN terms : terms[i] \in Ports \cup {Star}
  BY <1>1, ElementAt
<1>3. ASSUME NEW t \in Ports \cup {Star} PROVE ActionOf(r, t) \in CompiledActions
  BY RuleFacts DEF ActionOf, Action, CompiledActions
<1>4. RuleActions(r) = [i \in 1 .. Len(terms) |-> ActionOf(r, terms[i])]
  BY <1>2 DEF RuleActions, terms
<1>5. RuleActions(r) \in Seq(CompiledActions) /\ Len(RuleActions(r)) = Len(terms)
  <2>1. \A i \in 1 .. Len(terms) : ActionOf(r, terms[i]) \in CompiledActions
    BY <1>2, <1>3
  <2>2. QED BY <1>2, <1>4, <2>1
<1>6. Len(terms) # 0
  BY <1>1, <1>2 DEF ToSet
<1>7. ASSUME NEW x
      PROVE  x \in ToSet(RuleActions(r)) <=> \E t \in ToSet(terms) : x = ActionOf(r, t)
  BY <1>2, <1>4 DEF ToSet
<1>8. QED BY <1>2, <1>5, <1>6, <1>7 DEF terms

(* The first rule of a policy in G whose action is in H.                    *)
LEMMA StandardActionsFacts ==
  ASSUME NEW c, IsPolicy(c), NEW f
  PROVE  /\ StandardActions(c, f) \in Seq(CompiledActions)
         /\ \A x : x \in ToSet(StandardActions(c, f)) <=>
              \E r \in ToSet(c.rules) : IsStandard(c, f, r) /\ x \in ToSet(RuleActions(r))
         /\ \A G, r, H, x :
              /\ IsFirst(c.rules, {q \in PolicyRules : IsStandard(c, f, q)} \cap G, r)
              /\ IsFirst(RuleActions(r), H, x)
              /\ \A q \in ToSet(c.rules) :
                   IsStandard(c, f, q) /\ q \notin G => ToSet(RuleActions(q)) \cap H = {}
              => IsFirst(StandardActions(c, f), H, x)
<1> DEFINE rules == c.rules
           T == {r \in PolicyRules : r.enabled /\ r.kind = "standard" /\ ~Managed(c, r)}
           U == {r \in PolicyRules : f \in RuleFamilies(r)}
           F == [r \in PolicyRules |-> RuleActions(r)]
<1>1. rules \in Seq(PolicyRules) /\ ToSet(rules) \subseteq PolicyRules
  BY PolicyFacts
<1>2. \A i \in DOMAIN rules : rules[i] \in PolicyRules
  BY <1>1, ElementAt
<1> HIDE DEF rules
<1>3. StandardRules(c) = Kept(rules, T)
  <2>1. \A i \in DOMAIN rules : rules[i] \in T <=>
          rules[i].enabled /\ rules[i].kind = "standard" /\ ~Managed(c, rules[i])
    BY <1>2
  <2> HIDE DEF T
  <2>2. QED BY <2>1 DEF StandardRules, Select, Concat, Kept, Parts, rules
<1>4. PICK k : k = Kept(rules, T)
  OBVIOUS
<1>5. k \in Seq(PolicyRules) /\ ToSet(k) = ToSet(rules) \cap T
  BY <1>1, <1>4, KeptType, KeptElements
<1>6. Select(k, LAMBDA r : f \in RuleFamilies(r)) = Kept(k, U)
  <2>1. \A i \in DOMAIN k : k[i] \in U <=> f \in RuleFamilies(k[i])
    <3>1. \A i \in DOMAIN k : k[i] \in PolicyRules
      BY <1>5, ElementAt
    <3>2. QED BY <3>1
  <2> HIDE DEF U
  <2>2. QED BY <2>1 DEF Select, Concat, Kept, Parts
<1>7. PICK l : l = Kept(k, U)
  OBVIOUS
<1>8. l \in Seq(PolicyRules) /\ ToSet(l) = (ToSet(rules) \cap T) \cap U
  BY <1>5, <1>7, KeptType, KeptElements
<1>9. F \in [PolicyRules -> Seq(CompiledActions)] /\ \A r \in PolicyRules : F[r] = RuleActions(r)
  BY RuleActionsFacts
<1> HIDE DEF F
<1>10. StandardActions(c, f) = Mapped(l, F)
  <2>1. \A i \in DOMAIN l : l[i] \in PolicyRules
    BY <1>8, ElementAt
  <2>2. Concat(l, LAMBDA r : LET terms == IF r.ports = {} THEN <<Star>> ELSE SetToSeq(r.ports)
                             IN [i \in DOMAIN terms |->
                                   Action(r.direction, r.interface, r.source, r.destination,
                                          r.invert, r.protocol, terms[i], r.action)])
          = Mapped(l, F)
    BY <1>9, <2>1 DEF Concat, Mapped, RuleActions, Terms, ActionOf
  <2>3. QED BY <1>3, <1>4, <1>6, <1>7, <2>2 DEF StandardActions
<1>11. Mapped(l, F) \in Seq(CompiledActions)
  BY <1>8, <1>9, MappedType
<1>12. \A r : r \in ToSet(l) <=> r \in ToSet(rules) /\ IsStandard(c, f, r)
  BY <1>1, <1>8 DEF IsStandard
<1>13. ASSUME NEW x
       PROVE  x \in ToSet(Mapped(l, F)) <=>
                \E r \in ToSet(rules) : IsStandard(c, f, r) /\ x \in ToSet(RuleActions(r))
  <2>1. x \in ToSet(Mapped(l, F)) <=> \E r \in ToSet(l) : x \in ToSet(F[r])
    BY <1>8, <1>9, MappedElements
  <2>2. \A r \in ToSet(l) : F[r] = RuleActions(r)
    BY <1>1, <1>8, <1>9
  <2>3. QED BY <1>12, <2>1, <2>2
<1>14. ASSUME NEW G, NEW r, NEW H, NEW x,
              IsFirst(rules, {q \in PolicyRules : IsStandard(c, f, q)} \cap G, r),
              IsFirst(RuleActions(r), H, x),
              \A q \in ToSet(rules) :
                IsStandard(c, f, q) /\ q \notin G => ToSet(RuleActions(q)) \cap H = {}
       PROVE  IsFirst(Mapped(l, F), H, x)
  <2>1. {q \in PolicyRules : IsStandard(c, f, q)} \cap G = T \cap (U \cap G)
    BY DEF IsStandard
  <2>2. IsFirst(rules, T \cap (U \cap G), r)
    BY <1>14, <2>1
  <2> HIDE DEF T, U
  <2>3. IsFirst(k, U \cap G, r)
    BY <1>1, <1>4, <2>2, KeptFirst
  <2>4. IsFirst(l, G, r)
    BY <1>5, <1>7, <2>3, KeptFirst
  <2>5. r \in PolicyRules
    <3>1. r \in ToSet(l)
      BY <1>8, <2>4, ElementAt DEF IsFirst
    <3>2. QED BY <1>8, <3>1, ElementAt
  <2>6. IsFirst(F[r], H, x)
    BY <1>9, <1>14, <2>5
  <2>7. \A z \in ToSet(l) : z \notin G => ToSet(F[z]) \cap H = {}
    <3>1. \A z \in ToSet(l) : z \in PolicyRules
      BY <1>8, ElementAt
    <3>2. QED BY <1>9, <1>12, <1>14, <3>1
  <2>8. QED BY <1>8, <1>9, <2>4, <2>6, <2>7, MappedFirst
<1>15. QED BY <1>10, <1>11, <1>13, <1>14 DEF rules

----------------------------------------------------------------------------
(* THE RULES FILES. Blocks and lines, and the candidate that replaces      *)
(* the blocks.                                                             *)

(* FlattenSeq of two sequences.                                            *)
LEMMA FlattenPair ==
  ASSUME NEW s, NEW t
  PROVE  FlattenSeq(<<s, t>>) = s \o t
<1>1. PICK ss : ss = <<s, t>>
  OBVIOUS
<1>2. Len(ss) = 2 /\ ss[1] = s /\ ss[2] = t
  BY <1>1
<1>3. /\ Len(ss) \in Nat /\ Len(ss) # 0 /\ 1 \in 1 .. Len(ss) /\ 2 \in 1 .. Len(ss)
      /\ 2 # 1 /\ 2 - 1 = 1
  BY <1>2
<1>4. Flattened(ss)[1] = s
  BY <1>2, <1>3, FlattenedStep
<1>5. Flattened(ss)[2] = Flattened(ss)[2 - 1] \o ss[2]
  BY <1>3, FlattenedStep
<1>6. FlattenSeq(ss) = Flattened(ss)[2]
  BY <1>2, <1>3, FlattenIsPrefix
<1>7. QED BY <1>1, <1>2, <1>3, <1>4, <1>5, <1>6

(* The items of a file that are managed blocks,                            *)
BlockItems == {x \in Items : IsBlock(x)}

(* and those that are lines of other people.                               *)
LineItems == {x \in Items : ~IsBlock(x)}

(* Blocks and Lines select those.                                          *)
LEMMA FileParts ==
  ASSUME NEW text \in Seq(Items)
  PROVE  Blocks(text) = Kept(text, BlockItems) /\ Lines(text) = Kept(text, LineItems)
<1>1. \A i \in DOMAIN text : text[i] \in Items
  BY ElementAt
<1>2. \A i \in DOMAIN text : /\ text[i] \in BlockItems <=> IsBlock(text[i])
                             /\ text[i] \in LineItems <=> ~IsBlock(text[i])
  BY <1>1 DEF BlockItems, LineItems
<1>3. Blocks(text) = Kept(text, BlockItems)
  BY <1>2 DEF Blocks, Select, Concat, Kept, Parts
<1>4. Lines(text) = Kept(text, LineItems)
  BY <1>2 DEF Lines, Select, Concat, Kept, Parts
<1>5. QED BY <1>3, <1>4

(* The actions of an item, as a function.                                  *)
BlockActions == [b \in Items |-> b.actions]

(* The type of that function.                                              *)
LEMMA BlockActionsType ==
  /\ BlockActions \in [Items -> Seq(CompiledActions)]
  /\ \A b \in Items : BlockActions[b] = b.actions
BY DEF BlockActions, Items

(* The actions of a file are those of its blocks.                          *)
LEMMA ActionsOfFile ==
  ASSUME NEW text \in Seq(Items)
  PROVE  Actions(text) = Mapped(Blocks(text), BlockActions)
<1>1. PICK k : k = Blocks(text)
  OBVIOUS
<1>2. k \in Seq(Items)
  BY <1>1, FileParts, KeptType
<1>3. \A i \in DOMAIN k : k[i] \in Items
  BY <1>2, ElementAt
<1>4. Concat(k, LAMBDA b : b.actions) = Mapped(k, BlockActions)
  BY <1>3, BlockActionsType DEF Concat, Mapped
<1>5. QED BY <1>1, <1>4 DEF Actions

(* The parts of a compiled policy: the servers that have a block,          *)
Used(c) == Select(c.servers, LAMBDA s : \E r \in ToSet(c.rules) : r.server = s.id)

(* their blocks,                                                           *)
OpenvpnBlocks(c, day) ==
  [i \in DOMAIN Used(c) |-> Block("openvpn", Used(c)[i].label, ServerActions(c, Used(c)[i], day))]

(* and the two blocks of both families.                                    *)
CommonBlocks(c, f) ==
  <<Block("hard_sources", Star, TrustedActions(c, f)),
    Block("standard", Star, StandardActions(c, f))>>

(* A compiled policy consists of those.                                    *)
LEMMA CompiledParts ==
  ASSUME NEW c, NEW f, NEW day
  PROVE  Compiled(c, f, day) = IF f = 4 THEN OpenvpnBlocks(c, day) \o CommonBlocks(c, f)
                                        ELSE CommonBlocks(c, f)
BY DEF Compiled, OpenvpnBlocks, CommonBlocks, Used

(* The servers that have a block are those a rule refers to.               *)
LEMMA UsedFacts ==
  ASSUME NEW c, IsPolicy(c)
  PROVE  /\ Used(c) \in Seq(Servers)
         /\ \A s : s \in ToSet(Used(c)) <=>
              s \in ToSet(c.servers) /\ \E r \in ToSet(c.rules) : r.server = s.id
<1> DEFINE T == {s \in Servers : \E r \in ToSet(c.rules) : r.server = s.id}
           servers == c.servers
<1>1. servers \in Seq(Servers) /\ ToSet(servers) \subseteq Servers
  BY PolicyFacts
<1>2. \A i \in DOMAIN servers : servers[i] \in Servers
  BY <1>1, ElementAt
<1> HIDE DEF servers
<1>3. Used(c) = Kept(servers, T)
  <2>1. \A i \in DOMAIN servers :
          servers[i] \in T <=> \E r \in ToSet(c.rules) : r.server = servers[i].id
    BY <1>2
  <2> HIDE DEF T
  <2>2. QED BY <2>1 DEF Used, Select, Concat, Kept, Parts, servers
<1>4. Kept(servers, T) \in Seq(Servers) /\ ToSet(Kept(servers, T)) = ToSet(servers) \cap T
  BY <1>1, KeptType, KeptElements
<1>5. QED BY <1>1, <1>3, <1>4 DEF servers

(* Block makes a managed block.                                            *)
LEMMA BlockType ==
  ASSUME NEW kind \in {"openvpn", "hard_sources", "standard"}, NEW label \in Labels \cup {Star},
         NEW actions \in Seq(CompiledActions)
  PROVE  /\ Block(kind, label, actions) \in BlockItems
         /\ Block(kind, label, actions) \in Items
         /\ Block(kind, label, actions).kind = kind
         /\ Block(kind, label, actions).actions = actions
BY DEF Block, BlockItems, Items, IsBlock

(* The blocks of the servers hold the actions of all clients of all        *)
(* servers.                                                                *)
LEMMA OpenvpnFacts ==
  ASSUME NEW c, IsPolicy(c), Compiles(c), NEW day
  PROVE  /\ OpenvpnBlocks(c, day) \in Seq(Items)
         /\ ToSet(OpenvpnBlocks(c, day)) \subseteq BlockItems
         /\ \A x : x \in ToSet(Mapped(OpenvpnBlocks(c, day), BlockActions)) <=>
              \E s \in ToSet(c.servers), r \in ToSet(c.rules) :
                IsClient(r, s) /\ x \in ToSet(ClientActions(r, s, day))
<1> DEFINE used == Used(c)
           BlockOf(s) == Block("openvpn", s.label, ServerActions(c, s, day))
<1>1. used \in Seq(Servers)
      /\ \A s : s \in ToSet(used) <=>
           s \in ToSet(c.servers) /\ \E r \in ToSet(c.rules) : r.server = s.id
  BY UsedFacts
<1>2. OpenvpnBlocks(c, day) = [i \in DOMAIN used |-> BlockOf(used[i])]
  BY DEF OpenvpnBlocks
<1> HIDE DEF used
<1>3. /\ Len(used) \in Nat /\ DOMAIN used = 1 .. Len(used)
      /\ \A i \in 1 .. Len(used) : used[i] \in ToSet(used)
      /\ \A s : s \in ToSet(used) <=> \E i \in 1 .. Len(used) : used[i] = s
  BY <1>1, ElementAt
<1>4. ASSUME NEW s \in ToSet(used)
      PROVE  BlockOf(s) \in BlockItems /\ BlockOf(s) \in Items
             /\ BlockOf(s).actions = ServerActions(c, s, day)
  <2>1. s \in ToSet(c.servers) /\ s \in Servers
    BY <1>1, PolicyFacts
  <2>2. ServerActions(c, s, day) \in Seq(CompiledActions)
    BY <2>1, ServerActionsFacts
  <2>3. s.label \in Labels \cup {Star}
    BY <2>1, ServerFacts
  <2>4. QED BY <2>2, <2>3, BlockType
<1> HIDE DEF BlockOf
<1>5. PICK b : b = OpenvpnBlocks(c, day)
  OBVIOUS
<1>6. b = [i \in 1 .. Len(used) |-> BlockOf(used[i])]
  BY <1>2, <1>3, <1>5
<1>7. b \in Seq(Items)
  <2>1. \A i \in 1 .. Len(used) : BlockOf(used[i]) \in Items
    BY <1>3, <1>4
  <2>2. QED BY <1>3, <1>6, <2>1
<1>8. ASSUME NEW y PROVE y \in ToSet(b) <=> \E s \in ToSet(used) : y = BlockOf(s)
  <2>1. DOMAIN b = 1 .. Len(used) /\ \A i \in 1 .. Len(used) : b[i] = BlockOf(used[i])
    BY <1>6
  <2>2. y \in ToSet(b) <=> \E i \in 1 .. Len(used) : y = BlockOf(used[i])
    BY <2>1 DEF ToSet
  <2>3. QED BY <1>3, <2>2
<1>9. ToSet(b) \subseteq BlockItems
  BY <1>4, <1>8
<1>10. ASSUME NEW x
       PROVE  x \in ToSet(Mapped(b, BlockActions)) <=>
                \E s \in ToSet(c.servers), r \in ToSet(c.rules) :
                  IsClient(r, s) /\ x \in ToSet(ClientActions(r, s, day))
  <2>1. x \in ToSet(Mapped(b, BlockActions)) <=> \E y \in ToSet(b) : x \in ToSet(BlockActions[y])
    BY <1>7, BlockActionsType, MappedElements
  <2>2. (\E y \in ToSet(b) : x \in ToSet(BlockActions[y]))
          <=> \E s \in ToSet(used) : x \in ToSet(ServerActions(c, s, day))
    <3>1. \A s \in ToSet(used) : BlockActions[BlockOf(s)] = ServerActions(c, s, day)
      BY <1>4, BlockActionsType
    <3>2. QED BY <1>8, <3>1
  <2>3. ASSUME NEW s \in ToSet(c.servers)
        PROVE  x \in ToSet(ServerActions(c, s, day)) <=>
                 \E r \in ToSet(c.rules) : IsClient(r, s) /\ x \in ToSet(ClientActions(r, s, day))
    BY ServerActionsFacts
  <2>4. \A s \in ToSet(c.servers), r \in ToSet(c.rules) : IsClient(r, s) => s \in ToSet(used)
    BY <1>1 DEF IsClient
  <2>5. \A s \in ToSet(used) : s \in ToSet(c.servers)
    BY <1>1
  <2>6. QED BY <2>1, <2>2, <2>3, <2>4, <2>5
<1>11. QED BY <1>5, <1>7, <1>9, <1>10

(* The two common blocks hold the trusted actions, then the standard       *)
(* ones.                                                                   *)
LEMMA CommonFacts ==
  ASSUME NEW c, IsPolicy(c), NEW f
  PROVE  /\ CommonBlocks(c, f) \in Seq(Items)
         /\ ToSet(CommonBlocks(c, f)) \subseteq BlockItems
         /\ Mapped(CommonBlocks(c, f), BlockActions) = TrustedActions(c, f) \o StandardActions(c, f)
<1>1. PICK x : x = Block("hard_sources", Star, TrustedActions(c, f))
  OBVIOUS
<1>2. PICK y : y = Block("standard", Star, StandardActions(c, f))
  OBVIOUS
<1>3. x \in Items /\ x \in BlockItems /\ x.actions = TrustedActions(c, f)
  <2>1. TrustedActions(c, f) \in Seq(CompiledActions) /\ Star \in Labels \cup {Star}
    BY TrustedActionsFacts
  <2>2. QED BY <1>1, <2>1, BlockType
<1>4. y \in Items /\ y \in BlockItems /\ y.actions = StandardActions(c, f)
  <2>1. StandardActions(c, f) \in Seq(CompiledActions) /\ Star \in Labels \cup {Star}
    BY StandardActionsFacts
  <2>2. QED BY <1>2, <2>1, BlockType
<1>5. CommonBlocks(c, f) = <<x, y>>
  BY <1>1, <1>2 DEF CommonBlocks
<1>6. <<x, y>> \in Seq(Items)
  BY <1>3, <1>4
<1>7. ToSet(<<x, y>>) \subseteq BlockItems
  BY <1>3, <1>4 DEF ToSet
<1>8. Mapped(<<x, y>>, BlockActions) = x.actions \o y.actions
  <2>1. BlockActions[x] = x.actions /\ BlockActions[y] = y.actions
    BY <1>3, <1>4, BlockActionsType
  <2>2. [i \in DOMAIN <<x, y>> |-> BlockActions[<<x, y>>[i]]] = <<x.actions, y.actions>>
    BY <2>1
  <2>3. PICK s : s = x.actions
    OBVIOUS
  <2>4. PICK t : t = y.actions
    OBVIOUS
  <2>5. s \in Seq(CompiledActions) /\ t \in Seq(CompiledActions)
    BY <1>3, <1>4, <2>3, <2>4, TrustedActionsFacts, StandardActionsFacts
  <2>6. FlattenSeq(<<s, t>>) = s \o t
    BY <2>5, FlattenPair
  <2>7. QED BY <2>2, <2>3, <2>4, <2>6 DEF Mapped
<1>9. QED BY <1>3, <1>4, <1>5, <1>6, <1>7, <1>8

(* Mapped distributes over concatenation.                                  *)
LEMMA MappedConcat ==
  ASSUME NEW S, NEW U, NEW a \in Seq(S), NEW b \in Seq(S), NEW F \in [S -> Seq(U)]
  PROVE  Mapped(a \o b, F) = Mapped(a, F) \o Mapped(b, F)
<1> DEFINE Images(s) == [i \in DOMAIN s |-> F[s[i]]]
<1>0. Len(a) \in Nat /\ Len(b) \in Nat
  OBVIOUS
<1>1. PICK c : c = a \o b
  OBVIOUS
<1>2. /\ c \in Seq(S) /\ Len(c) = Len(a) + Len(b)
      /\ \A i \in 1 .. Len(a) : c[i] = a[i]
      /\ \A i \in 1 .. Len(b) : c[Len(a) + i] = b[i]
  BY <1>1, ConcatAt
<1>3. ASSUME NEW s \in Seq(S)
      PROVE  /\ Images(s) \in Seq(Seq(U)) /\ Len(Images(s)) = Len(s)
             /\ \A i \in 1 .. Len(s) : Images(s)[i] = F[s[i]]
  <2>1. Images(s) \in Seq(Seq(U)) /\ Len(Images(s)) = Len(s)
    <3>1. Images(s) \in Seq(Seq(U))
      BY MappedParts
    <3>2. Len(Images(s)) = Len(s)
      BY MappedParts
    <3>3. QED BY <3>1, <3>2
  <2>2. DOMAIN s = 1 .. Len(s)
    BY ElementAt
  <2>3. QED BY <2>1, <2>2
<1> HIDE DEF Images
<1>4. PICK p : p = Images(a)
  OBVIOUS
<1>5. PICK q : q = Images(b)
  OBVIOUS
<1>6. PICK r : r = Images(c)
  OBVIOUS
<1>7. /\ p \in Seq(Seq(U)) /\ Len(p) = Len(a)
      /\ q \in Seq(Seq(U)) /\ Len(q) = Len(b)
      /\ r \in Seq(Seq(U)) /\ Len(r) = Len(c)
      /\ \A i \in 1 .. Len(a) : p[i] = F[a[i]]
      /\ \A i \in 1 .. Len(b) : q[i] = F[b[i]]
      /\ \A i \in 1 .. Len(c) : r[i] = F[c[i]]
  BY <1>2, <1>3, <1>4, <1>5, <1>6
<1>8. PICK w : w = p \o q
  OBVIOUS
<1>9. /\ w \in Seq(Seq(U)) /\ Len(w) = Len(p) + Len(q)
      /\ \A i \in 1 .. Len(p) : w[i] = p[i]
      /\ \A i \in 1 .. Len(q) : w[Len(p) + i] = q[i]
  <2>1. PICK V : V = Seq(U)
    OBVIOUS
  <2>2. p \in Seq(V) /\ q \in Seq(V)
    BY <1>7, <2>1
  <2>3. /\ p \o q \in Seq(V) /\ Len(p \o q) = Len(p) + Len(q)
        /\ \A i \in 1 .. Len(p) : (p \o q)[i] = p[i]
        /\ \A i \in 1 .. Len(q) : (p \o q)[Len(p) + i] = q[i]
    BY <2>2, ConcatAt
  <2>4. QED BY <1>8, <2>1, <2>3
<1>10. ASSUME NEW i \in 1 .. Len(c) PROVE r[i] = w[i]
  <2>1. CASE i <= Len(a)
    <3>1. i \in 1 .. Len(a)
      BY <1>0, <2>1
    <3>2. c[i] = a[i] /\ w[i] = p[i] /\ p[i] = F[a[i]] /\ r[i] = F[c[i]]
      BY <1>2, <1>7, <1>9, <3>1
    <3>3. QED BY <3>2
  <2>2. CASE i > Len(a)
    <3>1. PICK k \in 1 .. Len(b) : i = Len(a) + k
      <4>1. i - Len(a) \in 1 .. Len(b) /\ i = Len(a) + (i - Len(a))
        BY <1>0, <1>2, <2>2
      <4>2. QED BY <4>1
    <3>2. c[i] = b[k] /\ w[i] = q[k] /\ q[k] = F[b[k]] /\ r[i] = F[c[i]]
      BY <1>2, <1>7, <1>9, <3>1
    <3>3. QED BY <3>2
  <2>3. QED BY <1>0, <1>2, <2>1, <2>2
<1>11. r = w
  <2>1. PICK V : V = Seq(U)
    OBVIOUS
  <2>2. r \in Seq(V) /\ w \in Seq(V)
    BY <1>7, <1>9, <2>1
  <2>3. Len(r) = Len(w) /\ \A i \in 1 .. Len(r) : r[i] = w[i]
    BY <1>2, <1>7, <1>9, <1>10
  <2>4. QED BY <2>2, <2>3, SeqEqual
<1>12. FlattenSeq(p \o q) = FlattenSeq(p) \o FlattenSeq(q)
  <2>1. p \in Seq(Seq(U)) /\ q \in Seq(Seq(U))
    BY <1>7
  <2>2. QED BY <2>1, FlattenConcat
<1>13. QED BY <1>1, <1>4, <1>5, <1>6, <1>8, <1>11, <1>12 DEF Mapped, Images

(* A compiled policy is a sequence of blocks: clients, trusted sources,    *)
(* the rest.                                                               *)
LEMMA CompiledFacts ==
  ASSUME NEW c, IsPolicy(c), Compiles(c), NEW f, NEW day
  PROVE  /\ Compiled(c, f, day) \in Seq(Items)
         /\ ToSet(Compiled(c, f, day)) \subseteq BlockItems
         /\ Mapped(Compiled(c, f, day), BlockActions) =
              IF f = 4 THEN Mapped(OpenvpnBlocks(c, day), BlockActions) \o
                              (TrustedActions(c, f) \o StandardActions(c, f))
                       ELSE TrustedActions(c, f) \o StandardActions(c, f)
<1>1. PICK a : a = OpenvpnBlocks(c, day)
  OBVIOUS
<1>2. PICK b : b = CommonBlocks(c, f)
  OBVIOUS
<1>3. a \in Seq(Items) /\ ToSet(a) \subseteq BlockItems
  BY <1>1, OpenvpnFacts
<1>4. /\ b \in Seq(Items) /\ ToSet(b) \subseteq BlockItems
      /\ Mapped(b, BlockActions) = TrustedActions(c, f) \o StandardActions(c, f)
  BY <1>2, CommonFacts
<1>5. Compiled(c, f, day) = IF f = 4 THEN a \o b ELSE b
  BY <1>1, <1>2, CompiledParts
<1>6. a \o b \in Seq(Items) /\ ToSet(a \o b) \subseteq BlockItems
  <2>1. a \in Seq(Items) /\ b \in Seq(Items)
    BY <1>3, <1>4
  <2>2. ToSet(a \o b) = ToSet(a) \cup ToSet(b)
    BY <2>1, ConcatElements
  <2>3. QED BY <1>3, <1>4, <2>1, <2>2
<1>7. Mapped(a \o b, BlockActions) = Mapped(a, BlockActions) \o Mapped(b, BlockActions)
  <2>1. a \in Seq(Items) /\ b \in Seq(Items) /\ BlockActions \in [Items -> Seq(CompiledActions)]
    BY <1>3, <1>4, BlockActionsType
  <2>2. QED BY <2>1, MappedConcat
<1>8. CASE f = 4
  BY <1>1, <1>4, <1>5, <1>6, <1>7, <1>8
<1>9. CASE f # 4
  BY <1>4, <1>5, <1>9
<1>10. QED BY <1>8, <1>9

(* Concatenation by another name, which the provers leave alone.           *)
Joined(a, b) == a \o b

(* What is kept of three sequences in one.                                 *)
LEMMA KeptThree ==
  ASSUME NEW S, NEW p \in Seq(S), NEW d \in Seq(S), NEW q \in Seq(S), NEW T
  PROVE  Kept(Joined(Joined(p, d), q), T) = Joined(Joined(Kept(p, T), Kept(d, T)), Kept(q, T))
<1>1. PICK e : e = p \o d
  OBVIOUS
<1>2. e \in Seq(S)
  BY <1>1
<1>3. Kept(e \o q, T) = Kept(e, T) \o Kept(q, T)
  BY <1>2, KeptConcat
<1>4. Kept(p \o d, T) = Kept(p, T) \o Kept(d, T)
  BY KeptConcat
<1>5. QED BY <1>1, <1>3, <1>4 DEF Joined

(* The anchor is a place of the file, that of its first block if it has    *)
(* one.                                                                    *)
LEMMA AnchorFacts ==
  ASSUME NEW text \in Seq(Items), Anchor(text) # 0
  PROVE  /\ Anchor(text) \in 1 .. Len(text) + 1
         /\ Blocks(text) # <<>> => /\ Anchor(text) \in 1 .. Len(text)
                                   /\ IsBlock(text[Anchor(text)])
                                   /\ \A i \in 1 .. (Anchor(text) - 1) : ~IsBlock(text[i])
<1>00. Len(text) \in Nat
  OBVIOUS
<1>1. PICK a : a = Anchor(text)
  OBVIOUS
<1>2. CASE Blocks(text) # <<>>
  <2>1. ToSet(text) \cap BlockItems # {}
    BY <1>2, FileParts, KeptNone
  <2>2. PICK i \in 1 .. Len(text) :
          /\ i = Min({j \in 1 .. Len(text) : text[j] \in BlockItems})
          /\ text[i] \in BlockItems /\ \A j \in 1 .. (i - 1) : text[j] \notin BlockItems
    BY <2>1, FirstExists
  <2>3. \A j \in 1 .. Len(text) : text[j] \in BlockItems <=> IsBlock(text[j])
    BY ElementAt DEF BlockItems
  <2>4. {j \in 1 .. Len(text) : text[j] \in BlockItems} = {j \in 1 .. Len(text) : IsBlock(text[j])}
    BY <2>3
  <2>5. {j \in 1 .. Len(text) : IsBlock(text[j])} # {}
    BY <2>2, <2>3
  <2>6. SelectInSeq(text, IsBlock) = Min({j \in 1 .. Len(text) : IsBlock(text[j])})
    BY <2>5 DEF SelectInSeq
  <2>7. a = i
    BY <1>1, <1>2, <2>2, <2>4, <2>6 DEF Anchor
  <2>8. \A j \in 1 .. (i - 1) : j \in 1 .. Len(text)
    BY <1>00
  <2>9. IsBlock(text[i]) /\ \A j \in 1 .. (i - 1) : ~IsBlock(text[j])
    BY <2>2, <2>3, <2>8
  <2>10. i \in 1 .. Len(text) + 1
    BY <1>00
  <2>11. QED BY <1>1, <2>7, <2>9, <2>10
<1>3. CASE Blocks(text) = <<>>
  <2> DEFINE required == {i \in DOMAIN text : text[i].label = "required"}
             commits == {i \in 1 .. Len(text) : text[i].label = "commit"}
  <2>1. DOMAIN text = 1 .. Len(text)
    OBVIOUS
  <2>2. a = IF Cardinality(required) = 1 THEN (CHOOSE i \in required : TRUE) + 1
            ELSE SelectInSeq(text, LAMBDA item : item.label = "commit")
    BY <1>1, <1>3 DEF Anchor
  <2>3. CASE Cardinality(required) = 1
    <3>1. required \subseteq 1 .. Len(text)
      BY <2>1
    <3> HIDE DEF required
    <3>2. required # {}
      <4>1. IsFiniteSet(1 .. Len(text))
        BY <1>00, FS_Interval
      <4>2. IsFiniteSet(required)
        BY <3>1, <4>1, FS_Subset
      <4>3. PICK x : required = {x}
        BY <2>3, <4>2, FS_Singleton
      <4>4. QED BY <4>3
    <3>3. PICK k : k = CHOOSE i \in required : TRUE
      OBVIOUS
    <3>03. k \in 1 .. Len(text)
      BY <3>1, <3>2, <3>3
    <3>4. a \in 1 .. Len(text) + 1
      <4>1. a = k + 1
        BY <2>2, <2>3, <3>3
      <4>2. QED BY <1>00, <3>03, <4>1
    <3>5. QED BY <1>1, <1>3, <3>4
  <2>4. CASE Cardinality(required) # 1
    <3>1. SelectInSeq(text, LAMBDA item : item.label = "commit")
            = IF commits # {} THEN Min(commits) ELSE 0
      BY DEF SelectInSeq
    <3>2. commits # {} /\ a = Min(commits)
      <4> HIDE DEF required, commits
      <4>1. a # 0
        BY <1>1
      <4>2. QED BY <2>2, <2>4, <3>1, <4>1
    <3>3. commits \in SUBSET Nat
      BY <1>00
    <3>4. commits \subseteq 1 .. Len(text)
      OBVIOUS
    <3> HIDE DEF commits
    <3>5. \E i \in commits : \A j \in commits : i <= j
      BY <3>2, <3>3, LeastNumber
    <3>6. Min(commits) \in commits
      BY <3>5, Zenon DEF Min
    <3>7. a \in 1 .. Len(text) + 1
      <4>1. a \in 1 .. Len(text)
        BY <3>2, <3>4, <3>6
      <4>2. QED BY <1>00, <4>1
    <3>8. QED BY <1>1, <1>3, <3>7
  <2>5. QED BY <2>3, <2>4
<1>4. QED BY <1>2, <1>3

(* The candidate has the blocks that were asked for and the lines that     *)
(* were there (build_candidate).                                           *)
LEMMA CandidateKeeps ==
  ASSUME NEW text \in Seq(Items), NEW desired \in Seq(Items), ToSet(desired) \subseteq BlockItems,
         Blocks(text) = desired \/ Anchor(text) # 0
  PROVE  /\ CandidateFile(text, desired) \in Seq(Items)
         /\ Blocks(CandidateFile(text, desired)) = desired
         /\ Lines(CandidateFile(text, desired)) = Lines(text)
         /\ Blocks(text) # desired =>
              /\ Anchor(text) \in 1 .. Len(text) + 1
              /\ Blocks(text) # <<>> => /\ Anchor(text) \in 1 .. Len(text)
                                        /\ IsBlock(text[Anchor(text)])
                                        /\ \A i \in 1 .. (Anchor(text) - 1) : ~IsBlock(text[i])
<1>0. BlockItems \cap LineItems = {} /\ Items = BlockItems \cup LineItems
  BY DEF BlockItems, LineItems
<1>00. Len(text) \in Nat
  OBVIOUS
<1>1. CASE Blocks(text) = desired
  BY <1>1 DEF CandidateFile
<1>2. CASE Blocks(text) # desired
  <2>1. PICK a : a = Anchor(text)
    OBVIOUS
  <2>4. /\ a \in 1 .. Len(text) + 1
        /\ Blocks(text) # <<>> => /\ a \in 1 .. Len(text) /\ IsBlock(text[a])
                                  /\ \A i \in 1 .. (a - 1) : ~IsBlock(text[i])
    BY <1>2, <2>1, AnchorFacts
  <2>5. PICK u : u = SubSeq(text, 1, a - 1)
    OBVIOUS
  <2>6. PICK v : v = SubSeq(text, a, Len(text))
    OBVIOUS
  <2>7. u \in Seq(Items) /\ v \in Seq(Items) /\ text = u \o v
    BY <2>4, <2>5, <2>6, SplitAt
  <2>8. PICK p : p = Kept(u, LineItems)
    OBVIOUS
  <2>9. PICK q : q = Kept(v, LineItems)
    OBVIOUS
  <2>10. /\ p \in Seq(Items) /\ ToSet(p) \subseteq LineItems
         /\ q \in Seq(Items) /\ ToSet(q) \subseteq LineItems
    <3>1. u \in Seq(Items) /\ v \in Seq(Items)
      BY <2>7
    <3>2. p \in Seq(Items) /\ ToSet(p) = ToSet(u) \cap LineItems
      BY <2>8, <3>1, KeptType, KeptElements
    <3>3. q \in Seq(Items) /\ ToSet(q) = ToSet(v) \cap LineItems
      BY <2>9, <3>1, KeptType, KeptElements
    <3>4. QED BY <3>2, <3>3
  <2>11. PICK d : d = p \o desired
    OBVIOUS
  <2>12. CandidateFile(text, desired) = d \o q
    <3>1. Lines(u) = p /\ Lines(v) = q
      BY <2>7, <2>8, <2>9, FileParts
    <3>2. QED BY <1>2, <2>1, <2>5, <2>6, <2>11, <3>1 DEF CandidateFile
  <2>13. d \in Seq(Items) /\ d \o q \in Seq(Items)
    BY <2>10, <2>11
  <2>14. ASSUME NEW T PROVE Kept(d \o q, T) = (Kept(p, T) \o Kept(desired, T)) \o Kept(q, T)
    <3>1. p \in Seq(Items) /\ q \in Seq(Items)
      BY <2>10
    <3>2. Kept(Joined(Joined(p, desired), q), T)
            = Joined(Joined(Kept(p, T), Kept(desired, T)), Kept(q, T))
      BY <3>1, KeptThree
    <3>3. QED BY <2>11, <3>2 DEF Joined
  <2>15. Kept(d \o q, BlockItems) = desired
    <3>1. p \in Seq(Items) /\ q \in Seq(Items) /\ ToSet(p) \cap BlockItems = {} /\ ToSet(q) \cap BlockItems = {}
      BY <1>0, <2>10
    <3>2. Kept(p, BlockItems) = <<>> /\ Kept(q, BlockItems) = <<>>
      BY <3>1, KeptNone
    <3>3. Kept(desired, BlockItems) = desired
      BY KeptAll
    <3>4. (<<>> \o desired) \o <<>> = desired
      OBVIOUS
    <3>5. QED BY <2>14, <3>2, <3>3, <3>4
  <2>16. Kept(d \o q, LineItems) = p \o q
    <3>1. p \in Seq(Items) /\ q \in Seq(Items) /\ ToSet(p) \subseteq LineItems /\ ToSet(q) \subseteq LineItems
      BY <2>10
    <3>2. Kept(p, LineItems) = p /\ Kept(q, LineItems) = q
      BY <3>1, KeptAll
    <3>3. ToSet(desired) \cap LineItems = {}
      BY <1>0
    <3>4. Kept(desired, LineItems) = <<>>
      BY <3>3, KeptNone
    <3>5. p \o <<>> = p
      BY <3>1
    <3>6. QED BY <2>14, <3>2, <3>4, <3>5
  <2>17. Kept(text, LineItems) = p \o q
    <3>1. u \in Seq(Items) /\ v \in Seq(Items)
      BY <2>7
    <3>2. Kept(u \o v, LineItems) = Kept(u, LineItems) \o Kept(v, LineItems)
      BY <3>1, KeptConcat
    <3>3. QED BY <2>7, <2>8, <2>9, <3>2
  <2>18. Blocks(d \o q) = desired /\ Lines(d \o q) = Lines(text)
    <3>1. PICK w : w = d \o q
      OBVIOUS
    <3>2. w \in Seq(Items)
      BY <2>13, <3>1
    <3>3. Blocks(w) = Kept(w, BlockItems) /\ Lines(w) = Kept(w, LineItems)
      BY <3>2, FileParts
    <3>4. Lines(text) = Kept(text, LineItems)
      BY FileParts
    <3>5. QED BY <2>15, <2>16, <2>17, <3>1, <3>3, <3>4
  <2>19. QED BY <2>1, <2>4, <2>12, <2>13, <2>18
<1>3. QED BY <1>1, <1>2

(* c is p, d and q, place by place.                                        *)
Consists(c, p, d, q) ==
  /\ Len(c) = Len(p) + Len(d) + Len(q)
  /\ \A i \in 1 .. Len(p) : c[i] = p[i]
  /\ \A i \in 1 .. Len(d) : c[Len(p) + i] = d[i]
  /\ \A i \in 1 .. Len(q) : c[Len(p) + Len(d) + i] = q[i]

(* Three sequences in one, place by place.                                 *)
LEMMA JoinedThree ==
  ASSUME NEW S, NEW p \in Seq(S), NEW d \in Seq(S), NEW q \in Seq(S)
  PROVE  Consists(Joined(Joined(p, d), q), p, d, q)
<1> DEFINE c == Joined(Joined(p, d), q)
<1> HIDE DEF c
<1>0. Len(p) \in Nat /\ Len(d) \in Nat /\ Len(q) \in Nat
  OBVIOUS
<1>1. PICK e : e = p \o d
  OBVIOUS
<1>2. c = e \o q
  BY <1>1 DEF c, Joined
<1>3. /\ e \in Seq(S) /\ Len(e) = Len(p) + Len(d)
      /\ \A i \in 1 .. Len(p) : e[i] = p[i]
      /\ \A i \in 1 .. Len(d) : e[Len(p) + i] = d[i]
  BY <1>1, ConcatAt
<1>4. e \in Seq(S)
  BY <1>3
<1>5. /\ Len(c) = Len(e) + Len(q)
      /\ \A i \in 1 .. Len(e) : c[i] = e[i]
      /\ \A i \in 1 .. Len(q) : c[Len(e) + i] = q[i]
  BY <1>2, <1>4, ConcatAt
<1>7. Len(c) = Len(p) + Len(d) + Len(q)
  BY <1>0, <1>3, <1>5
<1>8. ASSUME NEW i \in 1 .. Len(p) PROVE c[i] = p[i]
  <2>1. i \in 1 .. Len(e)
    BY <1>0, <1>3
  <2>2. QED BY <1>3, <1>5, <2>1
<1>9. ASSUME NEW i \in 1 .. Len(d) PROVE c[Len(p) + i] = d[i]
  <2>1. Len(p) + i \in 1 .. Len(e)
    BY <1>0, <1>3
  <2>2. QED BY <1>3, <1>5, <2>1
<1>10. ASSUME NEW i \in 1 .. Len(q) PROVE c[Len(p) + Len(d) + i] = q[i]
  BY <1>3, <1>5
<1>11. QED BY <1>7, <1>8, <1>9, <1>10 DEF c, Consists

(* A replaced file begins as the old one did and goes on with the blocks.  *)
LEMMA CandidatePlaces ==
  ASSUME NEW text \in Seq(Items), NEW desired \in Seq(Items), ToSet(desired) \subseteq BlockItems,
         Blocks(text) # desired, Blocks(text) # <<>>, Anchor(text) # 0
  PROVE  /\ \A k \in 1 .. (Anchor(text) - 1) : CandidateFile(text, desired)[k] = text[k]
         /\ \A j \in 1 .. Len(CandidateFile(text, desired)) :
              IsBlock(CandidateFile(text, desired)[j]) =>
                /\ j >= Anchor(text)
                /\ \A k \in Anchor(text) .. j : IsBlock(CandidateFile(text, desired)[k])
<1>0. Len(text) \in Nat
  OBVIOUS
<1>1. PICK a : a = Anchor(text)
  OBVIOUS
<1>2. a \in 1 .. Len(text) /\ a \in 1 .. Len(text) + 1 /\ \A i \in 1 .. (a - 1) : ~IsBlock(text[i])
  BY <1>1, AnchorFacts
<1>3. PICK u : u = SubSeq(text, 1, a - 1)
  OBVIOUS
<1>4. PICK v : v = SubSeq(text, a, Len(text))
  OBVIOUS
<1>5. /\ u \in Seq(Items) /\ Len(u) = a - 1 /\ v \in Seq(Items)
      /\ \A i \in 1 .. (a - 1) : u[i] = text[i]
  BY <1>2, <1>3, <1>4, SplitAt
<1>6. ToSet(u) \subseteq LineItems
  <2>1. \A x \in ToSet(u) : \E i \in 1 .. Len(u) : u[i] = x /\ u[i] \in Items
    BY <1>5, ElementAt
  <2>2. QED BY <1>2, <1>5, <2>1 DEF LineItems
<1>7. Lines(u) = u
  <2>1. Kept(u, LineItems) = u
    BY <1>5, <1>6, KeptAll
  <2>2. QED BY <1>5, <2>1, FileParts
<1>8. PICK q : q = Lines(v)
  OBVIOUS
<1>9. q \in Seq(Items) /\ ToSet(q) \subseteq LineItems
  <2>1. v \in Seq(Items)
    BY <1>5
  <2>2. Kept(v, LineItems) \in Seq(Items) /\ ToSet(Kept(v, LineItems)) = ToSet(v) \cap LineItems
    BY <2>1, KeptType, KeptElements
  <2>3. QED BY <1>8, <2>1, <2>2, FileParts
<1>10. PICK c : c = CandidateFile(text, desired)
  OBVIOUS
<1>11. c = Joined(Joined(u, desired), q)
  BY <1>1, <1>3, <1>4, <1>7, <1>8, <1>10 DEF CandidateFile, Joined
<1>12. /\ Len(c) = Len(u) + Len(desired) + Len(q)
       /\ \A i \in 1 .. Len(u) : c[i] = u[i]
       /\ \A i \in 1 .. Len(desired) : c[Len(u) + i] = desired[i]
       /\ \A i \in 1 .. Len(q) : c[Len(u) + Len(desired) + i] = q[i]
  <2>1. u \in Seq(Items)
    BY <1>5
  <2>2. q \in Seq(Items)
    BY <1>9
  <2>3. desired \in Seq(Items)
    OBVIOUS
  <2>4. Consists(c, u, desired, q)
    BY <1>11, <2>1, <2>2, <2>3, JoinedThree
  <2>5. QED BY <2>4 DEF Consists
<1>13. \A i \in 1 .. Len(desired) : IsBlock(desired[i])
  <2>1. \A i \in 1 .. Len(desired) : desired[i] \in ToSet(desired)
    BY ElementAt
  <2>2. QED BY <2>1 DEF BlockItems
<1>14. \A i \in 1 .. Len(q) : ~IsBlock(q[i])
  <2>1. \A i \in 1 .. Len(q) : q[i] \in ToSet(q)
    BY <1>9, ElementAt
  <2>2. QED BY <1>9, <2>1 DEF LineItems
<1>15. Len(u) = a - 1 /\ Len(desired) \in Nat /\ Len(q) \in Nat /\ a \in Nat /\ a >= 1
  BY <1>0, <1>2, <1>5, <1>9
<1>16. \A k \in 1 .. (a - 1) : c[k] = text[k] /\ ~IsBlock(c[k])
  BY <1>2, <1>5, <1>12
<1>17. ASSUME NEW k \in a .. (a - 1 + Len(desired)) PROVE IsBlock(c[k])
  <2>1. k - (a - 1) \in 1 .. Len(desired) /\ Len(u) + (k - (a - 1)) = k
    BY <1>15
  <2>2. QED BY <1>12, <1>13, <2>1
<1>18. ASSUME NEW k \in (a + Len(desired)) .. Len(c) PROVE ~IsBlock(c[k])
  <2>1. PICK i : i = k - (a - 1) - Len(desired)
    OBVIOUS
  <2>2. i \in 1 .. Len(q) /\ Len(u) + Len(desired) + i = k
    BY <1>12, <1>15, <2>1
  <2>3. QED BY <1>12, <1>14, <2>2
<1>19. ASSUME NEW j \in 1 .. Len(c), IsBlock(c[j])
       PROVE  j >= a /\ \A k \in a .. j : IsBlock(c[k])
  <2>1. Len(c) \in Nat
    BY <1>12, <1>15
  <2>2. j >= a
    BY <1>15, <1>16, <1>19, <2>1
  <2>3. j <= a - 1 + Len(desired)
    <3>1. ~(j \in (a + Len(desired)) .. Len(c))
      BY <1>18, <1>19
    <3>2. QED BY <1>15, <2>1, <3>1
  <2>4. \A k \in a .. j : k \in a .. (a - 1 + Len(desired))
    BY <1>15, <2>1, <2>3
  <2>5. QED BY <1>17, <2>2, <2>4
<1>20. QED BY <1>1, <1>10, <1>16, <1>19

(* The candidate keeps the lines of other people, and as many rules of     *)
(* theirs stand before a block as stood before the block it replaces:      *)
(* between two managed blocks nothing is executed.                         *)
LEMMA SidesKept ==
  ASSUME NEW text \in Seq(Items), NEW desired \in Seq(Items), ToSet(desired) \subseteq BlockItems,
         NEW f, Buildable(text, f, desired)
  PROVE  /\ Lines(CandidateFile(text, desired)) = Lines(text)
         /\ \A i \in DOMAIN text, j \in DOMAIN CandidateFile(text, desired) :
              IsBlock(text[i]) /\ CandidateFile(text, desired)[j].kind = text[i].kind
                /\ CandidateFile(text, desired)[j].label = text[i].label
              => Ahead(CandidateFile(text, desired), j) = Ahead(text, i)
<1>0. Len(text) \in Nat /\ DOMAIN text = 1 .. Len(text)
  OBVIOUS
<1>1. Inspected(text, f) /\ (Blocks(text) = desired \/ (NothingBetween(text) /\ Anchor(text) # 0))
  BY DEF Buildable
<1>2. PICK c : c = CandidateFile(text, desired)
  OBVIOUS
<1>3. c \in Seq(Items) /\ Lines(c) = Lines(text)
  BY <1>1, <1>2, CandidateKeeps
<1>4. Len(c) \in Nat /\ DOMAIN c = 1 .. Len(c)
  BY <1>3, ElementAt
<1>5. ASSUME NEW i \in 1 .. Len(text), NEW j \in 1 .. Len(c), IsBlock(text[i]),
             c[j].kind = text[i].kind, c[j].label = text[i].label
      PROVE  Ahead(c, j) = Ahead(text, i)
  <2>1. CASE Blocks(text) = desired
    <3>1. c = text
      BY <1>2, <2>1 DEF CandidateFile
    <3>2. ASSUME NEW m \in 1 .. Len(text), NEW n \in 1 .. Len(text), m < n, IsBlock(text[m]),
                 IsBlock(text[n])
          PROVE  text[m].kind # text[n].kind \/ text[m].label # text[n].label
      <4>1. text[m] \in Items /\ text[n] \in Items
        BY ElementAt
      <4>2. text[m] \in BlockItems /\ text[n] \in BlockItems
        BY <3>2, <4>1 DEF BlockItems
      <4>3. Ordered(Kept(text, BlockItems), text[m], text[n])
        BY <3>2, <4>2, KeptOrder
      <4>4. PICK b : b = Blocks(text)
        OBVIOUS
      <4>5. b = Kept(text, BlockItems) /\ b \in Seq(Items)
        BY <4>4, FileParts, KeptType
      <4>6. PICK k, l \in 1 .. Len(b) : k < l /\ b[k] = text[m] /\ b[l] = text[n]
        BY <4>3, <4>5 DEF Ordered
      <4>7. DOMAIN b = 1 .. Len(b)
        BY <4>5, ElementAt
      <4>8. Rank(text[m]) < Rank(text[n])
            \/ (Rank(text[m]) = 1 /\ Rank(text[n]) = 1 /\ text[m].label # text[n].label)
        BY <1>1, <4>4, <4>6, <4>7 DEF Inspected
      <4>9. text[m].kind \in {"openvpn", "hard_sources", "standard"}
        BY <4>2 DEF BlockItems, Items, IsBlock
      <4>10. text[m].kind = text[n].kind => Rank(text[m]) = Rank(text[n]) /\ Rank(text[m]) \in Nat
        BY <4>9 DEF Rank
      <4>11. QED BY <4>8, <4>10
    <3>3. i = j
      <4>1. IsBlock(text[j])
        BY <1>5, <3>1 DEF IsBlock
      <4>2. i \in Nat /\ j \in Nat /\ j \in 1 .. Len(text)
        BY <3>1
      <4>3. ~(i < j) /\ ~(j < i)
        BY <1>5, <3>1, <3>2, <4>1, <4>2
      <4>4. QED BY <4>2, <4>3
    <3>4. QED BY <3>1, <3>3
  <2>2. CASE Blocks(text) # desired
    <3>1. PICK a : a = Anchor(text)
      OBVIOUS
    <3>2. Blocks(text) # <<>>
      <4>1. text[i] \in ToSet(text) /\ text[i] \in Items
        BY ElementAt
      <4>2. text[i] \in BlockItems
        BY <1>5, <4>1 DEF BlockItems
      <4>3. ToSet(Kept(text, BlockItems)) # {}
        BY <4>1, <4>2, KeptElements
      <4>4. Kept(text, BlockItems) # <<>>
        BY <4>3 DEF ToSet
      <4>5. QED BY <4>4, FileParts
    <3>3. a # 0 /\ NothingBetween(text)
      BY <1>1, <2>2, <3>1
    <3>4. /\ a \in 1 .. Len(text) /\ IsBlock(text[a])
          /\ \A k \in 1 .. (a - 1) : ~IsBlock(text[k])
      BY <3>1, <3>2, <3>3, AnchorFacts
    <3>5. /\ \A k \in 1 .. (a - 1) : c[k] = text[k]
          /\ \A n \in 1 .. Len(c) : IsBlock(c[n]) => n >= a /\ \A k \in a .. n : IsBlock(c[k])
      BY <1>2, <2>2, <3>1, <3>2, <3>3, CandidatePlaces
    <3>6. IsBlock(c[j])
      BY <1>5 DEF IsBlock
    <3>7. j >= a /\ \A k \in a .. j : IsBlock(c[k])
      BY <3>5, <3>6
    <3>8. i >= a /\ i \in Nat /\ a \in Nat /\ j \in Nat /\ a >= 1
      BY <1>0, <1>4, <1>5, <3>4
    <3> DEFINE Before == {k \in 1 .. (a - 1) : Executable(text[k])}
    <3>9. {k \in 1 .. (i - 1) : Executable(text[k])} = Before
      <4>1. ASSUME NEW k \in 1 .. (i - 1), Executable(text[k]) PROVE k \in 1 .. (a - 1)
        <5>1. ~IsBlock(text[k])
          BY <4>1 DEF Executable, IsBlock
        <5>2. k # a
          BY <3>4, <5>1
        <5>3. ~(k > a)
          <6>1. SUFFICES ASSUME k > a PROVE FALSE
            OBVIOUS
          <6>2. a \in DOMAIN text /\ k \in DOMAIN text /\ i \in DOMAIN text /\ a < k /\ k < i
            BY <1>0, <3>4, <3>8, <6>1
          <6>3. QED BY <1>5, <3>3, <3>4, <4>1, <6>2 DEF NothingBetween
        <5>4. QED BY <3>8, <5>2, <5>3
      <4>2. \A k \in 1 .. (a - 1) : k \in 1 .. (i - 1)
        BY <3>8
      <4>3. QED BY <4>1, <4>2
    <3>10. {k \in 1 .. (j - 1) : Executable(c[k])} = Before
      <4>1. ASSUME NEW k \in 1 .. (j - 1), Executable(c[k]) PROVE k \in 1 .. (a - 1)
        <5>1. ~IsBlock(c[k])
          BY <4>1 DEF Executable, IsBlock
        <5>2. ~(k \in a .. j)
          BY <3>7, <5>1
        <5>3. QED BY <3>8, <5>2
      <4>2. \A k \in 1 .. (a - 1) : k \in 1 .. (j - 1)
        BY <3>7, <3>8
      <4>3. \A k \in 1 .. (a - 1) : c[k] = text[k]
        BY <3>5
      <4>4. QED BY <4>1, <4>2, <4>3
    <3>11. QED BY <3>9, <3>10 DEF Ahead
  <2>3. QED BY <2>1, <2>2
<1>6. QED BY <1>0, <1>2, <1>3, <1>4, <1>5

----------------------------------------------------------------------------
(* THE INVARIANT, kept by every edit, Apply and touch.                     *)

(* The files hold what the policy of the last Apply was compiled to on     *)
(* its day.                                                                *)
Represents(a) ==
  /\ IsPolicy(a.policy) /\ Compiles(a.policy) /\ a.day \in 1 .. today
  /\ \A f \in Versions : Blocks(files[f]) = Compiled(a.policy, f, a.day)

(* The inductive invariant: what is stored loads as a policy, and the      *)
(* blocks of the files are those of the last Apply until somebody          *)
(* touches one.                                                            *)
PolicyInv ==
  /\ IsPolicy(stored) \/ IsVersion1(stored)
  /\ files \in [Versions -> Seq(Items)]
  /\ today \in 1 .. LastDay /\ saves \in 0 .. MaxSaves /\ touches \in 0 .. MaxTouches
  /\ applied # Star => Represents(applied)

(* What is accepted is a policy.                                           *)
LEMMA ConfigIsPolicy ==
  ASSUME NEW servers \in Seq(Servers), NEW rules \in Seq(PolicyRules),
         Accepted(Config(servers, rules))
  PROVE  IsPolicy(Config(servers, rules))
BY ConfigFacts DEF IsPolicy

(* A save of servers and rules keeps the invariant.                        *)
LEMMA SaveKeeps ==
  ASSUME PolicyInv, NEW servers, servers \in Seq(Servers), NEW rules, rules \in Seq(PolicyRules),
         Save(Config(servers, rules))
  PROVE  PolicyInv' /\ stored' = Config(servers, rules) /\ Accepted(Config(servers, rules))
<1>1. /\ stored' = Config(servers, rules) /\ Accepted(Config(servers, rules))
      /\ saves < MaxSaves /\ saves' = saves + 1
      /\ UNCHANGED <<files, today, applied, touches>>
  BY DEF Save
<1>2. IsPolicy(stored')
  BY <1>1, ConfigIsPolicy
<1>3. (IsPolicy(stored) \/ IsVersion1(stored))'
  BY <1>2
<1>4. saves' \in 0 .. MaxSaves
  BY <1>1, BoundsAreNatural DEF PolicyInv
<1>5. (applied # Star => Represents(applied))'
  BY <1>1 DEF PolicyInv, Represents
<1>6. QED BY <1>1, <1>3, <1>4, <1>5 DEF PolicyInv

(* What an edit starts from.                                               *)
LEMMA LoadIsPolicy ==
  ASSUME PolicyInv
  PROVE  /\ IsPolicy(Load)
         /\ Load.servers \in Seq(Servers) /\ Load.rules \in Seq(PolicyRules)
         /\ \A i \in DOMAIN Load.servers : i \in 1 .. Len(Load.servers) /\ Load.servers[i] \in Servers
         /\ \A i \in DOMAIN Load.rules : i \in 1 .. Len(Load.rules) /\ Load.rules[i] \in PolicyRules
<1>1. IsPolicy(Load)
  BY LoadFacts DEF PolicyInv
<1>2. Load.servers \in Seq(Servers) /\ Load.rules \in Seq(PolicyRules)
  BY <1>1, PolicyFacts
<1>3. PICK servers, rules : servers = Load.servers /\ rules = Load.rules
  OBVIOUS
<1>4. servers \in Seq(Servers) /\ rules \in Seq(PolicyRules)
  BY <1>2, <1>3
<1>5. /\ \A i \in DOMAIN servers : i \in 1 .. Len(servers) /\ servers[i] \in Servers
      /\ \A i \in DOMAIN rules : i \in 1 .. Len(rules) /\ rules[i] \in PolicyRules
  BY <1>4, ElementAt
<1>6. QED BY <1>1, <1>2, <1>3, <1>5

(* A save of rules keeps the invariant.                                    *)
LEMMA RulesSaved ==
  ASSUME PolicyInv, NEW rules, rules \in Seq(PolicyRules), SaveRules(rules)
  PROVE  PolicyInv'
BY LoadIsPolicy, SaveKeeps DEF SaveRules

(* The edits of the rules keep it: what they save are rules                *)
(* (menu_rules.py, menu_vpn.py).                                           *)
LEMMA RuleEditsKeep ==
  ASSUME PolicyInv, AddRule \/ EditRule \/ AddBan \/ EditBan \/ ToggleRule \/ DeleteRule
  PROVE  PolicyInv'
<1>1. PICK rules, servers : rules = Load.rules /\ servers = Load.servers
  OBVIOUS
<1>2. /\ rules \in Seq(PolicyRules) /\ servers \in Seq(Servers)
      /\ \A i \in DOMAIN rules : i \in 1 .. Len(rules) /\ rules[i] \in PolicyRules
  BY <1>1, LoadIsPolicy
<1>3. CASE AddRule
  <2>1. PICK form \in RuleForms : SaveRules(Append(rules, Standard(form, TRUE, Star)))
    BY <1>1, <1>3 DEF AddRule
  <2>2. Standard(form, TRUE, Star) \in PolicyRules
    BY FormsAreFilledIn
  <2>3. Append(rules, Standard(form, TRUE, Star)) \in Seq(PolicyRules)
    BY <1>2, <2>2, AppendProperties
  <2>4. QED BY <2>1, <2>3, RulesSaved
<1>4. CASE EditRule
  <2>1. PICK i \in DOMAIN rules, form \in RuleForms :
          SaveRules(ReplaceAt(rules, i, Standard(form, rules[i].enabled, rules[i].server)))
    BY <1>1, <1>4 DEF EditRule
  <2>2. Standard(form, TRUE, Star) \in PolicyRules
    BY FormsAreFilledIn
  <2>3. rules[i].enabled \in BOOLEAN /\ rules[i].server \in ServerIds \cup {LegacyId, Star}
    BY <1>2, RuleFacts
  <2>4. Standard(form, rules[i].enabled, rules[i].server) \in PolicyRules
    BY <2>2, <2>3, StandardType
  <2>5. ReplaceAt(rules, i, Standard(form, rules[i].enabled, rules[i].server)) \in Seq(PolicyRules)
    BY <1>2, <2>4, ReplaceFacts
  <2>6. QED BY <2>1, <2>5, RulesSaved
<1>5. CASE AddBan
  <2>1. PICK s \in ToSet(servers), source \in Clients, until \in Dates :
          SaveRules(Append(rules, Ban(source, until, TRUE, s.id)))
    BY <1>1, <1>5 DEF AddBan
  <2>2. s \in Servers
    BY <1>2, ElementAt
  <2>3. Ban(source, until, TRUE, s.id) \in PolicyRules
    BY <2>2, ServerFacts, BanType, FormsAreFilledIn
  <2>4. Append(rules, Ban(source, until, TRUE, s.id)) \in Seq(PolicyRules)
    BY <1>2, <2>3, AppendProperties
  <2>5. QED BY <2>1, <2>4, RulesSaved
<1>6. CASE EditBan
  <2>1. PICK i \in DOMAIN rules, source \in Clients, until \in Dates :
          SaveRules(ReplaceAt(rules, i, Ban(source, until, rules[i].enabled, rules[i].server)))
    BY <1>1, <1>6 DEF EditBan
  <2>2. rules[i].enabled \in BOOLEAN /\ rules[i].server \in ServerIds \cup {LegacyId, Star}
    BY <1>2, RuleFacts
  <2>3. Ban(source, until, rules[i].enabled, rules[i].server) \in PolicyRules
    BY <2>2, BanType, FormsAreFilledIn
  <2>4. ReplaceAt(rules, i, Ban(source, until, rules[i].enabled, rules[i].server)) \in Seq(PolicyRules)
    BY <1>2, <2>3, ReplaceFacts
  <2>5. QED BY <2>1, <2>4, RulesSaved
<1>7. CASE ToggleRule
  <2>1. PICK i \in DOMAIN rules : SaveRules([rules EXCEPT ![i].enabled = ~rules[i].enabled])
    BY <1>1, <1>7 DEF ToggleRule
  <2>2. [rules[i] EXCEPT !.enabled = ~rules[i].enabled] \in PolicyRules
    BY <1>2 DEF PolicyRules
  <2>3. [rules EXCEPT ![i] = [rules[i] EXCEPT !.enabled = ~rules[i].enabled]] \in Seq(PolicyRules)
    <3>1. PICK r : r = [rules[i] EXCEPT !.enabled = ~rules[i].enabled]
      OBVIOUS
    <3>2. [rules EXCEPT ![i] = r] \in Seq(PolicyRules)
      BY <1>2, <2>2, <3>1
    <3>3. QED BY <3>1, <3>2
  <2>4. [rules EXCEPT ![i].enabled = ~rules[i].enabled]
          = [rules EXCEPT ![i] = [rules[i] EXCEPT !.enabled = ~rules[i].enabled]]
    BY Zenon
  <2>5. QED BY <2>1, <2>3, <2>4, RulesSaved
<1>8. CASE DeleteRule
  <2>1. PICK i \in DOMAIN rules : SaveRules(RemoveAt(rules, i))
    BY <1>1, <1>8 DEF DeleteRule
  <2>2. RemoveAt(rules, i) \in Seq(PolicyRules)
    BY <1>2, RemoveFacts
  <2>3. QED BY <2>1, <2>2, RulesSaved
<1>9. QED BY <1>3, <1>4, <1>5, <1>6, <1>7, <1>8

(* A new server gets an id that exists.                                    *)
LEMMA ServerAppended ==
  ASSUME PolicyInv, NEW rules, NEW form \in ServerForms,
         Save(Config(Append(Load.servers, Server(FreshId, form)), rules))
  PROVE  /\ FreshId \in ServerIds
         /\ Append(Load.servers, Server(FreshId, form)) \in Seq(Servers)
<1>1. PICK servers : servers = Load.servers
  OBVIOUS
<1>2. servers \in Seq(Servers)
  BY <1>1, LoadIsPolicy
<1>3. Len(Append(servers, Server(FreshId, form))) <= MaxServers
  BY <1>1, ConfigFacts DEF Save
<1>4. Len(servers) < MaxServers
  <2>1. PICK x : x = Server(FreshId, form)
    OBVIOUS
  <2>2. Len(Append(servers, x)) <= MaxServers
    BY <1>3, <2>1
  <2>3. Len(servers) \in Nat /\ Len(Append(servers, x)) = Len(servers) + 1
    BY <1>2
  <2>4. QED BY <2>2, <2>3, BoundsAreNatural
<1>5. FreshId \in ServerIds
  BY <1>1, <1>4, LoadIsPolicy, FreshIdExists
<1>6. Server(FreshId, form) \in Servers
  BY <1>5, ServerType
<1>7. Append(servers, Server(FreshId, form)) \in Seq(Servers)
  BY <1>2, <1>6, AppendProperties
<1>8. QED BY <1>1, <1>5, <1>7

(* The rules that follow a server are rules.                               *)
LEMMA FollowersType ==
  ASSUME NEW rules \in Seq(PolicyRules), NEW s \in Servers
  PROVE  [i \in DOMAIN rules |-> Follows(rules[i], s)] \in Seq(PolicyRules)
<1>1. \A i \in 1 .. Len(rules) : Follows(rules[i], s) \in PolicyRules
  BY ElementAt, FollowsType
<1>2. Len(rules) \in Nat /\ DOMAIN rules = 1 .. Len(rules)
  OBVIOUS
<1>3. [i \in 1 .. Len(rules) |-> Follows(rules[i], s)] \in Seq(PolicyRules)
  BY <1>1, <1>2, IsASeq
<1>4. QED BY <1>2, <1>3

(* The edits of the servers and the import keep the invariant.             *)
LEMMA ServerEditsKeep ==
  ASSUME PolicyInv, AddServer \/ EditServer \/ DeleteServer \/ Import
  PROVE  PolicyInv'
<1>1. PICK rules, servers : rules = Load.rules /\ servers = Load.servers
  OBVIOUS
<1>2. /\ rules \in Seq(PolicyRules) /\ servers \in Seq(Servers)
      /\ \A i \in DOMAIN servers : i \in 1 .. Len(servers) /\ servers[i] \in Servers
  BY <1>1, LoadIsPolicy
<1>3. CASE AddServer
  <2>1. PICK form \in ServerForms : Save(Config(Append(Load.servers, Server(FreshId, form)), rules))
    BY <1>1, <1>3 DEF AddServer
  <2>2. Append(Load.servers, Server(FreshId, form)) \in Seq(Servers)
    BY <2>1, ServerAppended
  <2>3. QED BY <1>2, <2>1, <2>2, SaveKeeps
<1>4. CASE EditServer
  <2>1. PICK k \in DOMAIN servers, form \in ServerForms :
          Save(Config(ReplaceAt(servers, k, Server(servers[k].id, form)),
                      [i \in DOMAIN rules |-> Follows(rules[i], Server(servers[k].id, form))]))
    BY <1>1, <1>4 DEF EditServer
  <2>2. Server(servers[k].id, form) \in Servers
    BY <1>2, ServerFacts, ServerType
  <2>3. ReplaceAt(servers, k, Server(servers[k].id, form)) \in Seq(Servers)
    BY <1>2, <2>2, ReplaceFacts
  <2>4. [i \in DOMAIN rules |-> Follows(rules[i], Server(servers[k].id, form))] \in Seq(PolicyRules)
    BY <1>2, <2>2, FollowersType
  <2>5. QED BY <2>1, <2>3, <2>4, SaveKeeps
<1>5. CASE DeleteServer
  <2>1. PICK k \in DOMAIN servers : Save(Config(RemoveAt(servers, k), rules))
    BY <1>1, <1>5 DEF DeleteServer
  <2>2. RemoveAt(servers, k) \in Seq(Servers)
    BY <1>2, RemoveFacts
  <2>3. QED BY <1>2, <2>1, <2>2, SaveKeeps
<1>6. CASE Import
  <2>1. PICK legacy \in Legacies, adopted \in {Adopted(files[4]), <<>>} :
          Save(Config(Append(Load.servers, Server(FreshId, legacy.server)),
                      rules \o Imported(legacy, FreshId) \o adopted))
    BY <1>1, <1>6, Zenon DEF Import
  <2>2. legacy.server \in ServerForms
    BY FormsAreFilledIn
  <2>3. FreshId \in ServerIds /\ Append(Load.servers, Server(FreshId, legacy.server)) \in Seq(Servers)
    BY <2>1, <2>2, ServerAppended
  <2>4. Imported(legacy, FreshId) \in Seq(PolicyRules)
    BY <2>3, ImportedType
  <2>5. adopted \in Seq(PolicyRules)
    <3>1. files[4] \in Seq(Items)
      BY DEF PolicyInv, Versions
    <3>2. Adopted(files[4]) \in Seq(PolicyRules)
      BY <3>1, AdoptedType
    <3>3. <<>> \in Seq(PolicyRules)
      OBVIOUS
    <3>4. QED BY <2>1, <3>2, <3>3
  <2>6. rules \o Imported(legacy, FreshId) \o adopted \in Seq(PolicyRules)
    <3>1. PICK im : im = Imported(legacy, FreshId)
      OBVIOUS
    <3>2. rules \in Seq(PolicyRules) /\ im \in Seq(PolicyRules) /\ adopted \in Seq(PolicyRules)
      BY <1>2, <2>4, <2>5, <3>1
    <3>3. rules \o im \o adopted \in Seq(PolicyRules)
      BY <3>2
    <3>4. QED BY <3>1, <3>3
  <2>7. QED BY <2>1, <2>3, <2>6, SaveKeeps
<1>7. QED BY <1>3, <1>4, <1>5, <1>6

(* An Apply keeps it: both files hold the blocks the loaded policy         *)
(* compiles to.                                                            *)
LEMMA ApplyKeeps ==
  ASSUME PolicyInv, ApplyPolicy
  PROVE  PolicyInv' /\ applied' = [policy |-> Load, day |-> today]
<1>1. PICK c : c = Load
  OBVIOUS
<1>2. IsPolicy(c) /\ Compiles(c)
  BY <1>1, LoadIsPolicy DEF ApplyPolicy
<1>3. /\ \A f \in Versions : Buildable(files[f], f, Compiled(c, f, today))
      /\ files' = [f \in Versions |-> CandidateFile(files[f], Compiled(c, f, today))]
      /\ applied' = [policy |-> c, day |-> today]
      /\ UNCHANGED <<stored, today, saves, touches>>
  BY <1>1 DEF ApplyPolicy
<1>4. ASSUME NEW f \in Versions
      PROVE  files'[f] \in Seq(Items) /\ Blocks(files'[f]) = Compiled(c, f, today)
  <2>1. PICK text, desired : text = files[f] /\ desired = Compiled(c, f, today)
    OBVIOUS
  <2>2. text \in Seq(Items)
    BY <2>1 DEF PolicyInv
  <2>3. desired \in Seq(Items) /\ ToSet(desired) \subseteq BlockItems
    BY <1>2, <2>1, CompiledFacts
  <2>4. Blocks(text) = desired \/ Anchor(text) # 0
    BY <1>3, <2>1 DEF Buildable
  <2>5. CandidateFile(text, desired) \in Seq(Items) /\ Blocks(CandidateFile(text, desired)) = desired
    BY <2>2, <2>3, <2>4, CandidateKeeps
  <2>6. QED BY <1>3, <2>1, <2>5
<1>5. files' \in [Versions -> Seq(Items)]
  BY <1>3, <1>4
<1>6. Represents(applied)'
  <2>1. today' \in 1 .. today'
    BY <1>3, BoundsAreNatural DEF PolicyInv
  <2>2. QED BY <1>2, <1>3, <1>4, <2>1 DEF Represents
<1>7. QED BY <1>1, <1>3, <1>5, <1>6 DEF PolicyInv

(* A touched file is a file, and the other one is not touched.             *)
LEMMA TouchedType ==
  ASSUME PolicyInv, NEW f \in Versions, NEW text, text \in Seq(Items), Touch(f, text)
  PROVE  /\ files' \in [Versions -> Seq(Items)] /\ touches' \in 0 .. MaxTouches
         /\ files'[f] = text /\ \A g \in Versions : g # f => files'[g] = files[g]
         /\ UNCHANGED <<stored, today, saves>>
<1>1. /\ touches < MaxTouches /\ touches' = touches + 1
      /\ files' = [files EXCEPT ![f] = text]
      /\ UNCHANGED <<stored, today, saves>>
  BY DEF Touch
<1>2. touches' \in 0 .. MaxTouches
  BY <1>1, BoundsAreNatural DEF PolicyInv
<1>3. QED BY <1>1, <1>2 DEF PolicyInv

(* A rule of other people and half of a marker are lines, not blocks.      *)
LEMMA LinesOfOthers ==
  /\ Line("rule") \in Items /\ Line("marker") \in Items
  /\ Line("rule") \notin BlockItems
<1>1. <<>> \in Seq(CompiledActions)
  OBVIOUS
<1>2. QED BY <1>1 DEF Line, Items, BlockItems, IsBlock

(* The calendar and the edits by hand keep it: a line that is added        *)
(* leaves the blocks as they are, whoever touches a block ends what the    *)
(* last Apply promised.                                                    *)
LEMMA OtherEditsKeep ==
  ASSUME PolicyInv, NextDay \/ AddLine \/ RemoveBlock \/ BreakMarker
  PROVE  PolicyInv'
<1>1. \A f \in Versions : files[f] \in Seq(Items)
  BY DEF PolicyInv
<1>2. CASE NextDay
  <2>1. /\ today < LastDay /\ today' = today + 1
        /\ UNCHANGED <<stored, files, applied, saves, touches>>
    BY <1>2 DEF NextDay
  <2>2. today' \in 1 .. LastDay
    BY <2>1, BoundsAreNatural DEF PolicyInv
  <2>3. ASSUME applied # Star PROVE Represents(applied)'
    <3>1. Represents(applied) /\ today \in 1 .. LastDay
      BY <2>3 DEF PolicyInv
    <3>2. applied.day \in 1 .. today'
      BY <2>1, <3>1, BoundsAreNatural DEF Represents
    <3>3. QED BY <2>1, <3>1, <3>2 DEF Represents
  <2>4. QED BY <2>1, <2>2, <2>3 DEF PolicyInv
<1>3. CASE AddLine
  <2>1. PICK f \in Versions : \E i \in DOMAIN files[f] :
          Touch(f, InsertAt(files[f], i, Line("rule"))) /\ UNCHANGED applied
    BY <1>3 DEF AddLine
  <2>2. PICK i \in DOMAIN files[f] :
          Touch(f, InsertAt(files[f], i, Line("rule"))) /\ UNCHANGED applied
    BY <2>1
  <2>3. PICK text : text = files[f]
    OBVIOUS
  <2>4. text \in Seq(Items) /\ i \in 1 .. Len(text)
    BY <1>1, <2>3, ElementAt
  <2>5. /\ InsertAt(text, i, Line("rule")) \in Seq(Items)
        /\ Kept(InsertAt(text, i, Line("rule")), BlockItems) = Kept(text, BlockItems)
    BY <2>4, LinesOfOthers, InsertKeeps
  <2>6. PICK new : new = InsertAt(text, i, Line("rule"))
    OBVIOUS
  <2>7. new \in Seq(Items) /\ Blocks(new) = Blocks(text)
    BY <2>4, <2>5, <2>6, FileParts
  <2>8. Touch(f, new) /\ UNCHANGED applied
    BY <2>2, <2>3, <2>6
  <2>9. /\ files' \in [Versions -> Seq(Items)] /\ touches' \in 0 .. MaxTouches
        /\ files'[f] = new /\ \A g \in Versions : g # f => files'[g] = files[g]
        /\ UNCHANGED <<stored, today, saves>>
    BY <2>7, <2>8, TouchedType
  <2>10. \A g \in Versions : Blocks(files'[g]) = Blocks(files[g])
    BY <2>3, <2>7, <2>9
  <2>11. ASSUME applied # Star PROVE Represents(applied)'
    BY <2>8, <2>9, <2>10, <2>11 DEF PolicyInv, Represents
  <2>12. QED BY <2>8, <2>9, <2>11 DEF PolicyInv
<1>4. CASE RemoveBlock
  <2>1. PICK f \in Versions : \E i \in DOMAIN files[f] :
          Touch(f, RemoveAt(files[f], i)) /\ applied' = Star
    BY <1>4 DEF RemoveBlock
  <2>2. PICK i \in DOMAIN files[f] : Touch(f, RemoveAt(files[f], i)) /\ applied' = Star
    BY <2>1
  <2>3. RemoveAt(files[f], i) \in Seq(Items)
    BY <1>1, ElementAt, RemoveFacts
  <2>4. /\ files' \in [Versions -> Seq(Items)] /\ touches' \in 0 .. MaxTouches
        /\ UNCHANGED <<stored, today, saves>>
    BY <2>2, <2>3, TouchedType
  <2>5. QED BY <2>2, <2>4 DEF PolicyInv
<1>5. CASE BreakMarker
  <2>1. PICK f \in Versions : \E i \in DOMAIN files[f] :
          Touch(f, ReplaceAt(files[f], i, Line("marker"))) /\ applied' = Star
    BY <1>5 DEF BreakMarker
  <2>2. PICK i \in DOMAIN files[f] : Touch(f, ReplaceAt(files[f], i, Line("marker"))) /\ applied' = Star
    BY <2>1
  <2>3. ReplaceAt(files[f], i, Line("marker")) \in Seq(Items)
    <3>1. PICK text : text = files[f]
      OBVIOUS
    <3>2. text \in Seq(Items) /\ i \in 1 .. Len(text)
      BY <1>1, <3>1, ElementAt
    <3>3. ReplaceAt(text, i, Line("marker")) \in Seq(Items)
      BY <3>2, LinesOfOthers, ReplaceFacts
    <3>4. QED BY <3>1, <3>3
  <2>4. /\ files' \in [Versions -> Seq(Items)] /\ touches' \in 0 .. MaxTouches
        /\ UNCHANGED <<stored, today, saves>>
    BY <2>2, <2>3, TouchedType
  <2>5. QED BY <2>2, <2>4 DEF PolicyInv
<1>6. QED BY <1>2, <1>3, <1>4, <1>5

(* The invariant holds at the start.                                       *)
LEMMA PolicyInvInitially == PolicyInit => PolicyInv
<1> SUFFICES ASSUME PolicyInit PROVE PolicyInv
  OBVIOUS
<1>1. IsPolicy(stored) \/ IsVersion1(stored)
  BY StartsAreAccepted DEF PolicyInit
<1>2. files \in [Versions -> Seq(Items)]
  BY StartFilesAreRead DEF PolicyInit
<1>3. today \in 1 .. LastDay /\ saves \in 0 .. MaxSaves /\ touches \in 0 .. MaxTouches
  BY BoundsAreNatural DEF PolicyInit
<1>4. QED BY <1>1, <1>2, <1>3 DEF PolicyInit, PolicyInv

(* Every step keeps it.                                                    *)
LEMMA PolicyInvKept == PolicyInv /\ [PolicyNext]_policyVars => PolicyInv'
<1> SUFFICES ASSUME PolicyInv, [PolicyNext]_policyVars PROVE PolicyInv'
  OBVIOUS
<1>1. CASE Edit
  BY <1>1, RuleEditsKeep, ServerEditsKeep DEF Edit
<1>2. CASE ApplyPolicy
  BY <1>2, ApplyKeeps
<1>3. CASE NextDay \/ AddLine \/ RemoveBlock \/ BreakMarker
  BY <1>3, OtherEditsKeep
<1>4. CASE UNCHANGED policyVars
  BY <1>4 DEF policyVars, PolicyInv, Represents
<1>5. QED BY <1>1, <1>2, <1>3, <1>4 DEF PolicyNext

(* The inductive invariant of the policy model.                            *)
THEOREM PolicyInvariant == PolicySpec => []PolicyInv
BY PolicyInvInitially, PolicyInvKept, PTL DEF PolicySpec

(* In a policy the labels and the ids of the servers are distinct and      *)
(* every link leads to a server.                                           *)
LEMMA PolicyIsTyped ==
  ASSUME NEW c, IsPolicy(c)
  PROVE  /\ Cardinality({s.label : s \in ToSet(c.servers)}) = Len(c.servers)
         /\ Cardinality({s.id : s \in ToSet(c.servers)}) = Len(c.servers)
         /\ {r.server : r \in ToSet(c.rules)} \subseteq {s.id : s \in ToSet(c.servers)} \cup {Star}
<1>1. PICK servers : servers = c.servers
  OBVIOUS
<1>2. servers \in Seq(Servers) /\ DOMAIN servers = 1 .. Len(servers) /\ Len(servers) \in Nat
  BY <1>1, PolicyFacts, ElementAt
<1>3. \A i, j \in 1 .. Len(servers) :
        servers[i].label = servers[j].label \/ servers[i].id = servers[j].id => i = j
  BY <1>1, <1>2 DEF IsPolicy, Accepted
<1>4. Cardinality({s.label : s \in ToSet(servers)}) = Len(servers)
  <2> DEFINE g == [i \in 1 .. Len(servers) |-> servers[i].label]
  <2>1. DOMAIN g = 1 .. Len(servers) /\ \A i, j \in 1 .. Len(servers) : g[i] = g[j] => i = j
    BY <1>3
  <2>2. {s.label : s \in ToSet(servers)} = {g[i] : i \in 1 .. Len(servers)}
    BY <1>2 DEF ToSet
  <2> HIDE DEF g
  <2>3. Cardinality({g[i] : i \in 1 .. Len(servers)}) = Len(servers)
    BY <1>2, <2>1, DistinctCount
  <2>4. QED BY <2>2, <2>3
<1>5. Cardinality({s.id : s \in ToSet(servers)}) = Len(servers)
  <2> DEFINE g == [i \in 1 .. Len(servers) |-> servers[i].id]
  <2>1. DOMAIN g = 1 .. Len(servers) /\ \A i, j \in 1 .. Len(servers) : g[i] = g[j] => i = j
    BY <1>3
  <2>2. {s.id : s \in ToSet(servers)} = {g[i] : i \in 1 .. Len(servers)}
    BY <1>2 DEF ToSet
  <2> HIDE DEF g
  <2>3. Cardinality({g[i] : i \in 1 .. Len(servers)}) = Len(servers)
    BY <1>2, <2>1, DistinctCount
  <2>4. QED BY <2>2, <2>3
<1>6. {r.server : r \in ToSet(c.rules)} \subseteq {s.id : s \in ToSet(c.servers)} \cup {Star}
  BY PolicyFacts
<1>7. QED BY <1>1, <1>4, <1>5, <1>6

(* Whatever is edited, imported or migrated, what is stored is a policy    *)
(* with distinct servers whose links lead to one of them                   *)
(* (normalize_config, replace_vpn_server, import_legacy).                  *)
THEOREM PolicyIsWellFormed == PolicySpec => []PolicyTypeOK
<1>1. PolicyInv => PolicyTypeOK
  <2> SUFFICES ASSUME PolicyInv PROVE PolicyTypeOK
    OBVIOUS
  <2>1. CASE IsPolicy(stored)
    BY <2>1, PolicyFacts, PolicyIsTyped DEF PolicyInv, Represents, PolicyTypeOK
  <2>2. CASE IsVersion1(stored)
    BY <2>2 DEF IsVersion1, PolicyInv, Represents, PolicyTypeOK
  <2>3. QED BY <2>1, <2>2 DEF PolicyInv
<1>2. QED BY <1>1, PolicyInvariant, PTL

(* An Apply keeps the lines of other people, and none of their rules       *)
(* changes sides with a managed block (build_candidate).                   *)
THEOREM OthersKeepTheirSide == PolicySpec => RulesKeepTheirSide
<1> DEFINE Kept1(f) ==
      /\ Lines(files'[f]) = Lines(files[f])
      /\ \A i \in DOMAIN files[f], j \in DOMAIN files'[f] :
           IsBlock(files[f][i]) /\ files'[f][j].kind = files[f][i].kind
             /\ files'[f][j].label = files[f][i].label
           => Ahead(files'[f], j) = Ahead(files[f], i)
<1>1. ASSUME PolicyInv, ApplyPolicy, NEW f \in Versions PROVE Kept1(f)
  <2>1. PICK c : c = Load
    OBVIOUS
  <2>2. IsPolicy(c) /\ Compiles(c)
    BY <1>1, <2>1, LoadIsPolicy DEF ApplyPolicy
  <2>3. /\ Buildable(files[f], f, Compiled(c, f, today))
        /\ files' = [g \in Versions |-> CandidateFile(files[g], Compiled(c, g, today))]
    BY <1>1, <2>1 DEF ApplyPolicy
  <2>4. PICK text, desired : text = files[f] /\ desired = Compiled(c, f, today)
    OBVIOUS
  <2>5. text \in Seq(Items) /\ files'[f] = CandidateFile(text, desired)
    BY <1>1, <2>3, <2>4 DEF PolicyInv
  <2>6. desired \in Seq(Items) /\ ToSet(desired) \subseteq BlockItems
    BY <2>2, <2>4, CompiledFacts
  <2>7. Buildable(text, f, desired)
    BY <2>3, <2>4
  <2>8. /\ Lines(CandidateFile(text, desired)) = Lines(text)
        /\ \A i \in DOMAIN text, j \in DOMAIN CandidateFile(text, desired) :
             IsBlock(text[i]) /\ CandidateFile(text, desired)[j].kind = text[i].kind
               /\ CandidateFile(text, desired)[j].label = text[i].label
             => Ahead(CandidateFile(text, desired), j) = Ahead(text, i)
    BY <2>5, <2>6, <2>7, SidesKept
  <2>9. QED BY <2>4, <2>5, <2>8
<1> DEFINE Sides == touches' = touches /\ files' # files => \A f \in Versions : Kept1(f)
<1>2. ASSUME PolicyInv, [PolicyNext]_policyVars PROVE Sides
  <2>1. CASE ApplyPolicy
    BY <1>1, <1>2, <2>1
  <2>2. CASE Edit \/ NextDay
    <3>1. files' = files
      BY <2>2 DEF Edit, NextDay, AddRule, EditRule, AddBan, EditBan, ToggleRule, DeleteRule,
                  AddServer, EditServer, DeleteServer, Import, SaveRules, Save
    <3>2. QED BY <3>1
  <2>3. CASE AddLine \/ RemoveBlock \/ BreakMarker
    <3>1. touches' = touches + 1 /\ touches \in Nat
      BY <1>2, <2>3 DEF AddLine, RemoveBlock, BreakMarker, Touch, PolicyInv
    <3>2. touches' # touches
      BY <3>1
    <3>3. QED BY <3>2
  <2>4. CASE UNCHANGED policyVars
    BY <2>4 DEF policyVars
  <2>5. QED BY <1>2, <2>1, <2>2, <2>3, <2>4 DEF PolicyNext
<1>3. PolicyInv /\ [PolicyNext]_policyVars => [Sides]_policyVars
  BY <1>2
<1>4. QED BY <1>3, PolicyInvariant, PTL DEF PolicySpec, RulesKeepTheirSide

(* An isolation that follows its server isolates on it again; other        *)
(* rules do not change.                                                    *)
LEMMA FollowedStaysIsolated ==
  ASSUME NEW r \in PolicyRules, NEW s \in Servers, NEW t, Isolates(r, t)
  PROVE  /\ Follows(r, s).server = r.server
         /\ r.server = s.id => Isolates(Follows(r, s), s)
         /\ r.server # s.id => Follows(r, s) = r
<1>1. /\ r.kind = "standard" /\ r.direction = "forward" /\ r.action = "deny"
      /\ r.protocol = "any" /\ r.invert
  BY DEF Isolates
<1>2. r.server # s.id => Follows(r, s) = r
  BY DEF Follows
<1>3. ASSUME r.server = s.id
      PROVE  Isolates(Follows(r, s), s) /\ Follows(r, s).server = r.server
  <2>1. Follows(r, s) = [r EXCEPT !.destination = s.ip, !.interface = s.interface]
    BY <1>1, <1>3 DEF Follows
  <2>2. PICK q : q = Follows(r, s)
    OBVIOUS
  <2>3. /\ q.kind = r.kind /\ q.direction = r.direction /\ q.action = r.action
        /\ q.protocol = r.protocol /\ q.invert = r.invert /\ q.server = r.server
        /\ q.destination = s.ip /\ q.interface = s.interface
    BY <2>1, <2>2 DEF PolicyRules
  <2>4. s.ip # Star /\ First[s.ip] = s.ip
    BY ServerFacts
  <2>5. Isolates(q, s)
    BY <1>1, <2>3, <2>4 DEF Isolates
  <2>6. QED BY <2>2, <2>3, <2>5
<1>4. QED BY <1>2, <1>3

(* When a server is edited, each isolation linked to a server is one       *)
(* afterwards.                                                             *)
LEMMA IsolationFollows ==
  ASSUME PolicyInv, EditServer, NEW i \in DOMAIN Load.rules, Load.rules[i].server # Star,
         Isolates(Load.rules[i], ServerOf(Load, Load.rules[i]))
  PROVE  Isolates(stored'.rules[i], ServerOf(stored', stored'.rules[i]))
<1>1. PICK c, rules, servers : c = Load /\ rules = c.rules /\ servers = c.servers
  OBVIOUS
<1>2. /\ IsPolicy(c) /\ rules \in Seq(PolicyRules) /\ servers \in Seq(Servers)
      /\ i \in 1 .. Len(rules) /\ i \in DOMAIN rules
      /\ \A k \in DOMAIN servers : k \in 1 .. Len(servers) /\ servers[k] \in Servers
  BY <1>1, LoadIsPolicy
<1>3. PICK k \in DOMAIN servers, form \in ServerForms :
        Save(Config(ReplaceAt(servers, k, Server(servers[k].id, form)),
                    [j \in DOMAIN rules |-> Follows(rules[j], Server(servers[k].id, form))]))
  BY <1>1 DEF EditServer
<1>4. PICK s : s = Server(servers[k].id, form)
  OBVIOUS
<1>5. s \in Servers /\ s.id = servers[k].id
  BY <1>2, <1>4, ServerFacts, ServerType DEF Server
<1>6. PICK changed, followed : /\ changed = ReplaceAt(servers, k, s)
                               /\ followed = [j \in DOMAIN rules |-> Follows(rules[j], s)]
  OBVIOUS
<1>7. /\ changed \in Seq(Servers) /\ Len(changed) = Len(servers)
      /\ \A j \in 1 .. Len(servers) : changed[j] = IF j = k THEN s ELSE servers[j]
  <2>1. k \in 1 .. Len(servers) /\ servers \in Seq(Servers) /\ s \in Servers
    BY <1>2, <1>5
  <2>2. /\ ReplaceAt(servers, k, s) \in Seq(Servers)
        /\ Len(ReplaceAt(servers, k, s)) = Len(servers)
    BY <2>1, ReplaceFacts
  <2>3. \A j \in 1 .. Len(servers) : changed[j] = IF j = k THEN s ELSE servers[j]
    BY <1>6, <2>1 DEF ReplaceAt
  <2>4. QED BY <1>6, <2>2, <2>3
<1>8. followed \in Seq(PolicyRules) /\ followed[i] = Follows(rules[i], s) /\ i \in DOMAIN followed
  BY <1>2, <1>5, <1>6, FollowersType
<1>9. PICK d : d = Config(changed, followed)
  OBVIOUS
<1>10. d.servers = changed /\ d.rules = followed
  BY <1>9, ConfigFacts
<1>11. stored' = d /\ IsPolicy(d)
  BY <1>3, <1>4, <1>6, <1>7, <1>8, <1>9, ConfigIsPolicy DEF Save
<1>12. PICK r : r = rules[i]
  OBVIOUS
<1>13. r \in PolicyRules /\ r \in ToSet(rules)
  BY <1>2, <1>12, ElementAt
<1>14. PICK t : t = ServerOf(c, r)
  OBVIOUS
<1>15. Isolates(r, t) /\ r.server # Star
  BY <1>1, <1>12, <1>14
<1>16. t \in ToSet(servers) /\ t.id = r.server
  BY <1>1, <1>2, <1>13, <1>14, <1>15, ServerOfFacts
<1>17. PICK q : q = followed[i]
  OBVIOUS
<1>18. q = Follows(r, s) /\ q.server = r.server
  BY <1>5, <1>8, <1>12, <1>13, <1>15, <1>17, FollowedStaysIsolated
<1>19. q \in ToSet(d.rules) /\ q.server # Star
  BY <1>8, <1>10, <1>15, <1>17, <1>18, ElementAt
<1>20. \A x \in ToSet(changed) : x.id = q.server => x = ServerOf(d, q)
  BY <1>10, <1>11, <1>19, ServerOfFacts
<1>21. CASE r.server = s.id
  <2>1. Isolates(q, s)
    BY <1>5, <1>13, <1>15, <1>18, <1>21, FollowedStaysIsolated
  <2>2. s \in ToSet(changed)
    <3>1. changed[k] = s /\ k \in 1 .. Len(changed)
      BY <1>2, <1>7
    <3>2. QED BY <1>7, <3>1, ElementAt
  <2>3. s = ServerOf(d, q)
    BY <1>18, <1>20, <1>21, <2>2
  <2>4. QED BY <1>10, <1>11, <1>17, <2>1, <2>3
<1>22. CASE r.server # s.id
  <2>1. q = r
    BY <1>5, <1>13, <1>15, <1>18, <1>22, FollowedStaysIsolated
  <2>2. t \in ToSet(changed)
    <3>1. PICK j \in 1 .. Len(servers) : servers[j] = t
      BY <1>2, <1>16, ElementAt
    <3>2. j # k
      BY <1>5, <1>16, <1>22, <3>1
    <3>3. changed[j] = t /\ j \in 1 .. Len(changed)
      BY <1>7, <3>1, <3>2
    <3>4. QED BY <1>7, <3>3, ElementAt
  <2>3. t = ServerOf(d, q)
    BY <1>16, <1>18, <1>20, <2>2
  <2>4. QED BY <1>10, <1>11, <1>15, <1>17, <2>1, <2>3
<1>23. QED BY <1>21, <1>22

(* What was saved is what is loaded next.                                  *)
LEMMA SavedIsLoaded ==
  ASSUME NEW servers, NEW rules, Save(Config(servers, rules))
  PROVE  stored' = Config(servers, rules) /\ Load' = stored'
         /\ Load'.servers = servers /\ Load'.rules = rules
<1>1. stored' = Config(servers, rules)
  BY DEF Save
<1>2. stored'.version = 2
  BY <1>1, ConfigFacts
<1>3. Load' = stored'
  BY <1>2 DEF Load
<1>4. QED BY <1>1, <1>3, ConfigFacts

(* Only the edit of a server changes the servers and leaves their          *)
(* number.                                                                 *)
LEMMA OnlyEditServer ==
  ASSUME PolicyInv, [PolicyNext]_policyVars, Load.servers # Load'.servers,
         Len(Load.servers) = Len(Load'.servers)
  PROVE  EditServer /\ Load' = stored'
<1>1. PICK servers : servers = Load.servers
  OBVIOUS
<1>2. servers \in Seq(Servers) /\ Len(servers) \in Nat
  <2>1. servers \in Seq(Servers)
    BY <1>1, LoadIsPolicy
  <2>2. QED BY <2>1, ElementAt
<1>3. ~(AddRule \/ EditRule \/ AddBan \/ EditBan \/ ToggleRule \/ DeleteRule)
  <2>1. ASSUME NEW rules, SaveRules(rules) PROVE FALSE
    BY <2>1, SavedIsLoaded DEF SaveRules
  <2>2. QED BY <2>1 DEF AddRule, EditRule, AddBan, EditBan, ToggleRule, DeleteRule
<1>4. ~(AddServer \/ Import)
  <2>1. ASSUME NEW form \in ServerForms, NEW rules,
               Save(Config(Append(servers, Server(FreshId, form)), rules))
        PROVE  FALSE
    <3>1. PICK s : s = Server(FreshId, form)
      OBVIOUS
    <3>2. Load'.servers = Append(servers, s)
      BY <2>1, <3>1, SavedIsLoaded
    <3>3. Append(servers, Server(FreshId, form)) \in Seq(Servers)
      BY <1>1, <2>1, ServerAppended
    <3>4. Len(Append(servers, s)) = Len(servers) + 1
      BY <1>2, <3>1
    <3>5. QED BY <1>1, <1>2, <3>2, <3>4
  <2>2. \A legacy \in Legacies : legacy.server \in ServerForms
    BY FormsAreFilledIn
  <2>3. QED BY <1>1, <2>1, <2>2 DEF AddServer, Import
<1>5. ~DeleteServer
  <2>1. ASSUME NEW k \in DOMAIN servers, Save(Config(RemoveAt(servers, k), Load.rules)) PROVE FALSE
    <3>1. Load'.servers = RemoveAt(servers, k)
      BY <2>1, SavedIsLoaded
    <3>2. Len(RemoveAt(servers, k)) = Len(servers) - 1
      BY <1>2, ElementAt, RemoveFacts
    <3>3. QED BY <1>1, <1>2, <3>1, <3>2
  <2>2. QED BY <1>1, <2>1 DEF DeleteServer
<1>6. ~(ApplyPolicy \/ NextDay \/ AddLine \/ RemoveBlock \/ BreakMarker \/ UNCHANGED policyVars)
  <2>1. ApplyPolicy \/ NextDay \/ AddLine \/ RemoveBlock \/ BreakMarker \/ UNCHANGED policyVars
          => stored' = stored
    BY DEF ApplyPolicy, NextDay, AddLine, RemoveBlock, BreakMarker, Touch, policyVars
  <2>2. stored' = stored => Load' = Load
    BY DEF Load, Migrated, Config, Isolates
  <2>3. QED BY <2>1, <2>2
<1>7. EditServer
  BY <1>3, <1>4, <1>5, <1>6 DEF PolicyNext, Edit
<1>8. Load' = stored'
  BY <1>7, SavedIsLoaded DEF EditServer
<1>9. QED BY <1>7, <1>8

(* When a server gets another address or interface, the clients isolated   *)
(* on it stay isolated on it (replace_vpn_server).                         *)
THEOREM IsolationFollowsTheServer == PolicySpec => IsolationFollowsServer
<1> DEFINE Followed ==
      LET old == Load
          new == Load'
      IN old.servers # new.servers /\ Len(old.servers) = Len(new.servers) =>
           \A i \in DOMAIN old.rules :
             old.rules[i].server # Star /\ Isolates(old.rules[i], ServerOf(old, old.rules[i]))
             => Isolates(new.rules[i], ServerOf(new, new.rules[i]))
<1>1. ASSUME PolicyInv, [PolicyNext]_policyVars PROVE Followed
  BY <1>1, OnlyEditServer, IsolationFollows
<1>2. PolicyInv /\ [PolicyNext]_policyVars => [Followed]_policyVars
  BY <1>1
<1>3. QED BY <1>2, PolicyInvariant, PTL DEF PolicySpec, IsolationFollowsServer

----------------------------------------------------------------------------
(* WHAT A PACKET MEETS. A first hit in the blocks, a first rule of the     *)
(* policy.                                                                 *)

(* An action decides on a packet.                                          *)
HitBy(x, p) == x.chain = p.chain /\ Matches(x, p) /\ x.port \in {Star, p.port}

(* The actions that decide on it.                                          *)
Hit(p) == {x \in CompiledActions : HitBy(x, p)}

(* The verdict on a packet is the target of the first action that hits     *)
(* it.                                                                     *)
LEMMA VerdictFacts ==
  ASSUME NEW actions, actions \in Seq(CompiledActions), NEW p
  PROVE  /\ ToSet(actions) \cap Hit(p) = {} => Verdict(actions, p) = "pass"
         /\ \A x : IsFirst(actions, Hit(p), x) => Verdict(actions, p) = x.target
<1>1. Len(actions) \in Nat
  BY ElementAt
<1> DEFINE I == {i \in 1 .. Len(actions) : HitBy(actions[i], p)}
<1>2. \A i \in 1 .. Len(actions) : HitBy(actions[i], p) <=> actions[i] \in Hit(p)
  BY ElementAt DEF Hit
<1>3. (\E x \in ToSet(actions) : HitBy(x, p)) <=> I # {}
  BY ElementAt
<1>4. Verdict(actions, p) = IF I # {} THEN actions[Min(I)].target ELSE "pass"
  <2>1. Verdict(actions, p) = IF \E x \in ToSet(actions) : HitBy(x, p)
                                THEN actions[SelectInSeq(actions, LAMBDA x : HitBy(x, p))].target
                                ELSE "pass"
    BY DEF Verdict, HitBy
  <2>2. I # {} => SelectInSeq(actions, LAMBDA x : HitBy(x, p)) = Min(I)
    BY DEF SelectInSeq
  <2>3. QED BY <1>3, <2>1, <2>2
<1>5. ASSUME ToSet(actions) \cap Hit(p) = {} PROVE I = {}
  BY <1>2, <1>5, ElementAt
<1>6. ASSUME NEW x, IsFirst(actions, Hit(p), x) PROVE I # {} /\ actions[Min(I)] = x
  <2>1. PICK k \in 1 .. Len(actions) :
          actions[k] = x /\ x \in Hit(p) /\ \A j \in 1 .. (k - 1) : actions[j] \notin Hit(p)
    BY <1>6 DEF IsFirst
  <2>2. ToSet(actions) \cap Hit(p) # {}
    BY <2>1, ElementAt
  <2>3. PICK i \in 1 .. Len(actions) :
          /\ i = Min({j \in 1 .. Len(actions) : actions[j] \in Hit(p)})
          /\ actions[i] \in Hit(p) /\ \A j \in 1 .. (i - 1) : actions[j] \notin Hit(p)
    BY <2>2, FirstExists
  <2>4. i = k
    <3>1. i \in Nat /\ k \in Nat /\ i >= 1 /\ k >= 1
      BY <1>1
    <3>2. ~(i < k) /\ ~(k < i)
      BY <2>1, <2>3, <3>1
    <3>3. QED BY <3>1, <3>2
  <2>5. {j \in 1 .. Len(actions) : actions[j] \in Hit(p)} = I
    BY <1>2
  <2>6. QED BY <1>2, <2>1, <2>3, <2>4, <2>5
<1> HIDE DEF I
<1>7. QED BY <1>4, <1>5, <1>6

(* The rules that are left when bans, isolations and trusted sources       *)
(* have been asked.                                                        *)
IsRest(c, p, r) == Asks(r, p) /\ ~(r.server # Star /\ Isolates(r, ServerOf(c, r)))

(* Those rules as a set.                                                   *)
RestRules(c, p) == {r \in PolicyRules : IsRest(c, p, r)}

(* What the policy wants for a packet, case by case.                       *)
LEMMA WantedFacts ==
  ASSUME NEW c, IsPolicy(c), NEW day, NEW p
  PROVE  /\ Banned(c, day, p) \/ Isolated(c, p) => Wanted(c, day, p) = "deny"
         /\ ~(Banned(c, day, p) \/ Isolated(c, p)) /\ TrustedPacket(c, p)
              => Wanted(c, day, p) = "allow"
         /\ ~(Banned(c, day, p) \/ Isolated(c, p)) /\ ~TrustedPacket(c, p) =>
              /\ ToSet(c.rules) \cap RestRules(c, p) = {} => Wanted(c, day, p) = "pass"
              /\ \A r : IsFirst(c.rules, RestRules(c, p), r) => Wanted(c, day, p) = r.action
<1> DEFINE I == {i \in 1 .. Len(c.rules) : IsRest(c, p, c.rules[i])}
<1>0. PICK rules : rules = c.rules
  OBVIOUS
<1>1. rules \in Seq(PolicyRules) /\ Len(rules) \in Nat
  BY <1>0, PolicyFacts, ElementAt
<1>2. \A i \in 1 .. Len(rules) : IsRest(c, p, rules[i]) <=> rules[i] \in RestRules(c, p)
  BY <1>1, ElementAt DEF RestRules
<1>3. (\E r \in ToSet(rules) : IsRest(c, p, r)) <=> I # {}
  BY <1>0, <1>1, ElementAt
<1>4. Wanted(c, day, p) = IF Banned(c, day, p) \/ Isolated(c, p) THEN "deny"
                          ELSE IF TrustedPacket(c, p) THEN "allow"
                          ELSE IF I # {} THEN rules[Min(I)].action ELSE "pass"
  <2>1. Wanted(c, day, p) =
          IF Banned(c, day, p) \/ Isolated(c, p) THEN "deny"
          ELSE IF TrustedPacket(c, p) THEN "allow"
          ELSE IF \E r \in ToSet(rules) : IsRest(c, p, r)
            THEN rules[SelectInSeq(rules, LAMBDA r : IsRest(c, p, r))].action
            ELSE "pass"
    BY <1>0 DEF Wanted, IsRest
  <2>2. I # {} => SelectInSeq(rules, LAMBDA r : IsRest(c, p, r)) = Min(I)
    BY <1>0 DEF SelectInSeq
  <2>3. QED BY <1>3, <2>1, <2>2
<1>5. ASSUME ToSet(rules) \cap RestRules(c, p) = {} PROVE I = {}
  BY <1>0, <1>1, <1>2, <1>5, ElementAt
<1>6. ASSUME NEW r, IsFirst(rules, RestRules(c, p), r) PROVE I # {} /\ rules[Min(I)] = r
  <2>1. PICK k \in 1 .. Len(rules) :
          /\ rules[k] = r /\ r \in RestRules(c, p)
          /\ \A j \in 1 .. (k - 1) : rules[j] \notin RestRules(c, p)
    BY <1>6 DEF IsFirst
  <2>2. ToSet(rules) \cap RestRules(c, p) # {}
    BY <1>1, <2>1, ElementAt
  <2>3. PICK i \in 1 .. Len(rules) :
          /\ i = Min({j \in 1 .. Len(rules) : rules[j] \in RestRules(c, p)})
          /\ rules[i] \in RestRules(c, p) /\ \A j \in 1 .. (i - 1) : rules[j] \notin RestRules(c, p)
    BY <1>1, <2>2, FirstExists
  <2>4. i = k
    <3>1. i \in Nat /\ k \in Nat /\ i >= 1 /\ k >= 1
      BY <1>1
    <3>2. ~(i < k) /\ ~(k < i)
      BY <2>1, <2>3, <3>1
    <3>3. QED BY <3>1, <3>2
  <2>5. {j \in 1 .. Len(rules) : rules[j] \in RestRules(c, p)} = I
    BY <1>0, <1>2
  <2>6. QED BY <1>0, <1>2, <2>1, <2>3, <2>4, <2>5
<1> HIDE DEF I
<1>7. QED BY <1>0, <1>4, <1>5, <1>6

(* A sequence with a hit has a first one.                                  *)
LEMMA FirstHit ==
  ASSUME NEW S, NEW s \in Seq(S), NEW H, ToSet(s) \cap H # {}
  PROVE  \E x : IsFirst(s, H, x) /\ x \in ToSet(s) /\ x \in H
<1>1. PICK i \in 1 .. Len(s) : s[i] \in H /\ \A j \in 1 .. (i - 1) : s[j] \notin H
  BY FirstExists
<1>2. IsFirst(s, H, s[i])
  BY <1>1 DEF IsFirst
<1>3. QED BY <1>1, <1>2, ElementAt

(* A compiled address is one address, and a packet comes from it or not.   *)
LEMMA FirstCovers ==
  ASSUME NEW n \in Networks, NEW h
  PROVE  /\ First[n] # Star /\ First[n] \in Span[n]
         /\ Covers(First[n], h) <=> h = First[n]
         /\ n \in Hosts => First[n] = n
<1>1. First[n] \in Span[n] /\ First[n] \in Hosts /\ First[n] \in Networks
  BY NetworksHoldHosts
<1>2. First[n] # Star
  BY <1>1, StarIsNoName
<1>3. Span[First[n]] = {First[n]}
  BY <1>1, NetworksHoldHosts
<1>4. Covers(First[n], h) <=> h = First[n]
  BY <1>2, <1>3 DEF Covers
<1>5. n \in Hosts => First[n] = n
  BY <1>1, NetworksHoldHosts
<1>6. QED BY <1>1, <1>2, <1>4, <1>5

(* A network covers addresses of its family.                               *)
LEMMA CoveredFamily ==
  ASSUME NEW n \in Networks, NEW h, Covers(n, h)
  PROVE  h \in Span[n] /\ Family(n) = Family(h)
BY NetworksHoldHosts, StarIsNoName DEF Covers

(* The fields of the actions of a client.                                  *)
LEMMA ActionForFields ==
  ASSUME NEW chain, NEW r, NEW s, NEW destination
  PROVE  LET x == ActionFor(chain, r, s, destination)
         IN /\ x.chain = chain /\ x.interface = s.interface /\ x.source = First[r.source]
            /\ x.destination = destination /\ x.invert = (destination # Star)
            /\ x.protocol = "any" /\ x.port = Star /\ x.target = "deny"
BY DEF ActionFor, Action

(* Which packets they hit.                                                 *)
LEMMA ActionForHits ==
  ASSUME NEW chain, NEW r \in PolicyRules, r.source # Star, NEW s \in Servers,
         NEW p \in Packets, Family(p.source) = 4
  PROVE  /\ HitBy(ActionFor(chain, r, s, Star), p) <=>
              chain = p.chain /\ p.interface = s.interface /\ p.source = First[r.source]
         /\ HitBy(ActionFor(chain, r, s, s.ip), p) <=>
              /\ chain = p.chain /\ p.interface = s.interface /\ p.source = First[r.source]
              /\ p.destination # s.ip
<1>1. r.source \in Networks
  BY RuleFacts
<1>2. Covers(First[r.source], p.source) <=> p.source = First[r.source]
  BY <1>1, FirstCovers
<1>3. /\ s.interface # Star /\ s.ip # Star /\ Family(s.ip) = 4 /\ Span[s.ip] = {s.ip}
  BY ServerFacts
<1>4. Family(p.destination) = 4
  BY PacketsHaveOneFamily
<1>5. Covers(s.ip, p.destination) <=> p.destination = s.ip
  BY <1>3 DEF Covers
<1>6. Covers(Star, p.destination)
  BY DEF Covers
<1>7. HitBy(ActionFor(chain, r, s, Star), p) <=>
        chain = p.chain /\ p.interface = s.interface /\ p.source = First[r.source]
  <2>1. PICK x : x = ActionFor(chain, r, s, Star)
    OBVIOUS
  <2>2. /\ x.chain = chain /\ x.interface = s.interface /\ x.source = First[r.source]
        /\ x.destination = Star /\ x.invert = FALSE /\ x.protocol = "any" /\ x.port = Star
    BY <2>1 DEF ActionFor, Action
  <2>3. Matches(x, p) <=> p.interface = s.interface /\ p.source = First[r.source]
    BY <1>2, <1>3, <1>6, <2>2 DEF Matches
  <2>4. QED BY <2>1, <2>2, <2>3 DEF HitBy
<1>8. HitBy(ActionFor(chain, r, s, s.ip), p) <=>
        /\ chain = p.chain /\ p.interface = s.interface /\ p.source = First[r.source]
        /\ p.destination # s.ip
  <2>1. PICK x : x = ActionFor(chain, r, s, s.ip)
    OBVIOUS
  <2>2. /\ x.chain = chain /\ x.interface = s.interface /\ x.source = First[r.source]
        /\ x.destination = s.ip /\ x.invert = TRUE /\ x.protocol = "any" /\ x.port = Star
    BY <1>3, <2>1 DEF ActionFor, Action
  <2>3. Matches(x, p) <=> /\ p.interface = s.interface /\ p.source = First[r.source]
                          /\ Covers(s.ip, p.destination) # TRUE
    BY <1>2, <1>3, <1>4, <2>2 DEF Matches
  <2>4. Covers(s.ip, p.destination) \in BOOLEAN
    BY DEF Covers
  <2>5. QED BY <1>5, <2>1, <2>2, <2>3, <2>4 DEF HitBy
<1>9. QED BY <1>7, <1>8

(* They drop.                                                              *)
LEMMA ClientTargets ==
  ASSUME NEW r \in PolicyRules, r.source # Star, NEW s \in Servers, NEW day,
         NEW x \in ToSet(ClientActions(r, s, day))
  PROVE  x \in CompiledActions /\ x.target = "deny"
<1>1. ClientActions(r, s, day) \in Seq(CompiledActions)
  BY ClientActionsFacts
<1>2. x \in CompiledActions
  BY <1>1, ElementAt
<1>3. x.target = "deny"
  BY ClientActionsFacts, ActionForFields, RuleFacts
<1>4. QED BY <1>2, <1>3

(* What the actions of a banned client drop.                               *)
LEMMA BanHits ==
  ASSUME NEW r \in PolicyRules, r.kind = "vpn_ban", NormalRule(r), NEW s \in Servers,
         NEW day \in Nat, NEW p \in Packets, Family(p.source) = 4
  PROVE  (\E x \in ToSet(ClientActions(r, s, day)) : HitBy(x, p)) <=>
            /\ p.chain \in {"input", "forward"}
            /\ r.until # Permanent => ~(day > r.until)
            /\ r.source = p.source /\ s.interface = p.interface
<1>1. r.source \in Hosts /\ r.source \in Networks /\ r.source # Star /\ r.until \in Nat
  BY NetworksHoldHosts, StarIsNoName, RuleFacts DEF NormalRule
<1>2. First[r.source] = r.source
  BY <1>1, FirstCovers
<1>3. Active(r, day) <=> (r.until # Permanent => ~(day > r.until))
  BY <1>1 DEF Active
<1>4. CASE Active(r, day)
  <2>1. ToSet(ClientActions(r, s, day)) =
          {ActionFor("forward", r, s, Star), ActionFor("input", r, s, Star)}
    BY <1>1, <1>4, ClientActionsFacts
  <2>2. (\E x \in ToSet(ClientActions(r, s, day)) : HitBy(x, p)) <=>
          HitBy(ActionFor("forward", r, s, Star), p) \/ HitBy(ActionFor("input", r, s, Star), p)
    BY <2>1
  <2>3. \A chain : HitBy(ActionFor(chain, r, s, Star), p) <=>
                     chain = p.chain /\ p.interface = s.interface /\ p.source = First[r.source]
    BY <1>1, ActionForHits
  <2>4. QED BY <1>2, <1>3, <1>4, <2>2, <2>3
<1>5. CASE ~Active(r, day)
  BY <1>1, <1>3, <1>5, ClientActionsFacts
<1>6. QED BY <1>4, <1>5

(* What the action of an isolated client drops.                            *)
LEMMA IsolationHits ==
  ASSUME NEW r \in PolicyRules, NormalRule(r), r.enabled, r.source # Star, r.server # Star,
         NEW s \in Servers, Isolates(r, s), NEW day, NEW p \in Packets, Family(p.source) = 4,
         {r.source, r.destination} \subseteq Hosts \/ ~Covers(r.source, p.source)
  PROVE  (\E x \in ToSet(ClientActions(r, s, day)) : HitBy(x, p)) <=>
            Asks(r, p) /\ p.interface = s.interface
<1>1. /\ r.kind = "standard" /\ r.direction = "forward" /\ r.action = "deny"
      /\ r.protocol = "any" /\ r.invert
      /\ r.destination # Star /\ First[r.destination] = s.ip
      /\ r.interface \in {Star, s.interface}
  BY DEF Isolates
<1>2. r.source \in Networks /\ r.destination \in Networks /\ r.ports = {} /\ r.invert = TRUE
  BY <1>1, RuleFacts DEF NormalRule
<1>3. (\E x \in ToSet(ClientActions(r, s, day)) : HitBy(x, p)) <=>
         HitBy(ActionFor("forward", r, s, s.ip), p)
  BY <1>1, ClientActionsFacts
<1>4. HitBy(ActionFor("forward", r, s, s.ip), p) <=>
        /\ "forward" = p.chain /\ p.interface = s.interface /\ p.source = First[r.source]
        /\ p.destination # s.ip
  BY ActionForHits
<1>5. CASE ~Covers(r.source, p.source)
  <2>1. ~Asks(r, p)
    BY <1>5 DEF Asks, Matches
  <2>2. p.source # First[r.source]
    BY <1>2, <1>5, FirstCovers DEF Covers
  <2>3. QED BY <1>3, <1>4, <2>1, <2>2
<1>6. CASE {r.source, r.destination} \subseteq Hosts
  <2>1. First[r.source] = r.source /\ r.destination = s.ip
    BY <1>1, <1>2, <1>6, FirstCovers
  <2>2. /\ Covers(r.source, p.source) <=> p.source = r.source
        /\ Covers(r.destination, p.destination) <=> p.destination = s.ip
    BY <1>2, <1>6, <2>1, NetworksHoldHosts, StarIsNoName DEF Covers
  <2>3. Family(r.destination) = Family(p.destination)
    BY <2>1, ServerFacts, PacketsHaveOneFamily
  <2>4. Covers(r.destination, p.destination) \in BOOLEAN
    BY DEF Covers
  <2>5. ASSUME p.interface = s.interface
        PROVE  Matches(r, p) <=> p.source = r.source /\ p.destination # s.ip
    BY <1>1, <1>2, <2>2, <2>3, <2>4, <2>5 DEF Matches
  <2>6. Asks(r, p) <=> "forward" = p.chain /\ Matches(r, p)
    BY <1>1, <1>2 DEF Asks
  <2>7. QED BY <1>3, <1>4, <2>1, <2>5, <2>6
<1>7. QED BY <1>5, <1>6

(* The blocks of the servers drop what the bans and the isolations ask.    *)
LEMMA ServersDrop ==
  ASSUME NEW c, IsPolicy(c), Compiles(c), NEW day \in Nat, NEW p \in Packets,
         Family(p.source) = 4, ~Narrowed(c, p)
  PROVE  /\ Mapped(OpenvpnBlocks(c, day), BlockActions) \in Seq(CompiledActions)
         /\ \A x \in ToSet(Mapped(OpenvpnBlocks(c, day), BlockActions)) : x.target = "deny"
         /\ ToSet(Mapped(OpenvpnBlocks(c, day), BlockActions)) \cap Hit(p) # {} <=>
              Banned(c, day, p) \/ Isolated(c, p)
<1>1. PICK blocks : blocks = Mapped(OpenvpnBlocks(c, day), BlockActions)
  OBVIOUS
<1>2. /\ blocks \in Seq(CompiledActions)
      /\ \A x : x \in ToSet(blocks) <=>
           \E s \in ToSet(c.servers), r \in ToSet(c.rules) :
             IsClient(r, s) /\ x \in ToSet(ClientActions(r, s, day))
  BY <1>1, OpenvpnFacts, BlockActionsType, MappedType
<1>3. ASSUME NEW s \in ToSet(c.servers), NEW r \in ToSet(c.rules), IsClient(r, s)
      PROVE  /\ s \in Servers /\ r \in PolicyRules /\ NormalRule(r) /\ r.source # Star
             /\ r.server # Star /\ s = ServerOf(c, r)
  <2>1. s \in Servers /\ r \in PolicyRules /\ NormalRule(r)
    BY PolicyFacts
  <2>2. r.source # Star
    BY <1>3, ServerActionsFacts
  <2>3. r.server = s.id /\ s.id # Star
    BY <1>3, <2>1, ServerFacts DEF IsClient
  <2>4. s = ServerOf(c, r)
    BY <2>3, ServerOfFacts
  <2>5. QED BY <2>1, <2>2, <2>3, <2>4
<1>4. \A x \in ToSet(blocks) : x \in CompiledActions /\ x.target = "deny"
  BY <1>2, <1>3, ClientTargets
<1>5. ToSet(blocks) \cap Hit(p) # {} <=> \E x \in ToSet(blocks) : HitBy(x, p)
  BY <1>4 DEF Hit
<1>6. ASSUME NEW x \in ToSet(blocks), HitBy(x, p) PROVE Banned(c, day, p) \/ Isolated(c, p)
  <2>1. PICK s \in ToSet(c.servers), r \in ToSet(c.rules) :
          IsClient(r, s) /\ x \in ToSet(ClientActions(r, s, day))
    BY <1>2, <1>6
  <2>2. /\ s \in Servers /\ r \in PolicyRules /\ NormalRule(r) /\ r.source # Star
        /\ r.server # Star /\ s = ServerOf(c, r)
    BY <1>3, <2>1
  <2>3. r.enabled /\ (r.kind = "vpn_ban" \/ Isolates(r, s))
    BY <2>1 DEF IsClient
  <2>4. CASE r.kind = "vpn_ban"
    <3>1. /\ p.chain \in {"input", "forward"}
          /\ r.until # Permanent => ~(day > r.until)
          /\ r.source = p.source /\ s.interface = p.interface
      BY <1>6, <2>1, <2>2, <2>4, BanHits
    <3>2. QED BY <2>2, <2>3, <2>4, <3>1 DEF Banned
  <2>5. CASE Isolates(r, s)
    <3>1. {r.source, r.destination} \subseteq Hosts \/ ~Covers(r.source, p.source)
      BY <2>2, <2>3, <2>5 DEF Narrowed
    <3>2. Asks(r, p) /\ p.interface = s.interface
      BY <1>6, <2>1, <2>2, <2>3, <2>5, <3>1, IsolationHits
    <3>3. QED BY <2>2, <2>5, <3>2 DEF Isolated
  <2>6. QED BY <2>3, <2>4, <2>5
<1>7. ASSUME Banned(c, day, p) PROVE \E x \in ToSet(blocks) : HitBy(x, p)
  <2>1. PICK r \in ToSet(c.rules) :
          /\ p.chain \in {"input", "forward"} /\ r.kind = "vpn_ban" /\ r.enabled
          /\ r.until # Permanent => ~(day > r.until)
          /\ r.source = p.source /\ ServerOf(c, r).interface = p.interface
    BY <1>7 DEF Banned
  <2>2. NormalRule(r) /\ r.server # Star
    BY <2>1, PolicyFacts DEF NormalRule
  <2>3. PICK s : s = ServerOf(c, r)
    OBVIOUS
  <2>4. s \in ToSet(c.servers) /\ s.id = r.server
    BY <2>2, <2>3, ServerOfFacts
  <2>5. IsClient(r, s)
    BY <2>1, <2>4 DEF IsClient
  <2>6. s \in Servers /\ r \in PolicyRules
    BY <1>3, <2>4, <2>5
  <2>7. \E x \in ToSet(ClientActions(r, s, day)) : HitBy(x, p)
    BY <2>1, <2>2, <2>3, <2>6, BanHits
  <2>8. QED BY <1>2, <2>4, <2>5, <2>7
<1>8. ASSUME Isolated(c, p) PROVE \E x \in ToSet(blocks) : HitBy(x, p)
  <2>1. PICK r \in ToSet(c.rules) :
          /\ r.server # Star /\ Isolates(r, ServerOf(c, r))
          /\ Asks(r, p) /\ p.interface = ServerOf(c, r).interface
    BY <1>8 DEF Isolated
  <2>2. PICK s : s = ServerOf(c, r)
    OBVIOUS
  <2>3. s \in ToSet(c.servers) /\ s.id = r.server /\ r.enabled
    BY <2>1, <2>2, ServerOfFacts DEF Asks
  <2>4. IsClient(r, s)
    BY <2>1, <2>2, <2>3 DEF IsClient
  <2>5. s \in Servers /\ r \in PolicyRules /\ NormalRule(r) /\ r.source # Star
    BY <1>3, <2>3, <2>4
  <2>6. {r.source, r.destination} \subseteq Hosts \/ ~Covers(r.source, p.source)
    BY <2>1, <2>3 DEF Narrowed
  <2>7. \E x \in ToSet(ClientActions(r, s, day)) : HitBy(x, p)
    BY <2>1, <2>2, <2>3, <2>5, <2>6, IsolationHits
  <2>8. QED BY <1>2, <2>3, <2>4, <2>7
<1>9. QED BY <1>1, <1>2, <1>4, <1>5, <1>6, <1>7, <1>8

(* A packet of IPv6 is neither banned nor isolated.                        *)
LEMMA ClientsAreOfIPv4 ==
  ASSUME NEW c, IsPolicy(c), Compiles(c), NEW day, NEW p \in Packets, Family(p.source) # 4
  PROVE  ~Banned(c, day, p) /\ ~Isolated(c, p)
<1>1. ASSUME Banned(c, day, p) PROVE FALSE
  <2>1. PICK r \in ToSet(c.rules) : r.kind = "vpn_ban" /\ r.source = p.source
    BY <1>1 DEF Banned
  <2>2. NormalRule(r)
    BY PolicyFacts
  <2>3. QED BY <2>1, <2>2 DEF NormalRule
<1>2. ASSUME Isolated(c, p) PROVE FALSE
  <2>1. PICK r \in ToSet(c.rules) :
          r.server # Star /\ Isolates(r, ServerOf(c, r)) /\ Asks(r, p)
    BY <1>2 DEF Isolated
  <2>2. PICK s : s = ServerOf(c, r)
    OBVIOUS
  <2>3. s \in ToSet(c.servers) /\ s.id = r.server /\ r.enabled
    BY <2>1, <2>2, ServerOfFacts DEF Asks
  <2>4. IsClient(r, s)
    BY <2>1, <2>2, <2>3 DEF IsClient
  <2>5. r \in PolicyRules /\ r.source # Star /\ Family(r.source) = 4
    BY <2>3, <2>4, ServerActionsFacts
  <2>6. r.source \in Networks /\ Covers(r.source, p.source)
    BY <2>1, <2>5, RuleFacts DEF Asks, Matches
  <2>7. QED BY <2>5, <2>6, CoveredFamily
<1>3. QED BY <1>1, <1>2

(* The Hard Source block accepts what the trusted sources ask.             *)
LEMMA TrustAccepts ==
  ASSUME NEW c, IsPolicy(c), NEW p \in Packets
  PROVE  /\ \A x \in ToSet(TrustedActions(c, Family(p.source))) :
              x \in CompiledActions /\ x.target = "allow"
         /\ ToSet(TrustedActions(c, Family(p.source))) \cap Hit(p) # {} <=> TrustedPacket(c, p)
<1>1. PICK f, actions : f = Family(p.source) /\ actions = TrustedActions(c, f)
  OBVIOUS
<1>2. /\ actions \in Seq(CompiledActions)
      /\ \A x : x \in ToSet(actions) <=>
           \E r \in ToSet(c.rules) : Trusted(r) /\ Family(r.source) = f /\ x = Trust(r.source)
  BY <1>1, TrustedActionsFacts
<1>3. \A x \in ToSet(actions) : x \in CompiledActions /\ x.target = "allow"
  <2>1. \A x \in ToSet(actions) : x \in CompiledActions
    BY <1>2, ElementAt
  <2>2. \A source : Trust(source).target = "allow"
    BY DEF Trust, Action
  <2>3. QED BY <1>2, <2>1, <2>2
<1>4. ASSUME NEW r \in ToSet(c.rules), Trusted(r) PROVE HitBy(Trust(r.source), p) <=> Asks(r, p)
  <2>1. r \in PolicyRules /\ NormalRule(r)
    BY PolicyFacts
  <2>2. /\ r.enabled /\ r.kind = "standard" /\ r.direction = "input" /\ r.protocol = "any"
        /\ r.destination = Star /\ r.interface = Star
    BY <1>4 DEF Trusted
  <2>3. r.invert = FALSE /\ r.ports = {}
    BY <2>1, <2>2, RuleFacts DEF NormalRule
  <2>4. PICK x : x = Trust(r.source)
    OBVIOUS
  <2>5. /\ x.chain = "input" /\ x.interface = Star /\ x.source = r.source
        /\ x.destination = Star /\ x.invert = FALSE /\ x.protocol = "any" /\ x.port = Star
    BY <2>4 DEF Trust, Action
  <2>6. Matches(x, p) <=> Matches(r, p)
    BY <2>2, <2>3, <2>5 DEF Matches
  <2>7. HitBy(x, p) <=> "input" = p.chain /\ Matches(r, p)
    BY <2>5, <2>6 DEF HitBy
  <2>8. Asks(r, p) <=> "input" = p.chain /\ Matches(r, p)
    BY <2>2, <2>3 DEF Asks
  <2>9. QED BY <2>4, <2>7, <2>8
<1>5. ASSUME NEW r \in ToSet(c.rules), Trusted(r), Asks(r, p) PROVE Family(r.source) = f
  <2>1. r.source \in Networks /\ Covers(r.source, p.source)
    BY <1>5, PolicyFacts, RuleFacts DEF Trusted, Asks, Matches
  <2>2. QED BY <1>1, <2>1, CoveredFamily
<1>6. ToSet(actions) \cap Hit(p) # {} <=> \E x \in ToSet(actions) : HitBy(x, p)
  BY <1>3 DEF Hit
<1>7. (\E x \in ToSet(actions) : HitBy(x, p)) <=> TrustedPacket(c, p)
  BY <1>2, <1>4, <1>5 DEF TrustedPacket
<1>8. QED BY <1>1, <1>3, <1>6, <1>7

(* A rule that matches a packet is compiled for the packet's family.       *)
LEMMA AskedFamily ==
  ASSUME NEW r \in PolicyRules, NEW p \in Packets, Matches(r, p)
  PROVE  Family(p.source) \in RuleFamilies(r)
<1> DEFINE f == Family(p.source)
<1>1. f \in Versions /\ Family(p.destination) = f
  BY PacketsHaveOneFamily DEF Family, Versions
<1>2. r.source # Star => Family(r.source) = f
  BY RuleFacts, CoveredFamily DEF Matches
<1>3. r.destination # Star => Family(r.destination) = f
  BY <1>1 DEF Matches
<1>4. CASE Own(r) = {}
  BY <1>1, <1>4 DEF RuleFamilies
<1>5. CASE Own(r) # {}
  <2>1. PICK n \in {r.source, r.destination} \ {Star} : Family(n) \in Own(r)
    BY <1>5 DEF Own
  <2>2. Family(n) = f
    BY <1>2, <1>3, <2>1
  <2>3. QED BY <1>5, <2>1, <2>2 DEF RuleFamilies
<1>6. QED BY <1>4, <1>5

(* No rule is lost between the blocks, and none is in two.                 *)
LEMMA RestIsStandard ==
  ASSUME NEW c, IsPolicy(c), Compiles(c), NEW p \in Packets, ~TrustedPacket(c, p),
         NEW r \in ToSet(c.rules)
  PROVE  IsRest(c, p, r) <=> IsStandard(c, Family(p.source), r) /\ Asks(r, p)
<1>1. r \in PolicyRules
  BY PolicyFacts
<1>2. ASSUME IsRest(c, p, r) PROVE IsStandard(c, Family(p.source), r) /\ Asks(r, p)
  <2>1. /\ Asks(r, p) /\ r.enabled /\ r.kind = "standard" /\ Matches(r, p)
        /\ ~(r.server # Star /\ Isolates(r, ServerOf(c, r)))
    BY <1>2 DEF IsRest, Asks
  <2>2. ~Trusted(r)
    BY <2>1 DEF TrustedPacket
  <2>3. ASSUME NEW s \in ToSet(c.servers), s.id = r.server, Isolates(r, s) PROVE FALSE
    <3>1. r.server # Star
      BY <2>3, PolicyFacts, ServerFacts
    <3>2. s = ServerOf(c, r)
      BY <2>3, <3>1, ServerOfFacts
    <3>3. QED BY <2>1, <2>3, <3>1, <3>2
  <2>4. ~Managed(c, r)
    BY <2>2, <2>3 DEF Managed
  <2>5. Family(p.source) \in RuleFamilies(r)
    BY <1>1, <2>1, AskedFamily
  <2>6. QED BY <2>1, <2>4, <2>5 DEF IsStandard
<1>3. ASSUME IsStandard(c, Family(p.source), r), Asks(r, p) PROVE IsRest(c, p, r)
  <2>1. ASSUME r.server # Star, Isolates(r, ServerOf(c, r)) PROVE FALSE
    <3>1. PICK s : s = ServerOf(c, r)
      OBVIOUS
    <3>2. s \in ToSet(c.servers) /\ s.id = r.server /\ Isolates(r, s)
      BY <2>1, <3>1, ServerOfFacts
    <3>3. r.enabled /\ ~Managed(c, r)
      BY <1>3 DEF IsStandard
    <3>4. IsClient(r, s)
      BY <3>2, <3>3 DEF IsClient
    <3>5. r.source # Star
      BY <3>2, <3>4, ServerActionsFacts
    <3>6. QED BY <3>2, <3>3, <3>5 DEF Managed
  <2>2. QED BY <1>3, <2>1 DEF IsRest
<1>4. QED BY <1>2, <1>3

(* The actions of a standard rule meet the packets the rule asks about.    *)
LEMMA RuleHits ==
  ASSUME NEW r \in PolicyRules, r.enabled, r.kind = "standard", NEW p
  PROVE  /\ ToSet(RuleActions(r)) \cap Hit(p) # {} <=> Asks(r, p)
         /\ \A x \in ToSet(RuleActions(r)) : x.target = r.action
<1>1. ASSUME NEW t
      PROVE  /\ HitBy(ActionOf(r, t), p) <=>
                  r.direction = p.chain /\ Matches(r, p) /\ t \in {Star, p.port}
             /\ ActionOf(r, t).target = r.action
  <2>1. PICK x : x = ActionOf(r, t)
    OBVIOUS
  <2>2. /\ x.chain = r.direction /\ x.interface = r.interface /\ x.source = r.source
        /\ x.destination = r.destination /\ x.invert = r.invert /\ x.protocol = r.protocol
        /\ x.port = t /\ x.target = r.action
    BY <2>1 DEF ActionOf, Action
  <2>3. Matches(x, p) <=> Matches(r, p)
    BY <2>2 DEF Matches
  <2>4. QED BY <2>1, <2>2, <2>3 DEF HitBy
<1>2. \A x : x \in ToSet(RuleActions(r)) <=> \E t \in ToSet(Terms(r)) : x = ActionOf(r, t)
  BY RuleActionsFacts
<1>3. \A x \in ToSet(RuleActions(r)) : x \in CompiledActions
  BY RuleActionsFacts, ElementAt
<1>4. ToSet(Terms(r)) = IF r.ports = {} THEN {Star} ELSE r.ports
  BY TermsFacts
<1>5. Star \notin r.ports
  BY RuleFacts, StarIsNoName
<1>6. (\E t \in ToSet(Terms(r)) : t \in {Star, p.port}) <=> r.ports = {} \/ p.port \in r.ports
  BY <1>4, <1>5
<1>7. ToSet(RuleActions(r)) \cap Hit(p) # {} <=> \E x \in ToSet(RuleActions(r)) : HitBy(x, p)
  BY <1>3 DEF Hit
<1>8. (\E x \in ToSet(RuleActions(r)) : HitBy(x, p)) <=> Asks(r, p)
  BY <1>1, <1>2, <1>6 DEF Asks
<1>9. QED BY <1>1, <1>2, <1>7, <1>8

(* The Standard block decides as the first rule that is left would.        *)
LEMMA StandardDecides ==
  ASSUME NEW c, IsPolicy(c), Compiles(c), NEW p \in Packets, ~TrustedPacket(c, p)
  PROVE  /\ ToSet(c.rules) \cap RestRules(c, p) = {} =>
              ToSet(StandardActions(c, Family(p.source))) \cap Hit(p) = {}
         /\ ToSet(c.rules) \cap RestRules(c, p) # {} =>
              \E r, x : /\ IsFirst(c.rules, RestRules(c, p), r)
                        /\ IsFirst(StandardActions(c, Family(p.source)), Hit(p), x)
                        /\ x.target = r.action
<1>1. PICK f, actions, rules : f = Family(p.source) /\ actions = StandardActions(c, f)
                               /\ rules = c.rules
  OBVIOUS
<1>2. /\ actions \in Seq(CompiledActions)
      /\ \A x : x \in ToSet(actions) <=>
           \E r \in ToSet(rules) : IsStandard(c, f, r) /\ x \in ToSet(RuleActions(r))
      /\ \A G, r, H, x :
           /\ IsFirst(rules, {q \in PolicyRules : IsStandard(c, f, q)} \cap G, r)
           /\ IsFirst(RuleActions(r), H, x)
           /\ \A q \in ToSet(rules) :
                IsStandard(c, f, q) /\ q \notin G => ToSet(RuleActions(q)) \cap H = {}
           => IsFirst(actions, H, x)
  BY <1>1, StandardActionsFacts
<1>3. rules \in Seq(PolicyRules) /\ ToSet(rules) \subseteq PolicyRules
  BY <1>1, PolicyFacts
<1>4. \A r \in ToSet(rules) : IsRest(c, p, r) <=> IsStandard(c, f, r) /\ Asks(r, p)
  BY <1>1, RestIsStandard
<1>5. \A r \in ToSet(rules) : IsStandard(c, f, r) =>
        /\ ToSet(RuleActions(r)) \cap Hit(p) # {} <=> Asks(r, p)
        /\ \A x \in ToSet(RuleActions(r)) : x.target = r.action
  BY <1>3, RuleHits DEF IsStandard
<1>6. ASSUME ToSet(rules) \cap RestRules(c, p) = {} PROVE ToSet(actions) \cap Hit(p) = {}
  <2>1. \A r \in ToSet(rules) : ~IsRest(c, p, r)
    BY <1>3, <1>6 DEF RestRules
  <2>2. QED BY <1>2, <1>4, <1>5, <2>1
<1>7. ASSUME ToSet(rules) \cap RestRules(c, p) # {}
      PROVE  \E r, x : /\ IsFirst(rules, RestRules(c, p), r)
                       /\ IsFirst(actions, Hit(p), x) /\ x.target = r.action
  <2>1. PICK r : IsFirst(rules, RestRules(c, p), r) /\ r \in ToSet(rules) /\ r \in RestRules(c, p)
    BY <1>3, <1>7, FirstHit
  <2> DEFINE G == {q \in PolicyRules : Asks(q, p)}
  <2>2. IsFirst(rules, {q \in PolicyRules : IsStandard(c, f, q)} \cap G, r)
    <3>1. PICK k \in 1 .. Len(rules) :
            /\ rules[k] = r /\ r \in RestRules(c, p)
            /\ \A j \in 1 .. (k - 1) : rules[j] \notin RestRules(c, p)
      BY <2>1 DEF IsFirst
    <3>2. Len(rules) \in Nat /\ \A j \in 1 .. Len(rules) : rules[j] \in ToSet(rules)
      BY <1>3, ElementAt
    <3>3. \A q \in ToSet(rules) :
            q \in RestRules(c, p) <=> q \in {u \in PolicyRules : IsStandard(c, f, u)} \cap G
      BY <1>3, <1>4 DEF RestRules
    <3>4. \A j \in 1 .. (k - 1) : j \in 1 .. Len(rules)
      BY <3>2
    <3> HIDE DEF G
    <3>5. PICK T : T = {u \in PolicyRules : IsStandard(c, f, u)} \cap G
      OBVIOUS
    <3>6. r \in T /\ \A j \in 1 .. (k - 1) : rules[j] \notin T
      BY <3>1, <3>2, <3>3, <3>4, <3>5
    <3>7. IsFirst(rules, T, r)
      BY <3>1, <3>6 DEF IsFirst
    <3>8. QED BY <3>5, <3>7
  <2>3. IsStandard(c, f, r) /\ Asks(r, p) /\ r \in PolicyRules
    BY <1>3, <1>4, <2>1 DEF RestRules
  <2>4. RuleActions(r) \in Seq(CompiledActions) /\ ToSet(RuleActions(r)) \cap Hit(p) # {}
    BY <1>5, <2>1, <2>3, RuleActionsFacts
  <2>5. PICK x : IsFirst(RuleActions(r), Hit(p), x) /\ x \in ToSet(RuleActions(r))
    BY <2>4, FirstHit
  <2>6. \A q \in ToSet(rules) :
          IsStandard(c, f, q) /\ q \notin G => ToSet(RuleActions(q)) \cap Hit(p) = {}
    BY <1>3, <1>5
  <2> HIDE DEF G
  <2>7. IsFirst(actions, Hit(p), x)
    BY <1>2, <2>2, <2>5, <2>6
  <2>8. x.target = r.action
    BY <1>5, <2>1, <2>3, <2>5
  <2>9. QED BY <2>1, <2>7, <2>8
<1>8. QED BY <1>1, <1>6, <1>7

(* The blocks of a compiled policy decide on a packet as the policy does.  *)
LEMMA CompiledDecides ==
  ASSUME NEW c, IsPolicy(c), Compiles(c), NEW day \in Nat, NEW p \in Packets, ~Narrowed(c, p),
         NEW actions,
         actions = Mapped(Compiled(c, Family(p.source), day), BlockActions)
  PROVE  Verdict(actions, p) = Wanted(c, day, p)
<1>1. PICK f, a, b, d : /\ f = Family(p.source)
                        /\ a = IF f = 4 THEN Mapped(OpenvpnBlocks(c, day), BlockActions) ELSE <<>>
                        /\ b = TrustedActions(c, f) /\ d = StandardActions(c, f)
  OBVIOUS
<1>2. b \in Seq(CompiledActions) /\ d \in Seq(CompiledActions)
  BY <1>1, TrustedActionsFacts, StandardActionsFacts
<1>3. /\ a \in Seq(CompiledActions) /\ \A x \in ToSet(a) : x.target = "deny"
      /\ ToSet(a) \cap Hit(p) # {} <=> Banned(c, day, p) \/ Isolated(c, p)
  <2>1. CASE f = 4
    BY <1>1, <2>1, ServersDrop
  <2>2. CASE f # 4
    <3>1. a = <<>>
      BY <1>1, <2>2
    <3>2. a \in Seq(CompiledActions) /\ ToSet(a) = {}
      BY <3>1 DEF ToSet
    <3>3. ~Banned(c, day, p) /\ ~Isolated(c, p)
      BY <1>1, <2>2, ClientsAreOfIPv4
    <3>4. QED BY <3>2, <3>3
  <2>3. QED BY <2>1, <2>2
<1>4. /\ \A x \in ToSet(b) : x.target = "allow"
      /\ ToSet(b) \cap Hit(p) # {} <=> TrustedPacket(c, p)
  BY <1>1, TrustAccepts
<1>5. PICK rest : rest = b \o d
  OBVIOUS
<1>6. /\ rest \in Seq(CompiledActions) /\ ToSet(rest) = ToSet(b) \cup ToSet(d)
      /\ \A x : /\ IsFirst(b, Hit(p), x) => IsFirst(rest, Hit(p), x)
                /\ ToSet(b) \cap Hit(p) = {} /\ IsFirst(d, Hit(p), x) => IsFirst(rest, Hit(p), x)
  BY <1>2, <1>5, ConcatAt, ConcatElements, FirstOfConcat
<1>7. actions = a \o rest
  <2>1. actions = IF f = 4 THEN Mapped(OpenvpnBlocks(c, day), BlockActions) \o rest ELSE rest
    BY <1>1, <1>5, CompiledFacts, Zenon
  <2>2. <<>> \o rest = rest
    BY <1>6
  <2>3. QED BY <1>1, <2>1, <2>2
<1>8. /\ actions \in Seq(CompiledActions) /\ ToSet(actions) = ToSet(a) \cup ToSet(rest)
      /\ \A x : /\ IsFirst(a, Hit(p), x) => IsFirst(actions, Hit(p), x)
                /\ ToSet(a) \cap Hit(p) = {} /\ IsFirst(rest, Hit(p), x)
                     => IsFirst(actions, Hit(p), x)
  BY <1>3, <1>6, <1>7, ConcatAt, ConcatElements, FirstOfConcat
<1>9. CASE Banned(c, day, p) \/ Isolated(c, p)
  <2>1. PICK x : IsFirst(a, Hit(p), x) /\ x \in ToSet(a)
    BY <1>3, <1>9, FirstHit
  <2>2. Verdict(actions, p) = "deny"
    BY <1>3, <1>8, <2>1, VerdictFacts
  <2>3. QED BY <1>9, <2>2, WantedFacts
<1>10. CASE ~(Banned(c, day, p) \/ Isolated(c, p)) /\ TrustedPacket(c, p)
  <2>1. PICK x : IsFirst(b, Hit(p), x) /\ x \in ToSet(b)
    BY <1>2, <1>4, <1>10, FirstHit
  <2>2. IsFirst(actions, Hit(p), x)
    BY <1>3, <1>6, <1>8, <1>10, <2>1
  <2>3. Verdict(actions, p) = "allow"
    BY <1>4, <1>8, <2>1, <2>2, VerdictFacts
  <2>4. QED BY <1>10, <2>3, WantedFacts
<1>11. CASE ~(Banned(c, day, p) \/ Isolated(c, p)) /\ ~TrustedPacket(c, p)
  <2>1. ToSet(a) \cap Hit(p) = {} /\ ToSet(b) \cap Hit(p) = {}
    BY <1>3, <1>4, <1>11
  <2>2. CASE ToSet(c.rules) \cap RestRules(c, p) = {}
    <3>1. ToSet(d) \cap Hit(p) = {}
      BY <1>1, <1>11, <2>2, StandardDecides
    <3>2. ToSet(actions) \cap Hit(p) = {}
      BY <1>6, <1>8, <2>1, <3>1
    <3>3. Verdict(actions, p) = "pass"
      BY <1>8, <3>2, VerdictFacts
    <3>4. QED BY <1>11, <2>2, <3>3, WantedFacts
  <2>3. CASE ToSet(c.rules) \cap RestRules(c, p) # {}
    <3>1. PICK r, x : /\ IsFirst(c.rules, RestRules(c, p), r)
                      /\ IsFirst(d, Hit(p), x) /\ x.target = r.action
      BY <1>1, <1>11, <2>3, StandardDecides
    <3>2. IsFirst(actions, Hit(p), x)
      BY <1>6, <1>8, <2>1, <3>1
    <3>3. Verdict(actions, p) = r.action
      BY <1>8, <3>1, <3>2, VerdictFacts
    <3>4. Wanted(c, day, p) = r.action
      BY <1>11, <3>1, WantedFacts
    <3>5. QED BY <3>3, <3>4
  <2>4. QED BY <2>2, <2>3
<1>12. QED BY <1>9, <1>10, <1>11

(* The managed blocks treat every packet as the policy of the last Apply   *)
(* asks, whatever the policy, the networks and the packets: bans through   *)
(* their last day, isolations, trusted sources, the rest in its order      *)
(* (compile_firewall, managed_standard_rule_ids, build_candidate).         *)
THEOREM FileTellsThePolicy == PolicySpec => []FileTellsPolicy
<1>1. ASSUME PolicyInv, applied # Star, NEW p \in Packets, ~Narrowed(applied.policy, p)
      PROVE  Verdict(Actions(files[Family(p.source)]), p) = Wanted(applied.policy, applied.day, p)
  <2>1. PICK c, day, f : c = applied.policy /\ day = applied.day /\ f = Family(p.source)
    OBVIOUS
  <2>2. f \in Versions
    BY <2>1 DEF Family, Versions
  <2>3. /\ IsPolicy(c) /\ Compiles(c) /\ day \in 1 .. today
        /\ Blocks(files[f]) = Compiled(c, f, day) /\ files[f] \in Seq(Items)
    BY <1>1, <2>1, <2>2 DEF PolicyInv, Represents
  <2>4. day \in Nat
    BY <1>1, <2>3 DEF PolicyInv
  <2>5. Actions(files[f]) = Mapped(Compiled(c, f, day), BlockActions)
    BY <2>3, ActionsOfFile
  <2>6. QED BY <1>1, <2>1, <2>3, <2>4, <2>5, CompiledDecides
<1>2. \A p : Family(p.source) \in Versions
  BY DEF Family, Versions
<1>3. PolicyInv => FileTellsPolicy
  BY <1>1, <1>2 DEF FileTellsPolicy
<1>4. QED BY <1>3, PolicyInvariant, PTL

----------------------------------------------------------------------------
(* THE GUARDED APPLY: the lock, the plan, the snapshot and the rollback.   *)

(***************************************************************************)
(* Every step is one of the actions: the case split all proofs below use.  *)
(***************************************************************************)
LEMMA StepCases ==
  ASSUME Next
  PROVE  \/ \E p \in Procs : Apply(p) \/ Rollback(p) \/ Die(p)
         \/ \E f \in Families, r \in Rules : AdminEdits(f, r)
         \/ DisableUfw
BY DEF Next, Environment

USE DEF hostVars, planVars, runVars, histVars, vars, OnlyControl

(***************************************************************************)
(* The helpers of the actions keep the types of what they assign.          *)
(***************************************************************************)
LEMMA GotoTypes ==
  ASSUME TypeOK, NEW p \in Procs, NEW next \in Phases, Goto(p, next)
  PROVE  phase' \in [Procs -> Phases] /\ fam' \in [Procs -> Families]
BY DEF TypeOK, Goto, Families

LEMMA AdvanceTypes ==
  ASSUME TypeOK, NEW p \in Procs, NEW next \in Phases, Advance(p, next)
  PROVE  phase' \in [Procs -> Phases] /\ fam' \in [Procs -> Families]
<1>1. CASE fam[p] = "v4"
  BY <1>1 DEF TypeOK, Advance, Families
<1>2. CASE fam[p] # "v4"
  BY <1>2, GotoTypes DEF Advance
<1>3. QED
  BY <1>1, <1>2

LEMMA DisturbType ==
  ASSUME TypeOK, NEW others, DisturbAmong(others)
  PROVE  disturbed' \in [Procs -> SUBSET {"early", "late"}]
<1>1. ASSUME NEW q \in Procs
      PROVE  disturbed[q] \cup {IF phase[q] \in {"check", "status", "save", "done"}
                                THEN "late" ELSE "early"} \in SUBSET {"early", "late"}
  <2>1. disturbed[q] \in SUBSET {"early", "late"}
    BY DEF TypeOK
  <2>2. QED
    BY <2>1
<1>2. \A q \in Procs : disturbed[q] \in SUBSET {"early", "late"}
  BY DEF TypeOK
<1>3. QED
  BY <1>1, <1>2, Zenon DEF DisturbAmong

LEMMA CandidateType ==
  ASSUME TypeOK, NEW p \in Procs, NEW f \in Families, Touched(p, f)
  PROVE  Candidate(p, f) \in Contents
<1>1. before[p][f] \in Contents /\ cfg[p][f] \in Rules
  BY DEF TypeOK, Touched
<1>2. QED
  BY <1>1 DEF Candidate, Contents

LEMMA FilePut ==
  ASSUME TypeOK, NEW f \in Families, NEW x \in Contents \cup {NoFile},
         file' = [file EXCEPT ![f] = x]
  PROVE  file' \in [Families -> Contents \cup {NoFile}]
BY DEF TypeOK

(* Every variable keeps to its type: no step of any of the actors leaves a *)
(* file half known, a phase unnamed or a unit in a state systemd lacks.    *)
THEOREM TypeCorrect == Spec => []TypeOK
<1>1. Init => TypeOK
  BY EmptyIsRules, MaxEditsIsNat DEF Init, TypeOK, Families, Contents, Phases, UnitStates
<1>2. TypeOK /\ [Next]_vars => TypeOK'
  <2> SUFFICES ASSUME TypeOK, [Next]_vars PROVE TypeOK'
    OBVIOUS
  <2> USE ConfigsAreCompiled, EmptyIsRules, MaxEditsIsNat
      DEF TypeOK
  <2>1. ASSUME NEW p \in Procs, Apply(p) PROVE TypeOK'
    <3>1. ASSUME NEW c \in Configs, Begin(p, c) PROVE TypeOK'
      BY <3>1, GotoTypes DEF Begin, Phases
    <3>2. CASE ReadRules(p)
      <4>1. phase' \in [Procs -> Phases] /\ fam' \in [Procs -> Families]
        BY <3>2, AdvanceTypes DEF ReadRules, Phases
      <4>2. before' \in [Procs -> [Families -> Contents \cup {NoFile}]]
        BY <3>2 DEF ReadRules
      <4>3. QED
        BY <3>2, <4>1, <4>2 DEF ReadRules
    <3>3. CASE NoChange(p)
      BY <3>3, GotoTypes DEF NoChange, Phases, Return
    <3>4. CASE Validate(p)
      BY <3>4, GotoTypes DEF Validate, Phases
    <3>5. CASE Backup(p)
      <4>1. phase' \in [Procs -> Phases] /\ fam' \in [Procs -> Families]
        BY <3>5, AdvanceTypes DEF Backup, Phases
      <4>2. backup' \in [Procs -> [Families -> Contents \cup {NoFile}]]
        BY <3>5 DEF Backup
      <4>3. QED
        BY <3>5, <4>1, <4>2 DEF Backup
    <3>6. CASE AssertSource(p)
      <4>1. phase' \in [Procs -> Phases] /\ fam' \in [Procs -> Families]
        BY <3>6, AdvanceTypes DEF AssertSource, Phases
      <4>2. QED
        BY <3>6, <4>1 DEF AssertSource
    <3>7. CASE ArmRollback(p)
      BY <3>7, GotoTypes DEF ArmRollback, Phases, UnitStates
    <3>8. CASE FailUnarmed(p)
      BY <3>8, GotoTypes DEF FailUnarmed, Phases, Return, UnitStates
    <3>9. CASE WriteRules(p)
      <4>1. file' \in [Families -> Contents \cup {NoFile}]
        BY <3>9, CandidateType, FilePut DEF WriteRules
      <4>2. disturbed' \in [Procs -> SUBSET {"early", "late"}]
        BY <3>9, DisturbType DEF WriteRules, Disturb
      <4>3. phase' \in [Procs -> Phases] /\ fam' \in [Procs -> Families]
        BY <3>9, AdvanceTypes DEF WriteRules, Phases
      <4>4. QED
        BY <3>9, <4>1, <4>2, <4>3 DEF WriteRules
    <3>10. CASE DryRun(p)
      BY <3>10, GotoTypes DEF DryRun, Phases
    <3>11. CASE Reload(p)
      BY <3>11, GotoTypes DEF Reload, Phases, ReloadEffect, UfwReload,
               UfwEnable, Disturb, DisturbAmong
    <3>12. CASE ReloadFails(p)
      <4>1. disturbed' \in [Procs -> SUBSET {"early", "late"}]
        BY <3>12, DisturbType DEF ReloadFails, ReloadEffect, Disturb
      <4>2. phase' \in [Procs -> Phases] /\ fam' \in [Procs -> Families]
        BY <3>12, GotoTypes DEF ReloadFails, CancelBecause, Phases
      <4>3. QED
        BY <3>12, <4>1, <4>2 DEF ReloadFails, CancelBecause, ReloadEffect, UfwReload,
                                 UfwEnable
    <3>13. CASE Verify(p)
      BY <3>13, GotoTypes DEF Verify, Phases
    <3>14. CASE FailArmed(p)
      BY <3>14, GotoTypes DEF FailArmed, Phases, CancelBecause
    <3>15. CASE Accept(p)
      BY <3>15, GotoTypes DEF Accept, Phases, CancelBecause
    <3>16. CASE Reject(p)
      BY <3>16, GotoTypes DEF Reject, Phases, CancelBecause
    <3>17. CASE CancelRollback(p)
      BY <3>17, GotoTypes DEF CancelRollback, Phases, Return,
               RestoreBecause, StopTimer, UnitStates
    <3>18. CASE CancelFails(p)
      <4>1. phase' \in [Procs -> Phases] /\ fam' \in [Procs -> Families]
        BY <3>18, GotoTypes DEF CancelFails, Return, CancelBecause, Phases
      <4>2. unit' \in [Procs -> UnitStates]
        <5>1. unit' = unit \/ StopTimer(p)
          BY <3>18 DEF CancelFails
        <5>2. StopTimer(p) => unit' \in [Procs -> UnitStates]
          BY DEF StopTimer, UnitStates
        <5>3. QED
          BY <5>1, <5>2
      <4>3. QED
        BY <3>18, <4>1, <4>2 DEF CancelFails, Return, CancelBecause, Fault
    <3>19. CASE CheckCandidate(p)
      BY <3>19, AdvanceTypes, GotoTypes DEF CheckCandidate, RestoreBecause, Phases
    <3>20. CASE CheckStatus(p)
      BY <3>20, GotoTypes DEF CheckStatus, RestoreBecause, Phases
    <3>21. CASE SaveState(p)
      BY <3>21, GotoTypes DEF SaveState, Return, Phases
    <3>22. CASE RestoreFile(p)
      <4>1. file' \in [Families -> Contents \cup {NoFile}]
        <5>1. CASE Touched(p, fam[p])
          BY <3>22, <5>1, FilePut DEF RestoreFile
        <5>2. CASE ~Touched(p, fam[p])
          BY <3>22, <5>2 DEF RestoreFile
        <5>3. QED
          BY <5>1, <5>2
      <4>2. disturbed' \in [Procs -> SUBSET {"early", "late"}]
        BY <3>22, DisturbType DEF RestoreFile, Disturb
      <4>3. phase' \in [Procs -> Phases] /\ fam' \in [Procs -> Families]
        BY <3>22, AdvanceTypes DEF RestoreFile, Phases
      <4>4. QED
        BY <3>22, <4>1, <4>2, <4>3 DEF RestoreFile
    <3>23. CASE RestoreUfw(p)
      BY <3>23, GotoTypes DEF RestoreUfw, Phases, Return, CancelBecause,
               AfterRestore, ResetUfw, UfwReload, UfwDisable, Disturb,
               DisturbAmong
    <3>24. CASE RestoreFails(p)
      BY <3>24, GotoTypes DEF RestoreFails, Phases, Return,
               CancelBecause, AfterRestore, Fault
    <3>25. QED
      BY <2>1, <3>1, <3>2, <3>3, <3>4, <3>5, <3>6, <3>7, <3>8, <3>9, <3>10, <3>11,
         <3>12, <3>13, <3>14, <3>15, <3>16, <3>17, <3>18, <3>19, <3>20, <3>21,
         <3>22, <3>23, <3>24 DEF Apply
  <2>2. ASSUME NEW p \in Procs, Rollback(p) PROVE TypeOK'
    <3>1. CASE TimerElapses(p)
      BY <3>1 DEF TimerElapses, UnitStates
    <3>2. ASSUME NEW f \in Families, UnitCopies(p, f) PROVE TypeOK'
      <4>1. file' \in [Families -> Contents \cup {NoFile}]
        <5>1. CASE Touched(p, f)
          BY <3>2, <5>1, FilePut DEF UnitCopies
        <5>2. CASE ~Touched(p, f)
          BY <3>2, <5>2 DEF UnitCopies
        <5>3. QED
          BY <5>1, <5>2
      <4>2. disturbed' \in [Procs -> SUBSET {"early", "late"}]
        BY <3>2, DisturbType DEF UnitCopies, Disturb
      <4>3. unit' \in [Procs -> UnitStates]
        BY <3>2 DEF UnitCopies, UnitStates, Families
      <4>4. QED
        BY <3>2, <4>1, <4>2, <4>3 DEF UnitCopies
    <3>3. CASE UnitResets(p)
      BY <3>3 DEF UnitResets, ResetUfw, UfwReload, UfwDisable, Disturb, DisturbAmong,
                  UnitStates
    <3>4. CASE UnitFails(p)
      BY <3>4 DEF UnitFails, Fault, UnitStates
    <3>5. QED
      BY <2>2, <3>1, <3>2, <3>3, <3>4 DEF Rollback
  <2>3. ASSUME NEW p \in Procs, Die(p) PROVE TypeOK'
    BY <2>3 DEF Die
  <2>4. ASSUME NEW f \in Families, NEW r \in Rules, AdminEdits(f, r) PROVE TypeOK'
    <3>1. [own |-> edits + 1, rules |-> r] \in Contents /\ edits' \in 0 .. MaxEdits
      BY <2>4 DEF AdminEdits, Contents
    <3>2. file' \in [Families -> Contents \cup {NoFile}]
      BY <2>4, <3>1, FilePut DEF AdminEdits
    <3>3. disturbed' \in [Procs -> SUBSET {"early", "late"}]
      BY <2>4, DisturbType DEF AdminEdits
    <3>4. QED
      BY <2>4, <3>1, <3>2, <3>3 DEF AdminEdits
  <2>5. CASE DisableUfw
    <3>1. edits' \in 0 .. MaxEdits
      BY <2>5 DEF DisableUfw
    <3>2. disturbed' \in [Procs -> SUBSET {"early", "late"}]
      BY <2>5, DisturbType DEF DisableUfw
    <3>3. QED
      BY <2>5, <3>1, <3>2 DEF DisableUfw, UfwDisable
  <2>6. CASE UNCHANGED vars
    BY <2>6
  <2>7. QED
    BY <2>1, <2>2, <2>3, <2>4, <2>5, <2>6, StepCases
<1>3. QED
  BY <1>1, <1>2, PTL DEF Spec

----------------------------------------------------------------------------
(***************************************************************************)
(* The rollback is armed before anything changes and stays until the run   *)
(* cancels it: the unit of one run knows nothing of the other runs, so the *)
(* invariant is one formula per run.                                       *)
(***************************************************************************)
Unarmed == {"idle", "read", "plan", "backup", "assert", "arm"}

RollbackArmed(p) ==
  /\ phase[p] \in Unarmed => ~mutated[p] /\ unit[p] = "none"
  /\ phase[p] \in BeforePrompt \cup {"ack"} => unit[p] \notin {"none", "stopped"}
  /\ unit[p] = "failed" => faulty[p]
  /\ phase[p] = "done" <=> outcome[p] # "none"
  /\ outcome[p] = "NO_CHANGE" => ~mutated[p]

RollbackInv == \A p \in Procs : RollbackArmed(p)

LEMMA RollbackInductive == Spec => []RollbackInv
<1>1. Init => RollbackInv
  <2> SUFFICES ASSUME Init, NEW p \in Procs PROVE RollbackArmed(p)
    BY DEF RollbackInv
  <2>1. /\ phase[p] = "idle" /\ outcome[p] = "none" /\ unit[p] = "none"
        /\ mutated[p] = FALSE
    BY DEF Init
  <2>2. QED
    BY <2>1 DEF RollbackArmed, Unarmed, BeforePrompt
<1>2. TypeOK /\ RollbackInv /\ [Next]_vars => RollbackInv'
  <2> SUFFICES ASSUME TypeOK, RollbackInv, [Next]_vars, NEW z \in Procs
               PROVE  RollbackArmed(z)'
    BY DEF RollbackInv
  <2> USE DEF RollbackArmed, Unarmed, BeforePrompt
  <2>0. /\ RollbackArmed(z)
        /\ phase \in [Procs -> Phases]
        /\ outcome \in [Procs -> {"none", "NO_CHANGE", "APPLIED", "ROLLED_BACK", "ERROR"}]
        /\ mutated \in [Procs -> BOOLEAN]
        /\ unit \in [Procs -> UnitStates]
        /\ faulty \in [Procs -> BOOLEAN]
    BY DEF RollbackInv, TypeOK
  <2> USE <2>0
  <2>1. ASSUME NEW p \in Procs, Apply(p) PROVE RollbackArmed(z)'
    <3>1. ASSUME NEW c \in Configs, Begin(p, c) PROVE RollbackArmed(z)'
      BY <3>1 DEF Begin, At, Goto
    <3>2. CASE ReadRules(p)
      BY <3>2 DEF ReadRules, At, Goto, Advance
    <3>3. CASE NoChange(p)
      BY <3>3 DEF NoChange, At, Goto, Return
    <3>4. CASE Validate(p)
      BY <3>4 DEF Validate, At, Goto
    <3>5. CASE Backup(p)
      BY <3>5 DEF Backup, At, Goto, Advance
    <3>6. CASE AssertSource(p)
      BY <3>6 DEF AssertSource, At, Goto, Advance
    <3>7. CASE ArmRollback(p)
      BY <3>7 DEF ArmRollback, At, Goto
    <3>8. CASE FailUnarmed(p)
      BY <3>8 DEF FailUnarmed, At, Goto, Return
    <3>9. CASE WriteRules(p)
      BY <3>9 DEF WriteRules, At, Goto, Advance
    <3>10. CASE DryRun(p)
      BY <3>10 DEF DryRun, At, Goto
    <3>11. CASE Reload(p)
      BY <3>11 DEF Reload, At, Goto, ReloadEffect
    <3>12. CASE ReloadFails(p)
      BY <3>12 DEF ReloadFails, At, Goto, ReloadEffect, CancelBecause
    <3>13. CASE Verify(p)
      BY <3>13 DEF Verify, At, Goto
    <3>14. CASE FailArmed(p)
      BY <3>14 DEF FailArmed, At, Goto, CancelBecause
    <3>15. CASE Accept(p)
      BY <3>15 DEF Accept, At, Goto, CancelBecause
    <3>16. CASE Reject(p)
      BY <3>16 DEF Reject, At, Goto, CancelBecause
    <3>17. CASE CancelRollback(p)
      BY <3>17 DEF CancelRollback, At, Goto, StopTimer, RestoreBecause, Return
    <3>18. CASE CancelFails(p)
      BY <3>18 DEF CancelFails, At, Goto, StopTimer, CancelBecause, Return, Fault
    <3>19. CASE CheckCandidate(p)
      BY <3>19 DEF CheckCandidate, At, Goto, Advance, RestoreBecause
    <3>20. CASE CheckStatus(p)
      BY <3>20 DEF CheckStatus, At, Goto, RestoreBecause
    <3>21. CASE SaveState(p)
      BY <3>21 DEF SaveState, At, Goto, Return
    <3>22. CASE RestoreFile(p)
      BY <3>22 DEF RestoreFile, At, Goto, Advance
    <3>23. CASE RestoreUfw(p)
      BY <3>23 DEF RestoreUfw, At, Goto, AfterRestore, Return, CancelBecause
    <3>24. CASE RestoreFails(p)
      BY <3>24 DEF RestoreFails, At, Goto, AfterRestore, Return, CancelBecause,
               Fault
    <3>25. QED
      BY <2>1, <3>1, <3>2, <3>3, <3>4, <3>5, <3>6, <3>7, <3>8, <3>9, <3>10, <3>11,
         <3>12, <3>13, <3>14, <3>15, <3>16, <3>17, <3>18, <3>19, <3>20, <3>21,
         <3>22, <3>23, <3>24 DEF Apply
  <2>2. ASSUME NEW p \in Procs, Rollback(p) PROVE RollbackArmed(z)'
    <3>1. CASE TimerElapses(p)
      BY <3>1 DEF TimerElapses
    <3>2. ASSUME NEW f \in Families, UnitCopies(p, f) PROVE RollbackArmed(z)'
      BY <3>2 DEF UnitCopies, Families
    <3>3. CASE UnitResets(p)
      BY <3>3 DEF UnitResets
    <3>4. CASE UnitFails(p)
      BY <3>4 DEF UnitFails, Fault
    <3>5. QED
      BY <2>2, <3>1, <3>2, <3>3, <3>4 DEF Rollback
  <2>3. ASSUME NEW p \in Procs, Die(p) PROVE RollbackArmed(z)'
    BY <2>3 DEF Die
  <2>4. ASSUME NEW f \in Families, NEW r \in Rules, AdminEdits(f, r)
        PROVE  RollbackArmed(z)'
    BY <2>4 DEF AdminEdits
  <2>5. CASE DisableUfw
    BY <2>5 DEF DisableUfw
  <2>6. CASE UNCHANGED vars
    BY <2>6
  <2>7. QED
    BY <2>1, <2>2, <2>3, <2>4, <2>5, <2>6, StepCases
<1>3. QED
  BY <1>1, <1>2, TypeCorrect, PTL DEF Spec

(* Any number of runs may be killed anywhere and meet the rollbacks of the *)
(* runs before them and every administrator: each change of the firewall   *)
(* is covered by its rollback until its operator says yes (apply.py:443-531). *)
THEOREM ChangeCovered == Spec => []ChangeIsCovered
<1>1. TypeOK /\ RollbackInv => ChangeIsCovered
  <2> SUFFICES ASSUME TypeOK, RollbackInv, NEW p \in Procs, mutated[p]
               PROVE  \/ Pending(p) \/ unit[p] = "fired"
                      \/ Confirmed(p)
                      \/ phase[p] \in Undoing
                      \/ outcome[p] \in {"ROLLED_BACK", "ERROR"}
                      \/ faulty[p]
    BY DEF ChangeIsCovered
  <2>1. RollbackArmed(p) /\ phase[p] \in Phases /\ unit[p] \in UnitStates
        /\ outcome[p] \in {"none", "NO_CHANGE", "APPLIED", "ROLLED_BACK", "ERROR"}
    BY DEF RollbackInv, TypeOK
  <2>2. CASE phase[p] \in BeforePrompt \cup {"ack"}
    BY <2>1, <2>2 DEF RollbackArmed, UnitStates, Pending
  <2>3. CASE phase[p] = "done"
    BY <2>1, <2>3 DEF RollbackArmed, Confirmed
  <2>4. QED
    BY <2>1, <2>2, <2>3
       DEF RollbackArmed, Phases, Unarmed, BeforePrompt, Confirmed, Undoing
<1>2. QED
  BY <1>1, TypeCorrect, RollbackInductive, PTL

----------------------------------------------------------------------------
(***************************************************************************)
(* What a step means to a run that does not take it: the run itself stays  *)
(* as it is, and where it is not marked as disturbed neither are the files *)
(* and UFW.                                                                *)
(***************************************************************************)
RunKept(z) ==
  /\ phase'[z] = phase[z] /\ fam'[z] = fam[z] /\ alive'[z] = alive[z]
  /\ why'[z] = why[z] /\ outcome'[z] = outcome[z] /\ mutated'[z] = mutated[z]
  /\ cfg'[z] = cfg[z] /\ wasActive'[z] = wasActive[z]
  /\ before'[z] = before[z] /\ backup'[z] = backup[z]
  /\ unit'[z] = unit[z] /\ faulty'[z] = faulty[z]

MarksKept(z) ==
  /\ disturbed[z] \subseteq disturbed'[z]
  /\ phase[z] # "idle" /\ disturbed'[z] = {} => UNCHANGED <<file, ufw, kernel>>
  /\ phase[z] \in {"check", "status", "save", "done"} /\ "late" \notin disturbed'[z]
       => UNCHANGED <<file, ufw, kernel>>

LEMMA DisturbMarks ==
  ASSUME TypeOK, NEW others, DisturbAmong(others), NEW z \in Procs
  PROVE  /\ disturbed[z] \subseteq disturbed'[z]
         /\ z \in others /\ phase[z] # "idle" => disturbed'[z] # {}
         /\ z \in others /\ phase[z] \in {"check", "status", "save", "done"}
              => "late" \in disturbed'[z]
         /\ z \notin others => disturbed'[z] = disturbed[z]
<1>1. disturbed'[z] =
        IF z \notin others \/ phase[z] = "idle" THEN disturbed[z]
        ELSE disturbed[z] \cup {IF phase[z] \in {"check", "status", "save", "done"}
                                  THEN "late" ELSE "early"}
  BY Zenon DEF DisturbAmong
<1>2. QED
  BY <1>1

LEMMA OthersKeep ==
  ASSUME TypeOK, NEW p \in Procs, Apply(p) \/ Rollback(p) \/ Die(p),
         NEW z \in Procs, z # p
  PROVE  RunKept(z) /\ MarksKept(z)
<1> USE DEF TypeOK, RunKept, MarksKept, Goto, Advance, Return, CancelBecause,
        RestoreBecause, StopTimer, Fault
<1>1. Disturb(p) => MarksKept(z)
  BY DisturbMarks DEF Disturb
<1>2. CASE Apply(p)
  <2>1. ASSUME NEW c \in Configs, Begin(p, c) PROVE RunKept(z) /\ MarksKept(z)
    BY <2>1 DEF Begin
  <2>2. CASE ReadRules(p) \/ NoChange(p) \/ Validate(p) \/ Backup(p) \/ AssertSource(p)
    BY <2>2 DEF ReadRules, NoChange, Validate, Backup, AssertSource
  <2>3. CASE ArmRollback(p) \/ FailUnarmed(p) \/ DryRun(p) \/ Verify(p) \/ FailArmed(p)
    BY <2>3 DEF ArmRollback, FailUnarmed, DryRun, Verify, FailArmed
  <2>4. CASE WriteRules(p)
    BY <1>1, <2>4 DEF WriteRules
  <2>5. CASE Reload(p)
    BY <1>1, <2>5 DEF Reload, ReloadEffect
  <2>6. CASE ReloadFails(p)
    BY <1>1, <2>6 DEF ReloadFails, ReloadEffect
  <2>7. CASE Accept(p) \/ Reject(p) \/ CancelRollback(p) \/ CancelFails(p)
    BY <2>7 DEF Accept, Reject, CancelRollback, CancelFails
  <2>8. CASE CheckCandidate(p) \/ CheckStatus(p) \/ SaveState(p)
    BY <2>8 DEF CheckCandidate, CheckStatus, SaveState
  <2>9. CASE RestoreFile(p)
    BY <1>1, <2>9 DEF RestoreFile
  <2>10. CASE RestoreUfw(p)
    BY <1>1, <2>10 DEF RestoreUfw, AfterRestore
  <2>11. CASE RestoreFails(p)
    BY <2>11 DEF RestoreFails, AfterRestore
  <2>12. QED
    BY <1>2, <2>1, <2>2, <2>3, <2>4, <2>5, <2>6, <2>7, <2>8, <2>9, <2>10, <2>11 DEF Apply
<1>3. CASE Rollback(p)
  <2>1. CASE TimerElapses(p) \/ UnitFails(p)
    BY <2>1 DEF TimerElapses, UnitFails
  <2>2. ASSUME NEW f \in Families, UnitCopies(p, f) PROVE RunKept(z) /\ MarksKept(z)
    BY <1>1, <2>2 DEF UnitCopies
  <2>3. CASE UnitResets(p)
    BY <1>1, <2>3 DEF UnitResets
  <2>4. QED
    BY <1>3, <2>1, <2>2, <2>3 DEF Rollback
<1>4. CASE Die(p)
  BY <1>4 DEF Die
<1>5. QED
  BY <1>2, <1>3, <1>4

LEMMA EnvironmentKeeps ==
  ASSUME TypeOK, NEW z \in Procs,
         (\E f \in Families, r \in Rules : AdminEdits(f, r)) \/ DisableUfw
  PROVE  RunKept(z) /\ MarksKept(z)
<1>1. DisturbAmong(Procs) => MarksKept(z)
  BY DisturbMarks DEF MarksKept
<1>2. QED
  BY <1>1 DEF AdminEdits, DisableUfw, RunKept

----------------------------------------------------------------------------
(***************************************************************************)
(* Undoing. As long as nobody else touched a file or UFW since the run     *)
(* began, what its backup would bring back is what the run found, and      *)
(* every part that the process or the unit has undone is undone: the two   *)
(* may undo the same change at once, in any order.                         *)
(***************************************************************************)
BackedUp == {"assert", "arm", "ack", "cancel", "check", "status", "save", "restore", "reset"}
              \cup BeforePrompt

(* The backup of the file is complete.                                     *)
BackupMade(p, f) ==
  \/ phase[p] \in BackedUp \/ unit[p] # "none"
  \/ phase[p] = "backup" /\ fam[p] = "v6" /\ f = "v4"

UndoneByRun(p) == outcome[p] \in {"ROLLED_BACK", "ERROR"} /\ ~faulty[p]

(* The file has not been written, or has been put back.                    *)
FileBack(p, f) ==
  \/ ~mutated[p]
  \/ unit[p] \in {"ufw", "fired"} \/ (unit[p] = "v6" /\ f = "v4")
  \/ phase[p] = "restore" /\ fam[p] = "v6" /\ f = "v4"
  \/ phase[p] = "reset"
  \/ UndoneByRun(p)

UfwBack(p) == unit[p] = "fired" \/ UndoneByRun(p)

UndoSound(p) ==
  /\ \A f \in Families : Touched(p, f) =>
       /\ BackupMade(p, f) => backup[p][f] = before[p][f]
       /\ FileBack(p, f) => file[f] = before[p][f]
       /\ UfwBack(p) /\ wasActive[p] /\ mutated[p] => kernel[f] = before[p][f]
  /\ wasActive[p] => ufw = "active"
  /\ (~mutated[p] \/ UfwBack(p)) /\ ~wasActive[p] => ufw # "active"

UndoReady(p) ==
  /\ phase[p] = "idle" => \A f \in Families : before[p][f] = NoFile
  /\ unit[p] \notin {"none", "armed"} => ~(alive[p] /\ phase[p] \in BeforePrompt)
  /\ disturbed[p] = {} /\ phase[p] # "idle" => UndoSound(p)

UndoInv == \A p \in Procs : UndoReady(p)

(* A step of somebody else keeps it: it marks the run where it changes     *)
(* anything.                                                               *)
LEMMA UndoKept ==
  ASSUME NEW z \in Procs, UndoReady(z), RunKept(z), MarksKept(z)
  PROVE  UndoReady(z)'
<1>1. disturbed'[z] = {} => disturbed[z] = {}
  BY DEF MarksKept
<1>2. phase[z] # "idle" /\ disturbed'[z] = {} => file' = file /\ ufw' = ufw /\ kernel' = kernel
  BY DEF MarksKept
<1>3. disturbed'[z] = {} /\ phase'[z] # "idle" => UndoSound(z)'
  <2> SUFFICES ASSUME disturbed'[z] = {}, phase'[z] # "idle" PROVE UndoSound(z)'
    OBVIOUS
  <2>1. UndoSound(z) /\ file' = file /\ ufw' = ufw /\ kernel' = kernel
    BY <1>1, <1>2 DEF UndoReady, RunKept
  <2>2. QED
    BY <2>1 DEF RunKept, UndoSound, Touched, BackupMade, FileBack, UfwBack, UndoneByRun
<1>4. QED
  BY <1>3 DEF UndoReady, RunKept

(* So do the steps of the run and of its unit.                             *)
LEMMA UndoInductive ==
  ASSUME TypeOK, RollbackInv, UndoInv, [Next]_vars
  PROVE  UndoInv'
<1> SUFFICES ASSUME NEW z \in Procs PROVE UndoReady(z)'
  BY DEF UndoInv
<1>1. UndoReady(z) /\ RollbackArmed(z)
  BY DEF UndoInv, RollbackInv
<1> DEFINE TypesOfRun ==
      /\ phase \in [Procs -> Phases] /\ fam \in [Procs -> Families]
      /\ alive \in [Procs -> BOOLEAN] /\ mutated \in [Procs -> BOOLEAN]
      /\ why \in [Procs -> {"none", "reject", "mismatch", "error"}]
      /\ outcome \in [Procs -> {"none", "NO_CHANGE", "APPLIED", "ROLLED_BACK", "ERROR"}]
      /\ unit \in [Procs -> UnitStates] /\ faulty \in [Procs -> BOOLEAN]
      /\ cfg \in [Procs -> [Families -> Rules]] /\ wasActive \in [Procs -> BOOLEAN]
      /\ before \in [Procs -> [Families -> Contents \cup {NoFile}]]
      /\ backup \in [Procs -> [Families -> Contents \cup {NoFile}]]
      /\ file \in [Families -> Contents \cup {NoFile}]
      /\ kernel \in [Families -> Contents \cup {NoFile}]
      /\ ufw \in {"active", "inactive"}
<1>2. TypesOfRun
  BY DEF TypeOK
<1> USE <1>1, <1>2
<1> USE DEF UndoReady, RollbackArmed, UndoSound, Touched, BackupMade, FileBack, UfwBack,
        UndoneByRun, Unarmed, BeforePrompt, BackedUp, Families
<1>3. CASE Apply(z)
  <2>0. Disturb(z) => disturbed'[z] = disturbed[z]
    BY DisturbMarks DEF Disturb
  <2>1. ASSUME NEW c \in Configs, Begin(z, c) PROVE UndoReady(z)'
    BY <2>1 DEF Begin, At, Goto
  <2>2. CASE ReadRules(z)
    BY <2>2 DEF ReadRules, At, Goto, Advance
  <2>3. CASE NoChange(z)
    BY <2>3 DEF NoChange, At, Goto, Return
  <2>4. CASE Validate(z)
    BY <2>4 DEF Validate, At, Goto
  <2>5. CASE Backup(z)
    BY <2>5 DEF Backup, At, Goto, Advance
  <2>6. CASE AssertSource(z)
    BY <2>6 DEF AssertSource, At, Goto, Advance
  <2>7. CASE ArmRollback(z)
    BY <2>7 DEF ArmRollback, At, Goto
  <2>8. CASE FailUnarmed(z)
    BY <2>8 DEF FailUnarmed, At, Goto, Return
  <2>9. CASE WriteRules(z)
    BY <2>0, <2>9 DEF WriteRules, At, Goto, Advance
  <2>10. CASE DryRun(z)
    BY <2>10 DEF DryRun, At, Goto
  <2>11. CASE Reload(z)
    BY <2>0, <2>11 DEF Reload, At, Goto, ReloadEffect, UfwReload, UfwEnable
  <2>12. CASE ReloadFails(z)
    BY <2>0, <2>12 DEF ReloadFails, At, Goto, ReloadEffect, CancelBecause, UfwReload, UfwEnable
  <2>13. CASE Verify(z)
    BY <2>13 DEF Verify, At, Goto
  <2>14. CASE FailArmed(z)
    BY <2>14 DEF FailArmed, At, Goto, CancelBecause
  <2>15. CASE Accept(z)
    BY <2>15 DEF Accept, At, Goto, CancelBecause
  <2>16. CASE Reject(z)
    BY <2>16 DEF Reject, At, Goto, CancelBecause
  <2>17. CASE CancelRollback(z)
    BY <2>17 DEF CancelRollback, At, Goto, StopTimer, RestoreBecause, Return
  <2>18. CASE CancelFails(z)
    BY <2>18 DEF CancelFails, At, Goto, StopTimer, CancelBecause, Return, Fault
  <2>19. CASE CheckCandidate(z)
    BY <2>19 DEF CheckCandidate, At, Goto, Advance, RestoreBecause
  <2>20. CASE CheckStatus(z)
    BY <2>20 DEF CheckStatus, At, Goto, RestoreBecause
  <2>21. CASE SaveState(z)
    BY <2>21 DEF SaveState, At, Goto, Return
  <2>22. CASE RestoreFile(z)
    BY <2>0, <2>22 DEF RestoreFile, At, Goto, Advance
  <2>23. CASE RestoreUfw(z)
    BY <2>0, <2>23 DEF RestoreUfw, At, Goto, AfterRestore, Return, CancelBecause, ResetUfw,
             UfwReload, UfwDisable
  <2>24. CASE RestoreFails(z)
    BY <2>24 DEF RestoreFails, At, Goto, AfterRestore, Return, CancelBecause, Fault
  <2>25. QED
    BY <1>3, <2>1, <2>2, <2>3, <2>4, <2>5, <2>6, <2>7, <2>8, <2>9, <2>10, <2>11, <2>12,
       <2>13, <2>14, <2>15, <2>16, <2>17, <2>18, <2>19, <2>20, <2>21, <2>22, <2>23, <2>24
       DEF Apply
<1>4. CASE Rollback(z)
  <2>0. Disturb(z) => disturbed'[z] = disturbed[z]
    BY DisturbMarks DEF Disturb
  <2>1. CASE TimerElapses(z)
    BY <2>1 DEF TimerElapses
  <2>2. ASSUME NEW f \in Families, UnitCopies(z, f) PROVE UndoReady(z)'
    BY <2>0, <2>2 DEF UnitCopies
  <2>3. CASE UnitResets(z)
    BY <2>0, <2>3 DEF UnitResets, ResetUfw, UfwReload, UfwDisable
  <2>4. CASE UnitFails(z)
    BY <2>4 DEF UnitFails, Fault
  <2>5. QED
    BY <1>4, <2>1, <2>2, <2>3, <2>4 DEF Rollback
<1>5. CASE Die(z)
  BY <1>5 DEF Die
<1>6. ASSUME RunKept(z), MarksKept(z) PROVE UndoReady(z)'
  BY <1>6, UndoKept
<1>7. CASE UNCHANGED vars
  BY <1>7
<1>8. QED
  <2>1. ASSUME NEW p \in Procs, p # z, Apply(p) \/ Rollback(p) \/ Die(p)
        PROVE  UndoReady(z)'
    BY <1>6, <2>1, OthersKeep
  <2>2. QED
    BY <1>3, <1>4, <1>5, <1>6, <1>7, <2>1, StepCases, EnvironmentKeeps

(* It holds throughout.                                                    *)
LEMMA UndoAlways == Spec => []UndoInv
<1>1. Init => UndoInv
  <2>1. ASSUME Init, NEW p \in Procs
        PROVE  phase[p] = "idle" /\ unit[p] = "none" /\ \A f \in Families : before[p][f] = NoFile
    BY <2>1 DEF Init
  <2>2. QED
    BY <2>1 DEF UndoInv, UndoReady
<1>2. TypeOK /\ RollbackInv /\ UndoInv /\ [Next]_vars => UndoInv'
  BY UndoInductive
<1>3. QED
  BY <1>1, <1>2, TypeCorrect, RollbackInductive, PTL DEF Spec

(* Any number of runs, killed anywhere, and their rollbacks: what a run    *)
(* that did not succeed changed is as it was (apply.py:405-427, 474-531).  *)
THEOREM FailureRestored == Spec => []FailureRestores
<1>1. TypeOK /\ RollbackInv /\ UndoInv => FailureRestores
  <2> SUFFICES ASSUME TypeOK, RollbackInv, UndoInv, NEW p \in Procs,
                      disturbed[p] = {}, ~faulty[p], ~Pending(p),
                      \/ outcome[p] \in {"ROLLED_BACK", "ERROR"}
                      \/ unit[p] = "fired" /\ ~Running(p) /\ outcome[p] # "APPLIED"
               PROVE  Original(p)
    BY DEF FailureRestores
  <2>1. RollbackArmed(p) /\ UndoReady(p) /\ wasActive[p] \in BOOLEAN
        /\ mutated[p] \in BOOLEAN
    BY DEF RollbackInv, UndoInv, TypeOK
  <2>2. phase[p] # "idle"
    BY <2>1 DEF RollbackArmed, Unarmed
  <2>3. UfwBack(p) /\ UndoSound(p)
    BY <2>1, <2>2 DEF UfwBack, UndoneByRun, UndoReady
  <2>4. \A f \in Families : FileBack(p, f)
    BY <2>3 DEF UfwBack, FileBack
  <2>5. QED
    BY <2>1, <2>3, <2>4 DEF UndoSound, Original
<1>2. QED
  BY <1>1, TypeCorrect, RollbackInductive, UndoAlways, PTL


----------------------------------------------------------------------------
(***************************************************************************)
(* Success. The timer of an earlier run that was killed can fire during    *)
(* the next one and put its own backup back, which the checks of the next  *)
(* run cannot tell from their own text. The next theorems are about        *)
(* behaviours in which no run meets the rollback of another; with one run  *)
(* in the life of the host that is every behaviour.                        *)
(***************************************************************************)
NoOldRollback == \A p, q \in Procs : Running(p) /\ Pending(q) => p = q

(* Every edit of an administrator writes a text that was never there: it   *)
(* is newer than all that was read before.                                 *)
Newer(x, y) == x # NoFile /\ x.own > y.own
SameOrNewer(x, y) == x = y \/ Newer(x, y)

OwnBound(x) == x # NoFile => x.own <= edits
StampInv == \A f \in Families :
  /\ OwnBound(file[f])
  /\ \A p \in Procs : OwnBound(before[p][f]) /\ OwnBound(backup[p][f])

(* What the run read, its backup and the file, until it writes.            *)
Asserted == {"arm", "ack", "cancel", "check", "status", "save", "restore", "reset"}
              \cup BeforePrompt

SourceSound(p, f) ==
  /\ Running(p) /\ phase[p] \in {"read", "plan", "backup", "assert", "arm", "recheck"} =>
       SameOrNewer(file[f], before[p][f])
  /\ Running(p) /\ (phase[p] = "assert" \/ (phase[p] = "backup" /\ fam[p] = "v6" /\ f = "v4")) =>
       /\ backup[p][f] # NoFile
       /\ SameOrNewer(backup[p][f], before[p][f])
       /\ SameOrNewer(file[f], backup[p][f])
  /\ (phase[p] \in Asserted \/ mutated[p] \/ (phase[p] = "assert" /\ fam[p] = "v6" /\ f = "v4")) =>
       backup[p][f] = before[p][f]

SourceInv == \A p \in Procs, f \in Families : before[p][f] # NoFile => SourceSound(p, f)

(* One menu at a time.                                                     *)
OneRunning == \A p, q \in Procs : Running(p) /\ Running(q) => p = q

(* From the write on, a file holds the candidate or a newer text, and what *)
(* UFW loaded is the candidate or the file is newer still; a file that was *)
(* checked holds it as long as nobody has changed anything since.          *)
Loaded(p) ==
  \/ phase[p] \in {"verify", "ack", "check", "status", "save"}
  \/ phase[p] = "cancel" /\ why[p] = "none"

Written(p, f) == \/ phase[p] \in {"dryrun", "reload"} \/ Loaded(p)
                 \/ phase[p] = "write" /\ fam[p] = "v6" /\ f = "v4"

Checked(p, f) == \/ phase[p] \in {"status", "save"} \/ outcome[p] = "APPLIED"
                 \/ phase[p] = "check" /\ fam[p] = "v6" /\ f = "v4"

ProgressSound(p, f) ==
  /\ Running(p) /\ phase[p] = "write" /\ ~Written(p, f) => SameOrNewer(file[f], before[p][f])
  /\ Running(p) /\ unit[p] \in {"armed", "stopped"} /\ Written(p, f) =>
       file[f] = Candidate(p, f) \/ Newer(file[f], before[p][f])
  /\ Running(p) /\ unit[p] \in {"armed", "stopped"} /\ Loaded(p) /\ ufw = "active" =>
       kernel[f] = Candidate(p, f) \/ Newer(file[f], before[p][f])
  /\ unit[p] = "stopped" /\ "late" \notin disturbed[p] /\ Checked(p, f) =>
       file[f] = Candidate(p, f) /\ (ufw = "active" => kernel[f] = Candidate(p, f))

ProgressInv == \A p \in Procs, f \in Families : before[p][f] # NoFile => ProgressSound(p, f)

(* A success is recorded, and no later run has loaded anything behind it.  *)
SuccessSound(p) ==
  unit[p] = "stopped" /\ "late" \notin disturbed[p] =>
    /\ phase[p] = "save" \/ outcome[p] = "APPLIED" => ufw = "active"
    /\ outcome[p] = "APPLIED" =>
         saved = {cfg[p]} /\ \A q \in Procs \ {p} : Running(q) => ~Loaded(q)

SuccessInv == \A p \in Procs : SuccessSound(p)

(* A step of a run is a step of the only one there is.                     *)
LEMMA AloneWhileRunning ==
  ASSUME TypeOK, OneRunning, NoOldRollback, NEW p \in Procs, Apply(p) \/ Rollback(p) \/ Die(p),
         NEW z \in Procs, z # p
  PROVE  ~Running(z)
<1>1. CASE Apply(p)
  <2>1. CASE \E c \in Configs : Begin(p, c)
    BY <2>1 DEF Begin
  <2>2. CASE Running(p)
    BY <2>2 DEF OneRunning
  <2>3. QED
    BY <1>1, <2>1, <2>2
       DEF Apply, Running, At, ReadRules, NoChange, Validate, Backup, AssertSource,
           ArmRollback, FailUnarmed, WriteRules, DryRun, Reload, ReloadFails, Verify,
           FailArmed, Accept, Reject, CancelRollback, CancelFails, CheckCandidate,
           CheckStatus, SaveState, RestoreFile, RestoreUfw, RestoreFails
<1>2. CASE Rollback(p)
  <2>1. Pending(p)
    BY <1>2 DEF Rollback, TimerElapses, UnitCopies, UnitResets, UnitFails, Pending, Families
  <2>2. QED
    BY <2>1 DEF NoOldRollback
<1>3. CASE Die(p)
  BY <1>3 DEF Die, OneRunning
<1>4. QED
  BY <1>1, <1>2, <1>3

(* The menus keep out of each other.                                       *)
LEMMA OneRunningKept ==
  ASSUME TypeOK, OneRunning, [Next]_vars
  PROVE  OneRunning'
<1> SUFFICES ASSUME NEW y \in Procs, NEW z \in Procs, y # z, Running(y)', Running(z)'
             PROVE  FALSE
  BY DEF OneRunning
<1>1. ASSUME NEW x \in Procs, RunKept(x), Running(x)' PROVE Running(x)
  BY <1>1 DEF RunKept, Running
<1>2. ASSUME NEW p \in Procs, Apply(p) \/ Rollback(p) \/ Die(p), NEW x \in Procs, x # p, Running(x)'
      PROVE  Running(x) /\ ~Running(p)' 
  <2>1. Running(x)
    BY <1>1, <1>2, OthersKeep
  <2>2. ~Running(p)
    BY <1>2, <2>1 DEF OneRunning
  <2>3. ~\E c \in Configs : Begin(p, c)
    BY <2>1 DEF Begin
  <2>4. (alive[p] /\ phase[p] \notin {"idle", "done"}) \/ ~Apply(p)
    BY <2>3
       DEF Apply, At, ReadRules, NoChange, Validate, Backup, AssertSource,
           ArmRollback, FailUnarmed, WriteRules, DryRun, Reload, ReloadFails, Verify,
           FailArmed, Accept, Reject, CancelRollback, CancelFails, CheckCandidate,
           CheckStatus, SaveState, RestoreFile, RestoreUfw, RestoreFails
  <2>5. Rollback(p) \/ Die(p)
    BY <1>2, <2>2, <2>4 DEF Running
  <2>6. phase' = phase /\ (alive'[p] => alive[p])
    BY <2>5 DEF TypeOK, Rollback, TimerElapses, UnitCopies, UnitResets, UnitFails, Die
  <2>7. QED
    BY <2>1, <2>2, <2>6 DEF Running
<1>3. CASE \E p \in Procs : Apply(p) \/ Rollback(p) \/ Die(p)
  BY <1>2, <1>3 DEF OneRunning
<1>4. CASE (\E f \in Families, r \in Rules : AdminEdits(f, r)) \/ DisableUfw
  BY <1>1, <1>4, EnvironmentKeeps DEF OneRunning
<1>5. CASE UNCHANGED vars
  BY <1>5 DEF OneRunning, Running
<1>6. QED
  BY <1>3, <1>4, <1>5, StepCases

(* No text is newer than the last edit.                                    *)
LEMMA StampsKept ==
  ASSUME TypeOK, StampInv, [Next]_vars
  PROVE  StampInv'
<1>0. edits \in Nat /\ edits' \in Nat /\ edits' >= edits
  <2>1. edits \in Nat
    BY MaxEditsIsNat DEF TypeOK
  <2>2. edits' = edits \/ edits' = edits + 1
    BY StepCases
       DEF Apply, Rollback, Begin, ReadRules, NoChange, Validate, Backup, AssertSource,
           ArmRollback, FailUnarmed, WriteRules, DryRun, Reload, ReloadFails, Verify,
           FailArmed, Accept, Reject, CancelRollback, CancelFails, CheckCandidate,
           CheckStatus, SaveState, RestoreFile, RestoreUfw, RestoreFails,
           TimerElapses, UnitCopies, UnitResets, UnitFails, Die, AdminEdits, DisableUfw
  <2>3. QED
    BY <2>1, <2>2
<1>a. ASSUME NEW x \in Contents \cup {NoFile}, OwnBound(x) PROVE OwnBound(x)'
  BY <1>0, <1>a DEF OwnBound, Contents
<1>b. /\ file \in [Families -> Contents \cup {NoFile}]
      /\ before \in [Procs -> [Families -> Contents \cup {NoFile}]]
      /\ backup \in [Procs -> [Families -> Contents \cup {NoFile}]]
      /\ fam \in [Procs -> Families]
  BY DEF TypeOK
<1>1. ASSUME UNCHANGED <<file, before, backup>> PROVE StampInv'
  BY <1>1, <1>a, <1>b DEF StampInv
<1>2. ASSUME NEW f \in Families, NEW x \in Contents \cup {NoFile}, OwnBound(x)',
             file' = [file EXCEPT ![f] = x], UNCHANGED <<before, backup>>
      PROVE  StampInv'
  BY <1>2, <1>a, <1>b DEF StampInv
<1>3. ASSUME NEW p \in Procs, ReadRules(p) PROVE StampInv'
  <2>1. ASSUME NEW f \in Families, NEW q \in Procs PROVE OwnBound(before[q][f])'
    BY <1>3, <1>a, <1>b, <2>1 DEF ReadRules, StampInv
  <2>2. QED
    BY <1>3, <1>a, <1>b, <2>1 DEF ReadRules, StampInv
<1>4. ASSUME NEW p \in Procs, Backup(p) PROVE StampInv'
  <2>1. ASSUME NEW f \in Families, NEW q \in Procs PROVE OwnBound(backup[q][f])'
    BY <1>4, <1>a, <1>b, <2>1 DEF Backup, StampInv
  <2>2. QED
    BY <1>4, <1>a, <1>b, <2>1 DEF Backup, StampInv
<1>5. ASSUME NEW p \in Procs, WriteRules(p) PROVE StampInv'
  <2>1. CASE Touched(p, fam[p])
    <3>1. Candidate(p, fam[p]) \in Contents
      BY <2>1, <1>b, CandidateType
    <3>2. OwnBound(Candidate(p, fam[p]))
      BY <2>1, <1>b DEF StampInv, OwnBound, Candidate, Touched, Contents
    <3>3. QED
      BY <1>2, <1>5, <1>a, <1>b, <2>1, <3>1, <3>2 DEF WriteRules
  <2>2. CASE ~Touched(p, fam[p])
    BY <1>1, <1>5, <2>2 DEF WriteRules
  <2>3. QED
    BY <2>1, <2>2
<1>6. ASSUME NEW p \in Procs, RestoreFile(p) PROVE StampInv'
  BY <1>1, <1>2, <1>6, <1>a, <1>b DEF RestoreFile, StampInv
<1>7. ASSUME NEW p \in Procs, NEW f \in Families, UnitCopies(p, f) PROVE StampInv'
  BY <1>1, <1>2, <1>7, <1>a, <1>b DEF UnitCopies, StampInv
<1>8. ASSUME NEW f \in Families, NEW r \in Rules, AdminEdits(f, r) PROVE StampInv'
  <2>1. [own |-> edits + 1, rules |-> r] \in Contents
    BY <1>8, MaxEditsIsNat DEF AdminEdits, Contents, TypeOK
  <2>2. PICK x \in Contents : x = [own |-> edits + 1, rules |-> r]
    BY <2>1
  <2>3. OwnBound(x)'
    BY <1>8, <1>0, <2>2 DEF AdminEdits, OwnBound
  <2>4. QED
    BY <1>2, <1>8, <2>2, <2>3 DEF AdminEdits
<1>9. QED
  BY <1>1, <1>3, <1>4, <1>5, <1>6, <1>7, <1>8, StepCases
     DEF Apply, Rollback, Begin, NoChange, Validate, AssertSource,
         ArmRollback, FailUnarmed, DryRun, Reload, ReloadFails, Verify,
         FailArmed, Accept, Reject, CancelRollback, CancelFails, CheckCandidate,
         CheckStatus, SaveState, RestoreUfw, RestoreFails,
         TimerElapses, UnitResets, UnitFails, Die, DisableUfw

(* The source check works: what is backed up is what was read.             *)
LEMMA SourceKept ==
  ASSUME TypeOK, RollbackInv, UndoInv, StampInv, OneRunning, NoOldRollback, SourceInv,
         [Next]_vars
  PROVE  SourceInv'
<1> SUFFICES ASSUME NEW z \in Procs, NEW f \in Families, (before[z][f] # NoFile)'
             PROVE  SourceSound(z, f)'
  BY DEF SourceInv
<1>0. /\ RollbackArmed(z) /\ UndoReady(z) /\ (before[z][f] # NoFile => SourceSound(z, f))
      /\ OwnBound(file[f]) /\ OwnBound(before[z][f]) /\ OwnBound(backup[z][f])
  BY DEF RollbackInv, UndoInv, SourceInv, StampInv
<1>a. /\ phase \in [Procs -> Phases] /\ fam \in [Procs -> Families]
      /\ alive \in [Procs -> BOOLEAN] /\ mutated \in [Procs -> BOOLEAN]
      /\ unit \in [Procs -> UnitStates]
      /\ before \in [Procs -> [Families -> Contents \cup {NoFile}]]
      /\ backup \in [Procs -> [Families -> Contents \cup {NoFile}]]
      /\ file \in [Families -> Contents \cup {NoFile}]
      /\ edits \in Nat /\ NoFile \notin Contents
  BY MaxEditsIsNat, NoFileIsNoContents DEF TypeOK
<1>1. ASSUME RunKept(z), ~Running(z) \/ file'[f] = file[f] PROVE SourceSound(z, f)'
  BY <1>0, <1>1 DEF RunKept, SourceSound, Running, SameOrNewer, Newer
<1>2. ASSUME NEW g \in Families, NEW r \in Rules, AdminEdits(g, r) PROVE SourceSound(z, f)'
  <2>1. RunKept(z)
    BY <1>2, EnvironmentKeeps
  <2>2. CASE g # f
    BY <1>1, <1>2, <1>a, <2>1, <2>2 DEF AdminEdits
  <2>3. CASE g = f
    <3>1. file'[f] # NoFile /\ file'[f].own = edits + 1
      BY <1>2, <1>a, <2>3, MaxEditsIsNat DEF AdminEdits, Contents
    <3>2. ASSUME NEW y \in Contents, OwnBound(y) PROVE SameOrNewer(file'[f], y)
      BY <1>a, <3>1, <3>2 DEF SameOrNewer, Newer, OwnBound, Contents
    <3>3. before[z][f] \in Contents /\ SameOrNewer(file'[f], before[z][f])
      BY <1>0, <1>a, <2>1, <3>2 DEF RunKept
    <3>4. backup[z][f] # NoFile => SameOrNewer(file'[f], backup[z][f])
      BY <1>0, <1>a, <3>2
    <3>5. QED
      BY <1>0, <2>1, <3>3, <3>4 DEF RunKept, SourceSound, Running, SameOrNewer, Newer
  <2>4. QED
    BY <2>2, <2>3
<1>3. CASE DisableUfw
  BY <1>1, <1>3, EnvironmentKeeps DEF DisableUfw
<1>4. ASSUME NEW p \in Procs, p # z, Apply(p) \/ Rollback(p) \/ Die(p)
      PROVE  SourceSound(z, f)'
  BY <1>1, <1>4, OthersKeep, AloneWhileRunning
<1>5. CASE Rollback(z)
  <2>1. phase' = phase /\ fam' = fam /\ alive' = alive /\ mutated' = mutated
        /\ before' = before /\ backup' = backup
    BY <1>5 DEF Rollback, TimerElapses, UnitCopies, UnitResets, UnitFails
  <2>2. CASE \E g \in Families : UnitCopies(z, g)
    <3>1. unit[z] \in {"v4", "v6"}
      BY <2>2 DEF UnitCopies, Families
    <3>2. phase[z] \notin Unarmed /\ ~(alive[z] /\ phase[z] \in BeforePrompt)
      BY <1>0, <3>1 DEF RollbackArmed, UndoReady
    <3>3. QED
      BY <1>0, <2>1, <3>2 DEF SourceSound, Unarmed, BeforePrompt, Running
  <2>3. CASE ~\E g \in Families : UnitCopies(z, g)
    <3>1. file' = file
      BY <1>5, <2>3 DEF Rollback, TimerElapses, UnitResets, UnitFails
    <3>2. QED
      BY <1>0, <2>1, <3>1 DEF SourceSound, Running, SameOrNewer, Newer
  <2>4. QED
    BY <2>2, <2>3
<1>6. CASE Die(z)
  BY <1>0, <1>6, <1>a DEF Die, SourceSound, Running
<1>7. CASE UNCHANGED vars
  BY <1>0, <1>7 DEF SourceSound, Running, SameOrNewer, Newer
<1>8. CASE Apply(z)
  <2> USE <1>0, <1>a DEF SourceSound, Running, At, Asserted, BeforePrompt, Families
  <2>1. ASSUME NEW c \in Configs, Begin(z, c) PROVE SourceSound(z, f)'
    BY <2>1 DEF Begin, UndoReady
  <2>2. CASE ReadRules(z)
    BY <2>2 DEF ReadRules, Goto, Advance, RollbackArmed, Unarmed, SameOrNewer, Newer
  <2>3. CASE NoChange(z) \/ FailUnarmed(z)
    BY <2>3 DEF NoChange, FailUnarmed, Goto, Return, RollbackArmed, Unarmed
  <2>4. CASE Validate(z)
    BY <2>4 DEF Validate, Goto, RollbackArmed, Unarmed, SameOrNewer, Newer
  <2>5. CASE Backup(z)
    <3>1. mutated[z] = FALSE
      BY <2>5 DEF Backup, RollbackArmed, Unarmed
    <3>2. QED
      BY <2>5, <3>1 DEF Backup, Goto, Advance, SameOrNewer, Newer
  <2>6. CASE AssertSource(z)
    <3>1. f = fam[z] => file[f] = before[z][f]
      BY <2>6 DEF AssertSource, SourceUnchanged
    <3>2. f = fam[z] /\ phase[z] = "assert" => backup[z][f] = before[z][f]
      BY <2>6, <3>1 DEF AssertSource, SameOrNewer, Newer, Contents
    <3>3. QED
      BY <2>6, <3>1, <3>2 DEF AssertSource, Goto, Advance, SameOrNewer, Newer, RollbackArmed,
                              Unarmed
  <2>7. CASE ArmRollback(z)
    BY <2>7 DEF ArmRollback, Goto, SameOrNewer, Newer
  <2>8. CASE WriteRules(z)
    BY <2>8 DEF WriteRules, Goto, Advance
  <2>9. CASE DryRun(z) \/ Verify(z) \/ FailArmed(z) \/ Accept(z) \/ Reject(z)
    BY <2>9 DEF DryRun, Verify, FailArmed, Accept, Reject, Goto, CancelBecause
  <2>10. CASE Reload(z) \/ ReloadFails(z)
    BY <2>10 DEF Reload, ReloadFails, ReloadEffect, Goto, CancelBecause
  <2>11. CASE CancelRollback(z) \/ CancelFails(z)
    BY <2>11 DEF CancelRollback, CancelFails, Goto, CancelBecause, RestoreBecause, Return
  <2>12. CASE CheckCandidate(z) \/ CheckStatus(z) \/ SaveState(z)
    BY <2>12 DEF CheckCandidate, CheckStatus, SaveState, Goto, Advance, RestoreBecause, Return
  <2>13. CASE RestoreFile(z)
    BY <2>13 DEF RestoreFile, Goto, Advance
  <2>14. CASE RestoreUfw(z) \/ RestoreFails(z)
    BY <2>14 DEF RestoreUfw, RestoreFails, AfterRestore, Goto, CancelBecause, Return
  <2>15. QED
    BY <1>8, <2>1, <2>2, <2>3, <2>4, <2>5, <2>6, <2>7, <2>8, <2>9, <2>10, <2>11, <2>12,
       <2>13, <2>14 DEF Apply
<1>9. QED
  BY <1>2, <1>3, <1>4, <1>5, <1>6, <1>7, <1>8, StepCases

(* A candidate keeps the text around the blocks.                           *)
LEMMA CandidateFacts ==
  ASSUME TypeOK, NEW p \in Procs, NEW f \in Families, before[p][f] # NoFile
  PROVE  /\ Candidate(p, f) # NoFile /\ Candidate(p, f).own = before[p][f].own
         /\ ~Touched(p, f) => Candidate(p, f) = before[p][f]
<1>1. before[p][f] \in Contents /\ cfg[p][f] \in Rules
  BY DEF TypeOK
<1>2. Candidate(p, f) \in Contents /\ Candidate(p, f).own = before[p][f].own
  BY <1>1 DEF Candidate, Contents
<1>3. ~Touched(p, f) => Candidate(p, f) = before[p][f]
  BY <1>1 DEF Candidate, Contents, Touched
<1>4. QED
  BY <1>2, <1>3, NoFileIsNoContents

(* The candidate gets to the files and to UFW.                             *)
LEMMA ProgressKept ==
  ASSUME TypeOK, RollbackInv, UndoInv, StampInv, OneRunning, NoOldRollback, SourceInv,
         ProgressInv, [Next]_vars
  PROVE  ProgressInv'
<1> SUFFICES ASSUME NEW z \in Procs, NEW f \in Families, (before[z][f] # NoFile)'
             PROVE  ProgressSound(z, f)'
  BY DEF ProgressInv
<1>0. /\ RollbackArmed(z) /\ UndoReady(z)
      /\ before[z][f] # NoFile => SourceSound(z, f) /\ ProgressSound(z, f)
      /\ OwnBound(before[z][f])
  BY DEF RollbackInv, UndoInv, SourceInv, StampInv, ProgressInv
<1>a. /\ phase \in [Procs -> Phases] /\ fam \in [Procs -> Families]
      /\ alive \in [Procs -> BOOLEAN] /\ mutated \in [Procs -> BOOLEAN]
      /\ unit \in [Procs -> UnitStates]
      /\ why \in [Procs -> {"none", "reject", "mismatch", "error"}]
      /\ outcome \in [Procs -> {"none", "NO_CHANGE", "APPLIED", "ROLLED_BACK", "ERROR"}]
      /\ before \in [Procs -> [Families -> Contents \cup {NoFile}]]
      /\ cfg \in [Procs -> [Families -> Rules]]
      /\ file \in [Families -> Contents \cup {NoFile}]
      /\ ufw \in {"active", "inactive"}
      /\ edits \in Nat /\ NoFile \notin Contents
  BY MaxEditsIsNat, NoFileIsNoContents DEF TypeOK
<1>b. Checked(z, f) => phase[z] \in {"check", "status", "save", "done"}
  BY <1>0 DEF Checked, RollbackArmed
<1>c. before[z][f] # NoFile =>
        /\ Candidate(z, f) # NoFile /\ Candidate(z, f).own = before[z][f].own
        /\ ~Touched(z, f) => Candidate(z, f) = before[z][f]
  BY CandidateFacts
<1>d. ASSUME before'[z] = before[z], cfg'[z] = cfg[z]
      PROVE  Candidate(z, f)' = Candidate(z, f)
  BY <1>d DEF Candidate
<1>1. ASSUME RunKept(z), MarksKept(z),
             ~Running(z) \/ (file'[f] = file[f] /\ ufw' = ufw /\ kernel' = kernel)
      PROVE ProgressSound(z, f)'
  BY <1>0, <1>1, <1>b, <1>d
     DEF RunKept, MarksKept, ProgressSound, Running, Written, Loaded, Checked, SameOrNewer, Newer
<1>2. ASSUME NEW g \in Families, NEW r \in Rules, AdminEdits(g, r) PROVE ProgressSound(z, f)'
  <2>1. RunKept(z) /\ MarksKept(z)
    BY <1>2, EnvironmentKeeps
  <2>2. CASE g # f
    BY <1>1, <1>2, <1>a, <2>1, <2>2 DEF AdminEdits
  <2>3. CASE g = f
    <3>1. file'[f] # NoFile /\ file'[f].own = edits + 1
      BY <1>2, <1>a, <2>3, MaxEditsIsNat DEF AdminEdits, Contents
    <3>2. Newer(file'[f], before[z][f])
      BY <1>0, <1>a, <2>1, <3>1 DEF RunKept, Newer, OwnBound, Contents
    <3>3. QED
      BY <1>0, <1>b, <1>d, <2>1, <3>2
         DEF RunKept, MarksKept, ProgressSound, Running, Written, Loaded, Checked, SameOrNewer,
             Newer
  <2>4. QED
    BY <2>2, <2>3
<1>3. CASE DisableUfw
  <2>1. RunKept(z) /\ MarksKept(z) /\ file' = file /\ kernel' = kernel /\ ufw' = "inactive"
    BY <1>3, EnvironmentKeeps DEF DisableUfw, UfwDisable
  <2>2. QED
    BY <1>0, <1>b, <1>d, <2>1
       DEF RunKept, MarksKept, ProgressSound, Running, Written, Loaded, Checked, SameOrNewer,
           Newer
<1>4. ASSUME NEW p \in Procs, p # z, Apply(p) \/ Rollback(p) \/ Die(p)
      PROVE  ProgressSound(z, f)'
  BY <1>1, <1>4, OthersKeep, AloneWhileRunning
<1>5. CASE Rollback(z)
  <2>1. phase' = phase /\ fam' = fam /\ alive' = alive /\ why' = why /\ outcome' = outcome
        /\ before' = before /\ cfg' = cfg
    BY <1>5 DEF Rollback, TimerElapses, UnitCopies, UnitResets, UnitFails
  <2>2. unit'[z] \notin {"none", "armed", "stopped"} /\ unit[z] # "none"
    BY <1>5, <1>a DEF Rollback, TimerElapses, UnitCopies, UnitResets, UnitFails, Families
  <2>3. phase[z] = "write" /\ alive[z] => file' = file
    BY <1>0, <1>5 DEF Rollback, TimerElapses, UnitCopies, UnitResets, UnitFails, UndoReady,
                      BeforePrompt, Families
  <2>4. QED
    BY <1>0, <2>1, <2>2, <2>3
       DEF ProgressSound, Running, Written, Loaded, SameOrNewer, Newer
<1>6. CASE Die(z)
  BY <1>0, <1>6, <1>a, <1>d DEF Die, ProgressSound, Running, Checked
<1>7. CASE UNCHANGED vars
  BY <1>0, <1>7, <1>d DEF ProgressSound, Running, Written, Loaded, Checked, SameOrNewer, Newer
<1>8. CASE Apply(z)
  <2>0. Disturb(z) => disturbed'[z] = disturbed[z]
    BY DisturbMarks DEF Disturb
  <2> USE <1>0, <1>a
      DEF ProgressSound, Running, At, Written, Loaded, Checked, Families
  <2>1. ASSUME NEW c \in Configs, Begin(z, c) PROVE ProgressSound(z, f)'
    BY <2>1 DEF Begin, UndoReady
  <2>2. CASE ReadRules(z) \/ NoChange(z) \/ FailUnarmed(z) \/ Validate(z) \/ Backup(z)
    BY <2>2 DEF ReadRules, NoChange, FailUnarmed, Validate, Backup, Goto, Advance, Return,
                RollbackArmed
  <2>3. CASE AssertSource(z)
    BY <2>3 DEF AssertSource, Goto, Advance, RollbackArmed, SourceSound, SameOrNewer, Newer
  <2>4. CASE ArmRollback(z)
    BY <2>4 DEF ArmRollback, Goto, RollbackArmed
  <2>5. CASE WriteRules(z)
    <3>1. Candidate(z, f)' = Candidate(z, f)
      BY <1>d, <2>5 DEF WriteRules
    <3>2. outcome'[z] # "APPLIED" /\ phase'[z] \in {"write", "dryrun"}
      BY <2>5 DEF WriteRules, Goto, Advance, RollbackArmed
    <3>3. CASE f = fam[z] /\ Touched(z, f)
      BY <2>5, <3>1, <3>2, <3>3 DEF WriteRules, Goto, Advance
    <3>4. CASE f = fam[z] /\ ~Touched(z, f)
      BY <1>c, <2>5, <3>1, <3>2, <3>4 DEF WriteRules, Goto, Advance, SameOrNewer, Newer
    <3>5. CASE f # fam[z]
      <4>1. file'[f] = file[f]
        BY <2>5, <3>5 DEF WriteRules
      <4>2. QED
        BY <2>5, <3>1, <3>2, <3>5, <4>1 DEF WriteRules, Goto, Advance, SameOrNewer, Newer
    <3>6. QED
      BY <3>3, <3>4, <3>5
  <2>6. CASE DryRun(z)
    BY <1>d, <2>6 DEF DryRun, Goto, RollbackArmed, Newer
  <2>7. CASE Reload(z)
    BY <1>d, <2>7 DEF Reload, ReloadEffect, UfwReload, UfwEnable, Goto, RollbackArmed, Newer
  <2>8. CASE ReloadFails(z)
    BY <2>8 DEF ReloadFails, Goto, CancelBecause, RollbackArmed
  <2>9. CASE Verify(z)
    BY <1>d, <2>9 DEF Verify, Goto, RollbackArmed, Newer
  <2>10. CASE FailArmed(z)
    BY <2>10 DEF FailArmed, Goto, CancelBecause, RollbackArmed
  <2>11. CASE Accept(z) \/ Reject(z)
    BY <1>d, <2>11 DEF Accept, Reject, Goto, CancelBecause, RollbackArmed, Newer
  <2>12. CASE CancelRollback(z)
    BY <1>d, <2>12 DEF CancelRollback, StopTimer, Goto, RestoreBecause, Return, RollbackArmed,
                       Newer
  <2>13. CASE CancelFails(z)
    BY <2>13 DEF CancelFails, Goto, CancelBecause, Return, RollbackArmed
  <2>14. CASE CheckCandidate(z)
    <3>1. outcome[z] = "none"
      BY <2>14 DEF CheckCandidate, RollbackArmed
    <3>2. f = fam[z] /\ phase'[z] # "restore" /\ before[z][f] # NoFile =>
            file[f] = Candidate(z, f) /\ ~Newer(file[f], before[z][f])
      BY <1>c, <2>14 DEF CheckCandidate, FileIsLive, RestoreBecause, Goto, Newer, Contents
    <3>3. QED
      BY <1>d, <2>14, <3>1, <3>2 DEF CheckCandidate, Goto, Advance, RestoreBecause, Newer
  <2>15. CASE CheckStatus(z)
    BY <1>d, <2>15 DEF CheckStatus, Goto, RestoreBecause, RollbackArmed, Newer
  <2>16. CASE SaveState(z)
    BY <1>d, <2>16 DEF SaveState, Goto, Return, Newer
  <2>17. CASE RestoreFile(z)
    BY <2>17 DEF RestoreFile, Goto, Advance, RollbackArmed
  <2>18. CASE RestoreUfw(z) \/ RestoreFails(z)
    BY <2>18 DEF RestoreUfw, RestoreFails, AfterRestore, Goto, CancelBecause, Return,
                 RollbackArmed
  <2>19. QED
    BY <1>8, <2>1, <2>2, <2>3, <2>4, <2>5, <2>6, <2>7, <2>8, <2>9, <2>10, <2>11, <2>12,
       <2>13, <2>14, <2>15, <2>16, <2>17, <2>18 DEF Apply
<1>9. QED
  BY <1>2, <1>3, <1>4, <1>5, <1>6, <1>7, <1>8, StepCases

(* Nothing but a reload brings a run to where it could succeed.            *)
LEMMA LoadedEntry ==
  ASSUME TypeOK, NEW p \in Procs, Apply(p), Running(p)', Loaded(p)'
  PROVE  Reload(p) \/ (Running(p) /\ Loaded(p))
<1>1. /\ phase \in [Procs -> Phases] /\ fam \in [Procs -> Families]
      /\ why \in [Procs -> {"none", "reject", "mismatch", "error"}]
  BY DEF TypeOK
<1> USE <1>1 DEF Loaded, Running, At, Goto, Advance, Return, CancelBecause, RestoreBecause, Families
<1>2. ASSUME NEW c \in Configs PROVE ~Begin(p, c)
  BY DEF Begin
<1>3. ~(ReadRules(p) \/ NoChange(p) \/ Validate(p) \/ Backup(p) \/ AssertSource(p))
  BY DEF ReadRules, NoChange, Validate, Backup, AssertSource
<1>4. ~(ArmRollback(p) \/ FailUnarmed(p) \/ WriteRules(p) \/ DryRun(p) \/ ReloadFails(p))
  BY DEF ArmRollback, FailUnarmed, WriteRules, DryRun, ReloadFails
<1>5. ~(FailArmed(p) \/ Reject(p) \/ CancelFails(p) \/ SaveState(p))
  BY DEF FailArmed, Reject, CancelFails, SaveState
<1>6. ~(RestoreFile(p) \/ RestoreUfw(p) \/ RestoreFails(p))
  BY DEF RestoreFile, RestoreUfw, RestoreFails, AfterRestore
<1>7. Verify(p) \/ Accept(p) \/ CancelRollback(p) \/ CheckCandidate(p) \/ CheckStatus(p)
        => Running(p) /\ Loaded(p)
  BY DEF Verify, Accept, CancelRollback, CheckCandidate, CheckStatus
<1>8. QED
  BY <1>2, <1>3, <1>4, <1>5, <1>6, <1>7 DEF Apply

(* A success stays what it was until somebody disturbs it.                 *)
LEMMA SuccessKept ==
  ASSUME TypeOK, RollbackInv, OneRunning, NoOldRollback, SuccessInv, [Next]_vars
  PROVE  SuccessInv'
<1> SUFFICES ASSUME NEW z \in Procs PROVE SuccessSound(z)'
  BY DEF SuccessInv
<1>0. SuccessSound(z) /\ RollbackArmed(z)
  BY DEF SuccessInv, RollbackInv
<1>a. /\ phase \in [Procs -> Phases] /\ fam \in [Procs -> Families]
      /\ unit \in [Procs -> UnitStates]
      /\ outcome \in [Procs -> {"none", "NO_CHANGE", "APPLIED", "ROLLED_BACK", "ERROR"}]
      /\ cfg \in [Procs -> [Families -> Rules]]
      /\ ufw \in {"active", "inactive"}
  BY DEF TypeOK
<1>1. ASSUME RunKept(z), MarksKept(z), saved' = saved,
             \A q \in Procs \ {z} : Running(q)' /\ Loaded(q)' /\ "late" \notin disturbed'[z]
                 => (Running(q) /\ Loaded(q)) \/ outcome[z] # "APPLIED"
      PROVE  SuccessSound(z)'
  BY <1>0, <1>1 DEF RunKept, MarksKept, SuccessSound, RollbackArmed
<1>2. ASSUME NEW q \in Procs, RunKept(q) PROVE Running(q)' = Running(q) /\ Loaded(q)' = Loaded(q)
  BY <1>2 DEF RunKept, Running, Loaded
<1>3. CASE (\E f \in Families, r \in Rules : AdminEdits(f, r)) \/ DisableUfw
  <2>1. saved' = saved
    BY <1>3 DEF AdminEdits, DisableUfw
  <2>2. QED
    BY <1>1, <1>2, <1>3, <2>1, EnvironmentKeeps
<1>4. ASSUME NEW p \in Procs, p # z, Apply(p) \/ Rollback(p) \/ Die(p)
      PROVE  SuccessSound(z)'
  <2>1. RunKept(z) /\ MarksKept(z)
    BY <1>4, OthersKeep
  <2>2. ASSUME NEW q \in Procs, q # p PROVE RunKept(q)
    BY <1>4, <2>2, OthersKeep
  <2>3. CASE outcome[z] # "APPLIED"
    BY <1>0, <2>1, <2>3 DEF RunKept, MarksKept, SuccessSound
  <2>4. CASE outcome[z] = "APPLIED" /\ Reload(p)
    <3>1. "late" \in disturbed'[z]
      BY <1>0, <1>4, <2>4, DisturbMarks DEF Reload, ReloadEffect, Disturb, RollbackArmed
    <3>2. QED
      BY <3>1 DEF SuccessSound
  <2>5. CASE outcome[z] = "APPLIED" /\ ~Reload(p)
    <3>1. Running(p)' /\ Loaded(p)' => Running(p) /\ Loaded(p)
      <4>1. CASE Apply(p)
        BY <2>5, <4>1, LoadedEntry
      <4>2. CASE Rollback(p)
        BY <4>2 DEF Rollback, TimerElapses, UnitCopies, UnitResets, UnitFails, Running, Loaded
      <4>3. CASE Die(p)
        BY <4>3 DEF Die, Running, TypeOK
      <4>4. QED
        BY <1>4, <4>1, <4>2, <4>3
    <3>2. CASE SaveState(p)
      <4>1. Running(p) /\ Loaded(p)
        BY <3>2 DEF SaveState, At, Running, Loaded
      <4>2. "late" \notin disturbed'[z] => "late" \notin disturbed[z]
        BY <2>1 DEF MarksKept
      <4>3. QED
        BY <1>0, <1>4, <2>1, <2>5, <4>1, <4>2 DEF SuccessSound, RunKept
    <3>3. CASE saved' = saved
      BY <1>1, <1>2, <2>1, <2>2, <3>1, <3>3
    <3>4. saved' # saved => SaveState(p)
      BY <1>4
         DEF Apply, Rollback, Begin, ReadRules, NoChange, Validate, Backup, AssertSource,
             ArmRollback, FailUnarmed, WriteRules, DryRun, Reload, ReloadFails, Verify,
             FailArmed, Accept, Reject, CancelRollback, CancelFails, CheckCandidate,
             CheckStatus, RestoreFile, RestoreUfw, RestoreFails,
             TimerElapses, UnitCopies, UnitResets, UnitFails, Die
    <3>5. QED
      BY <3>2, <3>3, <3>4
  <2>6. QED
    BY <2>3, <2>4, <2>5
<1>5. CASE UNCHANGED vars
  BY <1>0, <1>5 DEF SuccessSound, Running, Loaded
<1>6. CASE Rollback(z)
  <2>1. unit'[z] # "stopped"
    BY <1>6, <1>a DEF Rollback, TimerElapses, UnitCopies, UnitResets, UnitFails, Families
  <2>2. QED
    BY <2>1 DEF SuccessSound
<1>7. CASE Die(z)
  <2>1. UNCHANGED <<phase, outcome, unit, disturbed, ufw, saved, cfg, why>>
    BY <1>7 DEF Die
  <2>2. \A q \in Procs \ {z} : Running(q)' = Running(q)
    BY <1>7, OthersKeep, <1>2
  <2>3. QED
    BY <1>0, <2>1, <2>2 DEF SuccessSound, Loaded
<1>8. CASE Apply(z)
  <2>1. CASE outcome'[z] = "APPLIED"
    <3>1. SaveState(z)
      BY <1>0, <1>8, <1>a, <2>1
         DEF Apply, At, Begin, ReadRules, NoChange, Validate, Backup, AssertSource,
             ArmRollback, FailUnarmed, WriteRules, DryRun, Reload, ReloadFails, Verify,
             FailArmed, Accept, Reject, CancelRollback, CancelFails, CheckCandidate,
             CheckStatus, RestoreFile, RestoreUfw, RestoreFails, AfterRestore,
             Goto, Return, CancelBecause, RestoreBecause, RollbackArmed
    <3>2. Running(z)
      BY <3>1 DEF SaveState, At, Running
    <3>3. \A q \in Procs \ {z} : ~Running(q)'
      BY <1>2, <1>8, <3>2, OthersKeep DEF OneRunning
    <3>4. unit' = unit /\ disturbed' = disturbed /\ ufw' = ufw /\ saved' = {cfg'[z]}
          /\ phase[z] = "save"
      BY <3>1 DEF SaveState, At
    <3>5. QED
      BY <1>0, <3>3, <3>4 DEF SuccessSound
  <2>2. CASE outcome'[z] # "APPLIED" /\ phase'[z] = "save"
    <3>1. CheckStatus(z)
      BY <1>0, <1>8, <1>a, <2>2
         DEF Apply, At, Begin, ReadRules, NoChange, Validate, Backup, AssertSource,
             ArmRollback, FailUnarmed, WriteRules, DryRun, Reload, ReloadFails, Verify,
             FailArmed, Accept, Reject, CancelRollback, CancelFails, CheckCandidate,
             SaveState, RestoreFile, RestoreUfw, RestoreFails, AfterRestore,
             Goto, Advance, Return, CancelBecause, RestoreBecause, Families
    <3>2. ufw' = "active"
      BY <1>a, <2>2, <3>1 DEF CheckStatus, RestoreBecause, Goto
    <3>3. QED
      BY <2>2, <3>2 DEF SuccessSound
  <2>3. CASE outcome'[z] # "APPLIED" /\ phase'[z] # "save"
    BY <2>3 DEF SuccessSound
  <2>4. QED
    BY <2>1, <2>2, <2>3
<1>9. QED
  BY <1>3, <1>4, <1>5, <1>6, <1>7, <1>8, StepCases

(* The parts hold together.                                                *)
RunInv == StampInv /\ OneRunning /\ SourceInv /\ ProgressInv /\ SuccessInv

LEMMA RunAlways == Spec /\ []NoOldRollback => []RunInv
<1>1. Init => RunInv
  <2> SUFFICES ASSUME Init PROVE RunInv
    OBVIOUS
  <2>1. \A p \in Procs : /\ phase[p] = "idle" /\ outcome[p] = "none" /\ unit[p] = "none"
                         /\ \A f \in Families : before[p][f] = NoFile /\ backup[p][f] = NoFile
    BY DEF Init
  <2>2. StampInv
    BY <2>1 DEF Init, StampInv, OwnBound
  <2>3. OneRunning /\ SourceInv /\ ProgressInv /\ SuccessInv
    BY <2>1 DEF OneRunning, Running, SourceInv, ProgressInv, SuccessInv, SuccessSound
  <2>4. QED
    BY <2>2, <2>3 DEF RunInv
<1>2. TypeOK /\ RollbackInv /\ UndoInv /\ NoOldRollback /\ RunInv /\ [Next]_vars => RunInv'
  BY StampsKept, OneRunningKept, SourceKept, ProgressKept, SuccessKept DEF RunInv
<1>3. QED
  BY <1>1, <1>2, TypeCorrect, RollbackInductive, UndoAlways, PTL DEF Spec

(* However many administrators edit the files between the first read and   *)
(* the arming of the rollback, a change is only written with a backup of   *)
(* the very text it was computed from (apply.py:384-401, 441-449).         *)
THEOREM SourceBackedUp == Spec /\ []NoOldRollback => []BackupIsSource
<1>1. RunInv => BackupIsSource
  BY DEF RunInv, SourceInv, SourceSound, BackupIsSource, Touched
<1>2. QED
  BY <1>1, RunAlways, PTL

(* A success is reported for what is in the files and loaded               *)
(* (apply.py:430-437, 486-514).                                            *)
THEOREM SuccessLive == Spec /\ []NoOldRollback => []SuccessIsLive
<1>1. RunInv => SuccessIsLive
  <2> SUFFICES ASSUME RunInv, NEW p \in Procs, outcome[p] = "APPLIED",
                      unit[p] = "stopped", "late" \notin disturbed[p]
               PROVE  Live(p) /\ saved = {cfg[p]}
    BY DEF SuccessIsLive
  <2>1. ufw = "active" /\ saved = {cfg[p]}
    BY DEF RunInv, SuccessInv, SuccessSound
  <2>2. ASSUME NEW f \in Families, before[p][f] # NoFile
        PROVE  file[f] = Candidate(p, f) /\ kernel[f] = Candidate(p, f)
    BY <2>1, <2>2 DEF RunInv, ProgressInv, ProgressSound, Checked
  <2>3. QED
    BY <2>1, <2>2 DEF Live
<1>2. QED
  BY <1>1, RunAlways, PTL

(* With one run in the life of the host there is no earlier one: both      *)
(* hold of every behaviour, for any policies, files and edits.             *)
THEOREM OneRun ==
  ASSUME \A p, q \in Procs : p = q
  PROVE  Spec => [](BackupIsSource /\ SuccessIsLive)
<1>1. NoOldRollback
  BY DEF NoOldRollback
<1>2. QED
  BY <1>1, SourceBackedUp, SuccessLive, PTL
=============================================================================
