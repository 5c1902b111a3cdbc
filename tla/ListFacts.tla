------------------------------ MODULE ListFacts ------------------------------
(***************************************************************************)
(* Facts about numbers and lists that the proofs of the C server's modules *)
(* share.                                                                  *)
(***************************************************************************)
EXTENDS Integers, Sequences, SequencesExt, TLAPS, WellFoundedInduction, SequenceTheorems

\* A set of naturals that is not empty has its smallest element in it.
LEMMA MinElement ==
  ASSUME NEW S, S \subseteq Nat, S # {}
  PROVE  /\ Min(S) \in S
         /\ \A y \in S : Min(S) <= y
<1> DEFINE R == {p \in Nat \X Nat : p[1] < p[2]}
<1>1. IsWellFoundedOn(R, Nat)
  BY NatLessThanWellFounded DEF OpToRel
<1>2. PICK x \in S : \A y \in S : ~(<<y, x>> \in R)
  BY <1>1, WFMin
<1>3. ASSUME NEW y \in S PROVE x <= y
  <2>1. x \in Nat /\ y \in Nat /\ <<y, x>> \notin R
    BY <1>2
  <2>2. ~(y < x)
    BY <2>1
  <2> QED
    BY <2>1, <2>2
<1> QED
  BY <1>3 DEF Min

\* What holds of zero and is handed on from each number to the next holds up to n.
LEMMA UpTo ==
  ASSUME NEW n \in Nat, NEW T,
         0 \in T,
         \A k \in 0..n : k # 0 /\ k - 1 \in T => k \in T
  PROVE  0..n \subseteq T
<1> DEFINE S == {k \in 0..n : k \notin T}
<1> SUFFICES ASSUME S # {} PROVE FALSE
  OBVIOUS
<1> DEFINE m == Min(S)
<1>1. m \in S /\ \A y \in S : m <= y
  BY MinElement
<1> HIDE DEF m
<1>2. m # 0 /\ m - 1 \in 0..n
  BY <1>1
<1>3. m - 1 \in T
  BY <1>1, <1>2
<1> QED
  BY <1>1, <1>2, <1>3

\* Taking the i-th element out leaves the others, in their order.
LEMMA RemoveAtProperties ==
  ASSUME NEW S, NEW s \in Seq(S), NEW i \in 1..Len(s)
  PROVE  /\ RemoveAt(s, i) \in Seq(S)
         /\ Len(RemoveAt(s, i)) = Len(s) - 1
         /\ \A j \in 1..Len(s) - 1 :
              RemoveAt(s, i)[j] = IF j < i THEN s[j] ELSE s[j + 1]
<1> DEFINE front == SubSeq(s, 1, i - 1)
           back == SubSeq(s, i + 1, Len(s))
<1>1. /\ front \in Seq(S) /\ Len(front) = i - 1
      /\ \A j \in 1..i - 1 : front[j] = s[j]
  <2>1. \A j \in 1..i - 1 : s[j] \in S
    OBVIOUS
  <2>2. 1 \in Int /\ i - 1 \in Int
    OBVIOUS
  <2>3. /\ front \in Seq(S)
        /\ Len(front) = IF 1 <= i - 1 THEN (i - 1) - 1 + 1 ELSE 0
        /\ \A j \in 1..(i - 1) - 1 + 1 : front[j] = s[1 + j - 1]
    BY <2>1, <2>2, SubSeqProperties
  <2> QED
    BY <2>3
<1>2. /\ back \in Seq(S) /\ Len(back) = Len(s) - i
      /\ \A j \in 1..Len(s) - i : back[j] = s[i + j]
  <2>1. \A j \in i + 1..Len(s) : s[j] \in S
    OBVIOUS
  <2>2. i + 1 \in Int /\ Len(s) \in Int
    OBVIOUS
  <2>3. /\ back \in Seq(S)
        /\ Len(back) = IF i + 1 <= Len(s) THEN Len(s) - (i + 1) + 1 ELSE 0
        /\ \A j \in 1..Len(s) - (i + 1) + 1 : back[j] = s[i + 1 + j - 1]
    BY <2>1, <2>2, SubSeqProperties
  <2> QED
    BY <2>3
<1> HIDE DEF front, back
<1>3. /\ front \o back \in Seq(S)
      /\ Len(front \o back) = Len(front) + Len(back)
      /\ \A j \in 1..Len(front) + Len(back) :
           (front \o back)[j] = IF j <= Len(front) THEN front[j] ELSE back[j - Len(front)]
  BY <1>1, <1>2, ConcatProperties
<1>4. RemoveAt(s, i) = front \o back
  BY DEF RemoveAt, front, back
<1>5. Len(front) + Len(back) = Len(s) - 1
  BY <1>1, <1>2
<1>6. ASSUME NEW j \in 1..Len(s) - 1
      PROVE  (front \o back)[j] = IF j < i THEN s[j] ELSE s[j + 1]
  <2>1. CASE j < i
    BY <1>1, <1>3, <1>5, <2>1
  <2>2. CASE ~(j < i)
    <3>1. j - (i - 1) \in 1..Len(s) - i /\ i + (j - (i - 1)) = j + 1
      BY <2>2
    <3>2. (front \o back)[j] = back[j - (i - 1)]
      BY <1>1, <1>3, <1>5, <2>2
    <3> QED
      BY <1>2, <2>2, <3>1, <3>2
  <2> QED
    BY <2>1, <2>2
<1> QED
  BY <1>3, <1>4, <1>5, <1>6
-----------------------------------------------------------------------------
(* Lists in which everything is at most once *)

\* What is left of a list from x on.
From(s, x) == {s[i] : i \in {j \in 1..Len(s) : \E k \in 1..j : s[k] = x}}

\* REMOVE_FROM_LIST takes out what it is given, if it is there.
LEMMA RemoveFirstProperties ==
  ASSUME NEW S, NEW s \in Seq(S), NEW e
  PROVE  \/ e \notin ToSet(s) /\ RemoveFirst(s, e) = s
         \/ \E i \in 1..Len(s) : s[i] = e /\ RemoveFirst(s, e) = RemoveAt(s, i)
<1> DEFINE I == {i \in 1..Len(s) : s[i] = e}
<1>0. Len(s) \in Nat /\ DOMAIN s = 1..Len(s)
  OBVIOUS
<1>1. CASE I = {}
  BY <1>0, <1>1 DEF RemoveFirst, ToSet
<1>2. CASE I # {}
  <2>1. Min(I) \in I
    <3>1. I \subseteq Nat
      OBVIOUS
    <3> HIDE DEF I
    <3> QED
      BY <1>2, <3>1, MinElement
  <2>2. SelectInSeq(s, LAMBDA v : v = e) = Min(I)
    BY <1>2 DEF SelectInSeq
  <2>3. RemoveFirst(s, e) = RemoveAt(s, SelectInSeq(s, LAMBDA v : v = e))
    BY <1>2 DEF RemoveFirst
  <2> QED
    BY <2>1, <2>2, <2>3
<1> QED
  BY <1>1, <1>2

\* Without duplicates, taking something out takes out just that.
LEMMA RemovingOne ==
  ASSUME NEW S, NEW s \in Seq(S), IsInjective(s), NEW e
  PROVE  LET t == RemoveFirst(s, e)
         IN /\ t \in Seq(S)
            /\ ToSet(t) = ToSet(s) \ {e}
            /\ IsInjective(t)
            /\ \A x \in ToSet(s) \ {e} : From(t, x) = From(s, x) \ {e}
<1> DEFINE t == RemoveFirst(s, e)
<1>0. Len(s) \in Nat /\ DOMAIN s = 1..Len(s)
  OBVIOUS
<1>1. CASE e \notin ToSet(s) /\ t = s
  <2>1. \A x : From(s, x) \subseteq ToSet(s)
    BY <1>0 DEF From, ToSet
  <2> HIDE DEF t
  <2> QED
    BY <1>1, <2>1 DEF t
<1>2. ASSUME NEW i \in 1..Len(s), s[i] = e, t = RemoveAt(s, i)
      PROVE  /\ t \in Seq(S)
             /\ ToSet(t) = ToSet(s) \ {e}
             /\ IsInjective(t)
             /\ \A x \in ToSet(s) \ {e} : From(t, x) = From(s, x) \ {e}
  <2> HIDE DEF t
  <2>1. /\ t \in Seq(S)
        /\ Len(t) = Len(s) - 1
        /\ \A j \in 1..Len(s) - 1 : t[j] = IF j < i THEN s[j] ELSE s[j + 1]
    BY <1>2, RemoveAtProperties
  <2> DEFINE Old(j) == IF j < i THEN j ELSE j + 1
             New(j) == IF j < i THEN j ELSE j - 1
  <2>2. DOMAIN t = 1..Len(t) /\ Len(t) \in Nat
    BY <2>1
  <2>3. \A j \in 1..Len(t) : Old(j) \in 1..Len(s) /\ Old(j) # i /\ t[j] = s[Old(j)]
    BY <1>0, <1>2, <2>1
  <2>4. \A j \in 1..Len(s) : j # i => New(j) \in 1..Len(t) /\ Old(New(j)) = j
    BY <1>0, <1>2, <2>1
  <2>5. \A j, k \in 1..Len(t) : Old(j) = Old(k) => j = k
    BY <1>2, <2>2
  <2>6. \A j, k \in 1..Len(t) : k <= j => Old(k) <= Old(j)
    BY <1>2, <2>2
  <2>7. \A j, k \in 1..Len(s) : k <= j /\ j # i /\ k # i => New(k) <= New(j)
    BY <1>0, <1>2
  <2> HIDE DEF Old, New
  <2>8. \A j \in 1..Len(s) : s[j] = e <=> j = i
    BY <1>0, <1>2 DEF IsInjective
  <2>9. ToSet(t) = ToSet(s) \ {e}
    <3>1. ASSUME NEW j \in 1..Len(t) PROVE t[j] \in ToSet(s) \ {e}
      BY <1>0, <2>3, <2>8 DEF ToSet
    <3>2. ASSUME NEW j \in 1..Len(s), s[j] # e PROVE s[j] \in ToSet(t)
      <4>1. New(j) \in DOMAIN t /\ t[New(j)] = s[j]
        BY <2>2, <2>3, <2>4, <2>8, <3>2
      <4> QED
        BY <4>1 DEF ToSet
    <3> QED
      BY <1>0, <2>2, <3>1, <3>2 DEF ToSet
  <2>10. IsInjective(t)
    <3> SUFFICES ASSUME NEW j \in 1..Len(t), NEW k \in 1..Len(t), t[j] = t[k]
                 PROVE  j = k
      BY <2>2 DEF IsInjective
    <3>1. Old(j) = Old(k)
      BY <1>0, <2>3 DEF IsInjective
    <3> QED
      BY <2>5, <3>1
  <2>11. ASSUME NEW x, x # e PROVE From(t, x) \subseteq From(s, x) \ {e}
    <3> SUFFICES ASSUME NEW j \in 1..Len(t), NEW k \in 1..j, t[k] = x
                 PROVE  t[j] \in From(s, x) \ {e}
      BY DEF From
    <3>1. k \in 1..Len(t) /\ k <= j
      BY <2>2
    <3>2. /\ Old(j) \in 1..Len(s) /\ s[Old(j)] = t[j] /\ t[j] # e
          /\ Old(k) \in 1..Old(j) /\ s[Old(k)] = x
      BY <1>0, <2>3, <2>6, <2>8, <3>1
    <3> QED
      BY <3>2 DEF From
  <2>12. ASSUME NEW x, x # e PROVE From(s, x) \ {e} \subseteq From(t, x)
    <3> SUFFICES ASSUME NEW j \in 1..Len(s), NEW k \in 1..j, s[k] = x, s[j] # e
                 PROVE  s[j] \in From(t, x)
      BY DEF From
    <3>1. k \in 1..Len(s) /\ k <= j /\ k # i /\ j # i
      BY <1>0, <2>8, <2>12
    <3>2. /\ New(j) \in 1..Len(t) /\ t[New(j)] = s[j]
          /\ New(k) \in 1..New(j) /\ t[New(k)] = x
      BY <2>2, <2>3, <2>4, <2>7, <3>1
    <3> QED
      BY <3>2 DEF From
  <2> QED
    BY <2>1, <2>9, <2>10, <2>11, <2>12
<1> QED
  BY <1>1, <1>2, RemoveFirstProperties

\* Putting something new in front of a list.
LEMMA PuttingFirst ==
  ASSUME NEW S, NEW s \in Seq(S), IsInjective(s), NEW e \in S, e \notin ToSet(s)
  PROVE  LET t == <<e>> \o s
         IN /\ t \in Seq(S)
            /\ ToSet(t) = ToSet(s) \union {e}
            /\ IsInjective(t)
            /\ \A x \in ToSet(s) : From(t, x) = From(s, x)
<1> DEFINE t == <<e>> \o s
<1>1. /\ t \in Seq(S) /\ Len(t) = Len(s) + 1 /\ t[1] = e
      /\ \A j \in 1..Len(s) : t[j + 1] = s[j]
  <2>1. <<e>> \in Seq(S) /\ Len(<<e>>) = 1 /\ <<e>>[1] = e
    OBVIOUS
  <2> QED
    BY <2>1, ConcatProperties
<1> HIDE DEF t
<1>2. /\ DOMAIN t = 1..Len(s) + 1 /\ Len(t) \in Nat
      /\ DOMAIN s = 1..Len(s) /\ Len(s) \in Nat
  BY <1>1
<1>3. \A j \in 1..Len(s) + 1 : j # 1 => j - 1 \in 1..Len(s) /\ t[j] = s[j - 1]
  <2> SUFFICES ASSUME NEW j \in 1..Len(s) + 1, j # 1
               PROVE  j - 1 \in 1..Len(s) /\ t[j] = s[j - 1]
    OBVIOUS
  <2>1. j - 1 \in 1..Len(s) /\ (j - 1) + 1 = j
    BY <1>2
  <2> QED
    BY <1>1, <2>1
<1>4. \A j \in 1..Len(s) : j + 1 \in 1..Len(s) + 1 /\ t[j + 1] = s[j]
  BY <1>1, <1>2
<1>5. \A j \in 1..Len(s) : s[j] # e
  BY <1>2 DEF ToSet
<1>6. ToSet(t) = ToSet(s) \union {e}
  <2>1. ASSUME NEW j \in 1..Len(s) + 1 PROVE t[j] \in ToSet(s) \union {e}
    BY <1>1, <1>2, <1>3 DEF ToSet
  <2>2. ASSUME NEW j \in 1..Len(s) PROVE s[j] \in ToSet(t)
    BY <1>2, <1>4 DEF ToSet
  <2>3. e \in ToSet(t)
    BY <1>1, <1>2 DEF ToSet
  <2> QED
    BY <1>2, <2>1, <2>2, <2>3 DEF ToSet
<1>7. IsInjective(t)
  <2> SUFFICES ASSUME NEW j \in 1..Len(s) + 1, NEW k \in 1..Len(s) + 1, t[j] = t[k]
               PROVE  j = k
    BY <1>2 DEF IsInjective
  <2>1. j = 1 <=> k = 1
    BY <1>1, <1>3, <1>5
  <2>2. j # 1 => j - 1 = k - 1
    BY <1>2, <1>3, <2>1 DEF IsInjective
  <2> QED
    BY <1>2, <2>1, <2>2
<1>8. ASSUME NEW x \in ToSet(s) PROVE From(t, x) \subseteq From(s, x)
  <2> SUFFICES ASSUME NEW j \in 1..Len(t), NEW k \in 1..j, t[k] = x
               PROVE  t[j] \in From(s, x)
    BY DEF From
  <2>1. k # 1 /\ j # 1 /\ k \in 1..Len(s) + 1 /\ j \in 1..Len(s) + 1
    BY <1>1, <1>2
  <2>2. j - 1 \in 1..Len(s) /\ k - 1 \in 1..j - 1 /\ s[k - 1] = x /\ s[j - 1] = t[j]
    BY <1>2, <1>3, <2>1
  <2> QED
    BY <2>2 DEF From
<1>9. ASSUME NEW x \in ToSet(s) PROVE From(s, x) \subseteq From(t, x)
  <2> SUFFICES ASSUME NEW j \in 1..Len(s), NEW k \in 1..j, s[k] = x
               PROVE  s[j] \in From(t, x)
    BY DEF From
  <2>1. k \in 1..Len(s)
    BY <1>2
  <2>2. j + 1 \in 1..Len(t) /\ k + 1 \in 1..j + 1 /\ t[k + 1] = x /\ t[j + 1] = s[j]
    BY <1>1, <1>2, <1>4, <2>1
  <2> QED
    BY <2>2 DEF From
<1> QED
  BY <1>1, <1>6, <1>7, <1>8, <1>9 DEF t

\* What is left from one position on: all of it from the first, itself from the last,
\* and one less from the next.
LEMMA FromPosition ==
  ASSUME NEW S, NEW s \in Seq(S), IsInjective(s), NEW i \in 1..Len(s)
  PROVE  /\ From(s, s[i]) \subseteq ToSet(s)
         /\ i = 1 => From(s, s[i]) = ToSet(s)
         /\ IF i = Len(s) THEN From(s, s[i]) = {s[i]}
            ELSE From(s, s[i + 1]) = From(s, s[i]) \ {s[i]}
<1>0. Len(s) \in Nat /\ DOMAIN s = 1..Len(s)
  OBVIOUS
<1>1. \A j, k \in 1..Len(s) : s[j] = s[k] => j = k
  BY <1>0 DEF IsInjective
<1>2. \A n \in 1..Len(s) : From(s, s[n]) = {s[j] : j \in n..Len(s)}
  <2> SUFFICES ASSUME NEW n \in 1..Len(s)
               PROVE  From(s, s[n]) = {s[j] : j \in n..Len(s)}
    OBVIOUS
  <2>1. ASSUME NEW j \in 1..Len(s)
        PROVE  (\E k \in 1..j : s[k] = s[n]) <=> j \in n..Len(s)
    <3>1. ASSUME NEW k \in 1..j, s[k] = s[n] PROVE j \in n..Len(s)
      <4>1. k \in 1..Len(s)
        BY <1>0
      <4>2. k = n
        BY <1>1, <3>1, <4>1
      <4> QED
        BY <1>0, <4>2
    <3>2. ASSUME j \in n..Len(s) PROVE n \in 1..j
      BY <1>0, <3>2
    <3> QED
      BY <3>1, <3>2
  <2>2. \A j \in n..Len(s) : j \in 1..Len(s)
    BY <1>0
  <2> QED
    BY <2>1, <2>2 DEF From
<1>3. From(s, s[i]) \subseteq ToSet(s)
  BY <1>0 DEF From, ToSet
<1>4. ASSUME i = 1 PROVE From(s, s[i]) = ToSet(s)
  BY <1>0, <1>2, <1>4 DEF ToSet
<1>5. ASSUME i = Len(s) PROVE From(s, s[i]) = {s[i]}
  <2>1. i..Len(s) = {i}
    BY <1>0, <1>5
  <2> QED
    BY <1>2, <2>1
<1>6. ASSUME i # Len(s) PROVE From(s, s[i + 1]) = From(s, s[i]) \ {s[i]}
  <2>1. /\ i + 1 \in 1..Len(s) /\ i..Len(s) = (i + 1..Len(s)) \union {i}
        /\ \A j \in i + 1..Len(s) : j \in 1..Len(s) /\ j # i
    <3>1. i \in Nat /\ i + 1 \in 1..Len(s)
      <4>1. i \in Nat /\ 1 <= i /\ i <= Len(s) /\ Len(s) \in Nat
        BY <1>0
      <4> QED
        BY <1>6, <4>1
    <3>2. \A j : j \in i..Len(s) <=> j \in i + 1..Len(s) \/ j = i
      BY <1>0, <3>1
    <3>3. \A j \in i + 1..Len(s) : j \in 1..Len(s) /\ j # i
      BY <1>0, <3>1
    <3> QED
      BY <3>1, <3>2, <3>3
  <2>2. \A j \in i + 1..Len(s) : s[j] # s[i]
    BY <1>1, <2>1
  <2>3. /\ From(s, s[i + 1]) = {s[j] : j \in i + 1..Len(s)}
        /\ From(s, s[i]) = {s[j] : j \in (i + 1..Len(s)) \union {i}}
    BY <1>2, <2>1
  <2> QED
    BY <2>2, <2>3
<1> QED
  BY <1>3, <1>4, <1>5, <1>6
=============================================================================
