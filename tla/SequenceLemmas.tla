--------------------------- MODULE SequenceLemmas ---------------------------
(***************************************************************************)
(* What the operators on sequences that the models use do to the elements  *)
(* of a sequence: the queues of surfaces and of bitstreams are sequences.  *)
(***************************************************************************)
EXTENDS Integers, SequencesExt, FiniteSetTheorems, SequenceTheorems,
        WellFoundedInduction, TLAPS

(* Append adds its element at the end.                                     *)
LEMMA AppendElements ==
    ASSUME NEW S, NEW q \in Seq(S), NEW x \in S
    PROVE  /\ Append(q, x) \in Seq(S)
           /\ Len(q) \in Nat /\ Len(Append(q, x)) = Len(q) + 1
           /\ \A i \in 1..Len(q) : Append(q, x)[i] = q[i]
           /\ Append(q, x)[Len(q) + 1] = x
           /\ Range(Append(q, x)) = Range(q) \cup {x}
<1> DEFINE r == Append(q, x)
<1>1. /\ r \in Seq(S) /\ Len(r) = Len(q) + 1
      /\ \A i \in 1..Len(q) : r[i] = q[i]
      /\ r[Len(q) + 1] = x
      /\ Len(q) \in Nat
    BY AppendProperties, LenProperties
<1>2. Range(q) = {q[i] : i \in 1..Len(q)} /\ Range(r) = {r[i] : i \in 1..Len(r)}
    BY <1>1, RangeEquality
<1>3. 1..Len(r) = (1..Len(q)) \cup {Len(q) + 1}
    BY <1>1
<1>4. Range(r) = Range(q) \cup {x}
  <2> HIDE DEF r
  <2> QED  BY <1>1, <1>2, <1>3
<1> QED  BY <1>1, <1>4

(* Head and Tail take the first element off.                               *)
LEMMA TailElements ==
    ASSUME NEW S, NEW q \in Seq(S), q # <<>>
    PROVE  /\ Head(q) = q[1] /\ Head(q) \in S /\ Tail(q) \in Seq(S)
           /\ Len(q) \in Nat \ {0} /\ Len(Tail(q)) = Len(q) - 1
           /\ \A i \in 1..Len(Tail(q)) : Tail(q)[i] = q[i + 1]
           /\ Range(q) = Range(Tail(q)) \cup {Head(q)}
<1>1. /\ Head(q) \in S /\ Tail(q) \in Seq(S) /\ Len(Tail(q)) = Len(q) - 1
      /\ \A i \in 1..Len(Tail(q)) : Tail(q)[i] = q[i + 1]
      /\ Head(q) = q[1] /\ Len(q) \in Nat \ {0}
    BY HeadTailProperties, EmptySeq
<1>2. /\ Range(q) = {q[i] : i \in 1..Len(q)}
      /\ Range(Tail(q)) = {Tail(q)[i] : i \in 1..Len(Tail(q))}
  <2>1. Range(q) = {q[i] : i \in 1..Len(q)}
      BY RangeEquality
  <2> DEFINE t == Tail(q)
  <2>2. t \in Seq(S)
      BY <1>1
  <2> HIDE DEF t
  <2>3. Range(t) = {t[i] : i \in 1..Len(t)}
      BY <2>2, RangeEquality
  <2> QED  BY <2>1, <2>3 DEF t
<1>3. Range(q) \subseteq Range(Tail(q)) \cup {Head(q)}
  <2> SUFFICES ASSUME NEW i \in 1..Len(q) PROVE q[i] \in Range(Tail(q)) \cup {Head(q)}
    BY <1>2
  <2>1. CASE i = 1
    BY <2>1, <1>1
  <2>2. CASE i # 1
    <3>1. i - 1 \in 1..Len(Tail(q)) /\ (i - 1) + 1 = i
      BY <2>2, <1>1
    <3> QED  BY <3>1, <1>1, <1>2
  <2> QED  BY <2>1, <2>2
<1>4. \A i \in 1..Len(Tail(q)) : i + 1 \in 1..Len(q)
    BY <1>1
<1>5. 1 \in 1..Len(q)
    BY <1>1
<1>6. Range(Tail(q)) \cup {Head(q)} \subseteq Range(q)
    BY <1>1, <1>2, <1>4, <1>5
<1> QED  BY <1>1, <1>3, <1>6

(* A queue that something was added to is not empty.                       *)
LEMMA AppendNonempty ==
    ASSUME NEW S, NEW q \in Seq(S), NEW x
    PROVE  Append(q, x) # <<>>
<1>1. q \in Seq(S \cup {x})
    BY SeqMonotonic
<1> QED  BY <1>1, AppendProperties

(* Every nonempty set of naturals has a least element.                     *)
LEMMA LeastElement ==
    ASSUME NEW I \in SUBSET Nat, I # {}
    PROVE  \E m \in I : \A i \in I : m <= i
<1> DEFINE R == {ss \in Nat \X Nat : ss[1] < ss[2]}
<1>1. IsWellFoundedOn(R, Nat)
    BY Zenon, NatLessThanWellFounded DEF OpToRel
<1>2. PICK m \in I : \A i \in I : ~ (<<i, m>> \in R)
  <2> HIDE DEF R
  <2> QED  BY <1>1, WFMin
<1>3. \A i \in I : ~ (i < m)
    BY <1>2
<1> QED  BY <1>3

(* The elements that remain when the k-th is taken out.                    *)
LEMMA RemoveAtElements ==
    ASSUME NEW S, NEW q \in Seq(S), NEW k \in 1..Len(q)
    PROVE  /\ RemoveAt(q, k) \in Seq(S)
           /\ Len(RemoveAt(q, k)) = Len(q) - 1
           /\ \A i \in 1..Len(RemoveAt(q, k)) :
                  RemoveAt(q, k)[i] = IF i < k THEN q[i] ELSE q[i + 1]
<1> DEFINE a == SubSeq(q, 1, k - 1)
           b == SubSeq(q, k + 1, Len(q))
<1>1. Len(q) \in Nat /\ k \in Int /\ \A i \in 1..Len(q) : q[i] \in S
    BY LenProperties
<1>2. /\ a \in Seq(S) /\ Len(a) = k - 1
      /\ \A i \in 1..(k - 1) : a[i] = q[i]
    BY <1>1, SubSeqProperties
<1>3. /\ b \in Seq(S) /\ Len(b) = Len(q) - k
      /\ \A i \in 1..(Len(q) - k) : b[i] = q[k + i]
    BY <1>1, SubSeqProperties
<1> HIDE DEF a, b
<1>4. /\ a \o b \in Seq(S) /\ Len(a \o b) = Len(q) - 1
      /\ \A i \in 1..(Len(q) - 1) :
             (a \o b)[i] = IF i <= k - 1 THEN a[i] ELSE b[i - (k - 1)]
    BY <1>1, <1>2, <1>3, ConcatProperties
<1>5. \A i \in 1..(Len(q) - 1) :
          (a \o b)[i] = IF i < k THEN q[i] ELSE q[i + 1]
  <2> TAKE i \in 1..(Len(q) - 1)
  <2>1. CASE i < k
    BY <2>1, <1>1, <1>2, <1>4
  <2>2. CASE ~ (i < k)
    <3>1. i - (k - 1) \in 1..(Len(q) - k) /\ k + (i - (k - 1)) = i + 1
      BY <2>2, <1>1
    <3>2. ~ (i <= k - 1)
      BY <2>2, <1>1
    <3>3. (a \o b)[i] = IF i <= k - 1 THEN a[i] ELSE b[i - (k - 1)]
      BY Zenon, <1>4
    <3>4. b[i - (k - 1)] = q[k + (i - (k - 1))]
      BY Zenon, <3>1, <1>3
    <3> QED  BY Zenon, <2>2, <3>1, <3>2, <3>3, <3>4
  <2> QED  BY Zenon, <2>1, <2>2
<1> QED  BY <1>4, <1>5 DEF RemoveAt, a, b

(* RemoveFirst(q, x) is q if x is not in q, else q without the first x.    *)
LEMMA RemoveFirstElements ==
    ASSUME NEW S, NEW q \in Seq(S), NEW x
    PROVE  /\ x \notin Range(q) => RemoveFirst(q, x) = q
           /\ x \in Range(q) =>
                \E k \in 1..Len(q) :
                  /\ q[k] = x /\ \A i \in 1..Len(q) : i < k => q[i] # x
                  /\ Len(RemoveFirst(q, x)) = Len(q) - 1
                  /\ \A i \in 1..Len(RemoveFirst(q, x)) :
                         RemoveFirst(q, x)[i] = IF i < k THEN q[i] ELSE q[i + 1]
           /\ RemoveFirst(q, x) \in Seq(S)
<1> DEFINE I == {i \in 1..Len(q) : q[i] = x}
           k == Min(I)
           r == RemoveFirst(q, x)
<1>1. Len(q) \in Nat /\ Range(q) = {q[i] : i \in 1..Len(q)}
    BY LenProperties, RangeEquality
<1>2. CASE x \notin Range(q)
  <2>1. r = q
    BY <1>1, <1>2 DEF RemoveFirst
  <2> QED  BY <1>2, <2>1
<1>3. CASE x \in Range(q)
  <2>1. k \in I /\ \A i \in I : k <= i
    <3>1. \E m \in I : \A i \in I : m <= i
      <4>1. I \in SUBSET Nat /\ I # {}
        BY <1>1, <1>3
      <4> HIDE DEF I
      <4> QED  BY <4>1, LeastElement
    <3> HIDE DEF I
    <3> QED  BY <3>1 DEF Min
  <2>2. r = RemoveAt(q, k)
    BY <1>1, <1>3 DEF RemoveFirst, SelectInSeq
  <2>3. k \in 1..Len(q) /\ q[k] = x /\ \A i \in 1..Len(q) : i < k => q[i] # x
    <3>1. \A i \in 1..Len(q) : q[i] = x => k <= i
      BY <2>1
    <3>2. k \in 1..Len(q) /\ q[k] = x
      BY <2>1
    <3> HIDE DEF k, I
    <3> QED  BY <3>1, <3>2, <1>1
  <2> HIDE DEF k, r, I
  <2>4. /\ r \in Seq(S) /\ Len(r) = Len(q) - 1
        /\ \A i \in 1..Len(r) : r[i] = IF i < k THEN q[i] ELSE q[i + 1]
    BY <2>2, <2>3, RemoveAtElements
  <2> QED  BY <1>3, <2>3, <2>4 DEF r
<1> QED  BY <1>2, <1>3

(* It takes no other element out and brings none in.                       *)
LEMMA RemoveFirstRange ==
    ASSUME NEW S, NEW q \in Seq(S), NEW x
    PROVE  /\ RemoveFirst(q, x) \in Seq(S)
           /\ Range(RemoveFirst(q, x)) \subseteq Range(q)
           /\ \A y \in Range(q) : y # x => y \in Range(RemoveFirst(q, x))
<1> DEFINE r == RemoveFirst(q, x)
<1> HIDE DEF r
<1>1. r \in Seq(S)
    BY RemoveFirstElements DEF r
<1>2. CASE x \notin Range(q)
    BY <1>1, <1>2, RemoveFirstElements DEF r
<1>3. CASE x \in Range(q)
  <2>1. PICK k \in 1..Len(q) :
            /\ q[k] = x /\ Len(r) = Len(q) - 1
            /\ \A i \in 1..Len(r) : r[i] = IF i < k THEN q[i] ELSE q[i + 1]
    BY <1>3, RemoveFirstElements DEF r
  <2>2. /\ Len(q) \in Nat
        /\ Range(q) = {q[i] : i \in 1..Len(q)} /\ Range(r) = {r[i] : i \in 1..Len(r)}
    BY <1>1, LenProperties, RangeEquality
  <2>3. Range(r) \subseteq Range(q)
    <3> SUFFICES ASSUME NEW i \in 1..Len(r) PROVE r[i] \in Range(q)
      BY <2>2
    <3>1. i \in 1..Len(q) /\ i + 1 \in 1..Len(q)
      BY <2>1, <2>2
    <3> QED  BY <3>1, <2>1, <2>2
  <2>4. ASSUME NEW i \in 1..Len(q), q[i] # x PROVE q[i] \in Range(r)
    <3>1. CASE i < k
      <4>1. i \in 1..Len(r)
        BY <3>1, <2>1, <2>2
      <4> QED  BY <3>1, <4>1, <2>1, <2>2
    <3>2. CASE i > k
      <4>1. i - 1 \in 1..Len(r) /\ ~ (i - 1 < k) /\ (i - 1) + 1 = i
        BY <3>2, <2>1, <2>2
      <4> QED  BY <4>1, <2>1, <2>2
    <3> QED  BY <3>1, <3>2, <2>1, <2>4
  <2> QED  BY <1>1, <2>2, <2>3, <2>4 DEF r
<1> QED  BY <1>2, <1>3

----------------------------------------------------------------------------
(* Sequences in which no element of T occurs twice; others may, as the end *)
(* mark in a queue of surfaces.                                            *)
Once(q, T) == \A i, j \in 1..Len(q) : q[i] = q[j] /\ q[i] \in T => i = j

(* Appending a new one.                                                    *)
LEMMA AppendOnce ==
    ASSUME NEW S, NEW T, NEW q \in Seq(S), NEW x \in S
    PROVE  /\ Append(q, x) \in Seq(S)
           /\ Range(Append(q, x)) = Range(q) \cup {x}
           /\ Once(q, T) /\ (x \in T => x \notin Range(q)) => Once(Append(q, x), T)
<1> DEFINE r == Append(q, x)
<1>1. /\ r \in Seq(S) /\ Len(r) = Len(q) + 1
      /\ \A i \in 1..Len(q) : r[i] = q[i]
      /\ r[Len(q) + 1] = x
      /\ Len(q) \in Nat
      /\ Range(r) = Range(q) \cup {x}
    BY AppendElements
<1>2. Range(q) = {q[i] : i \in 1..Len(q)}
    BY RangeEquality
<1>3. ASSUME Once(q, T), x \in T => x \notin Range(q)
      PROVE  Once(r, T)
  <2> HIDE DEF r
  <2> SUFFICES ASSUME NEW i \in 1..Len(r), NEW j \in 1..Len(r),
                      r[i] = r[j], r[i] \in T
               PROVE  i = j
    BY DEF Once
  <2>1. CASE i \in 1..Len(q) /\ j \in 1..Len(q)
    BY <2>1, <1>1, <1>3 DEF Once
  <2>2. CASE i = Len(q) + 1 /\ j \in 1..Len(q)
    BY <2>2, <1>1, <1>2, <1>3
  <2>3. CASE j = Len(q) + 1 /\ i \in 1..Len(q)
    BY <2>3, <1>1, <1>2, <1>3
  <2> QED  BY <2>1, <2>2, <2>3, <1>1
<1> QED  BY <1>1, <1>3

(* Taking the first one.                                                   *)
LEMMA TailOnce ==
    ASSUME NEW S, NEW T, NEW q \in Seq(S), q # <<>>
    PROVE  /\ Head(q) \in S /\ Head(q) \in Range(q)
           /\ Tail(q) \in Seq(S)
           /\ Range(Tail(q)) \subseteq Range(q)
           /\ Once(q, T) => Once(Tail(q), T)
           /\ Once(q, T) /\ Head(q) \in T => Head(q) \notin Range(Tail(q))
<1>1. /\ Head(q) \in S /\ Tail(q) \in Seq(S) /\ Len(Tail(q)) = Len(q) - 1
      /\ \A i \in 1..Len(Tail(q)) : Tail(q)[i] = q[i + 1]
      /\ Head(q) = q[1] /\ Len(q) \in Nat \ {0}
      /\ Range(q) = Range(Tail(q)) \cup {Head(q)}
    BY TailElements
<1>2. Range(Tail(q)) = {Tail(q)[i] : i \in 1..Len(Tail(q))}
    BY <1>1, RangeEquality
<1>3. \A i \in 1..Len(Tail(q)) : i + 1 \in 1..Len(q) /\ i + 1 # 1
    BY <1>1
<1>4. Once(q, T) => Once(Tail(q), T)
    BY <1>1, <1>3 DEF Once
<1>5. Once(q, T) /\ Head(q) \in T => Head(q) \notin Range(Tail(q))
    BY <1>1, <1>2, <1>3 DEF Once
<1> QED  BY <1>1, <1>2, <1>3, <1>4, <1>5

(* RemoveFirst takes one out, with its only occurrence.                    *)
LEMMA RemoveFirstOnce ==
    ASSUME NEW S, NEW T, NEW q \in Seq(S), NEW x, Once(q, T)
    PROVE  /\ RemoveFirst(q, x) \in Seq(S)
           /\ Once(RemoveFirst(q, x), T)
           /\ Range(RemoveFirst(q, x)) \cap T = (Range(q) \cap T) \ {x}
<1> DEFINE r == RemoveFirst(q, x)
<1> HIDE DEF r
<1>1. r \in Seq(S) /\ Range(r) \subseteq Range(q)
      /\ \A y \in Range(q) : y # x => y \in Range(r)
    BY RemoveFirstRange DEF r
<1>2. CASE x \notin Range(q)
    BY <1>1, <1>2, RemoveFirstElements DEF r
<1>3. CASE x \in Range(q)
  <2>1. PICK k \in 1..Len(q) :
            /\ q[k] = x /\ Len(r) = Len(q) - 1
            /\ \A i \in 1..Len(r) : r[i] = IF i < k THEN q[i] ELSE q[i + 1]
    BY <1>3, RemoveFirstElements DEF r
  <2>2. Len(q) \in Nat /\ Range(r) = {r[i] : i \in 1..Len(r)}
    BY <1>1, LenProperties, RangeEquality
  <2> DEFINE at(h) == IF h < k THEN h ELSE h + 1
  <2>3. \A i \in 1..Len(r) : at(i) \in 1..Len(q) /\ at(i) # k /\ r[i] = q[at(i)]
    BY <2>1, <2>2
  <2>4. \A i, j \in 1..Len(r) : at(i) = at(j) => i = j
    BY <2>1, <2>2
  <2> HIDE DEF at
  <2>5. Once(r, T)
    BY <2>3, <2>4 DEF Once
  <2>6. x \in T => x \notin Range(r)
    BY <2>1, <2>2, <2>3 DEF Once
  <2> QED  BY <1>1, <2>5, <2>6 DEF r
<1> QED  BY <1>2, <1>3

(* RemoveAt takes the k-th one out.                                        *)
LEMMA RemoveAtOnce ==
    ASSUME NEW S, NEW q \in Seq(S), NEW k \in 1..Len(q), Once(q, S)
    PROVE  /\ RemoveAt(q, k) \in Seq(S) /\ q[k] \in S
           /\ Once(RemoveAt(q, k), S)
           /\ Range(RemoveAt(q, k)) = Range(q) \ {q[k]} /\ q[k] \in Range(q)
<1> DEFINE r == RemoveAt(q, k)
           at(h) == IF h < k THEN h ELSE h + 1
<1>1. /\ r \in Seq(S) /\ Len(r) = Len(q) - 1
      /\ \A i \in 1..Len(r) : r[i] = IF i < k THEN q[i] ELSE q[i + 1]
    BY RemoveAtElements
<1> HIDE DEF r
<1>2. Len(q) \in Nat /\ k \in Int /\ \A i \in 1..Len(q) : q[i] \in S
    BY LenProperties
<1>3. /\ Range(q) = {q[i] : i \in 1..Len(q)}
      /\ Range(r) = {r[i] : i \in 1..Len(r)}
    BY <1>1, RangeEquality
<1>4. \A i \in 1..Len(r) : at(i) \in 1..Len(q) /\ at(i) # k /\ r[i] = q[at(i)]
    BY <1>1, <1>2
<1>5. \A i, j \in 1..Len(r) : at(i) = at(j) => i = j
    BY <1>1, <1>2
<1>6. \A j \in 1..Len(q) : j # k => \E i \in 1..Len(r) : at(i) = j
  <2> SUFFICES ASSUME NEW j \in 1..Len(q), j # k PROVE \E i \in 1..Len(r) : at(i) = j
    OBVIOUS
  <2>1. CASE j < k
    <3>1. j \in 1..Len(r) /\ at(j) = j
      BY <1>1, <1>2, <2>1
    <3> QED  BY <3>1
  <2>2. CASE ~ (j < k)
    <3>1. j - 1 \in 1..Len(r) /\ at(j - 1) = j
      BY <1>1, <1>2, <2>2
    <3> QED  BY <3>1
  <2> QED  BY <2>1, <2>2
<1> HIDE DEF at
<1>7. Once(r, S)
    BY <1>2, <1>4, <1>5 DEF Once
<1>8. Range(r) = Range(q) \ {q[k]}
  <2>1. \A y \in Range(r) : y \in Range(q) /\ y # q[k]
    BY <1>2, <1>3, <1>4 DEF Once
  <2>2. \A y \in Range(q) : y # q[k] => y \in Range(r)
    BY <1>3, <1>4, <1>6
  <2> QED  BY <2>1, <2>2
<1> QED  BY <1>1, <1>2, <1>3, <1>7, <1>8 DEF r

(* Two sequences as the written and the pending part of one: appending to  *)
(* the second appends to the whole, and moving the head of the second to   *)
(* the end of the first leaves the whole as it is.                         *)
LEMMA AppendToSecond ==
    ASSUME NEW S, NEW p \in Seq(S), NEW q \in Seq(S), NEW x \in S
    PROVE  p \o Append(q, x) = Append(p \o q, x)
<1> DEFINE e == <<x>>
<1>1. e \in Seq(S)
    OBVIOUS
<1>2. Append(q, x) = q \o e
    BY AppendIsConcat
<1>3. p \o q \in Seq(S)
    BY ConcatProperties
<1>4. Append(p \o q, x) = (p \o q) \o e
    BY <1>3, AppendIsConcat
<1> HIDE DEF e
<1>5. (p \o q) \o e = p \o (q \o e)
    BY <1>1, ConcatAssociative
<1> QED  BY <1>2, <1>4, <1>5

LEMMA MoveHead ==
    ASSUME NEW S, NEW p \in Seq(S), NEW q \in Seq(S), q # <<>>
    PROVE  Append(p, Head(q)) \o Tail(q) = p \o q
<1> DEFINE a == Append(p, Head(q))
           b == Tail(q)
<1>1. /\ Head(q) = q[1] /\ Head(q) \in S /\ b \in Seq(S)
      /\ Len(q) \in Nat \ {0} /\ Len(b) = Len(q) - 1
      /\ \A i \in 1..Len(b) : b[i] = q[i + 1]
    BY TailElements
<1>2. /\ a \in Seq(S) /\ Len(p) \in Nat /\ Len(a) = Len(p) + 1
      /\ \A i \in 1..Len(p) : a[i] = p[i]
      /\ a[Len(p) + 1] = q[1]
    BY <1>1, AppendElements
<1> HIDE DEF a, b
<1>3. /\ a \o b \in Seq(S) /\ Len(a \o b) = Len(a) + Len(b)
      /\ \A i \in 1..Len(a) + Len(b) :
             (a \o b)[i] = IF i <= Len(a) THEN a[i] ELSE b[i - Len(a)]
    BY <1>1, <1>2, ConcatProperties
<1>4. /\ p \o q \in Seq(S) /\ Len(p \o q) = Len(p) + Len(q)
      /\ \A i \in 1..Len(p) + Len(q) :
             (p \o q)[i] = IF i <= Len(p) THEN p[i] ELSE q[i - Len(p)]
    BY ConcatProperties
<1>5. ASSUME NEW i \in 1..Len(a) + Len(b) PROVE (a \o b)[i] = (p \o q)[i]
  <2>1. i \in 1..Len(p) + Len(q)
    BY <1>1, <1>2
  <2>2. CASE i <= Len(p)
    BY <1>1, <1>2, <1>3, <1>4, <2>1, <2>2
  <2>3. CASE i = Len(p) + 1
    BY <1>1, <1>2, <1>3, <1>4, <2>1, <2>3
  <2>4. CASE i > Len(p) + 1
    <3>1. i - Len(a) \in 1..Len(b) /\ (i - Len(a)) + 1 = i - Len(p)
      BY <1>1, <1>2, <2>4
    <3>2. (a \o b)[i] = b[i - Len(a)] /\ (p \o q)[i] = q[i - Len(p)]
      BY <1>1, <1>2, <1>3, <1>4, <2>1, <2>4
    <3> QED  BY <1>1, <3>1, <3>2
  <2> QED  BY <1>1, <1>2, <2>1, <2>2, <2>3, <2>4
<1>6. Len(a \o b) = Len(p \o q)
    BY <1>1, <1>2, <1>3, <1>4
<1>7. a \o b = p \o q
    BY <1>3, <1>4, <1>5, <1>6, SeqEqual
<1> QED  BY <1>7 DEF a, b

(* Removing the head of a sequence by its value.                           *)
LEMMA RemoveHead ==
    ASSUME NEW S, NEW q \in Seq(S), q # <<>>
    PROVE  /\ Len(RemoveFirst(q, Head(q))) = Len(q) - 1
           /\ \A i \in 1..Len(RemoveFirst(q, Head(q))) :
                  RemoveFirst(q, Head(q))[i] = q[i + 1]
<1> DEFINE x == Head(q)
           r == RemoveFirst(q, x)
<1>1. x = q[1] /\ Len(q) \in Nat \ {0} /\ x \in Range(q)
    BY TailElements
<1> HIDE DEF x
<1>2. \E k \in 1..Len(q) :
          /\ q[k] = x /\ \A i \in 1..Len(q) : i < k => q[i] # x
          /\ Len(r) = Len(q) - 1
          /\ \A i \in 1..Len(r) : r[i] = IF i < k THEN q[i] ELSE q[i + 1]
    BY <1>1, RemoveFirstElements
<1> HIDE DEF r
<1>3. Len(r) = Len(q) - 1 /\ \A i \in 1..Len(r) : r[i] = q[i + 1]
    BY <1>1, <1>2
<1> QED  BY <1>3 DEF r, x

(* Putting a new one in front.                                             *)
LEMMA PrependOnce ==
    ASSUME NEW S, NEW q \in Seq(S), NEW x \in S, Once(q, S), x \notin Range(q)
    PROVE  /\ <<x>> \o q \in Seq(S)
           /\ Range(<<x>> \o q) = Range(q) \cup {x}
           /\ Once(<<x>> \o q, S)
<1> DEFINE e == <<x>>
           r == e \o q
<1>1. e \in Seq(S) /\ Len(e) = 1 /\ e[1] = x
    OBVIOUS
<1>2. Len(q) \in Nat /\ Range(q) = {q[i] : i \in 1..Len(q)}
    BY LenProperties, RangeEquality
<1> HIDE DEF e
<1>3. /\ r \in Seq(S) /\ Len(r) = Len(e) + Len(q)
      /\ \A i \in 1..Len(e) + Len(q) :
             r[i] = IF i <= Len(e) THEN e[i] ELSE q[i - Len(e)]
    BY <1>1, ConcatProperties
<1>4. Range(r) = {r[i] : i \in 1..Len(r)}
    BY <1>3, RangeEquality
<1> HIDE DEF r
<1>5. r[1] = x /\ \A i \in 2..Len(r) : i - 1 \in 1..Len(q) /\ r[i] = q[i - 1]
    BY <1>1, <1>2, <1>3
<1>6. 1..Len(r) = {1} \cup 2..Len(r) /\ \A i \in 1..Len(q) : i + 1 \in 2..Len(r)
    BY <1>1, <1>2, <1>3
<1>7. Range(r) \subseteq Range(q) \cup {x}
    BY <1>2, <1>4, <1>5, <1>6
<1>8. ASSUME NEW i \in 1..Len(q) PROVE q[i] \in Range(r)
  <2>1. i + 1 \in 2..Len(r) /\ (i + 1) - 1 = i
    BY <1>2, <1>6
  <2> QED  BY <2>1, <1>4, <1>5, <1>6
<1>9. Range(r) = Range(q) \cup {x}
  <2>1. x \in Range(r)
    BY <1>4, <1>5, <1>6
  <2> QED  BY <2>1, <1>2, <1>7, <1>8
<1>10. Once(r, S)
  <2> SUFFICES ASSUME NEW i \in 1..Len(r), NEW j \in 1..Len(r), r[i] = r[j]
               PROVE  i = j
    BY DEF Once
  <2>1. CASE i = 1 \/ j = 1
    BY <2>1, <1>2, <1>5, <1>6
  <2>2. CASE i \in 2..Len(r) /\ j \in 2..Len(r)
    <3>1. i - 1 \in 1..Len(q) /\ j - 1 \in 1..Len(q) /\ q[i - 1] = q[j - 1]
      BY <2>2, <1>5
    <3>2. q[i - 1] \in S
      BY <3>1, LenProperties
    <3>3. i - 1 = j - 1
      BY <3>1, <3>2 DEF Once
    <3> QED  BY <3>3, <1>2, <1>3
  <2> QED  BY <2>1, <2>2, <1>6
<1> QED  BY <1>3, <1>9, <1>10 DEF r, e

----------------------------------------------------------------------------
(* How often x is in q.                                                    *)
Occurrences(q, x) == Cardinality({i \in 1..Len(q) : q[i] = x})

Is(y, x) == IF y = x THEN 1 ELSE 0

LEMMA OccurrencesNat ==
    ASSUME NEW S, NEW q \in Seq(S), NEW x
    PROVE  /\ IsFiniteSet({i \in 1..Len(q) : q[i] = x})
           /\ Occurrences(q, x) \in Nat
<1> DEFINE I == {i \in 1..Len(q) : q[i] = x}
<1>1. IsFiniteSet(1..Len(q)) /\ I \subseteq 1..Len(q)
    BY FS_Interval, LenProperties
<1> HIDE DEF I
<1>2. IsFiniteSet(I)
    BY <1>1, FS_Subset
<1>3. Cardinality(I) \in Nat
    BY <1>2, FS_CardinalityType
<1> QED  BY <1>2, <1>3 DEF I, Occurrences

LEMMA OccurrencesEmpty ==
    ASSUME NEW x
    PROVE  Occurrences(<<>>, x) = 0
<1>1. {i \in 1..Len(<<>>) : <<>>[i] = x} = {}
    BY EmptySeq
<1> QED  BY <1>1, FS_EmptySet DEF Occurrences

(* What is in a queue occurs in it.                                        *)
LEMMA OccurrencesSome ==
    ASSUME NEW S, NEW q \in Seq(S), NEW x \in Range(q)
    PROVE  Occurrences(q, x) # 0
<1> DEFINE I == {i \in 1..Len(q) : q[i] = x}
<1>1. Range(q) = {q[i] : i \in 1..Len(q)}
    BY RangeEquality
<1>2. I # {}
    BY <1>1
<1>3. IsFiniteSet(I)
    BY OccurrencesNat
<1> HIDE DEF I
<1>4. Cardinality(I) # 0
    BY <1>2, <1>3, FS_EmptySet
<1> QED  BY <1>4 DEF I, Occurrences

(* Appending adds one occurrence of what is appended.                      *)
LEMMA OccurrencesAppend ==
    ASSUME NEW S, NEW q \in Seq(S), NEW y \in S, NEW x
    PROVE  Occurrences(Append(q, y), x) = Occurrences(q, x) + Is(y, x)
<1> DEFINE r == Append(q, y)
           I == {i \in 1..Len(q) : q[i] = x}
           J == {i \in 1..Len(r) : r[i] = x}
           n == Len(q) + 1
<1>1. /\ Len(q) \in Nat /\ Len(r) = Len(q) + 1
      /\ \A i \in 1..Len(q) : r[i] = q[i]
      /\ r[Len(q) + 1] = y
    BY AppendElements
<1> HIDE DEF r
<1>2. 1..Len(r) = (1..Len(q)) \cup {n} /\ n \notin 1..Len(q)
    BY <1>1
<1>3. IsFiniteSet(I) /\ Cardinality(I) \in Nat
    BY OccurrencesNat DEF Occurrences
<1>4. CASE y = x
  <2>1. J = I \cup {n} /\ n \notin I
    BY <1>1, <1>2, <1>4
  <2> HIDE DEF I, J, n
  <2>2. Cardinality(J) = Cardinality(I) + 1
    BY <1>3, <2>1, FS_AddElement
  <2> QED  BY <1>4, <2>2 DEF Occurrences, I, J, Is, r
<1>5. CASE y # x
  <2>1. J = I
    BY <1>1, <1>2, <1>5
  <2> HIDE DEF I, J
  <2>2. Cardinality(J) = Cardinality(I) + 0
    BY <1>3, <2>1
  <2> QED  BY <1>5, <2>2 DEF Occurrences, I, J, Is, r
<1> QED  BY <1>4, <1>5

(* Taking the head takes one of its occurrences.                           *)
LEMMA OccurrencesTail ==
    ASSUME NEW S, NEW q \in Seq(S), q # <<>>, NEW x
    PROVE  /\ Occurrences(q, x) = Occurrences(Tail(q), x) + Is(Head(q), x)
           /\ Occurrences(Tail(q), x) \in Nat
<1> DEFINE r == Tail(q)
           I == {i \in 1..Len(r) : r[i] = x}
           K == {i \in 2..Len(q) : q[i] = x}
           J == {i \in 1..Len(q) : q[i] = x}
           f == [i \in I |-> i + 1]
<1>1. /\ Len(q) \in Nat \ {0} /\ Len(r) = Len(q) - 1 /\ r \in Seq(S)
      /\ \A i \in 1..Len(r) : r[i] = q[i + 1]
      /\ Head(q) = q[1]
    BY TailElements
<1> HIDE DEF r
<1>2. IsFiniteSet(I) /\ Cardinality(I) \in Nat
    BY <1>1, OccurrencesNat DEF Occurrences
<1>3. IsFiniteSet(K) /\ Cardinality(K) = Cardinality(I)
  <2>1. f \in Bijection(I, K)
    <3>1. \A i \in I : f[i] \in K
      BY <1>1
    <3>2. \A i, j \in I : f[i] = f[j] => i = j
      BY <1>1
    <3>3. \A k \in K : k - 1 \in I /\ f[k - 1] = k
      BY <1>1
    <3>4. f \in [I -> K]
      BY <3>1
    <3> HIDE DEF f, I, K
    <3> QED  BY <3>2, <3>3, <3>4 DEF Bijection, Injection, Surjection, IsInjective
  <2>2. ExistsBijection(I, K)
    <3> HIDE DEF f, I, K
    <3> QED  BY <2>1 DEF ExistsBijection
  <2> HIDE DEF I, K
  <2> QED  BY <1>2, <2>2, FS_Bijection
<1>4. 1..Len(q) = {1} \cup 2..Len(q) /\ 1 \notin 2..Len(q)
    BY <1>1
<1>5. CASE Head(q) = x
  <2>1. J = K \cup {1} /\ 1 \notin K
    BY <1>1, <1>4, <1>5
  <2> HIDE DEF I, J, K
  <2>2. Cardinality(J) = Cardinality(K) + 1
    BY <1>3, <2>1, FS_AddElement
  <2> QED  BY <1>2, <1>3, <1>5, <2>2 DEF Occurrences, I, J, Is, r
<1>6. CASE Head(q) # x
  <2>1. J = K
    BY <1>1, <1>4, <1>6
  <2> HIDE DEF I, J, K
  <2>2. Cardinality(J) = Cardinality(I) + 0
    BY <1>2, <1>3, <2>1
  <2> QED  BY <1>2, <1>6, <2>2 DEF Occurrences, I, J, Is, r
<1> QED  BY <1>5, <1>6

(* A rising sequence that has exactly the numbers 1..n counts them.        *)
LEMMA CountingUp ==
    ASSUME NEW n \in Nat, NEW q \in Seq(Nat), Range(q) = 1..n,
           \A i, j \in 1..Len(q) : i < j => q[i] < q[j]
    PROVE  q = [i \in 1..n |-> i]
<1>1. Len(q) \in Nat /\ Range(q) = {q[i] : i \in 1..Len(q)}
    BY LenProperties, RangeEquality
<1>2. \A i \in 1..Len(q) : q[i] \in 1..n
    BY <1>1
<1> DEFINE I == {i \in 1..Len(q) : q[i] # i}
<1>3. I = {}
  <2> SUFFICES ASSUME I # {} PROVE FALSE
    OBVIOUS
  <2>1. I \in SUBSET Nat
    BY <1>1
  <2>2. PICK k \in I : \A i \in I : k <= i
    <3> HIDE DEF I
    <3> QED  BY <2>1, LeastElement
  <2>3. /\ k \in 1..Len(q) /\ q[k] # k /\ q[k] \in 1..n
        /\ \A i \in 1..Len(q) : i < k => q[i] = i
    <3>1. k \in 1..Len(q) /\ q[k] # k
      BY <2>2
    <3>2. ASSUME NEW i \in 1..Len(q), i < k PROVE q[i] = i
      <4>1. ~ (k <= i)
        BY <1>1, <3>1, <3>2
      <4> QED  BY <2>2, <4>1
    <3> QED  BY <1>2, <3>1, <3>2
  <2>4. q[k] > k
    <3>1. CASE k = 1
      BY <2>3, <3>1
    <3>2. CASE k # 1
      <4>1. k - 1 \in 1..Len(q) /\ k - 1 < k
        BY <1>1, <2>3, <3>2
      <4>2. q[k - 1] = k - 1 /\ q[k - 1] < q[k]
        BY <2>3, <4>1
      <4> QED  BY <2>3, <4>2
    <3> QED  BY <3>1, <3>2
  <2>5. k \in 1..n
    BY <1>1, <2>3, <2>4
  <2>6. PICK m \in 1..Len(q) : q[m] = k
    BY <1>1, <2>5
  <2>7. ~ (m < k)
    BY <2>3, <2>6
  <2>8. m # k
    BY <2>3, <2>6
  <2>9. k < m
    BY <1>1, <2>3, <2>7, <2>8
  <2>10. q[k] < q[m]
    BY <2>3, <2>9
  <2> QED  BY <2>3, <2>4, <2>6, <2>10
<1>4. \A i \in 1..Len(q) : q[i] = i
    BY <1>3
<1>5. 1..Len(q) = 1..n
    BY <1>1, <1>4
<1>6. Len(q) = n
    BY <1>1, <1>5
<1>7. q = [i \in 1..Len(q) |-> q[i]]
    OBVIOUS
<1> QED  BY <1>4, <1>6, <1>7

(* A function on 1..n into the numbers has a greatest value.               *)
LEMMA GreatestValue ==
    ASSUME NEW n \in Nat \ {0}, NEW f \in [1..n -> Nat]
    PROVE  \E m \in {f[i] : i \in 1..n} : \A i \in 1..n : f[i] <= m
<1> DEFINE Bounded(k) == \E j \in 1..k : \A i \in 1..k : f[i] <= f[j]
           K == {k \in 1..n : ~ Bounded(k)}
<1>0. ASSUME NEW j \in 1..n, j \notin K PROVE Bounded(j)
  <2> HIDE DEF Bounded
  <2> QED  BY <1>0
<1>1. K = {}
  <2> SUFFICES ASSUME K # {} PROVE FALSE
    OBVIOUS
  <2>1. K \in SUBSET Nat
    OBVIOUS
  <2>2. PICK k \in K : \A i \in K : k <= i
    <3> HIDE DEF K
    <3> QED  BY <2>1, LeastElement
  <2>3. k \in 1..n /\ ~ Bounded(k)
    BY <2>2
  <2>4. k # 1
    BY <2>3
  <2>5. k - 1 \in 1..n /\ k - 1 < k
    BY <2>3, <2>4
  <2>6. Bounded(k - 1)
    <3>1. k \in Nat /\ k - 1 \in Nat /\ k - 1 < k
      BY <2>3, <2>5
    <3>2. \A i \in K : k <= i
      BY <2>2
    <3>3. k - 1 \notin K
      <4> HIDE DEF K
      <4> QED  BY <3>1, <3>2
    <3> HIDE DEF Bounded, K
    <3> QED  BY <1>0, <2>5, <3>3
  <2>7. PICK j \in 1..(k - 1) : \A i \in 1..(k - 1) : f[i] <= f[j]
    BY <2>6
  <2>8. j \in 1..k /\ k \in 1..k /\ f[j] \in Nat /\ f[k] \in Nat
    BY <2>3, <2>5
  <2>9. \A i \in 1..k : i \in 1..(k - 1) \/ i = k
    BY <2>3
  <2>10. \A i \in 1..k : f[i] \in Nat
    BY <2>3
  <2>11. CASE f[j] <= f[k]
    <3>1. ASSUME NEW i \in 1..k PROVE f[i] <= f[k]
      <4>1. f[i] \in Nat /\ (i \in 1..(k - 1) \/ i = k)
        BY <2>9, <2>10
      <4>2. i \in 1..(k - 1) => f[i] <= f[j]
        BY <2>7
      <4>3. i \in 1..(k - 1) => f[i] <= f[k]
        <5> DEFINE a == f[i]
                   b == f[j]
                   c == f[k]
        <5>1. a \in Nat /\ b \in Nat /\ c \in Nat /\ b <= c
          BY <2>8, <2>11, <4>1
        <5>2. i \in 1..(k - 1) => a <= b
          BY <4>2
        <5> HIDE DEF a, b, c
        <5>3. i \in 1..(k - 1) => a <= c
          BY <5>1, <5>2
        <5> QED  BY <5>3 DEF a, c
      <4>4. f[k] <= f[k]
        BY <2>8
      <4> QED  BY <4>1, <4>3, <4>4
    <3> QED  BY <2>3, <2>8, <3>1
  <2>12. CASE f[k] <= f[j]
    <3>1. ASSUME NEW i \in 1..k PROVE f[i] <= f[j]
      <4>1. f[i] \in Nat /\ (i \in 1..(k - 1) \/ i = k)
        BY <2>9, <2>10
      <4>2. i \in 1..(k - 1) => f[i] <= f[j]
        BY <2>7
      <4> QED  BY <2>8, <4>1, <4>2, <2>12
    <3> QED  BY <2>3, <2>8, <3>1
  <2> QED  BY <2>8, <2>11, <2>12
<1>2. Bounded(n)
  <2>1. n \in 1..n
    OBVIOUS
  <2> HIDE DEF Bounded
  <2> QED  BY <1>0, <1>1, <2>1
<1> QED  BY <1>2

=============================================================================
