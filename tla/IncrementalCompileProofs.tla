----------------------- MODULE IncrementalCompileProofs -----------------------
(***************************************************************************)
(* What holds of every compile, whatever the workspace says: the cache is  *)
(* invisible, and the graph of a compile that succeeds is sound.  No       *)
(* compile carries state for the second but the files, so the invariant is *)
(* short and the work is about one compile: a workspace in which no phase  *)
(* found a fault has each reference at a declaration, and the vocabulary   *)
(* and the shapes its edges were judged by are what the folds over the     *)
(* profiles and the patterns keep.                                         *)
(***************************************************************************)
EXTENDS IncrementalCompile, SequenceTheorems, WellFoundedInduction, TLAPS

\* A sequence over a set is a function on an initial segment, whose elements are of the set.
LEMMA SequencesAre ==
  ASSUME NEW S, NEW s \in Seq(S)
  PROVE  /\ IsSequence(s)
         /\ ToSet(s) \subseteq S
         /\ Len(s) \in Nat /\ DOMAIN s = 1 .. Len(s)
<1>1. Len(s) \in Nat /\ DOMAIN s = 1 .. Len(s) /\ s \in [1 .. Len(s) -> S]
  BY LenProperties
<1>2. ToSet(s) \subseteq S
  BY <1>1 DEF ToSet
<1>3. s \in [1 .. Len(s) -> ToSet(s)]
  BY <1>1 DEF ToSet
<1>4. s \in Seq(ToSet(s))
  BY <1>1, <1>3, SeqDef
<1>. QED
  BY <1>1, <1>2, <1>4 DEF IsSequence

\* A function on an initial segment is a sequence of its own elements.
LEMMA SequenceOf ==
  ASSUME NEW n \in Nat, NEW s, s \in [1 .. n -> ToSet(s)]
  PROVE  IsSequence(s) /\ Len(s) = n /\ DOMAIN s = 1 .. n
<1>1. s \in Seq(ToSet(s))
  BY SeqDef
<1>2. DOMAIN s = 1 .. n
  OBVIOUS
<1>3. Len(s) = n
  BY <1>1, <1>2, LenProperties
<1>. QED
  BY <1>1, <1>2, <1>3 DEF IsSequence

\* A set of numbers that is not empty has a least one.
LEMMA FewestOf ==
  ASSUME NEW S \in SUBSET Nat, S # {}
  PROVE  \E n \in S : \A m \in S : n <= m
<1>1. \E n \in S : \A m \in S : ~(<<m, n>> \in OpToRel(<, Nat))
  BY NatLessThanWellFounded, WFMin
<1>2. PICK n \in S : \A m \in S : ~(<<m, n>> \in OpToRel(<, Nat))
  BY <1>1
<1>3. \A m \in S : m < n => <<m, n>> \in OpToRel(<, Nat)
  BY DEF OpToRel
<1>4. \A m \in S : ~(m < n)
  BY <1>2, <1>3
<1>. QED
  BY <1>4

\* What FlattenSeq has joined after i of the sequences.
JoinAfter(seqs, joined, i) == IF i = 1 THEN seqs[i] ELSE joined[i - 1] \o seqs[i]

\* The recursive joining of a sequence of sequences is well defined.
LEMMA JoiningExists ==
  ASSUME NEW seqs, NEW n \in Nat
  PROVE  \E joined : joined = [i \in 1 .. n |-> JoinAfter(seqs, joined, i)]
<1>. DEFINE Unrolls(m, f) == f = [i \in 1 .. m |-> JoinAfter(seqs, f, i)]
            Bad == {m \in Nat : ~ \E f : Unrolls(m, f)}
<1>1. SUFFICES ASSUME Bad # {} PROVE FALSE
  OBVIOUS
<1>2. PICK m \in Bad : \A k \in Bad : m <= k
  BY <1>1, FewestOf
<1>3. CASE m = 0
  <2>. DEFINE f == [i \in 1 .. 0 |-> <<>>]
  <2>1. \A i \in 1 .. 0 : FALSE
    OBVIOUS
  <2>2. Unrolls(0, f)
    BY <2>1
  <2>. QED
    BY <1>2, <1>3, <2>2
<1>4. CASE m # 0
  <2>1. m - 1 \in Nat /\ m - 1 \notin Bad
    BY <1>2, <1>4
  <2>2. PICK g : Unrolls(m - 1, g)
    BY <2>1
  <2>. DEFINE f == [i \in 1 .. m |-> IF i = m THEN JoinAfter(seqs, g, m) ELSE g[i]]
  <2>3. ASSUME NEW i \in 1 .. m
        PROVE  f[i] = JoinAfter(seqs, f, i)
    <3>1. CASE i = 1
      <4>1. CASE i = m
        BY <3>1, <4>1 DEF JoinAfter
      <4>2. CASE i # m
        <5>1. i \in 1 .. m - 1 /\ f[i] = g[i]
          BY <1>2, <4>2
        <5>2. g[i] = JoinAfter(seqs, g, i)
          BY <2>2, <5>1
        <5>. QED
          BY <3>1, <5>1, <5>2 DEF JoinAfter
      <4>. QED
        BY <4>1, <4>2
    <3>2. CASE i # 1
      <4>1. i - 1 \in 1 .. m /\ i - 1 # m
        BY <1>2, <3>2
      <4>2. f[i - 1] = g[i - 1]
        BY <4>1
      <4>3. CASE i = m
        BY <3>2, <4>2, <4>3 DEF JoinAfter
      <4>4. CASE i # m
        <5>1. i \in 1 .. m - 1 /\ f[i] = g[i]
          BY <1>2, <4>4
        <5>2. g[i] = JoinAfter(seqs, g, i)
          BY <2>2, <5>1
        <5>. QED
          BY <3>2, <4>2, <5>1, <5>2 DEF JoinAfter
      <4>. QED
        BY <4>3, <4>4
    <3>. QED
      BY <3>1, <3>2
  <2>4. f = [i \in 1 .. m |-> f[i]]
    OBVIOUS
  <2>. HIDE DEF f
  <2>5. Unrolls(m, f)
    BY <2>3, <2>4
  <2>. QED
    BY <1>2, <2>5
<1>. QED
  BY <1>3, <1>4

\* Where each element of some sequences is after they were joined: `at` gives
\* every element of the first n a place of its own, and every place has one.
Placed(seqs, n, flat, at) ==
    /\ \A i \in 1 .. n : \A k \in DOMAIN seqs[i] :
            at[i][k] \in DOMAIN flat /\ flat[at[i][k]] = seqs[i][k]
    /\ \A i, j \in 1 .. n : \A k \in DOMAIN seqs[i], l \in DOMAIN seqs[j] :
            at[i][k] = at[j][l] => i = j /\ k = l
    /\ \A m \in DOMAIN flat : \E i \in 1 .. n : \E k \in DOMAIN seqs[i] : at[i][k] = m

\* Joining one more sequence keeps every element where it stood.
LEMMA JoinKeepsPlaces ==
  ASSUME NEW S, NEW seqs \in Seq(Seq(S)), NEW n \in 1 .. Len(seqs), n # 1,
         NEW flat \in Seq(S), NEW at, Placed(seqs, n - 1, flat, at)
  PROVE  /\ flat \o seqs[n] \in Seq(S)
         /\ \E here : Placed(seqs, n, flat \o seqs[n], here)
<1>. DEFINE all == flat \o seqs[n]
            here == [i \in 1 .. n |-> [k \in DOMAIN seqs[i] |->
                        IF i = n THEN Len(flat) + k ELSE at[i][k]]]
<1>1. /\ Len(seqs) \in Nat /\ DOMAIN seqs = 1 .. Len(seqs)
      /\ \A i \in 1 .. n : seqs[i] \in Seq(S)
  BY LenProperties
<1>2. /\ Len(flat) \in Nat /\ DOMAIN flat = 1 .. Len(flat)
      /\ Len(seqs[n]) \in Nat /\ DOMAIN seqs[n] = 1 .. Len(seqs[n])
  BY <1>1, LenProperties
<1>3. /\ all \in Seq(S) /\ Len(all) = Len(flat) + Len(seqs[n])
      /\ \A i \in 1 .. Len(flat) + Len(seqs[n]) :
            all[i] = IF i <= Len(flat) THEN flat[i] ELSE seqs[n][i - Len(flat)]
  BY <1>1, ConcatProperties
<1>4. DOMAIN all = 1 .. Len(flat) + Len(seqs[n])
  BY <1>3, LenProperties
<1>. HIDE DEF all
<1>5. \A i \in 1 .. n : i = n \/ i \in 1 .. n - 1
  BY <1>1
<1>6. /\ \A k \in DOMAIN seqs[n] : here[n][k] = Len(flat) + k
      /\ \A i \in 1 .. n - 1 : \A k \in DOMAIN seqs[i] : here[i][k] = at[i][k]
  BY <1>1
<1>. HIDE DEF here
<1>7. \A k \in DOMAIN seqs[n] :
        /\ here[n][k] \in DOMAIN all /\ here[n][k] \notin DOMAIN flat
        /\ all[here[n][k]] = seqs[n][k]
  <2>. SUFFICES ASSUME NEW k \in DOMAIN seqs[n]
       PROVE /\ here[n][k] \in DOMAIN all /\ here[n][k] \notin DOMAIN flat
             /\ all[here[n][k]] = seqs[n][k]
    OBVIOUS
  <2>1. here[n][k] = Len(flat) + k /\ k \in 1 .. Len(seqs[n])
    BY <1>2, <1>6
  <2>2. Len(flat) + k \in 1 .. Len(flat) + Len(seqs[n]) /\ ~(Len(flat) + k <= Len(flat))
    BY <1>2, <2>1
  <2>3. Len(flat) + k - Len(flat) = k
    BY <1>2, <2>1
  <2>. QED
    BY <1>2, <1>3, <1>4, <2>1, <2>2, <2>3
<1>8. \A i \in 1 .. n - 1 : \A k \in DOMAIN seqs[i] :
        /\ here[i][k] \in DOMAIN flat /\ here[i][k] \in DOMAIN all
        /\ all[here[i][k]] = seqs[i][k]
  <2>. SUFFICES ASSUME NEW i \in 1 .. n - 1, NEW k \in DOMAIN seqs[i]
       PROVE /\ here[i][k] \in DOMAIN flat /\ here[i][k] \in DOMAIN all
             /\ all[here[i][k]] = seqs[i][k]
    OBVIOUS
  <2>1. at[i][k] \in DOMAIN flat /\ flat[at[i][k]] = seqs[i][k]
    BY DEF Placed
  <2>2. here[i][k] = at[i][k]
    BY <1>6
  <2>3. \A m \in DOMAIN flat : m \in 1 .. Len(flat) + Len(seqs[n]) /\ m <= Len(flat)
    BY <1>2
  <2>4. \A m \in DOMAIN flat : m \in DOMAIN all /\ all[m] = flat[m]
    BY <1>3, <1>4, <2>3
  <2>. QED
    BY <2>1, <2>2, <2>4
<1>9. ASSUME NEW i \in 1 .. n, NEW j \in 1 .. n, NEW k \in DOMAIN seqs[i],
             NEW l \in DOMAIN seqs[j], here[i][k] = here[j][l]
      PROVE  i = j /\ k = l
  <2>1. CASE i = n /\ j = n
    <3>1. here[n][k] = Len(flat) + k /\ here[n][l] = Len(flat) + l
      BY <1>6, <2>1
    <3>2. k \in Nat /\ l \in Nat
      BY <1>2, <2>1
    <3>3. Len(flat) + k = Len(flat) + l
      BY <1>9, <2>1, <3>1
    <3>4. k = l
      BY <1>2, <3>2, <3>3
    <3>. QED
      BY <2>1, <3>4
  <2>2. CASE i \in 1 .. n - 1 /\ j \in 1 .. n - 1
    <3>1. at[i][k] = at[j][l]
      BY <1>6, <1>9, <2>2
    <3>. QED
      BY <2>2, <3>1 DEF Placed
  <2>3. ~(i = n /\ j \in 1 .. n - 1)
    <3>1. i = n => here[i][k] \notin DOMAIN flat
      BY <1>7
    <3>2. j \in 1 .. n - 1 => here[j][l] \in DOMAIN flat
      BY <1>8
    <3>. QED
      BY <1>9, <3>1, <3>2
  <2>5. ~(j = n /\ i \in 1 .. n - 1)
    <3>1. j = n => here[j][l] \notin DOMAIN flat
      BY <1>7
    <3>2. i \in 1 .. n - 1 => here[i][k] \in DOMAIN flat
      BY <1>8
    <3>. QED
      BY <1>9, <3>1, <3>2
  <2>4. (i = n \/ i \in 1 .. n - 1) /\ (j = n \/ j \in 1 .. n - 1)
    BY <1>5
  <2>. QED
    BY <2>1, <2>2, <2>3, <2>4, <2>5
<1>10. ASSUME NEW m \in DOMAIN all
       PROVE  \E i \in 1 .. n : \E k \in DOMAIN seqs[i] : here[i][k] = m
  <2>1. CASE m <= Len(flat)
    <3>1. m \in DOMAIN flat
      BY <1>2, <1>4, <2>1
    <3>2. PICK i \in 1 .. n - 1 : \E k \in DOMAIN seqs[i] : at[i][k] = m
      BY <3>1 DEF Placed
    <3>3. i \in 1 .. n
      BY <3>2, <1>1
    <3>. QED
      BY <1>6, <3>2, <3>3
  <2>2. CASE ~(m <= Len(flat))
    <3>1. m - Len(flat) \in 1 .. Len(seqs[n]) /\ Len(flat) + (m - Len(flat)) = m
      BY <1>2, <1>4, <2>2
    <3>2. n \in 1 .. n
      OBVIOUS
    <3>. QED
      BY <1>2, <1>6, <3>1, <3>2
  <2>. QED
    BY <2>1, <2>2
<1>11. \A i \in 1 .. n : \A k \in DOMAIN seqs[i] :
            here[i][k] \in DOMAIN all /\ all[here[i][k]] = seqs[i][k]
  BY <1>5, <1>7, <1>8
<1>12. Placed(seqs, n, all, here)
  BY <1>9, <1>10, <1>11 DEF Placed
<1>. QED
  BY <1>3, <1>12 DEF all

\* What FlattenSeq joins is what there was: every element has a place of its
\* own in the whole, and the whole has nothing else.
LEMMA Flattened ==
  ASSUME NEW S, NEW seqs \in Seq(Seq(S))
  PROVE  /\ FlattenSeq(seqs) \in Seq(S)
         /\ \E at : Placed(seqs, Len(seqs), FlattenSeq(seqs), at)
<1>. DEFINE n == Len(seqs)
            f == CHOOSE joined : joined = [i \in 1 .. n |-> JoinAfter(seqs, joined, i)]
<1>1. n \in Nat /\ DOMAIN seqs = 1 .. n /\ \A i \in 1 .. n : seqs[i] \in Seq(S)
  BY LenProperties
<1>2. f = [i \in 1 .. n |-> JoinAfter(seqs, f, i)]
  BY <1>1, JoiningExists
<1>3. CASE n = 0
  <2>1. FlattenSeq(seqs) = seqs /\ seqs = <<>>
    BY <1>3, EmptySeq DEF FlattenSeq
  <2>2. DOMAIN <<>> = {} /\ <<>> \in Seq(S) /\ 1 .. 0 = {}
    BY EmptySeq
  <2>3. Placed(seqs, 0, <<>>, <<>>)
    BY <2>2 DEF Placed
  <2>. QED
    BY <1>3, <2>1, <2>2, <2>3
<1>4. CASE n # 0
  <2>1. FlattenSeq(seqs) = f[n]
    BY <1>4 DEF FlattenSeq, JoinAfter
  <2>. HIDE DEF f
  <2>. DEFINE Good(i) == f[i] \in Seq(S) /\ \E at : Placed(seqs, i, f[i], at)
              Bad == {i \in 1 .. n : ~Good(i)}
  <2>2. SUFFICES ASSUME Bad # {} PROVE FALSE
    BY <1>1, <1>4, <2>1
  <2>3. PICK m \in Bad : \A k \in Bad : m <= k
    <3>1. Bad \in SUBSET Nat
      OBVIOUS
    <3>. HIDE DEF Bad
    <3>. QED
      BY <2>2, <3>1, FewestOf
  <2>4. CASE m = 1
    <3>1. f[1] = seqs[1] /\ 1 \in 1 .. n
      BY <1>1, <1>2, <1>4 DEF JoinAfter
    <3>2. f[1] \in Seq(S) /\ DOMAIN f[1] = DOMAIN seqs[1]
      BY <1>1, <3>1
    <3>. DEFINE at == [i \in 1 .. 1 |-> [k \in DOMAIN seqs[1] |-> k]]
    <3>3. \A i \in 1 .. 1 : i = 1
      OBVIOUS
    <3>4. Placed(seqs, 1, f[1], at)
      BY <3>1, <3>2, <3>3 DEF Placed
    <3>. QED
      BY <2>3, <2>4, <3>2, <3>4
  <2>5. CASE m # 1
    <3>0. m \in 1 .. n
      BY <2>3
    <3>1. m \in 1 .. n /\ m - 1 \in 1 .. n /\ ~(m <= m - 1)
      BY <1>1, <2>5, <3>0
    <3>10. m - 1 \notin Bad
      BY <2>3, <3>1
    <3>2. Good(m - 1)
      BY <3>1, <3>10
    <3>3. PICK at : Placed(seqs, m - 1, f[m - 1], at)
      BY <3>2
    <3>4. f[m] = f[m - 1] \o seqs[m]
      BY <1>2, <2>5, <3>1 DEF JoinAfter
    <3>5. f[m - 1] \in Seq(S)
      BY <3>2
    <3>. HIDE DEF Bad, Good
    <3>6. f[m] \in Seq(S) /\ \E here : Placed(seqs, m, f[m], here)
      BY <2>5, <3>1, <3>3, <3>4, <3>5, JoinKeepsPlaces
    <3>. QED
      BY <2>3, <3>6 DEF Bad, Good
  <2>. QED
    BY <2>4, <2>5
<1>. QED
  BY <1>3, <1>4

\* The elements of flattened sequences are those of the sequences.
LEMMA FlattenedElements ==
  ASSUME NEW S, NEW seqs \in Seq(Seq(S)), NEW e
  PROVE  e \in ToSet(FlattenSeq(seqs)) <=> \E i \in DOMAIN seqs : e \in ToSet(seqs[i])
<1>. DEFINE flat == FlattenSeq(seqs)
<1>1. DOMAIN seqs = 1 .. Len(seqs)
  BY LenProperties
<1>2. PICK at : Placed(seqs, Len(seqs), flat, at)
  BY Flattened
<1>. HIDE DEF flat
<1>3. ASSUME e \in ToSet(flat) PROVE \E i \in DOMAIN seqs : e \in ToSet(seqs[i])
  <2>1. PICK m \in DOMAIN flat : e = flat[m]
    BY <1>3 DEF ToSet
  <2>2. PICK i \in 1 .. Len(seqs) : \E k \in DOMAIN seqs[i] : at[i][k] = m
    BY <1>2 DEF Placed
  <2>3. PICK k \in DOMAIN seqs[i] : at[i][k] = m
    BY <2>2
  <2>4. e = seqs[i][k]
    BY <1>2, <2>1, <2>3 DEF Placed
  <2>. QED
    BY <1>1, <2>4 DEF ToSet
<1>4. ASSUME NEW i \in DOMAIN seqs, e \in ToSet(seqs[i]) PROVE e \in ToSet(flat)
  <2>1. PICK k \in DOMAIN seqs[i] : e = seqs[i][k]
    BY <1>4 DEF ToSet
  <2>2. at[i][k] \in DOMAIN flat /\ flat[at[i][k]] = e
    BY <1>1, <1>2, <2>1 DEF Placed
  <2>. QED
    BY <2>2 DEF ToSet
<1>. QED
  BY <1>3, <1>4 DEF flat

-----------------------------------------------------------------------------
\* The three lists that a document declares.
Sorts == {"states", "concepts", "relationships"}

\* A document that reads as one: each sort of declaration comes in a list.
Reads(v) == \A sort \in Sorts : IsSequence(v[sort])

\* Sources are a sequence of documents whose three lists are sequences.
AllRead(D) == IsSequence(D) /\ \A i \in DOMAIN D : Reads(D[i].value)

\* The j-th declaration of a sort in the i-th document, as the phases see it.
Entry(D, sort, i, j) ==
    [path |-> D[i].path, document |-> D[i].value.id,
     profile |-> D[i].value.profile, item |-> D[i].value[sort][j]]

\* The items of a sort are exactly the declarations of that sort of the documents, each with its document.
LEMMA ItemsAre ==
  ASSUME NEW D, AllRead(D), NEW sort \in Sorts, NEW e
  PROVE  /\ IsSequence(Items(D, sort))
         /\ e \in ToSet(Items(D, sort)) <=>
               \E i \in DOMAIN D : \E j \in DOMAIN D[i].value[sort] : e = Entry(D, sort, i, j)
<1>. DEFINE S == UNION {{Entry(D, sort, n, j) : j \in DOMAIN D[n].value[sort]} : n \in DOMAIN D}
            of(i) == [j \in DOMAIN D[i].value[sort] |-> Entry(D, sort, i, j)]
            seqs == [n \in DOMAIN D |-> of(n)]
<1>1. Len(D) \in Nat /\ DOMAIN D = 1 .. Len(D)
  BY SequencesAre DEF AllRead, IsSequence
<1>2. ASSUME NEW i \in DOMAIN D PROVE of(i) \in Seq(S)
  <2>1. /\ Len(D[i].value[sort]) \in Nat
        /\ DOMAIN D[i].value[sort] = 1 .. Len(D[i].value[sort])
    BY SequencesAre DEF AllRead, Reads, IsSequence
  <2>2. \A j \in DOMAIN D[i].value[sort] : Entry(D, sort, i, j) \in S
    OBVIOUS
  <2>. HIDE DEF S
  <2>3. of(i) \in [1 .. Len(D[i].value[sort]) -> S]
    BY <2>1, <2>2
  <2>. QED
    BY <2>1, <2>3, SeqDef
<1>. HIDE DEF S
<1>3. seqs \in [1 .. Len(D) -> Seq(S)]
  BY <1>1, <1>2
<1>4. seqs \in Seq(Seq(S))
  BY <1>1, <1>3, SeqDef
<1>5. Items(D, sort) = FlattenSeq(seqs)
  BY DEF Items, Entry
<1>6. DOMAIN seqs = DOMAIN D /\ \A i \in DOMAIN D : seqs[i] = of(i)
  OBVIOUS
<1>. HIDE DEF seqs
<1>10. IsSequence(Items(D, sort))
  BY <1>4, <1>5, Flattened, SequencesAre
<1>9. e \in ToSet(FlattenSeq(seqs)) <=> \E i \in DOMAIN seqs : e \in ToSet(seqs[i])
  BY <1>4, FlattenedElements
<1>. HIDE DEF of
<1>7. e \in ToSet(Items(D, sort)) <=> \E i \in DOMAIN D : e \in ToSet(of(i))
  BY <1>5, <1>6, <1>9
<1>8. ASSUME NEW i \in DOMAIN D
      PROVE  e \in ToSet(of(i)) <=> \E j \in DOMAIN D[i].value[sort] : e = Entry(D, sort, i, j)
  BY DEF ToSet, of
<1>. QED
  BY <1>7, <1>8, <1>10

\* Where DeclaredBy puts a declaration of a document.
Place(v, sort, j) ==
    CASE sort = "states" -> j
      [] sort = "concepts" -> Len(v.states) + j
      [] sort = "relationships" -> Len(v.states) + Len(v.concepts) + j

\* What is where in three sequences joined, of lengths A, B and C.
Joined(a, b, c, A, B, C, all) ==
    /\ DOMAIN all = 1 .. A + B + C
    /\ \A j \in 1 .. A : all[j] = a[j]
    /\ \A j \in 1 .. B : all[A + j] = b[j]
    /\ \A j \in 1 .. C : all[A + B + j] = c[j]

\* Where the elements of three joined sequences stand.
LEMMA ThreeJoined ==
  ASSUME NEW S, NEW a \in Seq(S), NEW b \in Seq(S), NEW c \in Seq(S),
         NEW A \in Nat, NEW B \in Nat, NEW C \in Nat,
         A = Len(a), B = Len(b), C = Len(c),
         NEW all, all = (a \o b) \o c
  PROVE  all \in Seq(S) /\ Joined(a, b, c, A, B, C, all)
<1>1. PICK ab : ab = a \o b
  OBVIOUS
<1>2. /\ ab \in Seq(S) /\ Len(ab) = A + B
      /\ \A i \in 1 .. A + B : ab[i] = IF i <= A THEN a[i] ELSE b[i - A]
  BY <1>1, ConcatProperties
<1>3. all = ab \o c
  BY <1>1
<1>10. ab \in Seq(S)
  BY <1>2
<1>4. /\ all \in Seq(S) /\ Len(all) = Len(ab) + Len(c)
      /\ \A i \in 1 .. Len(ab) + Len(c) :
              all[i] = IF i <= Len(ab) THEN ab[i] ELSE c[i - Len(ab)]
  BY <1>3, <1>10, ConcatProperties
<1>5. DOMAIN all = 1 .. A + B + C
  BY <1>2, <1>4, LenProperties
<1>6. \A i \in 1 .. A + B + C : all[i] = IF i <= A + B THEN ab[i] ELSE c[i - (A + B)]
  BY <1>2, <1>4
<1>7. ASSUME NEW j \in 1 .. A PROVE all[j] = a[j]
  <2>1. j \in 1 .. A + B /\ j \in 1 .. A + B + C /\ j <= A /\ j <= A + B
    OBVIOUS
  <2>. QED
    BY <1>2, <1>6, <2>1
<1>8. ASSUME NEW j \in 1 .. B PROVE all[A + j] = b[j]
  <2>1. /\ A + j \in 1 .. A + B /\ A + j \in 1 .. A + B + C
        /\ ~(A + j <= A) /\ A + j <= A + B /\ A + j - A = j
    OBVIOUS
  <2>. QED
    BY <1>2, <1>6, <2>1
<1>9. ASSUME NEW j \in 1 .. C PROVE all[A + B + j] = c[j]
  <2>1. /\ A + B + j \in 1 .. A + B + C
        /\ ~(A + B + j <= A + B) /\ A + B + j - (A + B) = j
    OBVIOUS
  <2>2. all[A + B + j] = c[A + B + j - (A + B)]
    BY <1>6, <2>1
  <2>. QED
    BY <2>1, <2>2
<1>. QED
  BY <1>4, <1>5, <1>7, <1>8, <1>9 DEF Joined

\* What a document declares is listed, each sort at places of its own.
LEMMA DeclaredInPlace ==
  ASSUME NEW v, Reads(v)
  PROVE  /\ IsSequence(DeclaredBy(v))
         /\ \A sort \in Sorts : \A j \in DOMAIN v[sort] :
                /\ Place(v, sort, j) \in DOMAIN DeclaredBy(v)
                /\ DeclaredBy(v)[Place(v, sort, j)] = v[sort][j]
         /\ \A s, t \in Sorts : \A j \in DOMAIN v[s], k \in DOMAIN v[t] :
                Place(v, s, j) = Place(v, t, k) => s = t /\ j = k
<1>. DEFINE all == DeclaredBy(v)
            S == ToSet(v.states) \cup ToSet(v.concepts) \cup ToSet(v.relationships)
<1>1. IsSequence(v.states) /\ IsSequence(v.concepts) /\ IsSequence(v.relationships)
  BY DEF Reads, Sorts
<1>2. v.states \in Seq(S) /\ v.concepts \in Seq(S) /\ v.relationships \in Seq(S)
  <2>1. /\ ToSet(v.states) \subseteq S /\ ToSet(v.concepts) \subseteq S
        /\ ToSet(v.relationships) \subseteq S
    OBVIOUS
  <2>. HIDE DEF S
  <2>. QED
    BY <1>1, <2>1, SeqMonotonic DEF IsSequence
<1>. HIDE DEF S
<1>3. PICK A \in Nat : A = Len(v.states) /\ DOMAIN v.states = 1 .. A
  BY <1>2, LenProperties
<1>4. PICK B \in Nat : B = Len(v.concepts) /\ DOMAIN v.concepts = 1 .. B
  BY <1>2, LenProperties
<1>5. PICK C \in Nat : C = Len(v.relationships) /\ DOMAIN v.relationships = 1 .. C
  BY <1>2, LenProperties
<1>6. /\ all \in Seq(S) /\ DOMAIN all = 1 .. A + B + C
      /\ \A j \in 1 .. A : all[j] = v.states[j]
      /\ \A j \in 1 .. B : all[A + j] = v.concepts[j]
      /\ \A j \in 1 .. C : all[A + B + j] = v.relationships[j]
  <2>1. all = (v.states \o v.concepts) \o v.relationships
    BY DEF DeclaredBy
  <2>2. PICK x, a, b, c : x = all /\ a = v.states /\ b = v.concepts /\ c = v.relationships
    OBVIOUS
  <2>. HIDE DEF all
  <2>3. /\ a \in Seq(S) /\ b \in Seq(S) /\ c \in Seq(S) /\ x = (a \o b) \o c
        /\ A = Len(a) /\ B = Len(b) /\ C = Len(c)
    BY <1>2, <1>3, <1>4, <1>5, <2>1, <2>2
  <2>4. /\ x \in Seq(S) /\ DOMAIN x = 1 .. A + B + C
        /\ \A j \in 1 .. A : x[j] = a[j]
        /\ \A j \in 1 .. B : x[A + j] = b[j]
        /\ \A j \in 1 .. C : x[A + B + j] = c[j]
    <3>1. Joined(a, b, c, A, B, C, x)
      BY <2>3, ThreeJoined
    <3>2. x \in Seq(S)
      BY <2>3, ThreeJoined
    <3>. QED
      BY <3>1, <3>2 DEF Joined
  <2>. QED
    BY <2>2, <2>4
<1>. HIDE DEF all
<1>7. /\ \A j : Place(v, "states", j) = j
      /\ \A j : Place(v, "concepts", j) = A + j
      /\ \A j : Place(v, "relationships", j) = A + B + j
  BY <1>3, <1>4 DEF Place
<1>8. /\ \A j \in 1 .. A : j \in 1 .. A + B + C
      /\ \A j \in 1 .. B : A + j \in 1 .. A + B + C
      /\ \A j \in 1 .. C : A + B + j \in 1 .. A + B + C
  OBVIOUS
<1>9. \A sort \in Sorts :
        \/ sort = "states" /\ v[sort] = v.states
        \/ sort = "concepts" /\ v[sort] = v.concepts
        \/ sort = "relationships" /\ v[sort] = v.relationships
  BY DEF Sorts
<1>10. ASSUME NEW sort \in Sorts, NEW j \in DOMAIN v[sort]
       PROVE  Place(v, sort, j) \in DOMAIN all /\ all[Place(v, sort, j)] = v[sort][j]
  <2>1. CASE sort = "states" /\ v[sort] = v.states
    <3>1. j \in 1 .. A /\ Place(v, sort, j) = j
      BY <1>3, <1>7, <2>1
    <3>. QED
      BY <1>6, <1>8, <2>1, <3>1
  <2>2. CASE sort = "concepts" /\ v[sort] = v.concepts
    <3>1. j \in 1 .. B /\ Place(v, sort, j) = A + j
      BY <1>4, <1>7, <2>2
    <3>. QED
      BY <1>6, <1>8, <2>2, <3>1
  <2>3. CASE sort = "relationships" /\ v[sort] = v.relationships
    <3>1. j \in 1 .. C /\ Place(v, sort, j) = A + B + j
      BY <1>5, <1>7, <2>3
    <3>. QED
      BY <1>6, <1>8, <2>3, <3>1
  <2>. QED
    BY <1>9, <2>1, <2>2, <2>3
<1>11. ASSUME NEW sort \in Sorts, NEW j \in DOMAIN v[sort]
       PROVE  \/ sort = "states" /\ j \in 1 .. A /\ Place(v, sort, j) = j
              \/ sort = "concepts" /\ j \in 1 .. B /\ Place(v, sort, j) = A + j
              \/ sort = "relationships" /\ j \in 1 .. C /\ Place(v, sort, j) = A + B + j
  BY <1>3, <1>4, <1>5, <1>7, <1>9
<1>12. ASSUME NEW s \in Sorts, NEW t \in Sorts, NEW j \in DOMAIN v[s], NEW k \in DOMAIN v[t],
              Place(v, s, j) = Place(v, t, k)
       PROVE  s = t /\ j = k
  <2>1. PICK p : p = Place(v, s, j) /\ p = Place(v, t, k)
    BY <1>12
  <2>2. \/ s = "states" /\ j \in 1 .. A /\ p = j
        \/ s = "concepts" /\ j \in 1 .. B /\ p = A + j
        \/ s = "relationships" /\ j \in 1 .. C /\ p = A + B + j
    BY <1>11, <2>1
  <2>3. \/ t = "states" /\ k \in 1 .. A /\ p = k
        \/ t = "concepts" /\ k \in 1 .. B /\ p = A + k
        \/ t = "relationships" /\ k \in 1 .. C /\ p = A + B + k
    BY <1>11, <2>1
  <2>. QED
    BY <2>2, <2>3
<1>. QED
  <2>1. IsSequence(DeclaredBy(v))
    BY <1>6, SequencesAre DEF all
  <2>2. \A sort \in Sorts : \A j \in DOMAIN v[sort] :
                /\ Place(v, sort, j) \in DOMAIN DeclaredBy(v)
                /\ DeclaredBy(v)[Place(v, sort, j)] = v[sort][j]
    BY <1>10 DEF all
  <2>. QED
    BY <1>12, <2>1, <2>2

\* The workspace the later phases look at.
Clean(w) ==
    /\ AllRead(w.documents)
    /\ w.states = Items(w.documents, "states")
    /\ w.concepts = Items(w.documents, "concepts")
    /\ w.relationships = Items(w.documents, "relationships")
    /\ DocumentIdFaults(w) = {} /\ DeclarationFaults(w) = {}

\* Without a fault, every document names a profile that resolved, and is walked.
LEMMA EveryDocumentIsWalked ==
  ASSUME NEW w, Clean(w)
  PROVE  /\ \A d \in ToSet(w.documents) : d.value.profile \in DOMAIN w.r.profiles
         /\ Walked(w) = DOMAIN w.documents
<1>. DEFINE D == w.documents
<1>1. {Diagnostic("YM403", d.path, NoReference) :
          d \in {s \in ToSet(D) : s.value.profile \notin DOMAIN w.r.profiles}} = {}
  BY DEF Clean, DocumentIdFaults
<1>2. {s \in ToSet(D) : s.value.profile \notin DOMAIN w.r.profiles} = {}
  BY <1>1
<1>3. \A d \in ToSet(D) : d.value.profile \in DOMAIN w.r.profiles
  BY <1>2
<1>4. {Diagnostic("YM303", D[i].path, NoReference) :
            i \in {n \in DOMAIN D : \E m \in 1 .. n - 1 : D[m].value.id = D[n].value.id}} = {}
  BY DEF Clean, DocumentIdFaults
<1>5. \A n \in DOMAIN D : ~\E m \in 1 .. n - 1 : D[m].value.id = D[n].value.id
  BY <1>4
<1>6. DOMAIN D = 1 .. Len(D) /\ Len(D) \in Nat
  BY SequencesAre DEF Clean, AllRead, IsSequence
<1>7. \A i \in DOMAIN D : D[i].value.profile \in DOMAIN w.r.profiles
  BY <1>3 DEF ToSet
<1>8. \A n \in DOMAIN D, m \in DOMAIN D : m < n => m \in 1 .. n - 1
  BY <1>6
<1>9. \A n \in DOMAIN D : ~\E m \in DOMAIN D : m < n /\ D[m].value.id = D[n].value.id
  BY <1>5, <1>8
<1>. QED
  BY <1>3, <1>7, <1>9 DEF Walked

\* An identifier is declared once.
LEMMA DeclaredOnce ==
  ASSUME NEW w, Clean(w), NEW i \in DOMAIN w.documents, NEW j \in DOMAIN w.documents,
         NEW k \in DOMAIN DeclaredBy(w.documents[i].value),
         NEW l \in DOMAIN DeclaredBy(w.documents[j].value),
         DeclaredBy(w.documents[i].value)[k].id = DeclaredBy(w.documents[j].value)[l].id
  PROVE  i = j /\ k = l
<1>. DEFINE D == w.documents
            by(n) == DeclaredBy(D[n].value)
            entry(n, m) == [path |-> D[n].path, id |-> by(n)[m].id]
            S == UNION {{entry(n, m) : m \in DOMAIN by(n)} : n \in DOMAIN D}
            of(n) == [m \in DOMAIN by(n) |-> entry(n, m)]
            seqs == [n \in DOMAIN D |-> of(n)]
            all == Declarations(w)
<1>1. Len(D) \in Nat /\ DOMAIN D = 1 .. Len(D)
  BY SequencesAre DEF Clean, AllRead, IsSequence
<1>2. all = FlattenSeq(seqs)
  <2>1. Walked(w) = DOMAIN D
    BY EveryDocumentIsWalked
  <2>2. seqs = [n \in DOMAIN D |-> IF n \notin Walked(w) THEN <<>> ELSE of(n)]
    BY <2>1
  <2>. QED
    BY <2>2 DEF Declarations
<1>3. ASSUME NEW n \in DOMAIN D PROVE of(n) \in Seq(S)
  <2>1. IsSequence(by(n))
    BY DeclaredInPlace DEF Clean, AllRead
  <2>2. Len(by(n)) \in Nat /\ DOMAIN by(n) = 1 .. Len(by(n))
    BY <2>1, SequencesAre DEF IsSequence
  <2>. HIDE DEF by
  <2>3. \A m \in DOMAIN by(n) : entry(n, m) \in S
    OBVIOUS
  <2>. HIDE DEF S, entry
  <2>4. of(n) \in [1 .. Len(by(n)) -> S]
    BY <2>2, <2>3
  <2>. QED
    BY <2>2, <2>4, SeqDef
<1>4. seqs \in Seq(Seq(S))
  <2>. HIDE DEF S, of
  <2>1. seqs \in [1 .. Len(D) -> Seq(S)]
    BY <1>1, <1>3
  <2>. QED
    BY <1>1, <2>1, SeqDef
<1>5. /\ DOMAIN seqs = DOMAIN D
      /\ \A n \in DOMAIN D : DOMAIN seqs[n] = DOMAIN by(n)
      /\ \A n \in DOMAIN D : \A m \in DOMAIN by(n) : seqs[n][m].id = by(n)[m].id
  OBVIOUS
<1>. HIDE DEF seqs, S, of
<1>6. all \in Seq(S) /\ \E at : Placed(seqs, Len(seqs), all, at)
  BY <1>2, <1>4, Flattened
<1>7. PICK at : Placed(seqs, Len(seqs), all, at)
  BY <1>6
<1>8. DOMAIN all = 1 .. Len(all) /\ Len(all) \in Nat
  BY <1>6, LenProperties
<1>9. 1 .. Len(seqs) = DOMAIN D
  BY <1>4, <1>5, LenProperties
<1>. HIDE DEF all
<1>10. \A n \in DOMAIN all : FirstDeclared(all, n) = n
  <2>. DEFINE late == {n \in DOMAIN all : FirstDeclared(all, n) # n}
              fault(n) == Diagnostic(IF all[FirstDeclared(all, n)].path = all[n].path
                                     THEN "YM301" ELSE "YM314", all[n].path, all[n].id)
  <2>1. {fault(n) : n \in late} = {}
    BY DEF Clean, DeclarationFaults, all
  <2>2. late = {}
    BY <2>1
  <2>. QED
    BY <2>2
<1>11. ASSUME NEW m \in DOMAIN all, NEW n \in DOMAIN all, m < n, all[m].id = all[n].id
       PROVE  FALSE
  <2>. DEFINE same == {x \in 1 .. n : all[x].id = all[n].id}
  <2>1. same # {} /\ same \in SUBSET Nat
    BY <1>8, <1>11
  <2>2. PICK x \in same : \A y \in same : x <= y
    <3>. HIDE DEF same
    <3>. QED
      BY <2>1, FewestOf
  <2>3. \A y \in 1 .. x - 1 : y \in 1 .. n /\ ~(x <= y)
    BY <1>8
  <2>4. \A y \in 1 .. x - 1 : all[y].id # all[n].id
    BY <2>2, <2>3
  <2>5. \E z \in 1 .. n : all[z].id = all[n].id /\ \A y \in 1 .. z - 1 : all[y].id # all[n].id
    BY <2>2, <2>4
  <2>6. /\ FirstDeclared(all, n) \in 1 .. n
        /\ \A y \in 1 .. FirstDeclared(all, n) - 1 : all[y].id # all[n].id
    BY <2>5 DEF FirstDeclared
  <2>7. FirstDeclared(all, n) = n
    BY <1>10
  <2>8. m \in 1 .. n - 1
    BY <1>8, <1>11
  <2>. QED
    BY <1>11, <2>6, <2>7, <2>8
<1>12. /\ at[i][k] \in DOMAIN all /\ all[at[i][k]].id = by(i)[k].id
       /\ at[j][l] \in DOMAIN all /\ all[at[j][l]].id = by(j)[l].id
  BY <1>5, <1>7, <1>9 DEF Placed
<1>13. at[i][k] = at[j][l]
  <2>. DEFINE x == at[i][k]
              y == at[j][l]
  <2>1. x \in 1 .. Len(all) /\ y \in 1 .. Len(all) /\ all[x].id = all[y].id
    BY <1>8, <1>12
  <2>2. ~(x < y) /\ ~(y < x)
    BY <1>8, <1>11, <2>1
  <2>. HIDE DEF x, y
  <2>3. x = y
    BY <1>8, <2>1, <2>2
  <2>. QED
    BY <2>3 DEF x, y
<1>. QED
  BY <1>5, <1>7, <1>9, <1>13 DEF Placed

\* So no two declarations of the workspace, of whatever sorts, share one.
LEMMA OneDeclarationEach ==
  ASSUME NEW w, Clean(w), NEW s \in Sorts, NEW t \in Sorts,
         NEW e \in ToSet(Items(w.documents, s)), NEW f \in ToSet(Items(w.documents, t)),
         e.item.id = f.item.id
  PROVE  s = t /\ e = f
<1>. DEFINE D == w.documents
<1>1. AllRead(D)
  BY DEF Clean
<1>2. PICK i \in DOMAIN D : \E k \in DOMAIN D[i].value[s] : e = Entry(D, s, i, k)
  BY <1>1, ItemsAre
<1>20. PICK k \in DOMAIN D[i].value[s] : e = Entry(D, s, i, k)
  BY <1>2
<1>3. PICK j \in DOMAIN D : \E l \in DOMAIN D[j].value[t] : f = Entry(D, t, j, l)
  BY <1>1, ItemsAre
<1>30. PICK l \in DOMAIN D[j].value[t] : f = Entry(D, t, j, l)
  BY <1>3
<1>4. Reads(D[i].value) /\ Reads(D[j].value)
  BY <1>1 DEF AllRead
<1>5. e.item = D[i].value[s][k] /\ f.item = D[j].value[t][l]
  BY <1>20, <1>30 DEF Entry
<1>6. /\ Place(D[i].value, s, k) \in DOMAIN DeclaredBy(D[i].value)
      /\ DeclaredBy(D[i].value)[Place(D[i].value, s, k)] = e.item
      /\ Place(D[j].value, t, l) \in DOMAIN DeclaredBy(D[j].value)
      /\ DeclaredBy(D[j].value)[Place(D[j].value, t, l)] = f.item
  BY <1>4, <1>5, DeclaredInPlace
<1>7. i = j /\ Place(D[i].value, s, k) = Place(D[j].value, t, l)
  <2>. DEFINE x == Place(D[i].value, s, k)
              y == Place(D[j].value, t, l)
  <2>1. DeclaredBy(D[i].value)[x].id = DeclaredBy(D[j].value)[y].id
    BY <1>6
  <2>2. x \in DOMAIN DeclaredBy(D[i].value) /\ y \in DOMAIN DeclaredBy(D[j].value)
    BY <1>6
  <2>. HIDE DEF x, y
  <2>3. i = j /\ x = y
    BY <2>1, <2>2, DeclaredOnce
  <2>. QED
    BY <2>3 DEF x, y
<1>8. s = t /\ k = l
  BY <1>4, <1>7, DeclaredInPlace
<1>. QED
  BY <1>20, <1>30, <1>7, <1>8

-----------------------------------------------------------------------------
\* A workspace in which the documents phase finds no fault.
Faultless(w) ==
    /\ AllRead(w.documents)
    /\ w.states = Items(w.documents, "states")
    /\ w.concepts = Items(w.documents, "concepts")
    /\ w.relationships = Items(w.documents, "relationships")
    /\ DocumentFaults(w) = {}

\* A faultless workspace has no fault of any one kind.
LEMMA NoFaultAnywhere ==
  ASSUME NEW w, Faultless(w)
  PROVE  /\ Clean(w)
         /\ StateFaults(w) = {}
         /\ \A e \in Checked(w, w.concepts) : ConceptFaults(w, e) = {}
         /\ \A e \in Checked(w, w.relationships) :
               RelationshipFaults(w, e) = {} /\ EndpointFaults(w, e) = {}
         /\ \A n \in Instances(w) : BindingFaults(w, n) = {}
         /\ Collisions(DeclaredIds(w), MintedWires(w)) = {}
         /\ Collisions(DeclaredIds(w) \cup {e.id : e \in MintedWires(w)},
                       Expansions(w, AuthoredEdges(w) \cup MintedWires(w))) = {}
<1>. DEFINE minted == MintedWires(w)
            expanded == Expansions(w, AuthoredEdges(w) \cup minted)
            known == DeclaredIds(w) \cup {e.id : e \in minted}
<1>1. \A x : x \notin DocumentFaults(w)
  BY DEF Faultless
<1>2. DocumentIdFaults(w) = {} /\ DeclarationFaults(w) = {} /\ StateFaults(w) = {}
  BY <1>1 DEF DocumentFaults
<1>3. ASSUME NEW e \in Checked(w, w.concepts) PROVE ConceptFaults(w, e) = {}
  BY <1>1 DEF DocumentFaults
<1>4. ASSUME NEW e \in Checked(w, w.relationships)
      PROVE  RelationshipFaults(w, e) = {} /\ EndpointFaults(w, e) = {}
  BY <1>1 DEF DocumentFaults
<1>5. ASSUME NEW n \in Instances(w) PROVE BindingFaults(w, n) = {}
  BY <1>1 DEF DocumentFaults
<1>6. Collisions(DeclaredIds(w), minted) = {}
  BY <1>1 DEF DocumentFaults
<1>7. DerivedFaults(w, minted, AuthoredEdges(w) \cup minted) = {}
  BY <1>1 DEF DocumentFaults
<1>8. Collisions(known, expanded) = {}
  BY <1>7 DEF DerivedFaults
<1>9. Clean(w)
  BY <1>2 DEF Clean, Faultless
<1>. QED
  BY <1>2, <1>3, <1>4, <1>5, <1>6, <1>8, <1>9

\* Every declaration was checked.
LEMMA EverythingIsChecked ==
  ASSUME NEW w, Clean(w)
  PROVE  /\ Checked(w, w.states) = ToSet(w.states)
         /\ Checked(w, w.concepts) = ToSet(w.concepts)
         /\ Checked(w, w.relationships) = ToSet(w.relationships)
         /\ DeclaredIds(w) = SubjectIds(w)
<1>1. ASSUME NEW sort \in Sorts, NEW e \in ToSet(Items(w.documents, sort))
      PROVE  e.profile \in DOMAIN w.r.profiles
  <2>1. AllRead(w.documents)
    BY DEF Clean
  <2>2. PICK i \in DOMAIN w.documents :
            \E j \in DOMAIN w.documents[i].value[sort] : e = Entry(w.documents, sort, i, j)
    BY <2>1, ItemsAre
  <2>3. e.profile = w.documents[i].value.profile
    BY <2>2 DEF Entry
  <2>4. w.documents[i] \in ToSet(w.documents)
    BY DEF ToSet
  <2>. QED
    BY <2>3, <2>4, EveryDocumentIsWalked
<1>2. /\ \A e \in ToSet(w.states) : e.profile \in DOMAIN w.r.profiles
      /\ \A e \in ToSet(w.concepts) : e.profile \in DOMAIN w.r.profiles
      /\ \A e \in ToSet(w.relationships) : e.profile \in DOMAIN w.r.profiles
  BY <1>1 DEF Clean, Sorts
<1>3. /\ Checked(w, w.states) = ToSet(w.states)
      /\ Checked(w, w.concepts) = ToSet(w.concepts)
      /\ Checked(w, w.relationships) = ToSet(w.relationships)
  BY <1>2 DEF Checked
<1>4. DeclaredIds(w) = SubjectIds(w)
  BY <1>3 DEF DeclaredIds, SubjectIds, StateIds, ConceptIds, Ids
<1>. QED
  BY <1>3, <1>4

\* Without a fault, what a state follows is a declared state.
LEMMA StatesFollowStates ==
  ASSUME NEW w, Faultless(w), NEW e \in ToSet(w.states), e.item.after # NoReference
  PROVE  e.item.after \in StateIds(w)
<1>1. e \in Checked(w, w.states)
  BY NoFaultAnywhere, EverythingIsChecked
<1>2. StateFaults(w) = {}
  BY NoFaultAnywhere
<1>3. When(e.item.after \notin StateIds(w), e, "YM307") = {}
  BY <1>1, <1>2 DEF StateFaults
<1>. QED
  BY <1>3 DEF When

\* What the references of an item's lists, and its presence, lead to.
LEMMA ListsResolve ==
  ASSUME NEW e, NEW list, NEW targets, NEW twice, NEW unresolved,
         ListFaults(e, list, targets, twice, unresolved) = {}
  PROVE  \A k \in ToSet(list) : k.ref \in targets
<1>1. ASSUME NEW i \in DOMAIN list, list[i].ref \notin targets
      PROVE  FALSE
  <2>1. At(e, unresolved) \in When(list[i].ref \notin targets, e, unresolved)
    BY <1>1 DEF When
  <2>. DEFINE of(n) == When(\E j \in 1 .. n - 1 : list[j].id = list[n].id, e, twice)
                       \cup When(list[n].ref \notin targets, e, unresolved)
  <2>2. ListFaults(e, list, targets, twice, unresolved) = UNION {of(n) : n \in DOMAIN list}
    BY DEF ListFaults
  <2>3. At(e, unresolved) \in of(i)
    BY <2>1
  <2>. HIDE DEF of
  <2>. QED
    BY <2>2, <2>3
<1>. QED
  BY <1>1 DEF ToSet

\* Without a fault, a presence speaks of declared states only.
LEMMA PresenceResolves ==
  ASSUME NEW w, NEW e, PresenceFaults(w, e) = {}
  PROVE  e.item.presentIn \subseteq StateIds(w)
  BY DEF PresenceFaults, When

\* Without a fault, what a concept refers to is declared.
LEMMA ConceptsResolve ==
  ASSUME NEW w, Faultless(w), NEW e \in ToSet(w.concepts)
  PROVE  /\ e.item.owner \in ConceptIds(w) \cup {NoReference}
         /\ e.item.distinctFrom \subseteq ConceptIds(w)
         /\ \A s \in e.item.supersedes : s.subject \in ConceptIds(w)
         /\ \A k \in ToSet(e.item.constraints) : k.ref \in ConceptIds(w)
         /\ \A x \in ToSet(e.item.references) : x.ref \in SubjectIds(w)
         /\ e.item.presentIn \subseteq StateIds(w)
<1>1. ConceptFaults(w, e) = {}
  BY NoFaultAnywhere, EverythingIsChecked
<1>2. /\ When(e.item.owner \notin ConceptIds(w) \cup {NoReference}, e, "YM304") = {}
      /\ When(~(e.item.distinctFrom \subseteq ConceptIds(w)), e, "YM310") = {}
      /\ SuccessionFaults(w, e) = {}
      /\ ListFaults(e, e.item.constraints, ConceptIds(w), "YM306", "YM305") = {}
      /\ ListFaults(e, e.item.references, SubjectIds(w), "YM309", "YM308") = {}
      /\ PresenceFaults(w, e) = {}
  BY <1>1 DEF ConceptFaults
<1>3. /\ e.item.owner \in ConceptIds(w) \cup {NoReference}
      /\ e.item.distinctFrom \subseteq ConceptIds(w)
  BY <1>2 DEF When
<1>4. ASSUME NEW s \in e.item.supersedes, s.subject \notin ConceptIds(w)
      PROVE  FALSE
  <2>1. At(e, "YM312") \in SuccessionFaults(w, e)
    BY <1>4 DEF SuccessionFaults
  <2>. QED
    BY <1>2, <2>1
<1>. QED
  BY <1>2, <1>3, <1>4, ListsResolve, PresenceResolves

\* Without a fault, what a relationship refers to is declared.
LEMMA RelationshipsResolve ==
  ASSUME NEW w, Faultless(w), NEW e \in ToSet(w.relationships)
  PROVE  /\ {e.item.from, e.item.to} \subseteq ConceptIds(w)
         /\ \A x \in ToSet(e.item.references) : x.ref \in SubjectIds(w)
         /\ e.item.presentIn \subseteq StateIds(w)
<1>1. RelationshipFaults(w, e) = {}
  BY NoFaultAnywhere, EverythingIsChecked
<1>2. /\ When(~({e.item.from, e.item.to} \subseteq ConceptIds(w)), e, "YM302") = {}
      /\ ListFaults(e, e.item.references, SubjectIds(w), "YM309", "YM308") = {}
      /\ PresenceFaults(w, e) = {}
  BY <1>1 DEF RelationshipFaults
<1>3. {e.item.from, e.item.to} \subseteq ConceptIds(w)
  BY <1>2 DEF When
<1>. QED
  BY <1>2, <1>3, ListsResolve, PresenceResolves

\* What fills a slot of an instance is declared.
LEMMA BindingsResolve ==
  ASSUME NEW w, Faultless(w), NEW n \in Instances(w), NEW slot
  PROVE  Bound(n, slot) \subseteq DeclaredIds(w)
<1>1. BindingFaults(w, n) = {}
  BY NoFaultAnywhere
<1>2. {d \in {Diagnostic("YM315", n.path, n.id)} :
          \E i \in DOMAIN n.bindings :
              \/ n.bindings[i].to \notin DeclaredIds(w)
              \/ \E j \in 1 .. i - 1 : n.bindings[j].to = n.bindings[i].to} = {}
  BY <1>1 DEF BindingFaults
<1>3. \A i \in DOMAIN n.bindings : n.bindings[i].to \in DeclaredIds(w)
  BY <1>2
<1>. QED
  BY <1>3 DEF Bound, ToSet

-----------------------------------------------------------------------------
\* Whatever a claim refers to is in `known`.
Refers(claims, known) ==
    \A c \in claims : c.object[1] = "ref" => c.object[2] \in known

\* The references an item's own claims make are those of its lists and its presence.
LEMMA ItemClaimsRefer ==
  ASSUME NEW known, NEW item,
         \A x \in ToSet(item.references) : x.ref \in known,
         item.presentIn \subseteq known
  PROVE  /\ Refers(TextClaims(item), known)
         /\ Refers(ReferenceClaims(item), known)
         /\ Refers(PresenceClaims(item), known)
<1>1. Refers(TextClaims(item), known)
  BY DEF Refers, TextClaims, Claim, Val
<1>2. Refers(ReferenceClaims(item), known)
  BY DEF Refers, ReferenceClaims, Claim, Ref
<1>3. Refers(PresenceClaims(item), known)
  BY DEF Refers, PresenceClaims, Claim, Ref
<1>. QED
  BY <1>1, <1>2, <1>3

\* Every reference in the claims about a state is to a declared subject.
LEMMA StateClaimsRefer ==
  ASSUME NEW w, Faultless(w), NEW e \in ToSet(w.states)
  PROVE  Refers(StateClaims(e), SubjectIds(w))
<1>. DEFINE s == e.item
<1>1. \A x \in {s.after} \ {NoReference} : x \in SubjectIds(w)
  BY StatesFollowStates DEF SubjectIds
<1>2. Refers({Claim(s.id, <<"kind">>, <<"concept", "kind">>, Val(CoreKind("plateau"))),
              Claim(s.id, <<"state-type">>, <<"state", "type">>, Val(<<s.kind>>))},
             SubjectIds(w))
  BY DEF Refers, Claim, Val
<1>3. Refers(TextClaims(s), SubjectIds(w))
  BY DEF Refers, TextClaims, Claim, Val
<1>4. Refers({Claim(s.id, <<"after">>, <<"state", "after">>, Ref(x)) :
                x \in {s.after} \ {NoReference}}, SubjectIds(w))
  BY <1>1 DEF Refers, Claim, Ref
<1>. QED
  BY <1>2, <1>3, <1>4 DEF StateClaims, Refers

\* Every reference in the claims about a concept is to a declared subject.
LEMMA ConceptClaimsRefer ==
  ASSUME NEW w, Faultless(w), NEW e \in ToSet(w.concepts)
  PROVE  Refers(ConceptClaims(w, e), SubjectIds(w))
<1>. DEFINE c == e.item
            K == SubjectIds(w)
<1>1. ConceptIds(w) \subseteq K /\ StateIds(w) \subseteq K
  BY DEF SubjectIds
<1>. HIDE DEF K
<1>2. /\ c.owner \in K \cup {NoReference} /\ c.distinctFrom \subseteq K
      /\ \A s \in c.supersedes : s.subject \in K
      /\ \A k \in ToSet(c.constraints) : k.ref \in K
      /\ \A x \in ToSet(c.references) : x.ref \in K
      /\ c.presentIn \subseteq K
  BY <1>1, ConceptsResolve DEF K
<1>. HIDE DEF c
<1>3. Refers({Claim(c.id, <<"kind">>, <<"concept", "kind">>, Val(KindIdentity(w, e)))}, K)
  BY DEF Refers, Claim, Val
<1>4. Refers({Claim(c.id, <<"alias", a>>, <<"concept", "alias">>, Val(<<a>>)) : a \in c.aka}, K)
  BY DEF Refers, Claim, Val
<1>5. Refers({Claim(c.id, <<"distinct-from">> \o d, <<"identity", "distinct-from">>, Ref(d)) :
                d \in c.distinctFrom}, K)
  BY <1>2 DEF Refers, Claim, Ref
<1>6. Refers(SuccessionClaims(c), K)
  <2>. SUFFICES ASSUME NEW x \in SuccessionClaims(c), x.object[1] = "ref"
       PROVE  x.object[2] \in K
    BY DEF Refers
  <2>. DEFINE about(s) == Claim(c.id, <<"supersedes">> \o s.subject,
                                <<"lineage", "supersedes">>, Ref(s.subject))
              respect(s, y) == Claim(c.id, <<"respect">> \o s.subject,
                                     <<"lineage", "supersedes-respect">>, Val(<<y>>))
  <2>1. PICK s \in c.supersedes : x = about(s) \/ \E y \in {s.scope} \ {""} : x = respect(s, y)
    BY DEF SuccessionClaims
  <2>2. \A y : respect(s, y).object[1] # "ref"
    BY DEF Claim, Val
  <2>3. x = about(s)
    BY <2>1, <2>2
  <2>4. about(s).object[2] = s.subject
    BY DEF Claim, Ref
  <2>. QED
    BY <1>2, <2>3, <2>4
<1>7. Refers({Claim(c.id, <<"owner">>, <<"ownership", "owner">>, Ref(o)) :
                o \in {c.owner} \ {NoReference}}, K)
  BY <1>2 DEF Refers, Claim, Ref
<1>8. Refers(ConstraintClaims(c), K)
  <2>. SUFFICES ASSUME NEW x \in ConstraintClaims(c), x.object[1] = "ref"
       PROVE  x.object[2] \in K
    BY DEF Refers
  <2>. DEFINE requires(k) == Claim(c.id, <<"constraint", k.id>>, <<"constraint", "requires">>,
                                   Ref(k.ref))
              expects(k) == Claim(c.id, <<"expects", k.id>>, <<"constraint", "expects">>,
                                  Val(k.expects))
  <2>1. PICK k \in ToSet(c.constraints) : x = requires(k) \/ x = expects(k)
    BY DEF ConstraintClaims
  <2>2. expects(k).object[1] # "ref"
    BY DEF Claim, Val
  <2>3. requires(k).object[2] = k.ref
    BY DEF Claim, Ref
  <2>. QED
    BY <1>2, <2>1, <2>2, <2>3
<1>9. Refers({Claim(c.id, <<"attestation", a.topic>>, <<"attestation", a.topic>>,
                    Val(a.by \o <<a.on>>)) : a \in ToSet(c.attestations)}, K)
  <2>. DEFINE about(a) == Claim(c.id, <<"attestation", a.topic>>, <<"attestation", a.topic>>,
                                Val(a.by \o <<a.on>>))
  <2>1. \A a : about(a).object[1] # "ref"
    BY DEF Claim, Val
  <2>. HIDE DEF about
  <2>2. Refers({about(a) : a \in ToSet(c.attestations)}, K)
    BY <2>1 DEF Refers
  <2>. QED
    BY <2>2 DEF about
<1>10. Refers(TextClaims(c), K) /\ Refers(ReferenceClaims(c), K) /\ Refers(PresenceClaims(c), K)
  BY <1>2, ItemClaimsRefer
<1>. QED
  <2>. DEFINE kind == {Claim(c.id, <<"kind">>, <<"concept", "kind">>, Val(KindIdentity(w, e)))}
              alias == {Claim(c.id, <<"alias", a>>, <<"concept", "alias">>, Val(<<a>>)) :
                            a \in c.aka}
              distinct == {Claim(c.id, <<"distinct-from">> \o d, <<"identity", "distinct-from">>,
                                 Ref(d)) : d \in c.distinctFrom}
              owner == {Claim(c.id, <<"owner">>, <<"ownership", "owner">>, Ref(o)) :
                            o \in {c.owner} \ {NoReference}}
              attestation == {Claim(c.id, <<"attestation", a.topic>>, <<"attestation", a.topic>>,
                                    Val(a.by \o <<a.on>>)) : a \in ToSet(c.attestations)}
  <2>1. ConceptClaims(w, e) =
          kind \cup TextClaims(c) \cup alias \cup distinct \cup SuccessionClaims(c) \cup owner
          \cup ConstraintClaims(c) \cup ReferenceClaims(c) \cup attestation \cup PresenceClaims(c)
    BY DEF ConceptClaims, c
  <2>2. /\ Refers(kind, K) /\ Refers(alias, K) /\ Refers(distinct, K)
        /\ Refers(owner, K) /\ Refers(attestation, K)
    BY <1>3, <1>4, <1>5, <1>7, <1>9
  <2>. HIDE DEF kind, alias, distinct, owner, attestation
  <2>3. Refers(ConceptClaims(w, e), K)
    BY <1>6, <1>8, <1>10, <2>1, <2>2 DEF Refers
  <2>. QED
    BY <2>3 DEF K

\* Every reference in the claims about a relationship is to a declared subject.
LEMMA RelationshipClaimsRefer ==
  ASSUME NEW w, Faultless(w), NEW e \in ToSet(w.relationships)
  PROVE  Refers(RelationshipClaims(e), SubjectIds(w))
<1>1. /\ \A x \in ToSet(e.item.references) : x.ref \in SubjectIds(w)
      /\ e.item.presentIn \subseteq SubjectIds(w)
  BY RelationshipsResolve DEF SubjectIds
<1>2. /\ Refers(TextClaims(e.item), SubjectIds(w))
      /\ Refers(ReferenceClaims(e.item), SubjectIds(w))
      /\ Refers(PresenceClaims(e.item), SubjectIds(w))
  BY <1>1, ItemClaimsRefer
<1>. QED
  BY <1>2 DEF RelationshipClaims, Refers

-----------------------------------------------------------------------------
\* The two ends of an edge are subjects.
Joins(edge, known) == edge.from \in known /\ edge.to \in known

\* Every relationship that is written joins two subjects of the graph.
LEMMA AuthoredEdgesJoin ==
  ASSUME NEW w, Faultless(w), NEW edge \in AuthoredEdges(w)
  PROVE  /\ Joins(edge, DeclaredIds(w))
         /\ \E e \in ToSet(w.relationships) : edge.id = e.item.id
<1>1. PICK e \in Checked(w, w.relationships) :
          edge = Edge(e.item.id, e.item.from,
                      IF KnownPolicy(w, e) THEN PolicyIdentity(w, e) ELSE <<e.item.kind>>,
                      e.item.to)
  BY DEF AuthoredEdges
<1>2. edge.id = e.item.id /\ edge.from = e.item.from /\ edge.to = e.item.to
  BY <1>1 DEF Edge
<1>3. e \in ToSet(w.relationships) /\ DeclaredIds(w) = SubjectIds(w)
  BY NoFaultAnywhere, EverythingIsChecked
<1>4. {e.item.from, e.item.to} \subseteq ConceptIds(w)
  BY <1>3, RelationshipsResolve
<1>5. ConceptIds(w) \subseteq SubjectIds(w)
  BY DEF SubjectIds
<1>. QED
  BY <1>2, <1>3, <1>4, <1>5 DEF Joins

\* What a wire is called: after the instance that asks for it.
WireName(n, wire, coreKind) ==
    n.id \o (IF wire.from = Self THEN <<>> ELSE <<wire.from>>) \o <<coreKind, wire.to>>

\* What an end of a wire may be bound to.
EndsOf(n, endpoint) == IF endpoint = Self THEN {n.id} ELSE Bound(n, endpoint)

\* Every wire is one of the wiring of an instance, between what its ends are bound to.
LEMMA WiresAreBound ==
  ASSUME NEW w, NEW wire \in AllWires(w)
  PROVE  \E n \in Instances(w) : \E x \in ToSet(n.shape.wiring) :
            /\ wire.predicate = x.kind
            /\ wire.from \in EndsOf(n, x.from) \cap DeclaredIds(w)
            /\ wire.to \in EndsOf(n, x.to) \cap DeclaredIds(w)
            /\ wire.id = WireName(n, x, w.r.policies[x.kind].coreKind)
<1>1. PICK n \in Instances(w) : wire \in BoundWires(w, n)
  BY DEF AllWires
<1>. DEFINE CoreKindOf(x) == w.r.policies[x.kind].coreKind
            WireId(x) == n.id \o (IF x.from = Self THEN <<>> ELSE <<x.from>>)
                              \o <<CoreKindOf(x), x.to>>
            Wire(x, f, t) == [from |-> f, predicate |-> x.kind, to |-> t,
                              owner |-> x.from = Self, id |-> WireId(x),
                              coreKind |-> CoreKindOf(x)]
            Starts(x) == EndsOf(n, x.from) \cap DeclaredIds(w)
            Stops(x) == EndsOf(n, x.to) \cap DeclaredIds(w)
<1>2. BoundWires(w, n) =
        UNION {{Wire(x, f, t) : f \in Starts(x), t \in Stops(x)} : x \in ToSet(n.shape.wiring)}
  BY DEF BoundWires, EndsOf
<1>3. \A x : WireId(x) = WireName(n, x, CoreKindOf(x))
  BY DEF WireName
<1>. HIDE DEF WireId
<1>4. \A x, f, t : /\ Wire(x, f, t).from = f /\ Wire(x, f, t).to = t
                   /\ Wire(x, f, t).id = WireId(x) /\ Wire(x, f, t).predicate = x.kind
  OBVIOUS
<1>. HIDE DEF Wire, Starts, Stops
<1>6. PICK x \in ToSet(n.shape.wiring) : \E f \in Starts(x), t \in Stops(x) : wire = Wire(x, f, t)
  BY <1>1, <1>2
<1>7. /\ wire.from \in Starts(x) /\ wire.to \in Stops(x)
      /\ wire.predicate = x.kind /\ wire.id = WireName(n, x, CoreKindOf(x))
  BY <1>3, <1>4, <1>6
<1>. QED
  BY <1>7 DEF Starts, Stops

\* So a wire joins two declared subjects, and is called after an instance.
LEMMA WiresJoin ==
  ASSUME NEW w, NEW wire \in AllWires(w)
  PROVE  /\ Joins(wire, DeclaredIds(w))
         /\ \E n \in Instances(w) : \E x, kind : wire.id = WireName(n, x, kind)
BY WiresAreBound DEF Joins

\* What is minted says what some wire asks for, and what it is called is a
\* matter of what it says.
LEMMA MintedFromWires ==
  ASSUME NEW w
  PROVE  /\ \A edge \in MintedWires(w) :
                \E wire \in AllWires(w) : Triple(edge) = Triple(wire)
         /\ \A e, f \in MintedWires(w) : Triple(e) = Triple(f) => e = f
<1>. DEFINE authored == {Triple(e) : e \in AuthoredEdges(w)}
            wires == AllWires(w)
            wanted == {wire \in wires : Triple(wire) \notin authored}
            Group(t) == {wire \in wanted : Triple(wire) = t}
            Owners(t) == {wire \in Group(t) : wire.owner}
            WireId(t) ==
              IF Owners(t) # {} THEN (CHOOSE x \in Owners(t) : TRUE).id
              ELSE IF Cardinality(Group(t)) = 1
              THEN (CHOOSE x \in Group(t) : TRUE).id
              ELSE t[1] \o <<(CHOOSE x \in Group(t) : TRUE).coreKind>> \o t[3]
            Minted(t) == Edge(WireId(t), t[1], t[2], t[3])
<1>1. MintedWires(w) = {Minted(t) : t \in {Triple(x) : x \in wanted}}
  BY DEF MintedWires
<1>. HIDE DEF WireId
<1>2. \A t : Triple(Minted(t)) = <<t[1], t[2], t[3]>>
  BY DEF Triple, Edge
<1>3. \A x : LET t == Triple(x) IN <<t[1], t[2], t[3]>> = t
  BY DEF Triple
<1>. HIDE DEF Minted
<1>4. ASSUME NEW edge \in MintedWires(w)
      PROVE  \E wire \in wanted : edge = Minted(Triple(wire)) /\ Triple(edge) = Triple(wire)
  BY <1>1, <1>2, <1>3
<1>. QED
  BY <1>4

\* Every relationship that an instance mints joins two subjects of the graph.
LEMMA MintedWiresJoin ==
  ASSUME NEW w, NEW edge \in MintedWires(w)
  PROVE  Joins(edge, DeclaredIds(w))
<1>1. PICK wire \in AllWires(w) : Triple(edge) = Triple(wire)
  BY MintedFromWires
<1>2. edge.from = wire.from /\ edge.to = wire.to
  BY <1>1 DEF Triple
<1>. QED
  BY <1>1, <1>2, WiresJoin DEF Joins

\* An expansion joins what fills the ports of two instances, and is called
\* after the edge it expands.
LEMMA ExpansionsJoin ==
  ASSUME NEW w, Faultless(w), NEW edges, NEW edge \in Expansions(w, edges)
  PROVE  /\ Joins(edge, DeclaredIds(w))
         /\ \E macro \in edges : edge.id = macro.id \o <<"expansion">>
<1>1. PICK l \in MacroLandings(w, edges) :
          \E f \in l.from, t \in l.to :
              edge = Edge(l.edge.id \o <<"expansion">>, f, l.edge.predicate, t)
  BY DEF Expansions
<1>2. PICK f \in l.from, t \in l.to :
          edge = Edge(l.edge.id \o <<"expansion">>, f, l.edge.predicate, t)
  BY <1>1
<1>. DEFINE Landing(e, a, b) ==
              {[edge |-> e, from |-> Bound(a, out.out), to |-> Bound(b, in.in)] :
                  out \in PortFor(a.shape, e.predicate), in \in PortFor(b.shape, e.predicate)}
<1>3. \E e \in edges : \E a, b \in Instances(w) : l \in Landing(e, a, b)
  BY <1>1 DEF MacroLandings
<1>4. PICK e \in edges, a \in Instances(w), b \in Instances(w) : l \in Landing(e, a, b)
  BY <1>3
<1>5. l.edge = e /\ l.from \subseteq DeclaredIds(w) /\ l.to \subseteq DeclaredIds(w)
  BY <1>4, BindingsResolve
<1>6. /\ edge.id = e.id \o <<"expansion">> /\ edge.from = f /\ edge.to = t
  BY <1>2, <1>5 DEF Edge
<1>. QED
  BY <1>2, <1>5, <1>6 DEF Joins

\* Without a collision, what is minted is new, and an identifier names one relationship.
LEMMA NoCollision ==
  ASSUME NEW known, NEW minted, Collisions(known, minted) = {}
  PROVE  /\ \A e \in minted : e.id \notin known
         /\ \A e, f \in minted : e.id = f.id => e = f
<1>1. ~ \/ \E e \in minted : e.id \in known
        \/ \E e, f \in minted : e # f /\ e.id = f.id
  BY DEF Collisions
<1>. QED
  BY <1>1

\* A graph is closed: its claims refer to its subjects, and no two of its
\* subjects share an identifier.
Closed(graph) ==
    /\ ReferencesOf(graph) \subseteq SubjectsOf(graph)
    /\ \A e \in graph.edges : e.id \notin graph.concepts
    /\ \A e, f \in graph.edges : e.id = f.id => e = f

\* The graph of a faultless workspace is closed.
LEMMA FaultlessGraphIsClosed ==
  ASSUME NEW w, Faultless(w)
  PROVE  Closed(Graph(w, GraphEdges(w)))
<1>. DEFINE authored == AuthoredEdges(w)
            minted == MintedWires(w)
            expanded == Expansions(w, authored \cup minted)
            edges == GraphEdges(w)
            graph == Graph(w, edges)
            K == SubjectIds(w)
            taken == DeclaredIds(w) \cup {x.id : x \in minted}
<1>1. edges = authored \cup minted \cup expanded
  BY DEF GraphEdges
<1>2. DeclaredIds(w) = K /\ Clean(w)
  BY NoFaultAnywhere, EverythingIsChecked
<1>3. \A e \in authored : Joins(e, K) /\ \E r \in ToSet(w.relationships) : e.id = r.item.id
  BY <1>2, AuthoredEdgesJoin
<1>4. \A e \in minted : Joins(e, K)
  BY <1>2, MintedWiresJoin
<1>5. \A e \in expanded : Joins(e, K)
  BY <1>2, ExpansionsJoin
<1>6. Collisions(K, minted) = {} /\ Collisions(taken, expanded) = {}
  BY <1>2, NoFaultAnywhere
<1>7. /\ \A e \in minted : e.id \notin K
      /\ \A e, f \in minted : e.id = f.id => e = f
  BY <1>6, NoCollision
<1>8. /\ \A e \in expanded : e.id \notin taken
      /\ \A e, f \in expanded : e.id = f.id => e = f
  BY <1>6, NoCollision
<1>9. taken = K \cup {x.id : x \in minted}
  BY <1>2
<1>10. graph.edges = edges /\ graph.concepts = StateIds(w) \cup ConceptIds(w)
  BY DEF Graph
<1>11. graph.claims = (UNION {StateClaims(e) : e \in ToSet(w.states)})
                      \cup (UNION {ConceptClaims(w, e) : e \in ToSet(w.concepts)})
                      \cup (UNION {RelationshipClaims(e) : e \in ToSet(w.relationships)})
                      \cup {EdgeClaim(x) : x \in edges}
  BY DEF Graph
<1>. HIDE DEF minted, expanded, authored, edges, K, taken, graph
<1>12. K \subseteq SubjectsOf(graph)
  <2>1. ASSUME NEW r \in ToSet(w.relationships)
        PROVE  \E e \in edges : e.id = r.item.id
    <3>1. r \in Checked(w, w.relationships)
      BY <1>2, EverythingIsChecked
    <3>. DEFINE e == Edge(r.item.id, r.item.from,
                          IF KnownPolicy(w, r) THEN PolicyIdentity(w, r) ELSE <<r.item.kind>>,
                          r.item.to)
    <3>2. e \in authored
      BY <3>1 DEF authored, AuthoredEdges
    <3>3. e.id = r.item.id
      BY DEF Edge
    <3>. QED
      BY <1>1, <3>2, <3>3
  <2>2. Ids(w.relationships) \subseteq {e.id : e \in edges}
    BY <2>1 DEF Ids
  <2>. QED
    BY <1>10, <2>2 DEF SubjectsOf, SubjectIds, K
<1>13. Refers(graph.claims, K)
  <2>1. \A e \in ToSet(w.states) : Refers(StateClaims(e), K)
    BY StateClaimsRefer DEF K
  <2>2. \A e \in ToSet(w.concepts) : Refers(ConceptClaims(w, e), K)
    BY ConceptClaimsRefer DEF K
  <2>3. \A e \in ToSet(w.relationships) : Refers(RelationshipClaims(e), K)
    BY RelationshipClaimsRefer DEF K
  <2>4. \A x \in edges : EdgeClaim(x).object[2] \in K
    <3>1. \A x \in edges : x.to \in K
      BY <1>1, <1>3, <1>4, <1>5 DEF Joins
    <3>. QED
      BY <3>1 DEF EdgeClaim, Claim, Ref
  <2>5. \A x \in graph.claims :
            \/ \E e \in ToSet(w.states) : x \in StateClaims(e)
            \/ \E e \in ToSet(w.concepts) : x \in ConceptClaims(w, e)
            \/ \E e \in ToSet(w.relationships) : x \in RelationshipClaims(e)
            \/ \E e \in edges : x = EdgeClaim(e)
    BY <1>11
  <2>. QED
    BY <2>1, <2>2, <2>3, <2>4, <2>5 DEF Refers
<1>14. ReferencesOf(graph) \subseteq SubjectsOf(graph)
  BY <1>12, <1>13 DEF ReferencesOf, Refers
<1>15. ASSUME NEW e \in authored PROVE e.id \in K /\ e.id \notin StateIds(w) \cup ConceptIds(w)
  <2>1. PICK r \in ToSet(w.relationships) : e.id = r.item.id
    BY <1>3
  <2>2. r \in ToSet(Items(w.documents, "relationships"))
    BY DEF Faultless
  <2>3. r.item.id \notin StateIds(w)
    <3>1. SUFFICES ASSUME NEW s \in ToSet(w.states), s.item.id = r.item.id PROVE FALSE
      BY DEF StateIds, Ids
    <3>2. s \in ToSet(Items(w.documents, "states"))
      BY DEF Faultless
    <3>. QED
      BY <1>2, <2>2, <3>1, <3>2, OneDeclarationEach DEF Sorts
  <2>4. r.item.id \notin ConceptIds(w)
    <3>1. SUFFICES ASSUME NEW s \in ToSet(w.concepts), s.item.id = r.item.id PROVE FALSE
      BY DEF ConceptIds, Ids
    <3>2. s \in ToSet(Items(w.documents, "concepts"))
      BY DEF Faultless
    <3>. QED
      BY <1>2, <2>2, <3>1, <3>2, OneDeclarationEach DEF Sorts
  <2>5. r.item.id \in K
    BY DEF K, SubjectIds, Ids
  <2>. QED
    BY <2>1, <2>3, <2>4, <2>5
<1>16. ASSUME NEW e \in edges PROVE e.id \notin graph.concepts
  <2>1. StateIds(w) \cup ConceptIds(w) \subseteq K
    BY DEF K, SubjectIds
  <2>. QED
    BY <1>1, <1>7, <1>8, <1>9, <1>10, <1>15, <2>1
<1>17. ASSUME NEW e \in authored, NEW f \in authored, e.id = f.id PROVE e = f
  <2>. DEFINE of(r) == Edge(r.item.id, r.item.from,
                          IF KnownPolicy(w, r) THEN PolicyIdentity(w, r) ELSE <<r.item.kind>>,
                          r.item.to)
  <2>1. authored = {of(r) : r \in ToSet(w.relationships)}
    <3>1. Checked(w, w.relationships) = ToSet(w.relationships)
      BY <1>2, EverythingIsChecked
    <3>. QED
      BY <3>1 DEF authored, AuthoredEdges
  <2>2. \A r : of(r).id = r.item.id
    BY DEF Edge
  <2>. HIDE DEF of
  <2>3. PICK r \in ToSet(w.relationships), s \in ToSet(w.relationships) : e = of(r) /\ f = of(s)
    BY <2>1
  <2>4. r.item.id = s.item.id
    BY <1>17, <2>2, <2>3
  <2>5. /\ r \in ToSet(Items(w.documents, "relationships"))
        /\ s \in ToSet(Items(w.documents, "relationships"))
    BY DEF Faultless
  <2>6. r = s
    BY <1>2, <2>4, <2>5, OneDeclarationEach DEF Sorts
  <2>. QED
    BY <2>3, <2>6
<1>18. ASSUME NEW e \in edges, NEW f \in edges, e.id = f.id PROVE e = f
  <2>1. \A x \in authored : x.id \in K
    BY <1>15
  <2>2. \A x \in expanded : x.id \notin K /\ \A y \in minted : x.id # y.id
    BY <1>8, <1>9
  <2>3. \A x \in minted : x.id \notin K
    BY <1>7
  <2>4. CASE e \in authored
    <3>1. f \in authored
      BY <1>1, <1>18, <2>1, <2>2, <2>3, <2>4
    <3>. QED
      BY <1>17, <1>18, <2>4, <3>1
  <2>5. CASE e \in minted
    <3>1. f \in minted
      BY <1>1, <1>18, <2>1, <2>2, <2>3, <2>5
    <3>. QED
      BY <1>7, <1>18, <2>5, <3>1
  <2>6. CASE e \in expanded
    <3>1. f \in expanded
      BY <1>1, <1>18, <2>1, <2>2, <2>3, <2>6
    <3>. QED
      BY <1>8, <1>18, <2>6, <3>1
  <2>. QED
    BY <1>1, <2>4, <2>5, <2>6
<1>. QED
  BY <1>10, <1>14, <1>16, <1>18 DEF Closed, graph, edges
-----------------------------------------------------------------------------
(***************************************************************************)
(* The parse cache is invisible: whatever Parse gives, whatever the        *)
(* compiler makes of the parsed sources, and however old the cache is that *)
(* is handed back, a recompile returns what a compile from nothing does.   *)
(* The proof never looks inside the compiler, so it holds of any compiler  *)
(* that sees the workspace through parseSources only.                      *)
(***************************************************************************)
\* Every entry of a cache is what its own text parses to.
OfItsText(entries) ==
    \A p \in DOMAIN entries : entries[p] = parseWorkspaceSource(entries[p].text)

\* The inductive invariant: the caller's cache, and what came out of it.
CacheInvariant == OfItsText(cache) /\ CacheChangesNothing

-----------------------------------------------------------------------------
\* The cache of a caller that never compiled.
LEMMA EmptyCache == OfItsText(<<>>)
  <1>1. DOMAIN <<>> = {}
    OBVIOUS
  <1>. QED
    BY <1>1 DEF OfItsText

\* Taking an entry whose text is unchanged is parsing the text again.
LEMMA SameEntries ==
  ASSUME NEW f, NEW listed, NEW previous, OfItsText(previous)
  PROVE  parseSources(f, listed, previous) =
            [p \in listed |-> parseWorkspaceSource(f[p])]
  <1>1. SUFFICES ASSUME NEW p \in listed
        PROVE (IF p \in DOMAIN previous /\ previous[p].text = f[p]
               THEN previous[p] ELSE parseWorkspaceSource(f[p]))
                = parseWorkspaceSource(f[p])
    BY DEF parseSources
  <1>2. CASE p \in DOMAIN previous /\ previous[p].text = f[p]
    <2>1. previous[p] = parseWorkspaceSource(previous[p].text)
      BY <1>2 DEF OfItsText
    <2>. QED
      BY <1>2, <2>1
  <1>3. CASE ~(p \in DOMAIN previous /\ previous[p].text = f[p])
    BY <1>3
  <1>. QED
    BY <1>2, <1>3

\* What a compile keeps is again a cache of that kind.
LEMMA EntriesAreOfTheirTexts ==
  ASSUME NEW f, NEW listed, NEW previous, OfItsText(previous)
  PROVE  OfItsText(parseSources(f, listed, previous))
  <1>. DEFINE entries == [p \in listed |-> parseWorkspaceSource(f[p])]
  <1>1. parseSources(f, listed, previous) = entries
    BY SameEntries
  <1>2. DOMAIN entries = listed
    OBVIOUS
  <1>3. ASSUME NEW p \in listed
        PROVE  entries[p] = parseWorkspaceSource(entries[p].text)
    BY DEF parseWorkspaceSource
  <1>. QED
    BY <1>1, <1>2, <1>3 DEF OfItsText

\* So a compile with such a cache is a compile without one.
LEMMA SameResult ==
  ASSUME NEW f, NEW resolved, NEW previous, OfItsText(previous)
  PROVE  ResultOf(f, resolved, previous) = ResultOf(f, resolved, <<>>)
  <1>. DEFINE listed == ToSet(Listing(resolved.workspace))
  <1>1. parseSources(f, listed, previous) = parseSources(f, listed, <<>>)
    BY SameEntries, EmptyCache
  <1>. QED
    BY <1>1 DEF ResultOf, Compile

-----------------------------------------------------------------------------
\* Before the first compile the cache is empty.
LEMMA InitKeepsTheCache == Init => CacheInvariant
  BY EmptyCache DEF Init, CacheInvariant, CacheChangesNothing

\* A recompile leaves entries of the texts it read, and returns what a full compile does.
LEMMA RecompileKeepsTheCache ==
  ASSUME CacheInvariant, NEW f, NEW name, Recompile(f, name)
  PROVE  CacheInvariant'
  <1>. DEFINE resolved == Resolved(f, name)
              kept == parseSources(f, ToSet(Listing(resolved.workspace)), cache)
  <1>1. /\ files' = f /\ manifest' = name
        /\ result' = ResultOf(f, resolved, cache)
        /\ cache' = kept \/ cache' = cache
    BY DEF Recompile
  <1>2. OfItsText(cache)
    BY DEF CacheInvariant
  <1>3. OfItsText(kept)
    BY <1>2, EntriesAreOfTheirTexts
  <1>4. OfItsText(cache)'
    <2>1. CASE cache' = kept
      BY <1>3, <2>1 DEF OfItsText
    <2>2. CASE cache' = cache
      BY <1>2, <2>2 DEF OfItsText
    <2>. QED
      BY <1>1, <2>1, <2>2
  <1>5. CacheChangesNothing'
    <2>1. ResultOf(f, resolved, cache) = ResultOf(f, resolved, <<>>)
      BY <1>2, SameResult
    <2>2. Resolved(files, manifest)' = resolved
      BY <1>1 DEF Resolved, Present
    <2>. QED
      BY <1>1, <2>1, <2>2 DEF CacheChangesNothing, ResultOf, Compile, parseSources
  <1>. QED
    BY <1>4, <1>5 DEF CacheInvariant

\* No step leaves an entry that its text does not parse to.
LEMMA NextKeepsTheCache == CacheInvariant /\ [Next]_vars => CacheInvariant'
  <1>. SUFFICES ASSUME CacheInvariant, [Next]_vars PROVE CacheInvariant'
    OBVIOUS
  <1>1. ASSUME NEW p \in Paths, NEW text \in TextsOf[p], Save(p, text)
        PROVE  CacheInvariant'
    BY <1>1, RecompileKeepsTheCache DEF Save
  <1>2. ASSUME NEW name \in DOMAIN Manifests, Relist(name)
        PROVE  CacheInvariant'
    BY <1>2, RecompileKeepsTheCache DEF Relist
  <1>3. CASE UNCHANGED vars
    BY <1>3 DEF CacheInvariant, CacheChangesNothing, OfItsText, vars,
                Resolved, Present
  <1>. QED
    BY <1>1, <1>2, <1>3 DEF Next

\* CacheChangesNothing: whatever was saved, listed or removed, and however
\* stale the cache the caller handed back, compileWorkspaceIncremental
\* returned what compileWorkspace would have.
THEOREM CacheIsInvisible == Spec => []CacheChangesNothing
  <1>1. CacheInvariant => CacheChangesNothing
    BY DEF CacheInvariant
  <1>. QED
    BY <1>1, InitKeepsTheCache, NextKeepsTheCache, PTL DEF Spec

-----------------------------------------------------------------------------
\* Picking from a sequence keeps what is picked, in a sequence.
LEMMA PickedInOrder ==
  ASSUME NEW S, NEW seqs, NEW n \in Nat, DOMAIN seqs = 1 .. n,
         seqs = [i \in 1 .. n |-> seqs[i]],
         \A i \in 1 .. n : seqs[i] = <<>> \/ \E x \in S : seqs[i] = <<x>>
  PROVE  FlattenSeq(seqs) \in Seq(S)
<1>1. ASSUME NEW i \in 1 .. n PROVE seqs[i] \in Seq(S)
  <2>1. <<>> \in Seq(S)
    BY EmptySeq
  <2>2. \A x \in S : <<x>> \in Seq(S)
    OBVIOUS
  <2>. QED
    BY <2>1, <2>2
<1>2. seqs \in [1 .. n -> Seq(S)]
  BY <1>1
<1>3. seqs \in Seq(Seq(S))
  BY <1>2, SeqDef
<1>. QED
  BY <1>3, Flattened

\* A category of a workspace that resolves lists files that are there.
LEMMA CategoriesAreListed ==
  ASSUME NEW written, NEW listed, resolveWorkspaceFrom(written, listed).ok,
         NEW field \in Categories
  PROVE  resolveWorkspaceFrom(written, listed).workspace[field] \in Seq(listed)
<1>. DEFINE base == written.at
            Beneath(p) == IsPrefix(base, SegmentsOf[p])
            Rest(p) == SubSeq(SegmentsOf[p], Len(base) + 1, Len(SegmentsOf[p]))
            Matched(pattern) == {p \in listed : Beneath(p) /\ patternToRegExp(pattern, Rest(p))}
            Match(p) == [path |-> p, identity |-> p, outside |-> FALSE]
            matches == [pattern \in Stated(written) |-> {Match(p) : p \in Matched(pattern)}]
            claims == [f \in Categories |-> expandCategory(written, f, matches)]
            claimed(f) == {m.path : m \in claims[f]}
            Pick(f, i) == IF PathOrder[i] \in claimed(f) THEN <<PathOrder[i]>> ELSE <<>>
            seqs(f) == [i \in DOMAIN PathOrder |-> Pick(f, i)]
            resolved == resolveManifest(written, matches)
<1>1. resolveWorkspaceFrom(written, listed) = resolved
  BY DEF resolveWorkspaceFrom
<1>2. Len(PathOrder) \in Nat /\ DOMAIN PathOrder = 1 .. Len(PathOrder)
  BY SourcesAssumption, SequencesAre DEF SourcesAssumption, IsSequence
<1>3. resolved.workspace = [f \in Categories |-> FlattenSeq(seqs(f))]
  <2>. HIDE DEF matches
  <2>1. resolved.ok
    BY <1>1
  <2>. DEFINE workspace == [f \in Categories |-> FlattenSeq(seqs(f))]
              condition == \/ Faulty(Stated(written), matches) # {}
                           \/ \E p \in PatternsOf(written, "coverage") : unsafePattern(p)
                           \/ ClaimedTwice(claims)
  <2>2. resolved = IF condition THEN [ok |-> FALSE] ELSE [ok |-> TRUE, workspace |-> workspace]
    BY Zenon DEF resolveManifest
  <2>. HIDE DEF workspace, condition, resolved
  <2>3. resolved.workspace = workspace
    BY <2>1, <2>2
  <2>. QED
    BY <2>3 DEF workspace
<1>4. claimed(field) \subseteq listed
  <2>1. \A pattern : Matched(pattern) \subseteq listed
    OBVIOUS
  <2>2. \A p : Match(p).path = p
    OBVIOUS
  <2>. HIDE DEF Matched, Match
  <2>3. ASSUME NEW m \in claims[field] PROVE m.path \in listed
    <3>1. m \in expandCategory(written, field, matches)
      OBVIOUS
    <3>2. PICK q \in PatternsOf(written, field) : m \in matches[q]
      BY <3>1 DEF expandCategory
    <3>3. q \in Stated(written)
      BY DEF Stated
    <3>4. PICK p \in Matched(q) : m = Match(p)
      BY <3>2, <3>3
    <3>. QED
      BY <2>1, <2>2, <3>4
  <2>. QED
    BY <2>3
<1>. HIDE DEF claimed, claims
<1>5. \A i \in 1 .. Len(PathOrder) :
          seqs(field)[i] = <<>> \/ \E x \in listed : seqs(field)[i] = <<x>>
  BY <1>2, <1>4
<1>6. /\ DOMAIN seqs(field) = 1 .. Len(PathOrder)
      /\ seqs(field) = [i \in 1 .. Len(PathOrder) |-> seqs(field)[i]]
  BY <1>2
<1>7. FlattenSeq(seqs(field)) \in Seq(listed)
  <2>1. PICK s : s = seqs(field)
    OBVIOUS
  <2>2. FlattenSeq(s) \in Seq(listed)
    <3>1. DOMAIN s = 1 .. Len(PathOrder) /\ s = [i \in 1 .. Len(PathOrder) |-> s[i]]
      BY <1>6, <2>1
    <3>2. \A i \in 1 .. Len(PathOrder) : s[i] = <<>> \/ \E x \in listed : s[i] = <<x>>
      BY <1>5, <2>1
    <3>. QED
      BY <1>2, <3>1, <3>2, PickedInOrder
  <2>. QED
    BY <2>1, <2>2
<1>. HIDE DEF seqs, resolved
<1>. QED
  BY <1>1, <1>3, <1>7

\* What a compile lists are the files that are there.
LEMMA ListingIsPresent ==
  ASSUME NEW f, NEW name, Resolved(f, name).ok
  PROVE  Listing(Resolved(f, name).workspace) \in Seq(Present(f))
<1>. DEFINE there == Present(f)
<1>1. PICK workspace : workspace = Resolved(f, name).workspace
  OBVIOUS
<1>2. /\ workspace["profiles"] \in Seq(there)
      /\ workspace["patterns"] \in Seq(there)
      /\ workspace["documents"] \in Seq(there)
  BY <1>1, CategoriesAreListed DEF Resolved, Categories
<1>3. PICK a, b, c : a = workspace.profiles /\ b = workspace.patterns /\ c = workspace.documents
  OBVIOUS
<1>4. a \in Seq(there) /\ b \in Seq(there) /\ c \in Seq(there)
  BY <1>2, <1>3
<1>. HIDE DEF there
<1>5. a \o b \in Seq(there)
  BY <1>4, ConcatProperties
<1>6. (a \o b) \o c \in Seq(there)
  BY <1>4, <1>5, ConcatProperties
<1>. QED
  BY <1>1, <1>3, <1>6 DEF Listing, there

-----------------------------------------------------------------------------
\* The workspace as it lies on disk.
FilesAre(f) == f \in [Paths -> UNION {TextsOf[p] : p \in Paths}]
               /\ \A p \in Paths : f[p] \in TextsOf[p]

\* What a listed file is to the compiler.
SourceOf(f, p) ==
    [path |-> p, kind |-> Parse[f[p]].kind, wellFormed |-> Parse[f[p]].wellFormed,
     value |-> Parse[f[p]].value]

\* What is compiled are the listed files, each as its text parses.
LEMMA SourcesAreParsed ==
  ASSUME NEW f, NEW order \in Seq(Present(f))
  PROVE  Sources(order, parseSources(f, ToSet(order), <<>>))
            \in Seq({SourceOf(f, p) : p \in ToSet(order)})
<1>. DEFINE listed == ToSet(order)
            entries == parseSources(f, listed, <<>>)
            S == {SourceOf(f, p) : p \in listed}
            source(i) == [path |-> order[i], kind |-> entries[order[i]].parsed.kind,
                          wellFormed |-> entries[order[i]].parsed.wellFormed,
                          value |-> entries[order[i]].parsed.value]
            s == [i \in DOMAIN order |-> source(i)]
<1>1. Len(order) \in Nat /\ DOMAIN order = 1 .. Len(order)
  BY LenProperties
<1>2. entries = [p \in listed |-> parseWorkspaceSource(f[p])]
  BY EmptyCache, SameEntries
<1>3. ASSUME NEW i \in DOMAIN order PROVE source(i) \in S
  <2>1. order[i] \in listed
    BY DEF ToSet
  <2>2. entries[order[i]].parsed = Parse[f[order[i]]]
    BY <1>2, <2>1 DEF parseWorkspaceSource
  <2>3. source(i) = SourceOf(f, order[i])
    BY <2>2 DEF SourceOf
  <2>. QED
    BY <2>1, <2>3
<1>4. Sources(order, entries) = <<>> \o s
  BY DEF Sources
<1>. HIDE DEF S, entries, source
<1>5. s \in [1 .. Len(order) -> S]
  BY <1>1, <1>3
<1>6. s \in Seq(S)
  BY <1>1, <1>5, SeqDef
<1>. HIDE DEF s
<1>7. <<>> \o s = s
  BY <1>6, ConcatEmptySeq
<1>. QED
  BY <1>4, <1>6, <1>7 DEF S, entries

\* The sources of a kind are the parsed files of that kind.
LEMMA SourcesOfAKind ==
  ASSUME NEW S, NEW sources \in Seq(S), NEW kind
  PROVE  SourcesOf(sources, kind) \in Seq({s \in S : s.kind = kind})
<1>. DEFINE T == {s \in S : s.kind = kind}
            Pick(i) == IF sources[i].kind = kind THEN <<sources[i]>> ELSE <<>>
<1>1. /\ Len(sources) \in Nat /\ DOMAIN sources = 1 .. Len(sources)
      /\ \A i \in 1 .. Len(sources) : sources[i] \in S
  BY LenProperties
<1>2. PICK seqs : seqs = [i \in DOMAIN sources |-> Pick(i)]
  OBVIOUS
<1>3. SourcesOf(sources, kind) = FlattenSeq(seqs)
  BY <1>2 DEF SourcesOf
<1>4. \A i \in 1 .. Len(sources) : seqs[i] = <<>> \/ \E x \in T : seqs[i] = <<x>>
  BY <1>1, <1>2
<1>5. DOMAIN seqs = 1 .. Len(sources) /\ seqs = [i \in 1 .. Len(sources) |-> seqs[i]]
  BY <1>1, <1>2
<1>. HIDE DEF T
<1>6. FlattenSeq(seqs) \in Seq(T)
  BY <1>1, <1>4, <1>5, PickedInOrder
<1>. QED
  BY <1>3, <1>6 DEF T

\* A document of the compile is what some listed file parses to.
Composed(f, listed, d) ==
    \E p \in listed : /\ d = SourceOf(f, p)
                      /\ Parse[f[p]].kind = "document" /\ Parse[f[p]].wellFormed
-----------------------------------------------------------------------------
\* Identifiers are sequences of segments, and stay so when they are joined.
LEMMA SegmentsJoin ==
  ASSUME NEW s, NEW t, IsSequence(s), IsSequence(t)
  PROVE  IsSequence(s \o t)
<1>. DEFINE S == ToSet(s) \cup ToSet(t)
<1>1. ToSet(s) \subseteq S /\ ToSet(t) \subseteq S
  OBVIOUS
<1>. HIDE DEF S
<1>2. s \in Seq(S) /\ t \in Seq(S)
  <2>1. /\ Len(s) \in Nat /\ s \in [1 .. Len(s) -> ToSet(s)]
        /\ Len(t) \in Nat /\ t \in [1 .. Len(t) -> ToSet(t)]
    BY LenProperties DEF IsSequence
  <2>2. s \in [1 .. Len(s) -> S] /\ t \in [1 .. Len(t) -> S]
    BY <1>1, <2>1
  <2>. QED
    BY <2>1, <2>2, SeqDef
<1>3. s \o t \in Seq(S)
  BY <1>2, ConcatProperties
<1>. QED
  BY <1>3, SequencesAre

\* An identifier of one segment is a sequence.
LEMMA OneSegment ==
  ASSUME NEW x
  PROVE  IsSequence(<<x>>) /\ Len(<<x>>) = 1 /\ <<x>>[1] = x
<1>1. <<x>> \in Seq({x})
  OBVIOUS
<1>. QED
  BY <1>1, SequencesAre

\* The last segment is the one that was added last.
LEMMA LastSegment ==
  ASSUME NEW s, IsSequence(s), NEW x
  PROVE  Last(s \o <<x>>) = x
<1>. DEFINE S == ToSet(s) \cup {x}
<1>1. PICK t : t = <<x>>
  OBVIOUS
<1>2. s \in Seq(S) /\ t \in Seq(S) /\ Len(s) \in Nat /\ Len(t) = 1 /\ t[1] = x
  <2>1. Len(s) \in Nat /\ s \in [1 .. Len(s) -> ToSet(s)]
    BY LenProperties DEF IsSequence
  <2>2. s \in [1 .. Len(s) -> S]
    BY <2>1
  <2>3. x \in S
    OBVIOUS
  <2>. HIDE DEF S
  <2>4. <<x>> \in Seq(S)
    BY <2>3
  <2>. QED
    BY <1>1, <2>1, <2>2, <2>4, SeqDef, OneSegment
<1>. HIDE DEF S
<1>3. /\ Len(s \o t) = Len(s) + Len(t)
      /\ \A i \in 1 .. Len(s) + Len(t) :
            (s \o t)[i] = IF i <= Len(s) THEN s[i] ELSE t[i - Len(s)]
  BY <1>2, ConcatProperties
<1>4. /\ Len(s) + 1 \in 1 .. Len(s) + Len(t) /\ ~(Len(s) + 1 <= Len(s))
      /\ Len(s) + 1 - Len(s) = 1
  BY <1>2
<1>5. (s \o t)[Len(s) + 1] = t[1]
  BY <1>3, <1>4
<1>. QED
  BY <1>1, <1>2, <1>3, <1>5 DEF Last

\* Every declared identifier is one.
Spelled(w) == \A id \in DeclaredIds(w) : IsSequence(id)

\* Every declared identifier is a sequence of segments.
LEMMA DeclaredAreSpelled ==
  ASSUME NEW f, FilesAre(f), NEW listed, listed \subseteq Present(f), NEW w, Faultless(w),
         \A d \in ToSet(w.documents) : Composed(f, listed, d)
  PROVE  Spelled(w)
<1>1. ASSUME NEW sort \in Sorts, NEW e \in ToSet(Items(w.documents, sort))
      PROVE  IsSequence(e.item.id)
  <2>1. AllRead(w.documents)
    BY DEF Faultless
  <2>2. PICK i \in DOMAIN w.documents :
            \E j \in DOMAIN w.documents[i].value[sort] : e = Entry(w.documents, sort, i, j)
    BY <2>1, ItemsAre
  <2>3. PICK d : d = w.documents[i]
    OBVIOUS
  <2>4. PICK j \in DOMAIN d.value[sort] : e.item = d.value[sort][j]
    BY <2>2, <2>3 DEF Entry
  <2>5. PICK p \in listed : /\ d = SourceOf(f, p)
                            /\ Parse[f[p]].kind = "document" /\ Parse[f[p]].wellFormed
    BY <2>3 DEF Composed, ToSet
  <2>6. f[p] \in DOMAIN Parse
    BY SourcesAssumption DEF SourcesAssumption, FilesAre, Present
  <2>7. d.value = Parse[f[p]].value
    BY <2>5 DEF SourceOf
  <2>8. e.item \in ToSet(d.value[sort])
    BY <2>4 DEF ToSet
  <2>9. WellRead("document", d.value)
    BY <2>5, <2>6, <2>7, SourcesAssumption DEF SourcesAssumption
  <2>. QED
    BY <2>8, <2>9 DEF WellRead, Sorts
<1>2. DeclaredIds(w) = SubjectIds(w)
  BY NoFaultAnywhere, EverythingIsChecked
<1>3. /\ \A e \in ToSet(w.states) : IsSequence(e.item.id)
      /\ \A e \in ToSet(w.concepts) : IsSequence(e.item.id)
      /\ \A e \in ToSet(w.relationships) : IsSequence(e.item.id)
  BY <1>1 DEF Sorts, Faultless
<1>. QED
  BY <1>2, <1>3 DEF Spelled, SubjectIds, StateIds, ConceptIds, Ids

\* What a wire is called is one, too.
LEMMA WiresAreSpelled ==
  ASSUME NEW w, Spelled(w), NEW wire \in AllWires(w)
  PROVE  IsSequence(wire.id)
<1>0. PICK n \in Instances(w) : \E x, kind : wire.id = WireName(n, x, kind)
  BY WiresJoin
<1>1. PICK x, kind : wire.id = WireName(n, x, kind)
  BY <1>0
<1>2. \E e \in Checked(w, w.concepts) : n.id = e.item.id
  BY DEF Instances
<1>3. n.id \in DeclaredIds(w)
  BY <1>2 DEF DeclaredIds
<1>4. IsSequence(n.id)
  BY <1>3 DEF Spelled
<1>5. PICK from : from = IF x.from = Self THEN <<>> ELSE <<x.from>>
  OBVIOUS
<1>6. IsSequence(from)
  <2>1. IsSequence(<<>>)
    <3>1. <<>> \in Seq({})
      BY EmptySeq
    <3>. QED
      BY <3>1, SequencesAre
  <2>. QED
    BY <1>5, <2>1, OneSegment
<1>7. IsSequence(<<kind, x.to>>)
  <2>1. <<kind, x.to>> \in Seq({kind, x.to})
    OBVIOUS
  <2>. QED
    BY <2>1, SequencesAre
<1>8. IsSequence(n.id \o from)
  BY <1>4, <1>6, SegmentsJoin
<1>9. IsSequence((n.id \o from) \o <<kind, x.to>>)
  BY <1>7, <1>8, SegmentsJoin
<1>. QED
  BY <1>1, <1>5, <1>9 DEF WireName

\* Every minted identifier is a sequence of segments.
LEMMA MintedAreSpelled ==
  ASSUME NEW w, Spelled(w), NEW edge \in MintedWires(w)
  PROVE  IsSequence(edge.id)
<1>. DEFINE authored == {Triple(e) : e \in AuthoredEdges(w)}
            wires == AllWires(w)
            wanted == {wire \in wires : Triple(wire) \notin authored}
            Group(t) == {wire \in wanted : Triple(wire) = t}
            Owners(t) == {wire \in Group(t) : wire.owner}
            Owner(t) == CHOOSE x \in Owners(t) : TRUE
            Some(t) == CHOOSE x \in Group(t) : TRUE
            Named(t) == t[1] \o <<Some(t).coreKind>> \o t[3]
            WireId(t) ==
              IF Owners(t) # {} THEN Owner(t).id
              ELSE IF Cardinality(Group(t)) = 1 THEN Some(t).id
              ELSE Named(t)
            Minted(t) == Edge(WireId(t), t[1], t[2], t[3])
<1>1. MintedWires(w) = {Minted(t) : t \in {Triple(x) : x \in wanted}}
  BY DEF MintedWires
<1>2. \A t : Minted(t).id = WireId(t)
  BY DEF Edge
<1>3. \A t : /\ Owners(t) # {} => Owner(t) \in wires
             /\ Group(t) # {} => Some(t) \in wires
  OBVIOUS
<1>4. \A x \in wanted : x \in wires /\ Group(Triple(x)) # {}
  OBVIOUS
<1>. HIDE DEF Minted, Owner, Some, Owners, Group, Named
<1>5. PICK x \in wanted : edge = Minted(Triple(x))
  BY <1>1
<1>6. PICK t : t = Triple(x)
  OBVIOUS
<1>7. edge.id = WireId(t)
  BY <1>2, <1>5, <1>6
<1>8. CASE Owners(t) # {}
  BY <1>3, <1>7, <1>8, WiresAreSpelled
<1>9. CASE Owners(t) = {} /\ Cardinality(Group(t)) = 1
  BY <1>3, <1>4, <1>6, <1>7, <1>9, WiresAreSpelled
<1>10. CASE Owners(t) = {} /\ Cardinality(Group(t)) # 1
  <2>1. Joins(x, DeclaredIds(w))
    BY <1>4, WiresJoin
  <2>2. t[1] = x.from /\ t[3] = x.to
    BY <1>6 DEF Triple
  <2>3. PICK a, b : a = t[1] /\ b = t[3]
    OBVIOUS
  <2>4. IsSequence(a) /\ IsSequence(b)
    BY <2>1, <2>2, <2>3 DEF Joins, Spelled
  <2>5. IsSequence(a \o <<Some(t).coreKind>>)
    BY <2>4, SegmentsJoin, OneSegment
  <2>6. IsSequence((a \o <<Some(t).coreKind>>) \o b)
    BY <2>4, <2>5, SegmentsJoin
  <2>7. edge.id = Named(t)
    BY <1>7, <1>10
  <2>. QED
    BY <2>3, <2>6, <2>7 DEF Named
<1>. QED
  BY <1>8, <1>9, <1>10

\* An edge no author wrote and no port expanded is a minted wire; two of one
\* triple are one.
LEMMA WiresStandAlone ==
  ASSUME NEW w, Faultless(w), Spelled(w), NEW taken,
         \A x \in AuthoredEdges(w) : x.id \in taken,
         NEW e \in GraphEdges(w), NEW f \in GraphEdges(w),
         e.id \notin taken, f.id \notin taken,
         Last(e.id) # "expansion", Last(f.id) # "expansion", Triple(e) = Triple(f)
  PROVE  e = f
<1>. DEFINE stated == AuthoredEdges(w) \cup MintedWires(w)
            expanded == Expansions(w, stated)
<1>1. GraphEdges(w) = stated \cup expanded
  BY DEF GraphEdges
<1>2. ASSUME NEW x \in stated PROVE IsSequence(x.id)
  <2>1. CASE x \in AuthoredEdges(w)
    <3>1. \E r \in Checked(w, w.relationships) : x.id = r.item.id
      BY <2>1 DEF AuthoredEdges, Edge
    <3>2. x.id \in DeclaredIds(w)
      BY <3>1 DEF DeclaredIds
    <3>. QED
      BY <3>2 DEF Spelled
  <2>2. CASE x \in MintedWires(w)
    BY <2>2, MintedAreSpelled
  <2>. QED
    BY <2>1, <2>2
<1>3. ASSUME NEW x \in expanded PROVE Last(x.id) = "expansion"
  <2>1. PICK macro \in stated : x.id = macro.id \o <<"expansion">>
    BY ExpansionsJoin
  <2>2. IsSequence(macro.id)
    BY <1>2, <2>1
  <2>. QED
    BY <2>1, <2>2, LastSegment
<1>. HIDE DEF expanded
<1>4. e \in MintedWires(w) /\ f \in MintedWires(w)
  BY <1>1, <1>3
<1>. QED
  BY <1>4, MintedFromWires

\* What an author wrote is among the identifiers the property sets aside.
LEMMA AuthoredAreSetAside ==
  ASSUME NEW w, Faultless(w), NEW e \in AuthoredEdges(w),
         \A d \in ToSet(w.documents) :
            Composed(files, ToSet(Listing(Resolved(files, manifest).workspace)), d)
  PROVE  e.id \in AuthoredIds
<1>. DEFINE listed == ToSet(Listing(Resolved(files, manifest).workspace))
            Lone(p) == <<[path |-> p, value |-> Parse[files[p]].value]>>
            In(p) == IF Parse[files[p]].kind = "document" /\ Parse[files[p]].wellFormed
                     THEN Ids(Items(Lone(p), "relationships")) ELSE {}
<1>1. AuthoredIds = UNION {In(p) : p \in listed}
  BY DEF AuthoredIds
<1>2. PICK r \in ToSet(w.relationships) : e.id = r.item.id
  BY AuthoredEdgesJoin
<1>3. r \in ToSet(Items(w.documents, "relationships")) /\ AllRead(w.documents)
  BY DEF Faultless
<1>4. PICK i \in DOMAIN w.documents :
          \E j \in DOMAIN w.documents[i].value["relationships"] :
              r = Entry(w.documents, "relationships", i, j)
  BY <1>3, ItemsAre DEF Sorts
<1>5. PICK d : d = w.documents[i]
  OBVIOUS
<1>6. PICK j \in DOMAIN d.value["relationships"] : r.item = d.value["relationships"][j]
  BY <1>4, <1>5 DEF Entry
<1>7. Reads(d.value)
  BY <1>3, <1>5 DEF AllRead
<1>8. PICK p \in listed : /\ d = SourceOf(files, p)
                          /\ Parse[files[p]].kind = "document" /\ Parse[files[p]].wellFormed
  BY <1>5 DEF Composed, ToSet
<1>9. PICK D : D = Lone(p)
  OBVIOUS
<1>10. DOMAIN D = {1} /\ IsSequence(D) /\ D[1].value = d.value
  <2>1. \A x : DOMAIN <<x>> = {1} /\ <<x>>[1] = x
    OBVIOUS
  <2>2. \A x : IsSequence(<<x>>)
    BY OneSegment
  <2>3. d.value = Parse[files[p]].value
    BY <1>8 DEF SourceOf
  <2>. QED
    BY <1>9, <2>1, <2>2, <2>3
<1>11. AllRead(D)
  BY <1>7, <1>10 DEF AllRead
<1>12. Entry(D, "relationships", 1, j) \in ToSet(Items(D, "relationships"))
  <2>1. 1 \in DOMAIN D /\ j \in DOMAIN D[1].value["relationships"]
    BY <1>10
  <2>. QED
    BY <1>11, <2>1, ItemsAre DEF Sorts
<1>13. Entry(D, "relationships", 1, j).item.id = r.item.id
  BY <1>6, <1>10 DEF Entry
<1>14. r.item.id \in Ids(Items(D, "relationships"))
  BY <1>12, <1>13 DEF Ids
<1>. QED
  BY <1>1, <1>2, <1>8, <1>9, <1>14
-----------------------------------------------------------------------------
(***************************************************************************)
(* The phases that resolve profiles and patterns are folds over their      *)
(* sources, and folds within folds.  What a fold keeps is shown once, for  *)
(* every step any of them takes: the step that it is stands in c, with     *)
(* what it is about.                                                       *)
(***************************************************************************)
\* A round over the kinds of a profile that are still to be declared.
KindRound(identity, path, base, kinds) ==
    FoldLeft(LAMBDA a, k : DeclareKind(identity, path, a, k), base, kinds)

\* As many rounds as there are kinds.
KindRounds(identity, path, base, kinds) ==
    FoldLeft(LAMBDA a, k : KindRound(identity, path, [a EXCEPT !.deferred = <<>>], a.deferred),
             base, kinds)

\* Its kinds of relationship.
PolicyRound(identity, path, base, kinds) ==
    FoldLeft(LAMBDA a, k : DeclarePolicy(identity, path, a, k), base, kinds)

\* A round over the profiles that are pending.
ProfileRound(base, pending) == FoldLeft(ResolveProfile, base, pending)

\* As many rounds as there are profiles.
ProfileRounds(base, pending) ==
    FoldLeft(LAMBDA r, p : ProfileRound([r EXCEPT !.pending = <<>>], r.pending), base, pending)

\* The patterns of a file.
PatternRound(r, path, base, patterns) ==
    FoldLeft(LAMBDA a, p : DeclarePattern(r, path, a, p), base, patterns)

\* The patterns of every file.
PatternRounds(r, base, sources) ==
    FoldLeft(LAMBDA a, s : ReadPatterns(r, a, s), base, sources)

\* One step of the fold that c names.
Step(c, a, x) ==
    CASE c.step = "kind" -> DeclareKind(c.identity, c.path, a, x)
      [] c.step = "kinds" ->
            KindRound(c.identity, c.path, [a EXCEPT !.deferred = <<>>], a.deferred)
      [] c.step = "policy" -> DeclarePolicy(c.identity, c.path, a, x)
      [] c.step = "profile" -> ResolveProfile(a, x)
      [] c.step = "profiles" -> ProfileRound([a EXCEPT !.pending = <<>>], a.pending)
      [] c.step = "pattern" -> DeclarePattern(c.r, c.path, a, x)
      [] c.step = "patterns" -> ReadPatterns(c.r, a, x)

\* A kind descends from kinds that are declared, and all of a line from one.
KindsHold(kinds) ==
    \A k \in DOMAIN kinds :
        /\ 1 \in DOMAIN kinds[k].lineage /\ IsSequence(kinds[k].lineage)
        /\ \A m \in ToSet(kinds[k].lineage) :
              m \in DOMAIN kinds /\ kinds[m].lineage[1] = kinds[k].lineage[1]

\* While a profile is resolved: its names are kinds, and the only new ones.
NamingHolds(c, a) ==
    /\ DOMAIN a = {"local", "edges", "kinds", "policies", "deferred", "diagnostics"}
    /\ KindsHold(a.kinds) /\ c.kinds \subseteq DOMAIN a.kinds
    /\ \A x \in DOMAIN a.local : a.local[x] \in DOMAIN a.kinds
    /\ \A k \in DOMAIN a.kinds :
          k[1] \in c.known \/ \E x \in DOMAIN a.local : k = <<c.identity, x>>
    /\ IsSequence(a.deferred)

\* What is declared in a profile comes in lists.
Lists(pending) == IsSequence(pending.value.concepts) /\ IsSequence(pending.value.relationships)

\* Between two profiles: every name of a profile is a kind, every kind a profile's.
VocabularyHolds(r) ==
    /\ DOMAIN r = {"profiles", "kinds", "policies", "pending", "diagnostics"}
    /\ KindsHold(r.kinds) /\ CoreKind("plateau") \in DOMAIN r.kinds
    /\ \A q \in DOMAIN r.profiles : \A x \in DOMAIN r.profiles[q].concepts :
          r.profiles[q].concepts[x] \in DOMAIN r.kinds
    /\ \A k \in DOMAIN r.kinds : k[1] \in DOMAIN r.profiles
    /\ IsSequence(r.pending) /\ \A p \in ToSet(r.pending) : Lists(p)

\* A pattern stands under its kind, and is one that was not refused.
ShapesHold(r, shapes) ==
    \A k \in DOMAIN shapes :
        /\ shapes[k].kind = k /\ k \in DOMAIN r.kinds /\ IsSequence(shapes[k].wiring)
        /\ PartFaults(r, shapes[k]) = {} /\ WireFaults(r, shapes[k]) = {}
        /\ Self \notin SlotsOf(shapes[k])

\* What the fold that c names keeps.
Kept(c, a) ==
    CASE c.step \in {"kind", "kinds", "policy"} -> NamingHolds(c, a)
      [] c.step \in {"profile", "profiles"} -> VocabularyHolds(a)
      [] c.step \in {"pattern", "patterns"} ->
            DOMAIN a = {"shapes", "diagnostics"} /\ ShapesHold(c.r, a.shapes)

\* What FoldLeft unrolls to over the indexes s.
Folded(c, base, seq, iter, s) ==
    IF s = {} THEN base ELSE Step(c, iter[s \ {Max(s)}], seq[Max(s)])

\* What FoldLeft is when it is well defined: a function of the indexes that are done.
Unfolds(c, base, seq, S, iter) ==
    iter = [s \in SUBSET S |-> Folded(c, base, seq, iter, s)]

\* The greatest of some numbers up to m is m, when it is among them.
LEMMA GreatestOf ==
  ASSUME NEW m \in Nat, NEW s \in SUBSET (1 .. m), m \in s
  PROVE  Max(s) = m
<1>1. \A y \in s : m >= y
  OBVIOUS
<1>2. Max(s) \in s /\ \A y \in s : Max(s) >= y
  BY <1>1 DEF Max
<1>3. PICK x : x = Max(s)
  OBVIOUS
<1>4. x \in 1 .. m /\ x >= m
  BY <1>2, <1>3
<1>5. x = m
  BY <1>4
<1>. QED
  BY <1>3, <1>5

\* A fold is well defined, however long: the least length for which it is not
\* would be one more than a length for which it is.
LEMMA UnfoldingExists ==
  ASSUME NEW c, NEW base, NEW seq, NEW n \in Nat
  PROVE  \E f : Unfolds(c, base, seq, 1 .. n, f)
<1>. DEFINE Unrolls(m, f) == Unfolds(c, base, seq, 1 .. m, f)
            Bad == {m \in Nat : ~ \E f : Unrolls(m, f)}
<1>1. SUFFICES ASSUME Bad # {} PROVE FALSE
  OBVIOUS
<1>2. PICK m \in Bad : \A k \in Bad : m <= k
  <2>1. Bad \in SUBSET Nat
    OBVIOUS
  <2>. HIDE DEF Bad
  <2>. QED
    BY <1>1, <2>1, FewestOf
<1>3. CASE m = 0
  <2>. DEFINE f == [s \in SUBSET (1 .. 0) |-> base]
  <2>1. \A s \in SUBSET (1 .. 0) : s = {}
    OBVIOUS
  <2>2. \A s \in SUBSET (1 .. 0) : Folded(c, base, seq, f, s) = base
    BY <2>1 DEF Folded
  <2>3. Unrolls(0, f)
    BY <2>2 DEF Unfolds
  <2>. QED
    BY <1>2, <1>3, <2>3
<1>4. CASE m # 0
  <2>0. m \in Nat
    BY <1>2
  <2>00. m - 1 \in Nat /\ ~(m <= m - 1)
    BY <1>4, <2>0
  <2>1. m - 1 \in Nat /\ m - 1 \notin Bad /\ m \in Nat
    BY <1>2, <2>0, <2>00
  <2>2. PICK g : Unrolls(m - 1, g)
    BY <2>1
  <2>. DEFINE f == [s \in SUBSET (1 .. m) |->
                      IF m \in s THEN Step(c, g[s \ {m}], seq[m]) ELSE g[s]]
  <2>3. ASSUME NEW s \in SUBSET (1 .. m)
        PROVE  f[s] = Folded(c, base, seq, f, s)
    <3>1. CASE m \in s
      <4>1. Max(s) = m
        BY <2>1, <3>1, GreatestOf
      <4>2. s \ {m} \in SUBSET (1 .. m) /\ m \notin s \ {m}
        OBVIOUS
      <4>3. f[s \ {m}] = g[s \ {m}]
        BY <4>2
      <4>4. f[s] = Step(c, g[s \ {m}], seq[m])
        BY <3>1
      <4>. HIDE DEF f
      <4>. QED
        BY <3>1, <4>1, <4>3, <4>4 DEF Folded
    <3>2. CASE m \notin s
      <4>1. s \in SUBSET (1 .. m - 1)
        BY <2>1, <3>2
      <4>2. f[s] = g[s]
        BY <3>2
      <4>3. g[s] = Folded(c, base, seq, g, s)
        BY <2>2, <4>1 DEF Unfolds
      <4>4. s # {} => f[s \ {Max(s)}] = g[s \ {Max(s)}]
        <5>1. s \ {Max(s)} \in SUBSET (1 .. m) /\ m \notin s \ {Max(s)}
          BY <3>2
        <5>. QED
          BY <5>1
      <4>. HIDE DEF f
      <4>. QED
        BY <4>2, <4>3, <4>4 DEF Folded
    <3>. QED
      BY <3>1, <3>2
  <2>4. f = [s \in SUBSET (1 .. m) |-> f[s]]
    OBVIOUS
  <2>. HIDE DEF f
  <2>5. Unrolls(m, f)
    BY <2>3, <2>4 DEF Unfolds
  <2>. QED
    BY <1>2, <2>5
<1>. QED
  BY <1>3, <1>4


\* So every fold over a sequence is.
LEMMA FoldingExists ==
  ASSUME NEW c, NEW base, NEW seq, IsSequence(seq)
  PROVE  \E f : Unfolds(c, base, seq, DOMAIN seq, f)
<1>1. PICK n \in Nat : DOMAIN seq = 1 .. n
  BY SequencesAre DEF IsSequence
<1>. QED
  BY <1>1, UnfoldingExists

\* What holds at the start and is kept by every step holds at the end.
LEMMA FoldKeeps ==
  ASSUME NEW c, NEW base, NEW seq, IsSequence(seq), Kept(c, base),
         \A a : \A i \in DOMAIN seq : Kept(c, a) => Kept(c, Step(c, a, seq[i])),
         NEW iter, Unfolds(c, base, seq, DOMAIN seq, iter)
  PROVE  Kept(c, iter[DOMAIN seq])
<1>1. PICK n \in Nat : DOMAIN seq = 1 .. n
  BY SequencesAre DEF IsSequence
<1>2. iter = [s \in SUBSET (1 .. n) |-> Folded(c, base, seq, iter, s)]
  BY <1>1 DEF Unfolds
<1>. DEFINE Bad == {k \in 0 .. n : ~Kept(c, iter[1 .. k])}
<1>3. SUFFICES ASSUME Bad # {} PROVE FALSE
  BY <1>1
<1>5. PICK m \in Bad : \A k \in Bad : m <= k
  <2>1. Bad \in SUBSET Nat
    OBVIOUS
  <2>. HIDE DEF Bad
  <2>. QED
    BY <1>3, <2>1, FewestOf
<1>6. CASE m = 0
  <2>1. 1 .. 0 = {} /\ {} \in SUBSET (1 .. n)
    OBVIOUS
  <2>2. iter[1 .. 0] = base
    BY <1>2, <2>1 DEF Folded
  <2>. QED
    BY <1>5, <1>6, <2>2
<1>7. CASE m # 0
  <2>1. m \in 1 .. n /\ m - 1 \in 0 .. n /\ ~(m <= m - 1) /\ m \in Nat
    BY <1>1, <1>5, <1>7
  <2>2. m - 1 \notin Bad
    BY <1>5, <2>1
  <2>3. Kept(c, iter[1 .. m - 1])
    BY <2>1, <2>2
  <2>4. Max(1 .. m) = m
    <3>1. 1 .. m \in SUBSET (1 .. m) /\ m \in 1 .. m
      BY <2>1
    <3>. QED
      BY <2>1, <3>1, GreatestOf
  <2>5. 1 .. m \in SUBSET (1 .. n) /\ 1 .. m # {} /\ (1 .. m) \ {m} = 1 .. m - 1
    <3>1. m \in Nat /\ n \in Nat /\ m <= n /\ 1 <= m
      BY <1>1, <2>1
    <3>2. 1 .. m \in SUBSET (1 .. n) /\ m \in 1 .. m
      BY <3>1
    <3>3. \A x : x \in (1 .. m) \ {m} <=> x \in 1 .. m - 1
      BY <3>1
    <3>. QED
      BY <3>2, <3>3
  <2>6. iter[1 .. m] = Step(c, iter[1 .. m - 1], seq[m])
    BY <1>2, <2>4, <2>5 DEF Folded
  <2>7. Kept(c, iter[1 .. m])
    BY <1>1, <2>1, <2>3, <2>6
  <2>. QED
    BY <1>5, <2>7
<1>. QED
  BY <1>6, <1>7

\* The fold over the kinds of one round.
LEMMA KindFold ==
  ASSUME NEW c, c.step = "kind", NEW base, NEW seq, IsSequence(seq), Kept(c, base),
         \A a : \A i \in DOMAIN seq : Kept(c, a) => Kept(c, Step(c, a, seq[i]))
  PROVE  Kept(c, KindRound(c.identity, c.path, base, seq))
<1>. DEFINE After(a, x) == DeclareKind(c.identity, c.path, a, x)
            Unrolls(iter) ==
              iter = [s \in SUBSET DOMAIN seq |->
                        IF s = {} THEN base ELSE After(iter[s \ {Max(s)}], seq[Max(s)])]
            iter == CHOOSE f : Unrolls(f)
<1>1. \A a, x : Step(c, a, x) = After(a, x)
  BY DEF Step
<1>2. KindRound(c.identity, c.path, base, seq) = iter[DOMAIN seq]
  BY DEF KindRound, FoldLeft, MapThenFoldSet
<1>. HIDE DEF After
<1>3. \E f : Unrolls(f)
  <2>1. PICK f : Unfolds(c, base, seq, DOMAIN seq, f)
    BY FoldingExists
  <2>2. \A s : Folded(c, base, seq, f, s) =
                  IF s = {} THEN base ELSE After(f[s \ {Max(s)}], seq[Max(s)])
    BY <1>1 DEF Folded
  <2>. QED
    BY <2>1, <2>2 DEF Unfolds
<1>4. Unrolls(iter)
  BY <1>3
<1>. HIDE DEF iter
<1>5. Unfolds(c, base, seq, DOMAIN seq, iter)
  BY <1>1, <1>4 DEF Unfolds, Folded
<1>. QED
  BY <1>2, <1>5, FoldKeeps

\* The fold over the rounds.
LEMMA KindsFold ==
  ASSUME NEW c, c.step = "kinds", NEW base, NEW seq, IsSequence(seq), Kept(c, base),
         \A a : \A i \in DOMAIN seq : Kept(c, a) => Kept(c, Step(c, a, seq[i]))
  PROVE  Kept(c, KindRounds(c.identity, c.path, base, seq))
<1>. DEFINE After(a, x) == KindRound(c.identity, c.path, [a EXCEPT !.deferred = <<>>], a.deferred)
            Unrolls(iter) ==
              iter = [s \in SUBSET DOMAIN seq |->
                        IF s = {} THEN base ELSE After(iter[s \ {Max(s)}], seq[Max(s)])]
            iter == CHOOSE f : Unrolls(f)
<1>1. \A a, x : Step(c, a, x) = After(a, x)
  BY DEF Step
<1>2. KindRounds(c.identity, c.path, base, seq) = iter[DOMAIN seq]
  BY DEF KindRounds, FoldLeft, MapThenFoldSet
<1>. HIDE DEF After
<1>3. \E f : Unrolls(f)
  <2>1. PICK f : Unfolds(c, base, seq, DOMAIN seq, f)
    BY FoldingExists
  <2>2. \A s : Folded(c, base, seq, f, s) =
                  IF s = {} THEN base ELSE After(f[s \ {Max(s)}], seq[Max(s)])
    BY <1>1 DEF Folded
  <2>. QED
    BY <2>1, <2>2 DEF Unfolds
<1>4. Unrolls(iter)
  BY <1>3
<1>. HIDE DEF iter
<1>5. Unfolds(c, base, seq, DOMAIN seq, iter)
  BY <1>1, <1>4 DEF Unfolds, Folded
<1>. QED
  BY <1>2, <1>5, FoldKeeps

\* The fold over the kinds of relationship of a profile.
LEMMA PolicyFold ==
  ASSUME NEW c, c.step = "policy", NEW base, NEW seq, IsSequence(seq), Kept(c, base),
         \A a : \A i \in DOMAIN seq : Kept(c, a) => Kept(c, Step(c, a, seq[i]))
  PROVE  Kept(c, PolicyRound(c.identity, c.path, base, seq))
<1>. DEFINE After(a, x) == DeclarePolicy(c.identity, c.path, a, x)
            Unrolls(iter) ==
              iter = [s \in SUBSET DOMAIN seq |->
                        IF s = {} THEN base ELSE After(iter[s \ {Max(s)}], seq[Max(s)])]
            iter == CHOOSE f : Unrolls(f)
<1>1. \A a, x : Step(c, a, x) = After(a, x)
  BY DEF Step
<1>2. PolicyRound(c.identity, c.path, base, seq) = iter[DOMAIN seq]
  BY DEF PolicyRound, FoldLeft, MapThenFoldSet
<1>. HIDE DEF After
<1>3. \E f : Unrolls(f)
  <2>1. PICK f : Unfolds(c, base, seq, DOMAIN seq, f)
    BY FoldingExists
  <2>2. \A s : Folded(c, base, seq, f, s) =
                  IF s = {} THEN base ELSE After(f[s \ {Max(s)}], seq[Max(s)])
    BY <1>1 DEF Folded
  <2>. QED
    BY <2>1, <2>2 DEF Unfolds
<1>4. Unrolls(iter)
  BY <1>3
<1>. HIDE DEF iter
<1>5. Unfolds(c, base, seq, DOMAIN seq, iter)
  BY <1>1, <1>4 DEF Unfolds, Folded
<1>. QED
  BY <1>2, <1>5, FoldKeeps

\* The fold over the profiles of one round.
LEMMA ProfileFold ==
  ASSUME NEW c, c.step = "profile", NEW base, NEW seq, IsSequence(seq), Kept(c, base),
         \A a : \A i \in DOMAIN seq : Kept(c, a) => Kept(c, Step(c, a, seq[i]))
  PROVE  Kept(c, ProfileRound(base, seq))
<1>. DEFINE After(a, x) == ResolveProfile(a, x)
            Unrolls(iter) ==
              iter = [s \in SUBSET DOMAIN seq |->
                        IF s = {} THEN base ELSE After(iter[s \ {Max(s)}], seq[Max(s)])]
            iter == CHOOSE f : Unrolls(f)
<1>1. \A a, x : Step(c, a, x) = After(a, x)
  BY DEF Step
<1>2. ProfileRound(base, seq) = iter[DOMAIN seq]
  BY DEF ProfileRound, FoldLeft, MapThenFoldSet
<1>. HIDE DEF After
<1>3. \E f : Unrolls(f)
  <2>1. PICK f : Unfolds(c, base, seq, DOMAIN seq, f)
    BY FoldingExists
  <2>2. \A s : Folded(c, base, seq, f, s) =
                  IF s = {} THEN base ELSE After(f[s \ {Max(s)}], seq[Max(s)])
    BY <1>1 DEF Folded
  <2>. QED
    BY <2>1, <2>2 DEF Unfolds
<1>4. Unrolls(iter)
  BY <1>3
<1>. HIDE DEF iter
<1>5. Unfolds(c, base, seq, DOMAIN seq, iter)
  BY <1>1, <1>4 DEF Unfolds, Folded
<1>. QED
  BY <1>2, <1>5, FoldKeeps

\* The fold over the rounds of profiles.
LEMMA ProfilesFold ==
  ASSUME NEW c, c.step = "profiles", NEW base, NEW seq, IsSequence(seq), Kept(c, base),
         \A a : \A i \in DOMAIN seq : Kept(c, a) => Kept(c, Step(c, a, seq[i]))
  PROVE  Kept(c, ProfileRounds(base, seq))
<1>. DEFINE After(a, x) == ProfileRound([a EXCEPT !.pending = <<>>], a.pending)
            Unrolls(iter) ==
              iter = [s \in SUBSET DOMAIN seq |->
                        IF s = {} THEN base ELSE After(iter[s \ {Max(s)}], seq[Max(s)])]
            iter == CHOOSE f : Unrolls(f)
<1>1. \A a, x : Step(c, a, x) = After(a, x)
  BY DEF Step
<1>2. ProfileRounds(base, seq) = iter[DOMAIN seq]
  BY DEF ProfileRounds, FoldLeft, MapThenFoldSet
<1>. HIDE DEF After
<1>3. \E f : Unrolls(f)
  <2>1. PICK f : Unfolds(c, base, seq, DOMAIN seq, f)
    BY FoldingExists
  <2>2. \A s : Folded(c, base, seq, f, s) =
                  IF s = {} THEN base ELSE After(f[s \ {Max(s)}], seq[Max(s)])
    BY <1>1 DEF Folded
  <2>. QED
    BY <2>1, <2>2 DEF Unfolds
<1>4. Unrolls(iter)
  BY <1>3
<1>. HIDE DEF iter
<1>5. Unfolds(c, base, seq, DOMAIN seq, iter)
  BY <1>1, <1>4 DEF Unfolds, Folded
<1>. QED
  BY <1>2, <1>5, FoldKeeps

\* The fold over the patterns of a file.
LEMMA PatternFold ==
  ASSUME NEW c, c.step = "pattern", NEW base, NEW seq, IsSequence(seq), Kept(c, base),
         \A a : \A i \in DOMAIN seq : Kept(c, a) => Kept(c, Step(c, a, seq[i]))
  PROVE  Kept(c, PatternRound(c.r, c.path, base, seq))
<1>. DEFINE After(a, x) == DeclarePattern(c.r, c.path, a, x)
            Unrolls(iter) ==
              iter = [s \in SUBSET DOMAIN seq |->
                        IF s = {} THEN base ELSE After(iter[s \ {Max(s)}], seq[Max(s)])]
            iter == CHOOSE f : Unrolls(f)
<1>1. \A a, x : Step(c, a, x) = After(a, x)
  BY DEF Step
<1>2. PatternRound(c.r, c.path, base, seq) = iter[DOMAIN seq]
  BY DEF PatternRound, FoldLeft, MapThenFoldSet
<1>. HIDE DEF After
<1>3. \E f : Unrolls(f)
  <2>1. PICK f : Unfolds(c, base, seq, DOMAIN seq, f)
    BY FoldingExists
  <2>2. \A s : Folded(c, base, seq, f, s) =
                  IF s = {} THEN base ELSE After(f[s \ {Max(s)}], seq[Max(s)])
    BY <1>1 DEF Folded
  <2>. QED
    BY <2>1, <2>2 DEF Unfolds
<1>4. Unrolls(iter)
  BY <1>3
<1>. HIDE DEF iter
<1>5. Unfolds(c, base, seq, DOMAIN seq, iter)
  BY <1>1, <1>4 DEF Unfolds, Folded
<1>. QED
  BY <1>2, <1>5, FoldKeeps

\* The fold over the files of patterns.
LEMMA PatternsFold ==
  ASSUME NEW c, c.step = "patterns", NEW base, NEW seq, IsSequence(seq), Kept(c, base),
         \A a : \A i \in DOMAIN seq : Kept(c, a) => Kept(c, Step(c, a, seq[i]))
  PROVE  Kept(c, PatternRounds(c.r, base, seq))
<1>. DEFINE After(a, x) == ReadPatterns(c.r, a, x)
            Unrolls(iter) ==
              iter = [s \in SUBSET DOMAIN seq |->
                        IF s = {} THEN base ELSE After(iter[s \ {Max(s)}], seq[Max(s)])]
            iter == CHOOSE f : Unrolls(f)
<1>1. \A a, x : Step(c, a, x) = After(a, x)
  BY DEF Step
<1>2. PatternRounds(c.r, base, seq) = iter[DOMAIN seq]
  BY DEF PatternRounds, FoldLeft, MapThenFoldSet
<1>. HIDE DEF After
<1>3. \E f : Unrolls(f)
  <2>1. PICK f : Unfolds(c, base, seq, DOMAIN seq, f)
    BY FoldingExists
  <2>2. \A s : Folded(c, base, seq, f, s) =
                  IF s = {} THEN base ELSE After(f[s \ {Max(s)}], seq[Max(s)])
    BY <1>1 DEF Folded
  <2>. QED
    BY <2>1, <2>2 DEF Unfolds
<1>4. Unrolls(iter)
  BY <1>3
<1>. HIDE DEF iter
<1>5. Unfolds(c, base, seq, DOMAIN seq, iter)
  BY <1>1, <1>4 DEF Unfolds, Folded
<1>. QED
  BY <1>2, <1>5, FoldKeeps
-----------------------------------------------------------------------------
\* One more element at the end.
Extends(more, s, x) ==
    /\ IsSequence(more) /\ ToSet(more) = ToSet(s) \cup {x}
    /\ 1 \in DOMAIN s => 1 \in DOMAIN more /\ more[1] = s[1]

\* Appending does that.
LEMMA OneMore ==
  ASSUME NEW s, IsSequence(s), NEW x
  PROVE  Extends(Append(s, x), s, x)
<1>. DEFINE S == ToSet(s) \cup {x}
            more == Append(s, x)
<1>1. s \in Seq(S) /\ x \in S
  <2>1. Len(s) \in Nat /\ s \in [1 .. Len(s) -> ToSet(s)]
    BY LenProperties DEF IsSequence
  <2>2. s \in [1 .. Len(s) -> S]
    BY <2>1
  <2>. QED
    BY <2>1, <2>2, SeqDef
<1>2. x \in S
  OBVIOUS
<1>. HIDE DEF S
<1>3. /\ more \in Seq(S) /\ Len(more) = Len(s) + 1
      /\ \A i \in 1 .. Len(s) : more[i] = s[i]
      /\ more[Len(s) + 1] = x
  BY <1>1, <1>2, AppendProperties
<1>4. Len(s) \in Nat /\ DOMAIN s = 1 .. Len(s) /\ DOMAIN more = 1 .. Len(s) + 1
  BY <1>1, <1>3, LenProperties
<1>. HIDE DEF more
<1>5. IsSequence(more)
  BY <1>3, SequencesAre
<1>6. \A i \in DOMAIN s : i \in DOMAIN more /\ more[i] = s[i]
  BY <1>3, <1>4
<1>7. \A i \in DOMAIN more : i \in DOMAIN s \/ i = Len(s) + 1
  BY <1>4
<1>8. Len(s) + 1 \in DOMAIN more
  BY <1>4
<1>9. ToSet(more) = ToSet(s) \cup {x}
  BY <1>3, <1>6, <1>7, <1>8 DEF ToSet
<1>. QED
  BY <1>5, <1>6, <1>9 DEF more, Extends

\* A kind that is added, of a name that was free, descends from its parent.
LEMMA KindsGrow ==
  ASSUME NEW kinds, KindsHold(kinds), NEW parent \in DOMAIN kinds, NEW self,
         self \notin DOMAIN kinds, NEW new, Extends(new.lineage, kinds[parent].lineage, self)
  PROVE  /\ KindsHold(With(kinds, self, new))
         /\ DOMAIN With(kinds, self, new) = DOMAIN kinds \cup {self}
<1>. DEFINE more == With(kinds, self, new)
            line == kinds[parent].lineage
<1>1. DOMAIN more = DOMAIN kinds \cup {self} /\ more[self] = new
      /\ \A k \in DOMAIN kinds : more[k] = kinds[k]
  BY DEF With
<1>2. /\ 1 \in DOMAIN line /\ IsSequence(line)
      /\ \A m \in ToSet(line) : m \in DOMAIN kinds /\ kinds[m].lineage[1] = line[1]
  BY DEF KindsHold
<1>. HIDE DEF more
<1>3. /\ 1 \in DOMAIN new.lineage /\ IsSequence(new.lineage)
      /\ new.lineage[1] = line[1] /\ ToSet(new.lineage) = ToSet(line) \cup {self}
  BY <1>2 DEF Extends
<1>. HIDE DEF line
<1>4. \A m \in ToSet(new.lineage) : m \in DOMAIN more /\ more[m].lineage[1] = new.lineage[1]
  BY <1>1, <1>2, <1>3
<1>5. ASSUME NEW k \in DOMAIN kinds
      PROVE  /\ 1 \in DOMAIN more[k].lineage /\ IsSequence(more[k].lineage)
             /\ \A m \in ToSet(more[k].lineage) :
                   m \in DOMAIN more /\ more[m].lineage[1] = more[k].lineage[1]
  BY <1>1 DEF KindsHold
<1>6. KindsHold(more)
  BY <1>1, <1>3, <1>4, <1>5 DEF KindsHold
<1>. QED
  BY <1>1, <1>6 DEF more

\* Declaring a kind keeps what holds while a profile is resolved.
LEMMA DeclaredKindHolds ==
  ASSUME NEW c, c.identity \notin c.known, NEW a, NamingHolds(c, a), NEW k
  PROVE  NamingHolds(c, DeclareKind(c.identity, c.path, a, k))
<1>. DEFINE self == <<c.identity, k.id>>
            new == [aspect |-> a.kinds[k.parent].aspect,
                    lineage |-> Append(a.kinds[k.parent].lineage, self),
                    rigidity |-> k.rigidity]
            kinds == With(a.kinds, self, new)
            local == With(a.local, k.id, self)
<1>0. PICK after : after = DeclareKind(c.identity, c.path, a, k)
  OBVIOUS
<1>. SUFFICES NamingHolds(c, after)
  BY <1>0
<1>1. CASE \E d : after = [a EXCEPT !.diagnostics = d]
  BY <1>1 DEF NamingHolds
<1>2. CASE after = [a EXCEPT !.deferred = Append(@, k)]
  <2>1. IsSequence(after.deferred)
    BY <1>2, OneMore DEF NamingHolds, Extends
  <2>. QED
    BY <1>2, <2>1 DEF NamingHolds
<1>3. CASE /\ k.id \notin DOMAIN a.local /\ k.parent \in DOMAIN a.kinds
           /\ after = [a EXCEPT !.local = local, !.kinds = kinds]
  <2>1. self \notin DOMAIN a.kinds
    BY <1>3 DEF NamingHolds
  <2>2. KindsHold(kinds) /\ DOMAIN kinds = DOMAIN a.kinds \cup {self}
    <3>1. PICK K, parent : K = a.kinds /\ parent = k.parent
      OBVIOUS
    <3>2. KindsHold(K) /\ parent \in DOMAIN K /\ self \notin DOMAIN K
      BY <1>3, <2>1, <3>1 DEF NamingHolds
    <3>3. PICK s, n, line : s = self /\ n = new /\ line = K[parent].lineage
      OBVIOUS
    <3>4. IsSequence(line)
      BY <3>2, <3>3 DEF KindsHold
    <3>5. n.lineage = Append(line, s)
      BY Zenon, <3>1, <3>3
    <3>6. Extends(n.lineage, line, s)
      BY Zenon, <3>4, <3>5, OneMore
    <3>. HIDE DEF self, new
    <3>7. KindsHold(With(K, s, n)) /\ DOMAIN With(K, s, n) = DOMAIN K \cup {s}
      BY <3>2, <3>3, <3>6, KindsGrow
    <3>. QED
      BY <3>1, <3>3, <3>7
  <2>3. /\ DOMAIN local = DOMAIN a.local \cup {k.id} /\ local[k.id] = self
        /\ \A x \in DOMAIN a.local : local[x] = a.local[x] \/ local[x] = self
    BY DEF With
  <2>. HIDE DEF kinds, local, new
  <2>4. /\ DOMAIN after = DOMAIN a /\ after.local = local /\ after.kinds = kinds
        /\ after.deferred = a.deferred
    BY <1>3 DEF NamingHolds
  <2>5. \A m \in DOMAIN kinds :
            m[1] \in c.known \/ \E x \in DOMAIN local : m = <<c.identity, x>>
    BY <2>2, <2>3 DEF NamingHolds
  <2>6. \A x \in DOMAIN local : local[x] \in DOMAIN kinds
    BY <2>2, <2>3 DEF NamingHolds
  <2>7. c.kinds \subseteq DOMAIN kinds
    BY <2>2 DEF NamingHolds
  <2>. QED
    BY <2>2, <2>4, <2>5, <2>6, <2>7 DEF NamingHolds
<1>. QED
  <2>1. \/ \E d : after = [a EXCEPT !.diagnostics = d]
        \/ after = [a EXCEPT !.deferred = Append(@, k)]
        \/ /\ k.id \notin DOMAIN a.local /\ k.parent \in DOMAIN a.kinds
           /\ after = [a EXCEPT !.local = local, !.kinds = kinds]
    BY <1>0 DEF DeclareKind
  <2>. QED
    BY <1>1, <1>2, <1>3, <2>1

\* A fold while the profile that c names is resolved.
Naming(step, c) == [step |-> step, identity |-> c.identity, path |-> c.path, known |-> c.known,
                    kinds |-> c.kinds]

\* So does a round over the kinds that are deferred.
LEMMA KindRoundHolds ==
  ASSUME NEW c, c.identity \notin c.known, NEW a, NamingHolds(c, a)
  PROVE  NamingHolds(c, KindRound(c.identity, c.path, [a EXCEPT !.deferred = <<>>], a.deferred))
<1>0. PICK d : d = Naming("kind", c)
  OBVIOUS
<1>1. /\ d.step = "kind" /\ d.identity = c.identity /\ d.path = c.path
      /\ d.known = c.known /\ d.kinds = c.kinds
  BY <1>0 DEF Naming
<1>2. PICK base : base = [a EXCEPT !.deferred = <<>>]
  OBVIOUS
<1>3. IsSequence(<<>>)
  BY EmptySeq DEF IsSequence, ToSet
<1>4. NamingHolds(d, base)
  BY <1>1, <1>2, <1>3 DEF NamingHolds
<1>5. Kept(d, base)
  BY <1>1, <1>4 DEF Kept
<1>6. IsSequence(a.deferred)
  BY DEF NamingHolds
<1>7. ASSUME NEW b, NEW i \in DOMAIN a.deferred, Kept(d, b)
      PROVE  Kept(d, Step(d, b, a.deferred[i]))
  <2>1. Step(d, b, a.deferred[i]) = DeclareKind(d.identity, d.path, b, a.deferred[i])
    BY <1>1 DEF Step
  <2>2. NamingHolds(d, b)
    BY <1>1, <1>7 DEF Kept
  <2>3. NamingHolds(d, DeclareKind(d.identity, d.path, b, a.deferred[i]))
    BY <1>1, <2>2, DeclaredKindHolds
  <2>. QED
    BY <1>1, <2>1, <2>3 DEF Kept
<1>8. Kept(d, KindRound(d.identity, d.path, base, a.deferred))
  BY <1>1, <1>5, <1>6, <1>7, KindFold
<1>9. NamingHolds(d, KindRound(d.identity, d.path, base, a.deferred))
  BY <1>1, <1>8 DEF Kept
<1>. QED
  BY <1>1, <1>2, <1>9 DEF NamingHolds

\* So do all the rounds, and giving up on what is left.
LEMMA DeclaredKindsHold ==
  ASSUME NEW c, c.identity \notin c.known, NEW a, NamingHolds(c, a),
         NEW kinds, IsSequence(kinds)
  PROVE  NamingHolds(c, DeclareKinds(c.identity, c.path, a, kinds))
<1>0. PICK d : d = Naming("kinds", c)
  OBVIOUS
<1>1. /\ d.step = "kinds" /\ d.identity = c.identity /\ d.path = c.path
      /\ d.known = c.known /\ d.kinds = c.kinds
  BY <1>0 DEF Naming
<1>2. PICK base : base = [a EXCEPT !.deferred = kinds]
  OBVIOUS
<1>3. NamingHolds(d, base)
  BY <1>1, <1>2 DEF NamingHolds
<1>4. Kept(d, base)
  BY <1>1, <1>3 DEF Kept
<1>5. ASSUME NEW b, NEW i \in DOMAIN kinds, Kept(d, b)
      PROVE  Kept(d, Step(d, b, kinds[i]))
  <2>1. Step(d, b, kinds[i]) =
            KindRound(d.identity, d.path, [b EXCEPT !.deferred = <<>>], b.deferred)
    BY <1>1 DEF Step
  <2>2. NamingHolds(d, b)
    BY <1>1, <1>5 DEF Kept
  <2>3. NamingHolds(d, Step(d, b, kinds[i]))
    BY <1>1, <2>1, <2>2, KindRoundHolds
  <2>. QED
    BY <1>1, <2>3 DEF Kept
<1>6. PICK settled : settled = KindRounds(d.identity, d.path, base, kinds)
  OBVIOUS
<1>7. Kept(d, settled)
  BY <1>1, <1>4, <1>5, <1>6, KindsFold
<1>8. NamingHolds(d, settled)
  BY <1>1, <1>7 DEF Kept
<1>9. settled = KindRounds(c.identity, c.path, [a EXCEPT !.deferred = kinds], kinds)
  BY <1>1, <1>2, <1>6
<1>10. \E e : DeclareKinds(c.identity, c.path, a, kinds) = [settled EXCEPT !.diagnostics = e]
  <2>1. DeclareKinds(c.identity, c.path, a, kinds) =
          [KindRounds(c.identity, c.path, [a EXCEPT !.deferred = kinds], kinds)
              EXCEPT !.diagnostics = @ \cup
                 {Diagnostic("YM407", c.path, <<>>) : k \in
                    ToSet(KindRounds(c.identity, c.path,
                                     [a EXCEPT !.deferred = kinds], kinds).deferred)}]
    BY DEF DeclareKinds, KindRounds, KindRound
  <2>. QED
    BY <1>9, <2>1
<1>. QED
  BY <1>1, <1>8, <1>10 DEF NamingHolds
\* A kind of relationship adds no concept kind.
LEMMA DeclaredPolicyHolds ==
  ASSUME NEW c, NEW a, NamingHolds(c, a), NEW k
  PROVE  NamingHolds(c, DeclarePolicy(c.identity, c.path, a, k))
<1>1. PICK after : after = DeclarePolicy(c.identity, c.path, a, k)
  OBVIOUS
<1>2. \/ \E d : after = [a EXCEPT !.diagnostics = d]
      \/ \E e, p : after = [a EXCEPT !.edges = e, !.policies = p]
  BY <1>1 DEF DeclarePolicy
<1>3. NamingHolds(c, after)
  BY <1>2 DEF NamingHolds
<1>. QED
  BY <1>1, <1>3

\* Nor do all those of a profile.
LEMMA DeclaredPoliciesHold ==
  ASSUME NEW c, NEW a, NamingHolds(c, a), NEW kinds, IsSequence(kinds)
  PROVE  NamingHolds(c, PolicyRound(c.identity, c.path, a, kinds))
<1>0. PICK d : d = Naming("policy", c)
  OBVIOUS
<1>1. /\ d.step = "policy" /\ d.identity = c.identity /\ d.path = c.path
      /\ d.known = c.known /\ d.kinds = c.kinds
  BY <1>0 DEF Naming
<1>2. Kept(d, a)
  BY <1>1 DEF Kept, NamingHolds
<1>3. ASSUME NEW b, NEW i \in DOMAIN kinds, Kept(d, b)
      PROVE  Kept(d, Step(d, b, kinds[i]))
  <2>1. Step(d, b, kinds[i]) = DeclarePolicy(d.identity, d.path, b, kinds[i])
    BY <1>1 DEF Step
  <2>2. NamingHolds(d, b)
    BY <1>1, <1>3 DEF Kept
  <2>3. NamingHolds(d, Step(d, b, kinds[i]))
    BY <1>1, <2>1, <2>2, DeclaredPolicyHolds
  <2>. QED
    BY <1>1, <2>3 DEF Kept
<1>4. Kept(d, PolicyRound(d.identity, d.path, a, kinds))
  BY <1>1, <1>2, <1>3, PolicyFold
<1>5. NamingHolds(d, PolicyRound(c.identity, c.path, a, kinds))
  BY <1>1, <1>4 DEF Kept
<1>. QED
  BY <1>1, <1>5 DEF NamingHolds

\* What a round makes of a profile that is resolved whole.
Whole(r, p, full, lineage) ==
    [r EXCEPT !.kinds = full.kinds, !.policies = full.policies,
              !.diagnostics = full.diagnostics,
              !.profiles = With(@, p.value.identity,
                   [lineage |-> lineage, concepts |-> full.local, relationships |-> full.edges])]

\* A profile whose parent is there and whose name is free is resolved whole.
LEMMA ProfileIsNamed ==
  ASSUME NEW r, VocabularyHolds(r), NEW p, Lists(p),
         p.value.extends \in DOMAIN r.profiles, p.value.identity \notin DOMAIN r.profiles,
         NEW c, c.identity = p.value.identity, c.path = p.path,
         c.known = DOMAIN r.profiles, c.kinds = DOMAIN r.kinds
  PROVE  \E full, lineage :
            NamingHolds(c, full) /\ ResolveProfile(r, p) = Whole(r, p, full, lineage)
<1>. DEFINE parent == r.profiles[p.value.extends]
            start == [local |-> parent.concepts, edges |-> parent.relationships,
                      kinds |-> r.kinds, policies |-> r.policies,
                      deferred |-> <<>>, diagnostics |-> r.diagnostics]
            named == DeclareKinds(p.value.identity, p.path, start, p.value.concepts)
            full == PolicyRound(p.value.identity, p.path, named, p.value.relationships)
<1>1. NamingHolds(c, start)
  <2>1. IsSequence(<<>>)
    BY EmptySeq DEF IsSequence, ToSet
  <2>2. \A x \in DOMAIN parent.concepts : parent.concepts[x] \in DOMAIN r.kinds
    BY DEF VocabularyHolds
  <2>3. KindsHold(r.kinds) /\ \A k \in DOMAIN r.kinds : k[1] \in c.known
    BY DEF VocabularyHolds
  <2>. HIDE DEF parent
  <2>. QED
    BY <2>1, <2>2, <2>3 DEF NamingHolds
<1>. HIDE DEF start
<1>2. NamingHolds(c, named)
  <2>1. NamingHolds(c, DeclareKinds(c.identity, c.path, start, p.value.concepts))
    BY <1>1, DeclaredKindsHold DEF Lists
  <2>. QED
    BY <2>1
<1>. HIDE DEF named
<1>3. NamingHolds(c, full)
  <2>1. NamingHolds(c, PolicyRound(c.identity, c.path, named, p.value.relationships))
    BY <1>2, DeclaredPoliciesHold DEF Lists
  <2>. QED
    BY <2>1
<1>4. ResolveProfile(r, p) =
          [r EXCEPT !.kinds = full.kinds, !.policies = full.policies,
                    !.diagnostics = full.diagnostics,
                    !.profiles = With(@, p.value.identity,
                         [lineage |-> Append(parent.lineage, p.value.identity),
                          concepts |-> full.local, relationships |-> full.edges])]
  BY DEF ResolveProfile, PolicyRound, named, start
<1>. HIDE DEF full
<1>5. ResolveProfile(r, p) = Whole(r, p, full, Append(parent.lineage, p.value.identity))
  BY <1>4 DEF Whole
<1>. QED
  BY <1>3, <1>5

\* One profile of a round keeps what holds between two profiles.
LEMMA ResolvedProfileHolds ==
  ASSUME NEW r, VocabularyHolds(r), NEW p, Lists(p)
  PROVE  VocabularyHolds(ResolveProfile(r, p))
<1>0. PICK after : after = ResolveProfile(r, p)
  OBVIOUS
<1>. SUFFICES VocabularyHolds(after)
  BY <1>0
<1>1. CASE p.value.extends \notin DOMAIN r.profiles
  <2>1. after = [r EXCEPT !.pending = Append(@, p)]
    BY <1>0, <1>1 DEF ResolveProfile
  <2>2. PICK more : more = Append(r.pending, p)
    OBVIOUS
  <2>3. Extends(more, r.pending, p)
    BY <2>2, OneMore DEF VocabularyHolds
  <2>4. after = [r EXCEPT !.pending = more]
    BY <2>1, <2>2
  <2>5. IsSequence(more) /\ \A q \in ToSet(more) : Lists(q)
    BY <2>3 DEF Extends, VocabularyHolds
  <2>. QED
    BY <2>4, <2>5 DEF VocabularyHolds
<1>2. CASE p.value.extends \in DOMAIN r.profiles /\ p.value.identity \in DOMAIN r.profiles
  <2>1. \E d : after = [r EXCEPT !.diagnostics = d]
    BY <1>0, <1>2 DEF ResolveProfile
  <2>. QED
    BY <2>1 DEF VocabularyHolds
<1>3. CASE p.value.extends \in DOMAIN r.profiles /\ p.value.identity \notin DOMAIN r.profiles
  <2>1. PICK c : c = [identity |-> p.value.identity, path |-> p.path,
                      known |-> DOMAIN r.profiles, kinds |-> DOMAIN r.kinds]
    OBVIOUS
  <2>2. /\ c.identity = p.value.identity /\ c.path = p.path
        /\ c.known = DOMAIN r.profiles /\ c.kinds = DOMAIN r.kinds
    BY <2>1
  <2>3. PICK full, lineage : NamingHolds(c, full) /\ after = Whole(r, p, full, lineage)
    BY <1>0, <1>3, <2>2, ProfileIsNamed
  <2>4. PICK new : new = [lineage |-> lineage, concepts |-> full.local,
                          relationships |-> full.edges]
    OBVIOUS
  <2>5. PICK profiles : profiles = With(r.profiles, p.value.identity, new)
    OBVIOUS
  <2>6. /\ DOMAIN profiles = DOMAIN r.profiles \cup {p.value.identity}
        /\ \A q \in DOMAIN r.profiles : profiles[q] = r.profiles[q]
        /\ profiles[p.value.identity].concepts = full.local
    BY <1>3, <2>4, <2>5 DEF With
  <2>7. /\ DOMAIN after = DOMAIN r /\ after.kinds = full.kinds
        /\ after.profiles = profiles /\ after.pending = r.pending
    BY <2>3, <2>4, <2>5 DEF Whole, VocabularyHolds
  <2>8. \A q \in DOMAIN profiles : \A x \in DOMAIN profiles[q].concepts :
            profiles[q].concepts[x] \in DOMAIN full.kinds
    BY <2>2, <2>3, <2>6 DEF VocabularyHolds, NamingHolds
  <2>9. \A k \in DOMAIN full.kinds : k[1] \in DOMAIN profiles
    BY <2>2, <2>3, <2>6 DEF NamingHolds
  <2>10. KindsHold(full.kinds) /\ CoreKind("plateau") \in DOMAIN full.kinds
    BY <2>2, <2>3 DEF NamingHolds, VocabularyHolds
  <2>. QED
    BY <2>7, <2>8, <2>9, <2>10 DEF VocabularyHolds
<1>. QED
  BY <1>1, <1>2, <1>3
-----------------------------------------------------------------------------
\* A round over the pending profiles keeps what holds between two of them.
LEMMA ProfileRoundHolds ==
  ASSUME NEW r, VocabularyHolds(r)
  PROVE  VocabularyHolds(ProfileRound([r EXCEPT !.pending = <<>>], r.pending))
<1>0. PICK c : c = [step |-> "profile"]
  OBVIOUS
<1>1. c.step = "profile"
  BY <1>0
<1>2. PICK base : base = [r EXCEPT !.pending = <<>>]
  OBVIOUS
<1>3. IsSequence(<<>>) /\ ToSet(<<>>) = {}
  BY EmptySeq DEF IsSequence, ToSet
<1>4. VocabularyHolds(base)
  BY <1>2, <1>3 DEF VocabularyHolds
<1>5. Kept(c, base)
  BY <1>1, <1>4 DEF Kept
<1>6. IsSequence(r.pending) /\ \A i \in DOMAIN r.pending : Lists(r.pending[i])
  BY DEF VocabularyHolds, ToSet
<1>7. ASSUME NEW a, NEW i \in DOMAIN r.pending, Kept(c, a)
      PROVE  Kept(c, Step(c, a, r.pending[i]))
  <2>1. Step(c, a, r.pending[i]) = ResolveProfile(a, r.pending[i])
    BY <1>1 DEF Step
  <2>2. VocabularyHolds(a)
    BY <1>1, <1>7 DEF Kept
  <2>3. VocabularyHolds(ResolveProfile(a, r.pending[i]))
    BY <1>6, <2>2, ResolvedProfileHolds
  <2>. QED
    BY <1>1, <2>1, <2>3 DEF Kept
<1>8. Kept(c, ProfileRound(base, r.pending))
  BY <1>1, <1>5, <1>6, <1>7, ProfileFold
<1>. QED
  BY <1>1, <1>2, <1>8 DEF Kept

\* So do all the rounds.
LEMMA ProfileRoundsHold ==
  ASSUME NEW r, VocabularyHolds(r), NEW pending, IsSequence(pending)
  PROVE  VocabularyHolds(ProfileRounds(r, pending))
<1>0. PICK c : c = [step |-> "profiles"]
  OBVIOUS
<1>1. c.step = "profiles"
  BY <1>0
<1>2. Kept(c, r)
  BY <1>1 DEF Kept
<1>3. ASSUME NEW a, NEW i \in DOMAIN pending, Kept(c, a)
      PROVE  Kept(c, Step(c, a, pending[i]))
  <2>1. Step(c, a, pending[i]) = ProfileRound([a EXCEPT !.pending = <<>>], a.pending)
    BY <1>1 DEF Step
  <2>2. VocabularyHolds(a)
    BY <1>1, <1>3 DEF Kept
  <2>3. VocabularyHolds(Step(c, a, pending[i]))
    BY <2>1, <2>2, ProfileRoundHolds
  <2>. QED
    BY <1>1, <2>3 DEF Kept
<1>4. Kept(c, ProfileRounds(r, pending))
  BY <1>1, <1>2, <1>3, ProfilesFold
<1>. QED
  BY <1>1, <1>4 DEF Kept

\* Where the rounds start, with the kinds of the vocabulary itself.
Starting(pending, d) ==
    [profiles |-> CoreResolution.profiles, kinds |-> CoreResolution.kinds,
     policies |-> CoreResolution.policies, pending |-> pending, diagnostics |-> d]

\* They are kinds of one profile, and each descends from itself alone.
LEMMA CoreIsAVocabulary ==
  ASSUME NEW pending, IsSequence(pending), \A p \in ToSet(pending) : Lists(p), NEW d
  PROVE  VocabularyHolds(Starting(pending, d))
<1>. DEFINE start == Starting(pending, d)
<1>1. /\ DOMAIN start = {"profiles", "kinds", "policies", "pending", "diagnostics"}
      /\ start.pending = pending
      /\ start.profiles = CoreResolution.profiles /\ start.kinds = CoreResolution.kinds
  BY DEF Starting
<1>. HIDE DEF start
<1>2. /\ DOMAIN CoreResolution.kinds = {CoreKind(x) : x \in DOMAIN CoreConcepts}
      /\ \A k \in DOMAIN CoreResolution.kinds : CoreResolution.kinds[k].lineage = <<k>>
  BY DEF CoreResolution
<1>3. /\ DOMAIN CoreResolution.profiles = {CoreProfile}
      /\ CoreResolution.profiles[CoreProfile].concepts
            = [k \in DOMAIN CoreConcepts |-> CoreKind(k)]
  BY DEF CoreResolution
<1>4. KindsHold(CoreResolution.kinds)
  <2>1. PICK K : K = CoreResolution.kinds
    OBVIOUS
  <2>2. \A k \in DOMAIN K : K[k].lineage = <<k>>
    BY <1>2, <2>1
  <2>3. ASSUME NEW k \in DOMAIN K
        PROVE  /\ 1 \in DOMAIN K[k].lineage /\ IsSequence(K[k].lineage)
               /\ \A m \in ToSet(K[k].lineage) :
                     m \in DOMAIN K /\ K[m].lineage[1] = K[k].lineage[1]
    <3>1. PICK line : line = <<k>>
      OBVIOUS
    <3>2. IsSequence(line)
      BY <3>1, OneSegment
    <3>3. DOMAIN line = {1} /\ line[1] = k
      BY <3>1
    <3>4. ToSet(line) = {k}
      BY <3>3 DEF ToSet
    <3>5. K[k].lineage = line
      BY <2>2, <3>1
    <3>. QED
      BY <3>2, <3>3, <3>4, <3>5
  <2>4. KindsHold(K)
    BY <2>3 DEF KindsHold
  <2>. QED
    BY <2>1, <2>4
<1>5. CoreKind("plateau") \in DOMAIN CoreResolution.kinds
  BY <1>2, VocabularyAssumption
<1>6. \A q \in DOMAIN start.profiles : \A x \in DOMAIN start.profiles[q].concepts :
          start.profiles[q].concepts[x] \in DOMAIN start.kinds
  BY <1>1, <1>2, <1>3
<1>7. \A k \in DOMAIN start.kinds : k[1] \in DOMAIN start.profiles
  BY <1>1, <1>2, <1>3 DEF CoreKind
<1>8. VocabularyHolds(start)
  BY <1>1, <1>4, <1>5, <1>6, <1>7 DEF VocabularyHolds
<1>. QED
  BY <1>8 DEF start

\* Sources are well read when what is well formed among them holds what it should.
AllWellRead(S) == \A s \in S : s.wellFormed => WellRead(s.kind, s.value)

\* What a file that is there parses to is well read.
LEMMA SourcesAreWellRead ==
  ASSUME NEW f, FilesAre(f)
  PROVE  AllWellRead({SourceOf(f, p) : p \in Present(f)})
<1>1. ASSUME NEW p \in Present(f)
      PROVE  SourceOf(f, p).wellFormed => WellRead(SourceOf(f, p).kind, SourceOf(f, p).value)
  <2>1. p \in Paths /\ f[p] \in TextsOf[p] /\ f[p] # NoText
    BY DEF Present, FilesAre
  <2>2. f[p] \in DOMAIN Parse
    BY <2>1, SourcesAssumption DEF SourcesAssumption
  <2>3. Parse[f[p]].wellFormed => WellRead(Parse[f[p]].kind, Parse[f[p]].value)
    BY <2>2, SourcesAssumption DEF SourcesAssumption
  <2>. QED
    BY <2>3 DEF SourceOf
<1>. QED
  BY <1>1 DEF AllWellRead

\* The profiles that are pending declare lists.
LEMMA PendingAreListed ==
  ASSUME NEW S, AllWellRead(S), NEW sources \in Seq(S)
  PROVE  /\ IsSequence(PendingProfiles(sources))
         /\ \A p \in ToSet(PendingProfiles(sources)) : Lists(p)
<1>. DEFINE written == {s \in ToSet(SourcesOf(sources, "profile")) : s.wellFormed}
            declared == {t.value.identity : t \in written}
            requested == {d.value.profile :
                            d \in {s \in ToSet(SourcesOf(sources, "document")) :
                                    s.wellFormed}}
                         \cup {t.value.extends : t \in written}
            shipped == {[path |-> w, kind |-> "profile", wellFormed |-> TRUE,
                         value |-> ShippedProfiles[w]] :
                            w \in WantedShipped(requested, declared)
                                      \cap DOMAIN ShippedProfiles}
            All == written \cup shipped
            Named(i) == {p \in All : p.value.identity = Collation[i]}
            At2(i, j) == {p \in Named(i) : p.path = Collation[j]}
            Inner(i) == [j \in DOMAIN Collation |->
                            IF At2(i, j) = {} THEN <<>> ELSE <<CHOOSE p \in At2(i, j) : TRUE>>]
            Outer == [i \in DOMAIN Collation |->
                        IF Named(i) = {} THEN <<>> ELSE FlattenSeq(Inner(i))]
<1>1. PendingProfiles(sources) = FlattenSeq(Outer)
  BY DEF PendingProfiles
<1>2. \A p \in All : Lists(p)
  <2>1. ASSUME NEW p \in written
        PROVE  Lists(p)
    <3>1. SourcesOf(sources, "profile") \in Seq({s \in S : s.kind = "profile"})
      BY SourcesOfAKind
    <3>2. ToSet(SourcesOf(sources, "profile")) \subseteq {s \in S : s.kind = "profile"}
      BY <3>1, SequencesAre
    <3>3. p \in S /\ p.kind = "profile" /\ p.wellFormed
      BY <3>2
    <3>. QED
      BY <3>3 DEF AllWellRead, WellRead, Lists
  <2>2. ASSUME NEW p \in shipped
        PROVE  Lists(p)
    <3>1. PICK w \in DOMAIN ShippedProfiles :
              p = [path |-> w, kind |-> "profile", wellFormed |-> TRUE,
                   value |-> ShippedProfiles[w]]
      OBVIOUS
    <3>2. p.value = ShippedProfiles[w]
      BY <3>1
    <3>. QED
      BY <3>2, VocabularyAssumption DEF Lists
  <2>. QED
    BY <2>1, <2>2
<1>3. PICK n \in Nat : DOMAIN Collation = 1 .. n
  <2>1. Collation \in Seq(ToSet(Collation))
    BY VocabularyAssumption DEF IsSequence
  <2>2. Len(Collation) \in Nat /\ DOMAIN Collation = 1 .. Len(Collation)
    BY <2>1, SequencesAre
  <2>. QED
    BY <2>2
<1>. HIDE DEF All
<1>4. ASSUME NEW i \in 1 .. n
      PROVE  FlattenSeq(Inner(i)) \in Seq(All)
  <2>1. PICK inner : inner = Inner(i)
    OBVIOUS
  <2>2. DOMAIN inner = 1 .. n /\ inner = [j \in 1 .. n |-> inner[j]]
    BY <1>3, <2>1
  <2>3. \A j \in 1 .. n : inner[j] = <<>> \/ \E p \in All : inner[j] = <<p>>
    <3>1. ASSUME NEW j \in 1 .. n, At2(i, j) # {}
          PROVE  \E p \in All : inner[j] = <<p>>
      <4>1. inner[j] = <<CHOOSE p \in At2(i, j) : TRUE>>
        BY <1>3, <2>1, <3>1
      <4>2. (CHOOSE p \in At2(i, j) : TRUE) \in All
        BY <3>1
      <4>. QED
        BY <4>1, <4>2
    <3>. QED
      BY <1>3, <2>1, <3>1
  <2>4. FlattenSeq(inner) \in Seq(All)
    BY <2>2, <2>3, PickedInOrder
  <2>. QED
    BY <2>1, <2>4
<1>5. Outer \in Seq(Seq(All))
  <2>1. PICK outer : outer = Outer
    OBVIOUS
  <2>2. \A i \in 1 .. n : outer[i] \in Seq(All)
    <3>1. <<>> \in Seq(All)
      BY EmptySeq
    <3>. HIDE DEF Inner
    <3>. QED
      BY <1>3, <1>4, <2>1, <3>1
  <2>3. outer \in [1 .. n -> Seq(All)]
    <3>. HIDE DEF Inner, Named
    <3>1. DOMAIN outer = 1 .. n /\ outer = [i \in 1 .. n |-> outer[i]]
      BY <1>3, <2>1
    <3>. QED
      BY <2>2, <3>1
  <2>4. outer \in Seq(Seq(All))
    BY <1>3, <2>3, SeqDef
  <2>. QED
    BY <2>1, <2>4
<1>. HIDE DEF Outer
<1>6. FlattenSeq(Outer) \in Seq(All)
  BY <1>5, Flattened
<1>7. IsSequence(FlattenSeq(Outer)) /\ ToSet(FlattenSeq(Outer)) \subseteq All
  BY <1>6, SequencesAre
<1>. QED
  BY <1>1, <1>2, <1>7

\* What the profiles of a workspace resolve to is a vocabulary.
LEMMA ProfilesResolve ==
  ASSUME NEW S, AllWellRead(S), NEW sources \in Seq(S)
  PROVE  VocabularyHolds(ResolveProfiles(sources))
<1>1. PICK pending : pending = PendingProfiles(sources)
  OBVIOUS
<1>2. PICK d : d = {Diagnostic("YM201", s.path, <<>>) :
                      s \in {t \in ToSet(SourcesOf(sources, "profile")) : ~t.wellFormed}}
  OBVIOUS
<1>3. IsSequence(pending) /\ \A p \in ToSet(pending) : Lists(p)
  BY <1>1, PendingAreListed
<1>4. VocabularyHolds(Starting(pending, d))
  BY <1>3, CoreIsAVocabulary
<1>5. PICK settled : settled = ProfileRounds(Starting(pending, d), pending)
  OBVIOUS
<1>6. VocabularyHolds(settled)
  BY <1>3, <1>4, <1>5, ProfileRoundsHold
<1>7. \E e : ResolveProfiles(sources) = [settled EXCEPT !.diagnostics = e]
  BY <1>1, <1>2, <1>5 DEF ResolveProfiles, ProfileRounds, ProfileRound, Starting
<1>. QED
  BY <1>6, <1>7 DEF VocabularyHolds
-----------------------------------------------------------------------------
\* A pattern that is declared was not refused.
LEMMA DeclaredPatternHolds ==
  ASSUME NEW r, NEW path, NEW a, DOMAIN a = {"shapes", "diagnostics"}, ShapesHold(r, a.shapes),
         NEW p, IsSequence(p.wiring), NEW after, after = DeclarePattern(r, path, a, p)
  PROVE  DOMAIN after = {"shapes", "diagnostics"} /\ ShapesHold(r, after.shapes)
<1>1. CASE PatternFaults(r, a.shapes, p) # {}
  <2>1. \E d : after = [a EXCEPT !.diagnostics = d]
    BY <1>1 DEF DeclarePattern
  <2>. QED
    BY <2>1
<1>2. CASE PatternFaults(r, a.shapes, p) = {}
  <2>1. after = [a EXCEPT !.shapes = With(@, p.kind, p)]
    BY <1>2 DEF DeclarePattern
  <2>2. DOMAIN after = {"shapes", "diagnostics"} /\ after.shapes = With(a.shapes, p.kind, p)
    BY <2>1
  <2>3. p.kind \in DOMAIN r.kinds /\ p.kind \notin DOMAIN a.shapes
    BY <1>2 DEF PatternFaults
  <2>4. PartFaults(r, p) = {} /\ Self \notin SlotsOf(p) /\ WireFaults(r, p) = {}
    BY <1>2, <2>3 DEF PatternFaults
  <2>5. PICK more : more = With(a.shapes, p.kind, p)
    OBVIOUS
  <2>6. /\ DOMAIN more = DOMAIN a.shapes \cup {p.kind} /\ more[p.kind] = p
        /\ \A k \in DOMAIN a.shapes : more[k] = a.shapes[k]
    BY <2>3, <2>5 DEF With
  <2>7. ShapesHold(r, more)
    BY <2>3, <2>4, <2>6 DEF ShapesHold
  <2>. QED
    BY <2>2, <2>5, <2>7
<1>. QED
  BY <1>1, <1>2

\* So it is after all those of a file.
LEMMA ReadPatternsHold ==
  ASSUME NEW r, NEW a, DOMAIN a = {"shapes", "diagnostics"}, ShapesHold(r, a.shapes),
         NEW s, s.wellFormed => WellRead("pattern", s.value), NEW after, after = ReadPatterns(r, a, s)
  PROVE  DOMAIN after = {"shapes", "diagnostics"} /\ ShapesHold(r, after.shapes)
<1>1. CASE ~s.wellFormed
  <2>1. \E d : after = [a EXCEPT !.diagnostics = d]
    BY <1>1 DEF ReadPatterns
  <2>. QED
    BY <2>1
<1>2. CASE s.wellFormed
  <2>0. PICK c : c = [step |-> "pattern", r |-> r, path |-> s.path]
    OBVIOUS
  <2>1. c.step = "pattern" /\ c.r = r /\ c.path = s.path
    BY <2>0
  <2>2. Kept(c, a)
    BY <2>1 DEF Kept
  <2>3. ASSUME NEW b, NEW i \in DOMAIN s.value, Kept(c, b)
        PROVE  Kept(c, Step(c, b, s.value[i]))
    <3>1. Step(c, b, s.value[i]) = DeclarePattern(c.r, c.path, b, s.value[i])
      BY <2>1 DEF Step
    <3>2. DOMAIN b = {"shapes", "diagnostics"} /\ ShapesHold(r, b.shapes)
      BY <2>1, <2>3 DEF Kept
    <3>3. PICK next : next = DeclarePattern(r, c.path, b, s.value[i])
      OBVIOUS
    <3>4. DOMAIN next = {"shapes", "diagnostics"} /\ ShapesHold(r, next.shapes)
      <4>1. PICK p : p = s.value[i]
        OBVIOUS
      <4>2. IsSequence(p.wiring)
        BY <1>2, <4>1 DEF WellRead, ToSet
      <4>3. next = DeclarePattern(r, c.path, b, p)
        BY <3>3, <4>1
      <4>. QED
        BY <3>2, <4>2, <4>3, DeclaredPatternHolds
    <3>5. Kept(c, next)
      BY <2>1, <3>4 DEF Kept
    <3>. QED
      BY <2>1, <3>1, <3>3, <3>5
  <2>4. Kept(c, PatternRound(c.r, c.path, a, s.value))
    <3>1. IsSequence(s.value)
      BY <1>2 DEF WellRead
    <3>. QED
      BY <3>1, <2>1, <2>2, <2>3, PatternFold
  <2>5. after = PatternRound(c.r, c.path, a, s.value)
    <3>1. after = PatternRound(r, s.path, a, s.value)
      BY <1>2 DEF ReadPatterns, PatternRound
    <3>. QED
      BY <2>1, <3>1
  <2>6. Kept(c, after)
    BY <2>4, <2>5
  <2>. QED
    BY <2>1, <2>6 DEF Kept
<1>. QED
  BY <1>1, <1>2

\* The patterns of a workspace were all looked at, and none of them refused.
LEMMA PatternsResolve ==
  ASSUME NEW S, AllWellRead(S), NEW sources \in Seq(S), NEW r
  PROVE  ShapesHold(r, ResolvePatterns(r, sources).shapes)
<1>0. PICK c : c = [step |-> "patterns", r |-> r]
  OBVIOUS
<1>1. c.step = "patterns" /\ c.r = r
  BY <1>0
<1>2. PICK base : base = [shapes |-> <<>>, diagnostics |-> {}]
  OBVIOUS
<1>3. DOMAIN base = {"shapes", "diagnostics"} /\ ShapesHold(r, base.shapes)
  BY <1>2 DEF ShapesHold
<1>4. Kept(c, base)
  BY <1>1, <1>3 DEF Kept
<1>5. PICK seq : seq = SourcesOf(sources, "pattern")
  OBVIOUS
<1>6. IsSequence(seq) /\ ToSet(seq) \subseteq {s \in S : s.kind = "pattern"}
  <2>1. PICK T : T = {s \in S : s.kind = "pattern"}
    OBVIOUS
  <2>2. seq \in Seq(T)
    BY <1>5, <2>1, SourcesOfAKind
  <2>. QED
    BY <2>1, <2>2, SequencesAre
<1>7. ASSUME NEW a, NEW i \in DOMAIN seq, Kept(c, a)
      PROVE  Kept(c, Step(c, a, seq[i]))
  <2>1. PICK s : s = seq[i]
    OBVIOUS
  <2>2. s \in S /\ s.kind = "pattern"
    BY <1>6, <2>1 DEF ToSet
  <2>3. s.wellFormed => WellRead("pattern", s.value)
    BY <2>2 DEF AllWellRead
  <2>4. PICK after : after = ReadPatterns(r, a, s)
    OBVIOUS
  <2>5. DOMAIN a = {"shapes", "diagnostics"} /\ ShapesHold(r, a.shapes)
    BY <1>1, <1>7 DEF Kept
  <2>6. DOMAIN after = {"shapes", "diagnostics"} /\ ShapesHold(r, after.shapes)
    BY <2>3, <2>4, <2>5, ReadPatternsHold
  <2>7. Step(c, a, seq[i]) = after
    BY <1>1, <2>1, <2>4 DEF Step
  <2>8. Kept(c, after)
    BY <1>1, <2>6 DEF Kept
  <2>. QED
    BY <2>7, <2>8
<1>8. Kept(c, PatternRounds(c.r, base, seq))
  BY <1>1, <1>4, <1>6, <1>7, PatternsFold
<1>9. ResolvePatterns(r, sources) = PatternRounds(c.r, base, seq)
  BY <1>1, <1>2, <1>5 DEF ResolvePatterns, PatternRounds
<1>10. Kept(c, ResolvePatterns(r, sources))
  BY <1>8, <1>9
<1>. QED
  BY <1>1, <1>10 DEF Kept
-----------------------------------------------------------------------------
\* A workspace no fault was found in, under the vocabulary and the shapes it resolved.
Permissible(w) == Faultless(w) /\ VocabularyHolds(w.r) /\ ShapesHold(w.r, w.shapes)

\* What KindIn looks for.
StatesKind(c) == c.predicate = <<"concept", "kind">> /\ c.object[1] = "value"

\* The claim that states the kind of a subject.
KindClaim(id, kind) == Claim(id, <<"kind">>, <<"concept", "kind">>, Val(kind))

\* No claim about the text, the references or the presence of an item is one.
LEMMA ItemClaimsStateNoKind ==
  ASSUME NEW item, NEW c \in TextClaims(item) \cup ReferenceClaims(item) \cup PresenceClaims(item)
  PROVE  ~StatesKind(c)
<1>1. ASSUME StatesKind(c)
      PROVE  c.predicate[1] = "concept"
  BY <1>1 DEF StatesKind
<1>2. c \in TextClaims(item) => \E f : c.predicate = <<"text", f>>
  <2>1. ASSUME c \in TextClaims(item)
        PROVE  \E s, p, f, o : c = Claim(s, p, <<"text", f>>, o)
    BY <2>1 DEF TextClaims
  <2>. QED
    BY <2>1 DEF Claim
<1>3. c \in ReferenceClaims(item) => c.predicate[1] = "reference"
  BY DEF ReferenceClaims, Claim
<1>4. c \in PresenceClaims(item) => c.predicate[1] = "state"
  BY DEF PresenceClaims, Claim
<1>. QED
  BY <1>1, <1>2, <1>3, <1>4

\* Of a state, one claim is.
LEMMA StateClaimsStateItsKind ==
  ASSUME NEW e, NEW c \in StateClaims(e), StatesKind(c)
  PROVE  c = KindClaim(e.item.id, CoreKind("plateau"))
<1>1. c.predicate[1] = "concept"
  BY DEF StatesKind
<1>2. c \notin TextClaims(e.item)
  BY ItemClaimsStateNoKind
<1>3. \/ c = KindClaim(e.item.id, CoreKind("plateau"))
      \/ c.predicate = <<"state", "type">>
      \/ c.predicate = <<"state", "after">>
  BY <1>2 DEF StateClaims, Claim, KindClaim
<1>. QED
  BY <1>1, <1>3

\* Of a concept, one claim is.
LEMMA ConceptClaimsStateItsKind ==
  ASSUME NEW w, NEW e, NEW c \in ConceptClaims(w, e), StatesKind(c)
  PROVE  c = KindClaim(e.item.id, KindIdentity(w, e))
<1>1. c.predicate[1] = "concept" /\ c.predicate[2] = "kind"
  BY DEF StatesKind
<1>2. c \notin TextClaims(e.item) \cup ReferenceClaims(e.item) \cup PresenceClaims(e.item)
  BY ItemClaimsStateNoKind
<1>3. c \in SuccessionClaims(e.item) => c.predicate[1] = "lineage"
  <2>1. ASSUME c \in SuccessionClaims(e.item)
        PROVE  \E s, p, x, o : c = Claim(s, p, <<"lineage", x>>, o)
    BY <2>1 DEF SuccessionClaims
  <2>. QED
    BY <2>1 DEF Claim
<1>4. c \in ConstraintClaims(e.item) => c.predicate[1] = "constraint"
  BY DEF ConstraintClaims, Claim
<1>5. \/ c = KindClaim(e.item.id, KindIdentity(w, e))
      \/ c.predicate = <<"concept", "alias">>
      \/ c.predicate = <<"identity", "distinct-from">>
      \/ c \in SuccessionClaims(e.item)
      \/ c.predicate = <<"ownership", "owner">>
      \/ c \in ConstraintClaims(e.item)
      \/ \E topic : c.predicate = <<"attestation", topic>>
  <2>1. CASE \E s, p, o : \/ c = Claim(s, p, <<"concept", "alias">>, o)
                           \/ c = Claim(s, p, <<"identity", "distinct-from">>, o)
                           \/ c = Claim(s, p, <<"ownership", "owner">>, o)
                           \/ \E topic : c = Claim(s, p, <<"attestation", topic>>, o)
    BY <2>1 DEF Claim
  <2>2. CASE \/ c = KindClaim(e.item.id, KindIdentity(w, e))
             \/ c \in SuccessionClaims(e.item) \cup ConstraintClaims(e.item)
    BY <2>2
  <2>. QED
    BY <1>2, <2>1, <2>2 DEF ConceptClaims, KindClaim
<1>. QED
  BY <1>1, <1>3, <1>4, <1>5

\* Of a relationship, none is: what it is called is the predicate of its own claim.
LEMMA EdgesStateNoKind ==
  ASSUME NEW edge
  PROVE  ~StatesKind(EdgeClaim(edge))
BY DEF EdgeClaim, StatesKind, Claim, Ref

\* The kind a declaration gives its subject.
DeclaredKind(w, id, kind) ==
    \/ \E e \in ToSet(w.concepts) : e.item.id = id /\ kind = KindIdentity(w, e)
    \/ \E e \in ToSet(w.states) : e.item.id = id /\ kind = CoreKind("plateau")

\* A subject has one.
LEMMA DeclaredKindIsOne ==
  ASSUME NEW w, Faultless(w), NEW id, NEW kind, NEW other,
         DeclaredKind(w, id, kind), DeclaredKind(w, id, other)
  PROVE  kind = other
<1>1. Clean(w)
  BY NoFaultAnywhere
<1>2. w.states = Items(w.documents, "states") /\ w.concepts = Items(w.documents, "concepts")
  BY DEF Faultless
<1>3. \A e, f \in ToSet(w.concepts) : e.item.id = f.item.id => e = f
  BY <1>1, <1>2, OneDeclarationEach DEF Sorts
<1>4. \A e \in ToSet(w.concepts) : \A f \in ToSet(w.states) : e.item.id # f.item.id
  BY <1>1, <1>2, OneDeclarationEach DEF Sorts
<1>. QED
  BY <1>3, <1>4 DEF DeclaredKind

\* It is the kind the instances of patterns are judged by.
LEMMA KindsAreDeclared ==
  ASSUME NEW w, Faultless(w), NEW id, NEW kind, DeclaredKind(w, id, kind)
  PROVE  KindOfSubject(w, id) = kind
<1>1. Checked(w, w.states) = ToSet(w.states) /\ Checked(w, w.concepts) = ToSet(w.concepts)
  BY NoFaultAnywhere, EverythingIsChecked
<1>2. DeclaredKind(w, id, KindOfSubject(w, id))
  BY <1>1 DEF DeclaredKind, KindOfSubject
<1>. QED
  BY <1>2, DeclaredKindIsOne

\* And the kind the graph states.
LEMMA KindsAreStated ==
  ASSUME NEW w, Faultless(w), NEW id, NEW kind, DeclaredKind(w, id, kind)
  PROVE  KindIn(Compiled(w), id) = kind
<1>. DEFINE claims == Graph(w, GraphEdges(w)).claims
            stating == {c \in claims : c.subject = id /\ StatesKind(c)}
<1>1. claims = (UNION {StateClaims(e) : e \in ToSet(w.states)})
               \cup (UNION {ConceptClaims(w, e) : e \in ToSet(w.concepts)})
               \cup (UNION {RelationshipClaims(e) : e \in ToSet(w.relationships)})
               \cup {EdgeClaim(x) : x \in GraphEdges(w)}
  BY DEF Graph
<1>. HIDE DEF claims
<1>2. ASSUME NEW c \in stating
      PROVE  \E k : DeclaredKind(w, id, k) /\ c = KindClaim(id, k)
  <2>1. CASE \E e \in ToSet(w.states) : c \in StateClaims(e)
    <3>1. PICK e \in ToSet(w.states) : c \in StateClaims(e)
      BY <2>1
    <3>2. c = KindClaim(e.item.id, CoreKind("plateau"))
      BY <3>1, StateClaimsStateItsKind
    <3>3. e.item.id = id
      BY <3>2 DEF KindClaim, Claim
    <3>. QED
      BY <3>2, <3>3 DEF DeclaredKind
  <2>2. CASE \E e \in ToSet(w.concepts) : c \in ConceptClaims(w, e)
    <3>1. PICK e \in ToSet(w.concepts) : c \in ConceptClaims(w, e)
      BY <2>2
    <3>2. c = KindClaim(e.item.id, KindIdentity(w, e))
      BY <3>1, ConceptClaimsStateItsKind
    <3>3. e.item.id = id
      BY <3>2 DEF KindClaim, Claim
    <3>. QED
      BY <3>2, <3>3 DEF DeclaredKind
  <2>3. ~ \E e \in ToSet(w.relationships) : c \in RelationshipClaims(e)
    BY ItemClaimsStateNoKind DEF RelationshipClaims
  <2>4. ~ \E x \in GraphEdges(w) : c = EdgeClaim(x)
    BY EdgesStateNoKind
  <2>. QED
    BY <1>1, <2>1, <2>2, <2>3, <2>4
<1>3. stating # {}
  <2>1. CASE \E e \in ToSet(w.concepts) : e.item.id = id
    <3>1. PICK e \in ToSet(w.concepts) : e.item.id = id
      BY <2>1
    <3>2. KindClaim(id, KindIdentity(w, e)) \in ConceptClaims(w, e)
      BY <3>1 DEF ConceptClaims, KindClaim
    <3>3. KindClaim(id, KindIdentity(w, e)) \in stating
      BY <1>1, <3>2 DEF KindClaim, StatesKind, Claim, Val
    <3>. QED
      BY <3>3
  <2>2. CASE \E e \in ToSet(w.states) : e.item.id = id
    <3>1. PICK e \in ToSet(w.states) : e.item.id = id
      BY <2>2
    <3>2. KindClaim(id, CoreKind("plateau")) \in StateClaims(e)
      BY <3>1 DEF StateClaims, KindClaim
    <3>3. KindClaim(id, CoreKind("plateau")) \in stating
      BY <1>1, <3>2 DEF KindClaim, StatesKind, Claim, Val
    <3>. QED
      BY <3>3
  <2>. QED
    BY <2>1, <2>2 DEF DeclaredKind
<1>4. PICK c : c = CHOOSE x \in claims : /\ x.subject = id /\ x.predicate = <<"concept", "kind">>
                                         /\ x.object[1] = "value"
  OBVIOUS
<1>5. c \in stating
  BY <1>3, <1>4 DEF StatesKind
<1>6. c = KindClaim(id, kind)
  BY <1>2, <1>5, DeclaredKindIsOne
<1>7. KindIn(Compiled(w), id) = c.object[2]
  BY <1>4 DEF KindIn, Compiled, claims
<1>8. c.object[2] = kind
  BY <1>6 DEF KindClaim, Claim, Val
<1>. QED
  BY <1>7, <1>8

\* A declared kind is one of the vocabulary's.
LEMMA DeclaredKindsResolve ==
  ASSUME NEW w, Permissible(w), NEW id, NEW kind, DeclaredKind(w, id, kind)
  PROVE  kind \in DOMAIN w.r.kinds
<1>1. ASSUME NEW e \in ToSet(w.concepts)
      PROVE  KnownKind(w, e)
  <2>1. ConceptFaults(w, e) = {}
    BY NoFaultAnywhere, EverythingIsChecked DEF Permissible
  <2>. QED
    BY <2>1 DEF ConceptFaults, When
<1>2. \A e \in ToSet(w.concepts) : KindIdentity(w, e) \in DOMAIN w.r.kinds
  BY <1>1 DEF KindIdentity, KnownKind, Permissible, VocabularyHolds
<1>3. CoreKind("plateau") \in DOMAIN w.r.kinds
  BY DEF Permissible, VocabularyHolds
<1>. QED
  BY <1>2, <1>3 DEF DeclaredKind

\* What the table says of an edge, by the kinds its ends are declared with.
Permitted(w, edge) ==
    w.r.policies[edge.predicate].coreKind \in
        permittedBetween(w.r, KindOfSubject(w, edge.from), KindOfSubject(w, edge.to))

\* The last of some declarations of an identifier is a declaration of it.
LEMMA LastDeclared ==
  ASSUME NEW w, Faultless(w), NEW id \in ConceptIds(w)
  PROVE  ConceptOf(w, id) \in ToSet(w.concepts) /\ ConceptOf(w, id).item.id = id
<1>. DEFINE S == w.concepts
            n == Len(S)
            I == {i \in 1 .. n : S[i].item.id = id}
<1>1. n \in Nat /\ DOMAIN S = 1 .. n
  <2>1. IsSequence(S)
    BY ItemsAre DEF Faultless, Sorts
  <2>. QED
    BY <2>1, SequencesAre DEF IsSequence
<1>2. PICK first \in 1 .. n : S[first].item.id = id
  BY <1>1 DEF ConceptIds, Ids, ToSet
<1>3. PICK m : m \in I /\ \A i \in I : m >= i
  <2>. DEFINE J == {k \in 0 .. n : n - k \in I}
  <2>1. J \in SUBSET Nat /\ n - first \in J
    BY <1>1, <1>2
  <2>. HIDE DEF J
  <2>2. PICK k \in J : \A l \in J : k <= l
    BY <2>1, FewestOf
  <2>3. k \in 0 .. n /\ n - k \in I
    BY <2>2 DEF J
  <2>4. ASSUME NEW i \in I PROVE n - k >= i
    <3>1. i \in 1 .. n
      OBVIOUS
    <3>2. n - i \in 0 .. n /\ n - (n - i) = i
      BY <1>1, <3>1
    <3>3. n - i \in J
      BY <3>2 DEF J
    <3>4. k <= n - i
      BY <2>2, <3>3
    <3>. QED
      BY <1>1, <2>3, <3>1, <3>4
  <2>. QED
    BY <2>3, <2>4
<1>4. Max(I) \in I
  BY <1>3 DEF Max
<1>5. SelectLastInSeq(S, LAMBDA e : e.item.id = id) = Max(I)
  BY <1>3 DEF SelectLastInSeq
<1>6. ConceptOf(w, id) = S[Max(I)]
  BY <1>5 DEF ConceptOf
<1>. HIDE DEF I
<1>7. Max(I) \in 1 .. n /\ S[Max(I)].item.id = id
  BY <1>4 DEF I
<1>. QED
  BY <1>1, <1>6, <1>7 DEF ToSet

\* So a reference that resolves has the kind its subject is declared with.
LEMMA ReferencesHaveKinds ==
  ASSUME NEW w, Permissible(w), NEW id \in ConceptIds(w)
  PROVE  /\ Resolves(w, id)
         /\ ResolvedKind(w, id) = w.r.kinds[KindOfSubject(w, id)]
<1>1. Faultless(w)
  BY DEF Permissible
<1>2. PICK e : e = ConceptOf(w, id)
  OBVIOUS
<1>3. e \in ToSet(w.concepts) /\ e.item.id = id
  BY <1>1, <1>2, LastDeclared
<1>4. ConceptFaults(w, e) = {}
  BY <1>1, <1>3, NoFaultAnywhere, EverythingIsChecked
<1>5. KnownKind(w, e)
  BY <1>4 DEF ConceptFaults, When
<1>6. DeclaredKind(w, id, KindIdentity(w, e))
  BY <1>3 DEF DeclaredKind
<1>7. KindOfSubject(w, id) = KindIdentity(w, e)
  BY <1>1, <1>6, KindsAreDeclared
<1>. QED
  BY <1>2, <1>5, <1>7 DEF Resolves, ResolvedKind

\* What an author wrote, the table permits.
LEMMA AuthoredArePermitted ==
  ASSUME NEW w, Permissible(w), NEW edge \in AuthoredEdges(w)
  PROVE  Permitted(w, edge)
<1>1. Faultless(w)
  BY DEF Permissible
<1>2. PICK e \in Checked(w, w.relationships) :
          edge = Edge(e.item.id, e.item.from,
                      IF KnownPolicy(w, e) THEN PolicyIdentity(w, e) ELSE <<e.item.kind>>,
                      e.item.to)
  BY DEF AuthoredEdges
<1>3. RelationshipFaults(w, e) = {} /\ EndpointFaults(w, e) = {}
  BY <1>1, NoFaultAnywhere
<1>4. KnownPolicy(w, e) /\ {e.item.from, e.item.to} \subseteq ConceptIds(w)
  BY <1>3 DEF RelationshipFaults, When
<1>5. /\ edge.from = e.item.from /\ edge.to = e.item.to
      /\ edge.predicate = PolicyIdentity(w, e)
  BY <1>2, <1>4 DEF Edge
<1>6. /\ Resolves(w, e.item.from) /\ Resolves(w, e.item.to)
      /\ ResolvedKind(w, e.item.from) = w.r.kinds[KindOfSubject(w, e.item.from)]
      /\ ResolvedKind(w, e.item.to) = w.r.kinds[KindOfSubject(w, e.item.to)]
  BY <1>4, ReferencesHaveKinds
<1>7. Policy(w, e).coreKind \in
          Permits[<<CoreOf(ResolvedKind(w, e.item.from)), CoreOf(ResolvedKind(w, e.item.to))>>]
  BY <1>3, <1>4, <1>6 DEF EndpointFaults, When
<1>. QED
  BY <1>5, <1>6, <1>7 DEF Permitted, Policy, permittedBetween, CoreOf
\* A wire of a pattern is one the table permits between the kinds of its ends.
LEMMA ShapesWirePermitted ==
  ASSUME NEW r, NEW shapes, ShapesHold(r, shapes), NEW k \in DOMAIN shapes,
         NEW wire \in ToSet(shapes[k].wiring)
  PROVE  /\ {wire.from, wire.to} \subseteq SlotsOf(shapes[k]) \cup {Self}
         /\ r.policies[wire.kind].coreKind \in
                permittedBetween(r, KindOfEndpoint(shapes[k], wire.from),
                                    KindOfEndpoint(shapes[k], wire.to))
<1>1. PICK p : p = shapes[k]
  OBVIOUS
<1>2. WireFaults(r, p) = {} /\ IsSequence(p.wiring)
  BY <1>1 DEF ShapesHold
<1>3. Len(p.wiring) \in Nat /\ DOMAIN p.wiring = 1 .. Len(p.wiring)
  BY <1>2, SequencesAre DEF IsSequence
<1>. DEFINE I == {i \in DOMAIN p.wiring : p.wiring[i] = wire}
<1>4. I \in SUBSET Nat /\ I # {}
  BY <1>1, <1>3 DEF ToSet
<1>5. PICK i \in I : \A j \in I : i <= j
  <2>. HIDE DEF I
  <2>. QED
    BY <1>4, FewestOf
<1>6. i \in DOMAIN p.wiring /\ p.wiring[i] = wire
  OBVIOUS
<1>7. ~ \E j \in 1 .. i - 1 : p.wiring[j] = p.wiring[i]
  BY <1>3, <1>5, <1>6
<1>8. /\ {wire.from, wire.to} \subseteq SlotsOf(p) \cup {Self}
      /\ wire.kind \in DOMAIN r.policies
      /\ r.policies[wire.kind].coreKind \in
             permittedBetween(r, KindOfEndpoint(p, wire.from), KindOfEndpoint(p, wire.to))
  <2>. HIDE DEF I
  <2>1. {wire.from, wire.to} \subseteq SlotsOf(p) \cup {Self}
    <3>1. "YM302" \notin WireFaults(r, p)
      BY <1>2
    <3>. QED
      BY <1>6, <3>1 DEF WireFaults
  <2>2. wire.kind \in DOMAIN r.policies
    <3>1. "YM402" \notin WireFaults(r, p)
      BY <1>2
    <3>. QED
      BY <1>6, <3>1 DEF WireFaults
  <2>3. r.policies[wire.kind].coreKind \in
            permittedBetween(r, KindOfEndpoint(p, wire.from), KindOfEndpoint(p, wire.to))
    <3>1. "YM404" \notin WireFaults(r, p)
      BY <1>2
    <3>. QED
      BY <1>6, <1>7, <2>1, <2>2, <3>1 DEF WireFaults
  <2>. QED
    BY <2>1, <2>2, <2>3
<1>. QED
  BY <1>1, <1>8

\* What is bound to an end descends from the core kind of that end.
LEMMA BoundKindsFit ==
  ASSUME NEW w, Permissible(w), NEW n \in Instances(w), NEW endpoint,
         endpoint \in SlotsOf(n.shape) \cup {Self}, NEW id \in EndsOf(n, endpoint)
  PROVE  w.r.kinds[KindOfSubject(w, id)].lineage[1]
            = w.r.kinds[KindOfEndpoint(n.shape, endpoint)].lineage[1]
<1>1. PICK e \in Checked(w, w.concepts) :
          /\ HasShape(w, e)
          /\ n = [id |-> e.item.id, path |-> e.path, shape |-> ShapeOf(w, e),
                  bindings |-> BoundParts(w, e)]
  BY DEF Instances
<1>2. n.id = e.item.id /\ n.shape = ShapeOf(w, e)
  BY <1>1
<1>3. Faultless(w)
  BY DEF Permissible
<1>4. CASE endpoint = Self
  <2>1. e \in ToSet(w.concepts)
    BY DEF Checked
  <2>2. DeclaredKind(w, id, KindIdentity(w, e))
    BY <1>2, <1>4, <2>1 DEF EndsOf, DeclaredKind
  <2>3. KindOfSubject(w, id) = KindIdentity(w, e)
    BY <1>3, <2>2, KindsAreDeclared
  <2>4. n.shape.kind = KindIdentity(w, e)
    BY <1>1, <1>2 DEF Permissible, ShapesHold, HasShape, ShapeOf
  <2>. QED
    BY <1>4, <2>3, <2>4 DEF KindOfEndpoint
<1>5. CASE endpoint # Self
  <2>1. PICK p \in ToSet(n.bindings) : p.slot = endpoint /\ p.to = id
    BY <1>5 DEF EndsOf, Bound
  <2>2. PICK i \in DOMAIN n.bindings : n.bindings[i] = p
    BY DEF ToSet
  <2>3. BindingFaults(w, n) = {}
    BY <1>3, NoFaultAnywhere
  <2>4. PICK slot, actual : slot = SlotNamed(n.shape, endpoint) /\ actual = KindOfSubject(w, id)
    OBVIOUS
  <2>5. Admits(w.r, slot, actual)
    BY <2>1, <2>2, <2>3, <2>4 DEF BindingFaults
  <2>6. w.r.kinds[actual].lineage[1] = w.r.kinds[slot.kind].lineage[1]
    <3>1. KindsHold(w.r.kinds)
      BY DEF Permissible, VocabularyHolds
    <3>. QED
      BY <2>5, <3>1 DEF Admits, KindsHold
  <2>. QED
    BY <1>5, <2>4, <2>6 DEF KindOfEndpoint
<1>. QED
  BY <1>4, <1>5

\* So what the wiring mints is permitted, however it is bound.
LEMMA WiresArePermitted ==
  ASSUME NEW w, Permissible(w), NEW wire \in AllWires(w)
  PROVE  Permitted(w, wire)
<1>1. PICK n \in Instances(w) : \E x \in ToSet(n.shape.wiring) :
          /\ wire.predicate = x.kind
          /\ wire.from \in EndsOf(n, x.from) /\ wire.to \in EndsOf(n, x.to)
  BY WiresAreBound
<1>2. PICK x \in ToSet(n.shape.wiring) :
          /\ wire.predicate = x.kind
          /\ wire.from \in EndsOf(n, x.from) /\ wire.to \in EndsOf(n, x.to)
  BY <1>1
<1>3. PICK k \in DOMAIN w.shapes : n.shape = w.shapes[k]
  BY DEF Instances, HasShape, ShapeOf
<1>4. /\ {x.from, x.to} \subseteq SlotsOf(n.shape) \cup {Self}
      /\ w.r.policies[x.kind].coreKind \in
             permittedBetween(w.r, KindOfEndpoint(n.shape, x.from),
                                   KindOfEndpoint(n.shape, x.to))
  <2>1. ShapesHold(w.r, w.shapes)
    BY DEF Permissible
  <2>2. x \in ToSet(w.shapes[k].wiring)
    BY <1>3
  <2>. QED
    BY <1>3, <2>1, <2>2, ShapesWirePermitted
<1>5. w.r.kinds[KindOfSubject(w, wire.from)].lineage[1]
          = w.r.kinds[KindOfEndpoint(n.shape, x.from)].lineage[1]
  BY <1>2, <1>4, BoundKindsFit
<1>6. w.r.kinds[KindOfSubject(w, wire.to)].lineage[1]
          = w.r.kinds[KindOfEndpoint(n.shape, x.to)].lineage[1]
  BY <1>2, <1>4, BoundKindsFit
<1>. QED
  BY <1>2, <1>4, <1>5, <1>6 DEF Permitted, permittedBetween

\* And what a macro edge expands to, where it lands on concepts.
LEMMA ExpansionsArePermitted ==
  ASSUME NEW w, NEW edges, NEW edge \in Expansions(w, edges),
         {KindOfSubject(w, edge.from), KindOfSubject(w, edge.to)} \subseteq DOMAIN w.r.kinds
  PROVE  Permitted(w, edge)
<1>1. PICK l \in MacroLandings(w, edges) :
          /\ ~LandsForbidden(w, l)
          /\ \E f \in l.from, t \in l.to :
                edge = Edge(l.edge.id \o <<"expansion">>, f, l.edge.predicate, t)
  BY DEF Expansions
<1>2. edge.from \in l.from /\ edge.to \in l.to /\ edge.predicate = l.edge.predicate
  BY <1>1 DEF Edge
<1>3. ~LandsUnbound(l)
  BY <1>2 DEF LandsUnbound
<1>. QED
  BY <1>1, <1>2, <1>3 DEF LandsForbidden, Permitted

\* So is every relationship of a graph that joins concepts of the graph.
LEMMA EdgesArePermitted ==
  ASSUME NEW w, Permissible(w), NEW edge \in GraphEdges(w),
         {KindOfSubject(w, edge.from), KindOfSubject(w, edge.to)} \subseteq DOMAIN w.r.kinds
  PROVE  Permitted(w, edge)
<1>1. CASE edge \in AuthoredEdges(w)
  BY <1>1, AuthoredArePermitted
<1>2. CASE edge \in MintedWires(w)
  <2>1. PICK wire \in AllWires(w) : Triple(edge) = Triple(wire)
    BY <1>2, MintedFromWires
  <2>2. edge.from = wire.from /\ edge.predicate = wire.predicate /\ edge.to = wire.to
    BY <2>1 DEF Triple
  <2>. QED
    BY <2>2, WiresArePermitted DEF Permitted
<1>3. CASE edge \in Expansions(w, AuthoredEdges(w) \cup MintedWires(w))
  BY <1>3, ExpansionsArePermitted
<1>. QED
  BY <1>1, <1>2, <1>3 DEF GraphEdges

\* In the graph's own terms.
LEMMA GraphIsPermitted ==
  ASSUME NEW w, Permissible(w), NEW e \in GraphEdges(w),
         {e.from, e.to} \subseteq StateIds(w) \cup ConceptIds(w)
  PROVE  w.r.policies[e.predicate].coreKind \in
            Permits[<<CoreOf(w.r.kinds[KindIn(Compiled(w), e.from)]),
                      CoreOf(w.r.kinds[KindIn(Compiled(w), e.to)])>>]
<1>1. Faultless(w)
  BY DEF Permissible
<1>2. ASSUME NEW id \in StateIds(w) \cup ConceptIds(w)
      PROVE  /\ KindIn(Compiled(w), id) = KindOfSubject(w, id)
             /\ KindOfSubject(w, id) \in DOMAIN w.r.kinds
  <2>1. PICK kind : DeclaredKind(w, id, kind)
    BY DEF StateIds, ConceptIds, Ids, DeclaredKind
  <2>2. KindOfSubject(w, id) = kind
    BY <1>1, <2>1, KindsAreDeclared
  <2>3. KindIn(Compiled(w), id) = kind
    BY <1>1, <2>1, KindsAreStated
  <2>4. kind \in DOMAIN w.r.kinds
    BY <2>1, DeclaredKindsResolve
  <2>. QED
    BY <2>2, <2>3, <2>4
<1>3. Permitted(w, e)
  BY <1>2, EdgesArePermitted
<1>. QED
  BY <1>2, <1>3 DEF Permitted, permittedBetween, CoreOf
\* A workspace that compiles is one in which the documents phase found no
\* fault, and what comes out of it is its graph.
LEMMA CompilesAreFaultless ==
  ASSUME NEW f, FilesAre(f), NEW order \in Seq(Present(f)), Compile(f, order, <<>>).ok
  PROVE  \E w : /\ Permissible(w) /\ Compile(f, order, <<>>) = Compiled(w)
                /\ \A d \in ToSet(w.documents) : Composed(f, ToSet(order), d)
<1>. DEFINE listed == ToSet(order)
            S == {SourceOf(f, p) : p \in listed}
            T == {s \in S : s.kind = "document"}
<1>1. PICK sources : sources = Sources(order, parseSources(f, listed, <<>>))
  OBVIOUS
<1>2. sources \in Seq(S)
  BY <1>1, SourcesAreParsed
<1>3. Compile(f, order, <<>>) = compileWorkspaceResolved(sources)
  BY <1>1 DEF Compile
<1>4. PICK documents : documents = SourcesOf(sources, "document")
  OBVIOUS
<1>5. documents \in Seq(T)
  BY <1>2, <1>4, SourcesOfAKind
<1>6. PICK r : r = ResolveProfiles(sources)
  OBVIOUS
<1>7. PICK found : found = ResolvePatterns(r, sources)
  OBVIOUS
<1>8. PICK w : w = Workspace(r, found.shapes, documents)
  OBVIOUS
<1>9. /\ {d \in ToSet(documents) : ~d.wellFormed} = {}
      /\ DocumentFaults(w) = {}
      /\ Compile(f, order, <<>>) = Compiled(w)
  <2>1. \A diagnostics : Failed(diagnostics).ok = FALSE
    BY DEF Failed
  <2>2. /\ r.diagnostics = {}
        /\ compileWorkspaceResolved(sources) = CompileWithPatterns(r, documents, found)
    BY <1>3, <1>4, <1>6, <1>7, <2>1 DEF compileWorkspaceResolved, CompileWithProfiles
  <2>3. /\ {d \in ToSet(documents) : ~d.wellFormed} = {}
        /\ CompileWithPatterns(r, documents, found) = CompileDocuments(w, DocumentFaults(w))
    BY <1>3, <1>8, <2>1, <2>2 DEF CompileWithPatterns
  <2>4. DocumentFaults(w) = {} /\ CompileDocuments(w, DocumentFaults(w)) = Compiled(w)
    BY <1>3, <2>1, <2>2, <2>3 DEF CompileDocuments
  <2>. QED
    BY <1>3, <2>2, <2>3, <2>4
<1>10. /\ w.documents = documents /\ w.r = r /\ w.shapes = found.shapes
       /\ w.states = Items(w.documents, "states")
       /\ w.concepts = Items(w.documents, "concepts")
       /\ w.relationships = Items(w.documents, "relationships")
  BY <1>8 DEF Workspace
<1>11. IsSequence(documents) /\ ToSet(documents) \subseteq T
  BY <1>5, SequencesAre
<1>12. ASSUME NEW d \in ToSet(documents) PROVE Composed(f, listed, d)
  <2>1. d \in S /\ d.kind = "document" /\ d.wellFormed
    BY <1>9, <1>11
  <2>2. PICK p \in listed : d = SourceOf(f, p)
    BY <2>1
  <2>. QED
    BY <2>1, <2>2 DEF Composed, SourceOf
<1>13. ASSUME NEW d \in ToSet(documents) PROVE Reads(d.value)
  <2>1. PICK p \in listed : /\ d = SourceOf(f, p)
                            /\ Parse[f[p]].kind = "document" /\ Parse[f[p]].wellFormed
    BY <1>12 DEF Composed
  <2>2. p \in Paths /\ f[p] # NoText
    BY SequencesAre DEF Present
  <2>3. f[p] \in DOMAIN Parse
    BY <2>2, SourcesAssumption DEF SourcesAssumption, FilesAre
  <2>4. d.value = Parse[f[p]].value
    BY <2>1 DEF SourceOf
  <2>5. WellRead("document", d.value)
    BY <2>1, <2>3, <2>4, SourcesAssumption DEF SourcesAssumption
  <2>. QED
    BY <2>5 DEF WellRead, Reads, Sorts
<1>14. AllRead(documents)
  BY <1>11, <1>13 DEF AllRead, ToSet
<1>15. Faultless(w)
  BY <1>9, <1>10, <1>14 DEF Faultless
<1>16. AllWellRead(S)
  <2>1. S \subseteq {SourceOf(f, p) : p \in Present(f)}
    BY SequencesAre
  <2>. QED
    BY <2>1, SourcesAreWellRead DEF AllWellRead
<1>17. VocabularyHolds(r)
  BY <1>2, <1>6, <1>16, ProfilesResolve
<1>18. ShapesHold(r, found.shapes)
  BY <1>2, <1>7, <1>16, PatternsResolve
<1>19. Permissible(w)
  BY <1>10, <1>15, <1>17, <1>18 DEF Permissible
<1>. QED
  BY <1>9, <1>10, <1>12, <1>19

-----------------------------------------------------------------------------
\* The inductive invariant of the graphs: the files are of the workspace, and
\* what the cache gave is what a compile from nothing gives.
GraphInvariant == FilesAre(files) /\ CacheInvariant

\* At the start every file holds what it may hold.
LEMMA InitKeepsTheFiles == Init => GraphInvariant
  BY InitKeepsTheCache DEF Init, GraphInvariant, FilesAre

\* No step writes what a file may not hold.
LEMMA NextKeepsTheFiles == GraphInvariant /\ [Next]_vars => GraphInvariant'
<1>. SUFFICES ASSUME GraphInvariant, [Next]_vars PROVE GraphInvariant'
  OBVIOUS
<1>1. CacheInvariant'
  BY NextKeepsTheCache DEF GraphInvariant
<1>2. ASSUME NEW p \in Paths, NEW text \in TextsOf[p], Save(p, text)
      PROVE  FilesAre(files)'
  <2>1. files' = [files EXCEPT ![p] = text]
    BY <1>2 DEF Save, Recompile
  <2>. QED
    BY <2>1 DEF GraphInvariant, FilesAre
<1>3. ASSUME NEW name \in DOMAIN Manifests, Relist(name)
      PROVE  FilesAre(files)'
  <2>1. files' = files
    BY <1>3 DEF Relist, Recompile
  <2>. QED
    BY <2>1 DEF GraphInvariant, FilesAre
<1>4. CASE UNCHANGED vars
  BY <1>1, <1>4 DEF GraphInvariant, FilesAre, vars
<1>. QED
  BY <1>1, <1>2, <1>3, <1>4 DEF Next, GraphInvariant

\* A result that stands is the graph of a faultless workspace of the files as they are.
LEMMA ResultsAreFaultless ==
  ASSUME GraphInvariant, result.ok
  PROVE  \E w : /\ Permissible(w) /\ Spelled(w) /\ result = Compiled(w)
                /\ \A e \in AuthoredEdges(w) : e.id \in AuthoredIds
<1>1. PICK resolved : resolved = Resolved(files, manifest)
  OBVIOUS
<1>2. PICK order : order = Listing(resolved.workspace)
  OBVIOUS
<1>3. result = ResultOf(files, resolved, <<>>)
  BY <1>1 DEF GraphInvariant, CacheInvariant, CacheChangesNothing
<1>4. resolved.ok /\ result = Compile(files, order, <<>>)
  BY <1>2, <1>3 DEF ResultOf
<1>5. order \in Seq(Present(files))
  BY <1>1, <1>2, <1>4, ListingIsPresent
<1>6. PICK w : /\ Permissible(w) /\ result = Compiled(w)
               /\ \A d \in ToSet(w.documents) : Composed(files, ToSet(order), d)
  BY <1>4, <1>5, CompilesAreFaultless DEF GraphInvariant
<1>9. Faultless(w)
  BY <1>6 DEF Permissible
<1>7. Spelled(w)
  <2>1. ToSet(order) \subseteq Present(files)
    BY <1>5, SequencesAre
  <2>. QED
    BY <1>6, <1>9, <2>1, DeclaredAreSpelled DEF GraphInvariant
<1>8. \A e \in AuthoredEdges(w) : e.id \in AuthoredIds
  BY <1>1, <1>2, <1>6, <1>9, AuthoredAreSetAside
<1>. QED
  BY <1>6, <1>7, <1>8

\* What the invariant gives in every state: the last compile's graph is closed,
\* its relationships are permitted and its wires stated once.
LEMMA GraphsStand == GraphInvariant => CompiledGraphIsSound
<1>. SUFFICES ASSUME GraphInvariant, result.ok
     PROVE  /\ Closed(result.graph)
            /\ \A e \in result.graph.edges :
                  {e.from, e.to} \subseteq result.graph.concepts =>
                      result.policies[e.predicate].coreKind \in
                          Permits[<<CoreOf(result.kinds[KindIn(result, e.from)]),
                                    CoreOf(result.kinds[KindIn(result, e.to)])>>]
            /\ \A e, f \in {x \in result.graph.edges : Wired(x)} : Triple(e) = Triple(f) => e = f
  BY DEF CompiledGraphIsSound, CompiledGraphIsClosed, EveryEdgeIsPermitted, WiresStatedOnce, Closed
<1>1. PICK w : /\ Permissible(w) /\ Spelled(w) /\ result = Compiled(w)
               /\ \A e \in AuthoredEdges(w) : e.id \in AuthoredIds
  BY ResultsAreFaultless
<1>2. Faultless(w)
  BY <1>1 DEF Permissible
<1>3. /\ result.graph = Graph(w, GraphEdges(w))
      /\ result.kinds = w.r.kinds /\ result.policies = w.r.policies
  BY <1>1 DEF Compiled
<1>4. /\ result.graph.edges = GraphEdges(w)
      /\ result.graph.concepts = StateIds(w) \cup ConceptIds(w)
  BY <1>3 DEF Graph
<1>5. ASSUME NEW e \in result.graph.edges, NEW f \in result.graph.edges,
             Wired(e), Wired(f), Triple(e) = Triple(f)
      PROVE  e = f
  BY <1>1, <1>2, <1>4, <1>5, WiresStandAlone DEF Wired
<1>6. ASSUME NEW e \in result.graph.edges, {e.from, e.to} \subseteq result.graph.concepts
      PROVE  result.policies[e.predicate].coreKind \in
                 Permits[<<CoreOf(result.kinds[KindIn(result, e.from)]),
                           CoreOf(result.kinds[KindIn(result, e.to)])>>]
  BY <1>1, <1>3, <1>4, <1>6, GraphIsPermitted
<1>7. Closed(result.graph)
  BY <1>2, <1>3, FaultlessGraphIsClosed
<1>. QED
  BY <1>5, <1>6, <1>7

\* Every graph a compile yields is sound, whatever the profiles, the patterns
\* and the documents say (compiler.ts, compileWorkspaceResolved): every claim
\* refers to a subject of the graph, and an identifier names one relationship;
\* every relationship is one the table permits between the kinds the graph
\* states of its ends, the wires of a pattern bound to descendants and the
\* landings of a macro edge included; and no two wires of the instances state
\* one triple.
THEOREM GraphsAreSound == Spec => []CompiledGraphIsSound
<1>. QED
  BY GraphsStand, InitKeepsTheFiles, NextKeepsTheFiles, PTL DEF Spec
=============================================================================
