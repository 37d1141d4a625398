-------------------------- MODULE ClientStart_proofs --------------------------
(***************************************************************************)
(* Proofs about the start of cert-proxy-client and about the operators on  *)
(* texts and lists it uses, for any command line, files and lists.         *)
(***************************************************************************)
EXTENDS ClientStart, Integers, FiniteSetTheorems, SequenceTheorems,
        WellFoundedInduction, TLAPS

-----------------------------------------------------------------------------
\* Smallest and largest elements, by the well-foundedness of the naturals.

\* A set of numbers that is not empty has a smallest one.
LEMMA SmallestExists ==
    ASSUME NEW S \in SUBSET Nat, S # {}
    PROVE  \E x \in S : \A y \in S : x <= y
<1> DEFINE R == OpToRel(<, Nat)
<1>1. \A x, y \in Nat : y < x => <<y, x>> \in R
  BY DEF OpToRel
<1>2. IsWellFoundedOn(R, Nat)
  BY NatLessThanWellFounded
<1> HIDE DEF R
<1>3. PICK x \in S : \A y \in S : ~(<<y, x>> \in R)
  BY <1>2, WFMin
<1>4. ASSUME NEW y \in S PROVE x <= y
  <2>1. x \in Nat /\ y \in Nat
    OBVIOUS
  <2>2. ~(<<y, x>> \in R)
    BY <1>3
  <2>3. ~(y < x)
    BY <1>1, <2>1, <2>2
  <2>4. QED
    BY <2>1, <2>3
<1>5. QED
  BY <1>4

\* And a largest one, if it is bounded.
LEMMA LargestExists ==
    ASSUME NEW n \in Nat, NEW S \in SUBSET 1..n, S # {}
    PROVE  \E x \in S : \A y \in S : x >= y
<1> DEFINE T == {n - x : x \in S}
<1>1. T \subseteq Nat /\ T # {}
  <2>1. \A x \in S : x \in Int /\ n - x \in Nat
    OBVIOUS
  <2>2. QED
    BY <2>1
<1>2. PICK t \in T : \A u \in T : t <= u
  BY <1>1, SmallestExists
<1>3. PICK x \in S : t = n - x
  BY <1>2
<1>4. ASSUME NEW y \in S PROVE x >= y
  <2>1. n - x <= n - y
    BY <1>2, <1>3
  <2>2. QED
    BY <2>1
<1>5. QED
  BY <1>4

\* The operator Min, where there is a smallest element.
LEMMA MinIs ==
    ASSUME NEW S \in SUBSET Int, NEW x \in S, \A y \in S : x <= y
    PROVE  Min(S) = x
<1>1. \A z \in S : (\A y \in S : z <= y) => z = x
  OBVIOUS
<1>2. QED
  BY <1>1 DEF Min

\* The operator Max, where there is a largest element.
LEMMA MaxIs ==
    ASSUME NEW S \in SUBSET Int, NEW x \in S, \A y \in S : x >= y
    PROVE  Max(S) = x
<1>1. \A z \in S : (\A y \in S : z >= y) => z = x
  OBVIOUS
<1>2. QED
  BY <1>1 DEF Max

\* The first and the last of some positions of a sequence.
LEMMA EndsOfPositions ==
    ASSUME NEW n \in Nat, NEW I \in SUBSET 1..n, I # {}
    PROVE  /\ Min(I) \in I /\ Max(I) \in I
           /\ \A i \in I : Min(I) <= i /\ i <= Max(I)
<1>1. PICK a \in I : \A i \in I : a <= i
  <2>1. I \in SUBSET Nat
    OBVIOUS
  <2>2. QED
    BY <2>1, SmallestExists
<1>2. PICK b \in I : \A i \in I : b >= i
  BY LargestExists
<1>3. Min(I) = a
  BY <1>1, MinIs
<1>4. Max(I) = b
  BY <1>2, MaxIs
<1>5. QED
  BY <1>1, <1>2, <1>3, <1>4

-----------------------------------------------------------------------------
\* Texts.

\* What is left of a separator is a text.
LEMMA BeforeText == ASSUME NEW s \in Text, NEW sep PROVE Before(s, sep) \in Text
<1> DEFINE I == {i \in 1..Len(s) : s[i] = sep}
           k == IF I # {} THEN Min(I) ELSE 0
<1>1. Before(s, sep) = IF k = 0 THEN s ELSE SubSeq(s, 1, k - 1)
  BY DEF Before, SelectInSeq
<1>2. Len(s) \in Nat /\ I \in SUBSET (1..Len(s))
  BY DEF Text
<1>3. k \in 0..Len(s)
  <2>1. I # {} => Min(I) \in I
    BY <1>2, EndsOfPositions
  <2>2. I # {} => Min(I) \in 1..Len(s)
    BY <1>2, <2>1
  <2>3. QED
    BY <1>2, <2>2
<1> HIDE DEF I, k
<1>4. \A i \in 1..(k - 1) : s[i] \in STRING
  BY <1>2, <1>3 DEF Text
<1>5. k # 0 => SubSeq(s, 1, k - 1) \in Seq(STRING)
  BY <1>2, <1>3, <1>4, SubSeqProperties
<1>6. QED
  BY <1>1, <1>5 DEF Text

\* Where Trim finds something to keep.
Kept(s) == {i \in 1..Len(s) : s[i] # Space}

\* Trim in terms of these places.
LEMMA TrimIs ==
    ASSUME NEW s \in Text
    PROVE  /\ Kept(s) = {} => Trim(s) = <<>>
           /\ Kept(s) # {} =>
                 /\ Trim(s) = SubSeq(s, Min(Kept(s)), Max(Kept(s)))
                 /\ Min(Kept(s)) \in Kept(s) /\ Max(Kept(s)) \in Kept(s)
                 /\ Min(Kept(s)) <= Max(Kept(s))
<1>1. Trim(s) = IF (IF Kept(s) # {} THEN Min(Kept(s)) ELSE 0) = 0 THEN <<>>
                ELSE SubSeq(s, IF Kept(s) # {} THEN Min(Kept(s)) ELSE 0,
                               IF Kept(s) # {} THEN Max(Kept(s)) ELSE 0)
  BY DEF Trim, SelectInSeq, SelectLastInSeq, Kept
<1>2. Len(s) \in Nat
  BY DEF Text
<1>3. Kept(s) \in SUBSET (1..Len(s))
  BY DEF Kept
<1>4. CASE Kept(s) # {}
  <2>1. /\ Min(Kept(s)) \in Kept(s) /\ Max(Kept(s)) \in Kept(s)
        /\ Min(Kept(s)) <= Max(Kept(s))
    BY <1>2, <1>3, <1>4, EndsOfPositions
  <2>2. Min(Kept(s)) # 0
    BY <1>2, <1>3, <2>1
  <2>3. QED
    BY <1>1, <1>4, <2>1, <2>2
<1>5. QED
  BY <1>1, <1>4

\* Trim leaves a part as it is that begins and ends with something to keep.
LEMMA TrimPart ==
    ASSUME NEW s \in Seq(STRING), NEW a \in 1..Len(s), NEW b \in 1..Len(s), a <= b,
           s[a] # Space, s[b] # Space, NEW t, t = SubSeq(s, a, b)
    PROVE  t \in Text /\ Trim(t) = t
<1>1. Len(s) \in Nat /\ a \in Int /\ b \in Int
  OBVIOUS
<1>2. \A i \in a..b : s[i] \in STRING
  <2>1. ASSUME NEW i \in a..b PROVE i \in 1..Len(s)
    BY <1>1
  <2>2. QED
    BY <2>1
<1>3. /\ t \in Seq(STRING)
      /\ Len(t) = b - a + 1
      /\ \A i \in 1..(b - a + 1) : t[i] = s[a + i - 1]
  BY <1>1, <1>2, SubSeqProperties
<1>4. t[1] = s[a] /\ t[Len(t)] = s[b] /\ Len(t) >= 1 /\ Len(t) \in Nat
  BY <1>1, <1>3
<1>5. 1 \in Kept(t) /\ Len(t) \in Kept(t)
  BY <1>4 DEF Kept
<1>6. Kept(t) \subseteq Int /\ \A i \in Kept(t) : 1 <= i /\ Len(t) >= i
  BY <1>4 DEF Kept
<1>7. Min(Kept(t)) = 1 /\ Max(Kept(t)) = Len(t)
  BY <1>5, <1>6, MinIs, MaxIs
<1>8. Trim(t) = SubSeq(t, 1, Len(t))
  BY <1>3, <1>5, <1>7, TrimIs DEF Text
<1>9. SubSeq(t, 1, Len(t)) = t
  BY <1>3, SubSeqFull
<1>10. QED
  BY <1>3, <1>8, <1>9 DEF Text

\* Trim yields a text that it leaves as it is: the server has trimmed the items
\* it sends, and the client trims them once more.
LEMMA TrimText == ASSUME NEW s \in Text PROVE Trim(s) \in Text /\ Trim(Trim(s)) = Trim(s)
<1>1. CASE Kept(s) = {}
  <2>1. <<>> \in Text /\ Kept(<<>>) = {}
    BY DEF Text, Kept
  <2>2. QED
    BY <1>1, <2>1, TrimIs
<1>2. CASE Kept(s) # {}
  <2>1. /\ Min(Kept(s)) \in Kept(s) /\ Max(Kept(s)) \in Kept(s)
        /\ Min(Kept(s)) <= Max(Kept(s))
        /\ Trim(s) = SubSeq(s, Min(Kept(s)), Max(Kept(s)))
    BY <1>2, TrimIs
  <2>2. \A i \in Kept(s) : i \in 1..Len(s) /\ s[i] # Space
    BY DEF Kept
  <2>3. QED
    BY <2>1, <2>2, TrimPart DEF Text
<1>3. QED
  BY <1>1, <1>2

-----------------------------------------------------------------------------
\* Lists.

\* The elements of a sequence are finitely many.
LEMMA ToSetFinite ==
    ASSUME NEW S, NEW s \in Seq(S)
    PROVE  ToSet(s) \subseteq S /\ IsFiniteSet(ToSet(s))
<1>1. Len(s) \in Nat /\ DOMAIN s = 1..Len(s) /\ \A i \in 1..Len(s) : s[i] \in S
  OBVIOUS
<1>2. IsFiniteSet(1..Len(s))
  BY <1>1, FS_Interval
<1>3. ToSet(s) = {s[i] : i \in 1..Len(s)}
  BY <1>1 DEF ToSet
<1>4. [i \in 1..Len(s) |-> s[i]] \in Surjection(1..Len(s), ToSet(s))
  BY <1>3 DEF Surjection
<1>5. IsFiniteSet(ToSet(s))
  BY <1>2, <1>4, FS_Surjection
<1>6. QED
  BY <1>1, <1>3, <1>5

\* The items of a file: finitely many texts, each as Trim leaves it.
LEMMA ItemsText ==
    ASSUME NEW lines \in Seq(Text)
    PROVE  /\ Items(lines) \subseteq Text
           /\ IsFiniteSet(Items(lines))
           /\ \A n \in Items(lines) : Trim(n) = n
<1> DEFINE Item(l) == Trim(Before(l, "#"))
<1>1. \A l \in Text : Item(l) \in Text /\ Trim(Item(l)) = Item(l)
  BY BeforeText, TrimText
<1>2. Items(lines) = {Item(l) : l \in ToSet(lines)} \ {<<>>}
  BY DEF Items
<1> HIDE DEF Item
<1>3. ToSet(lines) \subseteq Text /\ IsFiniteSet(ToSet(lines))
  BY ToSetFinite
<1>4. [l \in ToSet(lines) |-> Item(l)] \in
         Surjection(ToSet(lines), {Item(l) : l \in ToSet(lines)})
  BY DEF Surjection
<1>5. IsFiniteSet({Item(l) : l \in ToSet(lines)})
  BY <1>3, <1>4, FS_Surjection
<1>6. IsFiniteSet(Items(lines))
  BY <1>2, <1>5, FS_Subset
<1>7. QED
  BY <1>1, <1>2, <1>3, <1>6

\* The arguments are words of the command line.
LEMMA ArgsText == ASSUME NEW argv \in Seq(Text) PROVE Args(argv) \in Seq(Text)
<1> DEFINE I == {i \in 1..Len(argv) : argv[i] \notin Flags}
           k == IF I # {} THEN Min(I) ELSE 0
           p == IF k = 0 THEN Len(argv) ELSE k - 1
           rest == SubSeq(argv, p + 1, Len(argv))
<1>1. Parsed(argv) = p
  BY DEF Parsed, SelectInSeq
<1>2. Len(argv) \in Nat /\ I \in SUBSET (1..Len(argv))
  OBVIOUS
<1>3. I # {} => Min(I) \in 1..Len(argv)
  BY <1>2, EndsOfPositions
<1>4. p \in 0..Len(argv)
  BY <1>2, <1>3
<1> HIDE DEF I, k, p
<1>5. rest \in Seq(Text)
  BY <1>2, <1>4, SubSeqProperties
<1>6. Args(argv) = IF rest # <<>> /\ Head(rest) = <<"--">> THEN Tail(rest) ELSE rest
  BY <1>1 DEF Args
<1> HIDE DEF rest
<1>7. QED
  BY <1>5, <1>6

-----------------------------------------------------------------------------
\* Names of domains as directories.

\* A text without the separator is its only part.
LEMMA SplitWhole ==
    ASSUME NEW s \in Seq(STRING), NEW sep, \A i \in 1..Len(s) : s[i] # sep
    PROVE  SplitAt(s, sep) = <<s>>
<1> DEFINE Step(p) ==
             [k \in 0..Len(s) |->
                IF k = 0 THEN << <<>> >>
                ELSE IF s[k] = sep THEN Append(p[k - 1], <<>>)
                ELSE Append(Front(p[k - 1]), Append(Last(p[k - 1]), s[k]))]
           parts == CHOOSE p : p = Step(p)
           g == [k \in 0..Len(s) |-> <<SubSeq(s, 1, k)>>]
<1>1. Len(s) \in Nat
  OBVIOUS
<1>2. ASSUME NEW p, NEW k \in 1..Len(s), p[k - 1] = <<SubSeq(s, 1, k - 1)>>
      PROVE  Append(Front(p[k - 1]), Append(Last(p[k - 1]), s[k])) = <<SubSeq(s, 1, k)>>
  <2>1. Front(<<SubSeq(s, 1, k - 1)>>) = <<>> /\ Last(<<SubSeq(s, 1, k - 1)>>) = SubSeq(s, 1, k - 1)
    BY DEF Front, Last
  <2>2. Append(SubSeq(s, 1, k - 1), s[k]) = SubSeq(s, 1, k)
    BY <1>1
  <2>3. Append(<<>>, SubSeq(s, 1, k)) = <<SubSeq(s, 1, k)>>
    OBVIOUS
  <2> HIDE DEF Step, parts, g
  <2>4. QED
    BY <1>2, <2>1, <2>2, <2>3, Zenon
<1>3. Step(g) = g
  <2>1. ASSUME NEW k \in 0..Len(s) PROVE Step(g)[k] = g[k]
    <3>1. CASE k = 0
      <4>1. SubSeq(s, 1, 0) = <<>>
        BY <1>1
      <4>2. QED
        BY <3>1, <4>1
    <3>2. CASE k # 0
      <4>1. k \in 1..Len(s) /\ k - 1 \in 0..Len(s) /\ s[k] # sep
        BY <1>1, <3>2
      <4>2. g[k - 1] = <<SubSeq(s, 1, k - 1)>>
        BY <4>1
      <4>3. Append(Front(g[k - 1]), Append(Last(g[k - 1]), s[k])) = <<SubSeq(s, 1, k)>>
        BY <1>2, <4>1, <4>2
      <4>4. QED
        BY <3>2, <4>1, <4>3
    <3>3. QED
      BY <3>1, <3>2
  <2>2. QED
    BY <2>1
<1>4. parts = Step(parts)
  BY <1>3
<1>5. SplitAt(s, sep) = parts[Len(s)]
  BY DEF SplitAt
<1> HIDE DEF parts
<1>6. ASSUME NEW k \in 0..Len(s)
      PROVE  parts[k] = IF k = 0 THEN << <<>> >>
                ELSE IF s[k] = sep THEN Append(parts[k - 1], <<>>)
                ELSE Append(Front(parts[k - 1]), Append(Last(parts[k - 1]), s[k]))
  BY <1>4
<1> DEFINE bad == {k \in 0..Len(s) : parts[k] # <<SubSeq(s, 1, k)>>}
<1>7. ASSUME bad # {} PROVE FALSE
  <2>0. bad \in SUBSET Nat
    BY <1>1
  <2>1. PICK k \in bad : \A j \in bad : k <= j
    <3> HIDE DEF bad
    <3>1. QED
      BY <2>0, <1>7, SmallestExists
  <2>2. k # 0
    <3>1. SubSeq(s, 1, 0) = <<>> /\ k \in 0..Len(s) /\ parts[k] # <<SubSeq(s, 1, k)>>
      BY <1>1, <2>1
    <3>2. parts[0] = << <<>> >>
      BY <1>1, <1>6
    <3>3. QED
      BY <3>1, <3>2
  <2>3. k \in 1..Len(s) /\ k - 1 \in 0..Len(s) /\ ~(k <= k - 1) /\ s[k] # sep
    BY <1>1, <2>1, <2>2
  <2>4. parts[k - 1] = <<SubSeq(s, 1, k - 1)>>
    BY <2>1, <2>3
  <2>5. parts[k] = Append(Front(parts[k - 1]), Append(Last(parts[k - 1]), s[k]))
    BY <1>6, <2>2, <2>3
  <2>6. parts[k] = <<SubSeq(s, 1, k)>>
    BY <1>2, <2>3, <2>4, <2>5
  <2>7. QED
    BY <2>1, <2>6
<1>8. parts[Len(s)] = <<s>>
  <2>1. Len(s) \in 0..Len(s) /\ SubSeq(s, 1, Len(s)) = s
    BY <1>1
  <2>2. QED
    BY <1>7, <2>1
<1>9. QED
  BY <1>5, <1>8

\* What was appended is there.
LEMMA AppendContains ==
    ASSUME NEW S, NEW p \in Seq(S), NEW e \in S
    PROVE  Append(p, e) \in Seq(S) /\ Contains(Append(p, e), e)
  BY DEF Contains

\* Names of dots alone have an empty label.
LEMMA SplitDots ==
    /\ Contains(SplitAt(<<".">>, "."), <<>>)
    /\ Contains(SplitAt(<<".", ".">>, "."), <<>>)
<1> DEFINE Step(s, p) ==
             [k \in 0..Len(s) |->
                IF k = 0 THEN << <<>> >>
                ELSE IF s[k] = "." THEN Append(p[k - 1], <<>>)
                ELSE Append(Front(p[k - 1]), Append(Last(p[k - 1]), s[k]))]
           one == Append(<< <<>> >>, <<>>)
           two == Append(one, <<>>)
<1>1. /\ Contains(one, <<>>) /\ Contains(two, <<>>)
  <2>1. << <<>> >> \in Seq({<<>>})
    OBVIOUS
  <2>2. QED
    BY <2>1, AppendContains
<1>2. ASSUME NEW s \in {<<".">>, <<".", ".">>}
      PROVE  Contains(SplitAt(s, "."), <<>>)
  <2> DEFINE g == [k \in 0..Len(s) |-> IF k = 0 THEN << <<>> >> ELSE IF k = 1 THEN one ELSE two]
  <2>1. Len(s) \in {1, 2} /\ \A k \in 1..Len(s) : s[k] = "."
    OBVIOUS
  <2> HIDE DEF one, two
  <2>2. ASSUME NEW p, NEW k \in 1..Len(s) PROVE Step(s, p)[k] = Append(p[k - 1], <<>>)
    BY <2>1
  <2>3. ASSUME NEW k \in 0..Len(s) PROVE Step(s, g)[k] = g[k]
    <3>1. k \in {0, 1, 2} /\ (k # 0 => k \in 1..Len(s) /\ k - 1 \in 0..Len(s))
      BY <2>1
    <3>2. CASE k = 0
      BY <3>2
    <3>3. CASE k = 1
      <4>1. g[0] = << <<>> >> /\ g[1] = one
        BY <2>1, <3>1, <3>3
      <4>2. QED
        BY <2>2, <3>1, <3>3, <4>1 DEF one
    <3>4. CASE k = 2
      <4>1. g[1] = one /\ g[2] = two
        BY <2>1, <3>1, <3>4
      <4>2. QED
        BY <2>2, <3>1, <3>4, <4>1 DEF two
    <3>5. QED
      BY <3>1, <3>2, <3>3, <3>4
  <2>4. Step(s, g) = g
    BY <2>3
  <2> DEFINE parts == CHOOSE p : p = Step(s, p)
  <2>5. parts = Step(s, parts)
    BY <2>4
  <2>6. SplitAt(s, ".") = parts[Len(s)]
    BY DEF SplitAt
  <2> HIDE DEF parts
  <2>7. parts[0] = << <<>> >>
    BY <2>1, <2>5
  <2>8. parts[1] = one
    <3>1. parts[1] = Append(parts[0], <<>>)
      <4>1. 1 \in 1..Len(s) /\ 1 - 1 = 0
        BY <2>1
      <4> HIDE DEF Step
      <4>2. QED
        BY <2>2, <2>5, <4>1
    <3>2. QED
      BY <2>7, <3>1 DEF one
  <2>9. CASE Len(s) = 1
    BY <1>1, <2>6, <2>8, <2>9
  <2>10. CASE Len(s) = 2
    <3>1. parts[2] = Append(parts[1], <<>>)
      <4>1. 2 \in 1..Len(s) /\ 2 - 1 = 1
        BY <2>10
      <4> HIDE DEF Step
      <4>2. QED
        BY <2>2, <2>5, <4>1
    <3>2. parts[2] = two
      BY <2>8, <3>1 DEF two
    <3>3. QED
      BY <1>1, <2>6, <2>10, <3>2
  <2>11. QED
    BY <2>1, <2>9, <2>10
<1>3. QED
  BY <1>2

\* A name without a slash that is neither empty nor made of one or two dots is
\* one directory further down.
LEMMA JoinOne ==
    ASSUME NEW dirs, NEW n \in Seq(STRING), SplitAt(n, "/") = <<n>>,
           n \notin {<<>>, <<".">>, <<".", ".">>}
    PROVE  Join(dirs, n) = Append(dirs, n)
<1> DEFINE parts == SplitAt(n, "/")
           here == {<<>>, <<".">>}
           up == <<".", ".">>
           Step(p) ==
             [k \in 0..Len(parts) |->
                IF k = 0 THEN dirs
                ELSE IF parts[k] \in here THEN p[k - 1]
                ELSE IF parts[k] = up
                       THEN IF p[k - 1] = <<>> THEN <<>> ELSE Front(p[k - 1])
                ELSE Append(p[k - 1], parts[k])]
           dir == CHOOSE p : p = Step(p)
           g == [k \in 0..Len(parts) |-> IF k = 0 THEN dirs ELSE Append(dirs, n)]
<1>1. Join(dirs, n) = dir[Len(parts)]
  BY DEF Join
<1>2. Len(parts) = 1 /\ parts[1] = n /\ n \notin here /\ n # up
  OBVIOUS
<1> HIDE DEF parts, here, up
<1>3. ASSUME NEW p PROVE Step(p)[0] = dirs /\ Step(p)[1] = Append(p[0], n)
  BY <1>2
<1>4. g[0] = dirs /\ g[1] = Append(dirs, n)
  BY <1>2
<1>5. Step(g) = g
  <2>1. \A k \in 0..Len(parts) : k = 0 \/ k = 1
    BY <1>2
  <2>2. Step(g)[0] = g[0] /\ Step(g)[1] = g[1]
    BY <1>3, <1>4, Zenon
  <2>3. \A k \in 0..Len(parts) : Step(g)[k] = g[k]
    <3> HIDE DEF Step, g
    <3>1. QED
      BY <2>1, <2>2, Zenon
  <2>4. QED
    BY <2>3
<1>6. dir = Step(dir)
  BY <1>5
<1> HIDE DEF dir, Step
<1>7. dir[0] = dirs /\ dir[1] = Append(dir[0], n)
  BY <1>3, <1>6, Zenon
<1>8. QED
  BY <1>1, <1>2, <1>7, Zenon

\* What ValidateDomain accepts is one directory further down.
LEMMA DomainStaysBelow ==
    ASSUME NEW dirs, NEW n \in Text, ValidateDomain(n)
    PROVE  Join(dirs, n) = Append(dirs, n)
<1>1. n \in Seq(STRING) /\ n # <<>>
  BY DEF Text, ValidateDomain
<1>2. \A i \in 1..Len(n) : n[i] # "/"
  BY <1>1 DEF ValidateDomain, ToSet, Foreign
<1>3. n \notin {<<".">>, <<".", ".">>}
  BY SplitDots DEF ValidateDomain
<1>4. QED
  BY <1>1, <1>2, <1>3, SplitWhole, JoinOne

-----------------------------------------------------------------------------
\* The manual pages.

\* The pages of the client, and what tells them apart.
LEMMA PagesDiffer ==
    /\ ClientRegistry = <<clientPage, serverPage, clientsPage, protocolPage>>
    /\ clientPage.Name = <<"cert-proxy-client">> /\ clientPage.Section = <<"8">>
    /\ serverPage.Name = <<"cert-proxy-server">> /\ serverPage.Section = <<"8">>
    /\ clientsPage.Name = <<"cert-proxy-clients">> /\ clientsPage.Section = <<"5">>
    /\ protocolPage.Name = <<"cert-proxy">> /\ protocolPage.Section = <<"7">>
    /\ NoPage.Name = <<"">>
  BY DEF ClientRegistry, clientPage, serverPage, clientsPage, protocolPage, NoPage, Page

\* Texts of one symbol are as different as their symbols.
LEMMA OneSymbol ==
    /\ \A x, y : <<x>> = <<y>> <=> x = y
    /\ \A x : <<x>> # <<>>
  OBVIOUS

\* The smallest of up to four positions.
LEMMA MinOfFour ==
    ASSUME NEW I \in SUBSET (1..4), I # {}
    PROVE  Min(I) = IF 1 \in I THEN 1 ELSE IF 2 \in I THEN 2 ELSE IF 3 \in I THEN 3 ELSE 4
<1>1. 4 \in Nat
  OBVIOUS
<1>2. Min(I) \in I /\ \A i \in I : Min(I) <= i
  BY <1>1, EndsOfPositions
<1> DEFINE m == Min(I)
<1> HIDE DEF m
<1>3. m \in I /\ \A i \in I : m <= i
  BY <1>2 DEF m
<1>4. m \in {1, 2, 3, 4} /\ I \subseteq {1, 2, 3, 4}
  BY <1>3
<1>5. m = IF 1 \in I THEN 1 ELSE IF 2 \in I THEN 2 ELSE IF 3 \in I THEN 3 ELSE 4
  BY <1>3, <1>4
<1>6. QED
  BY <1>5 DEF m

\* The table of a section and a name.
LEMMA PageIs ==
    ASSUME NEW s, NEW n
    PROVE  page(ClientRegistry, s, n) =
             IF s = <<"8">> /\ n \in {<<>>, <<"cert-proxy-client">>} THEN clientPage
             ELSE IF s = <<"8">> /\ n = <<"cert-proxy-server">> THEN serverPage
             ELSE IF s = <<"5">> /\ n \in {<<>>, <<"cert-proxy-clients">>} THEN clientsPage
             ELSE IF s = <<"7">> /\ n \in {<<>>, <<"cert-proxy">>} THEN protocolPage
             ELSE NoPage
<1> DEFINE r == ClientRegistry
           Fits(p) == p.Section = s /\ (n = <<>> \/ p.Name = n)
           I == {i \in 1..Len(r) : Fits(r[i])}
<1>1. page(r, s, n) = IF (IF I # {} THEN Min(I) ELSE 0) = 0 THEN NoPage
                      ELSE r[IF I # {} THEN Min(I) ELSE 0]
  BY DEF page, SelectInSeq
<1>2. /\ Len(r) = 4 /\ r[1] = clientPage /\ r[2] = serverPage /\ r[3] = clientsPage
      /\ r[4] = protocolPage
  BY PagesDiffer
<1> HIDE DEF r
<1>3. /\ 1 \in I <=> s = <<"8">> /\ n \in {<<>>, <<"cert-proxy-client">>}
      /\ 2 \in I <=> s = <<"8">> /\ n \in {<<>>, <<"cert-proxy-server">>}
      /\ 3 \in I <=> s = <<"5">> /\ n \in {<<>>, <<"cert-proxy-clients">>}
      /\ 4 \in I <=> s = <<"7">> /\ n \in {<<>>, <<"cert-proxy">>}
  <2>1. \A i \in {1, 2, 3, 4} : i \in 1..Len(r)
    BY <1>2
  <2>2. \A i \in {1, 2, 3, 4} : i \in I <=> r[i].Section = s /\ (n = <<>> \/ r[i].Name = n)
    BY <2>1
  <2>3. \A x, y : <<x>> = <<y>> <=> x = y
    OBVIOUS
  <2> HIDE DEF I
  <2>4. 1 \in I <=> s = <<"8">> /\ n \in {<<>>, <<"cert-proxy-client">>}
    BY <1>2, <2>2, PagesDiffer
  <2>5. 2 \in I <=> s = <<"8">> /\ n \in {<<>>, <<"cert-proxy-server">>}
    BY <1>2, <2>2, PagesDiffer
  <2>6. 3 \in I <=> s = <<"5">> /\ n \in {<<>>, <<"cert-proxy-clients">>}
    BY <1>2, <2>2, PagesDiffer
  <2>7. 4 \in I <=> s = <<"7">> /\ n \in {<<>>, <<"cert-proxy">>}
    BY <1>2, <2>2, PagesDiffer
  <2>8. QED
    BY <2>4, <2>5, <2>6, <2>7
<1>4. I \in SUBSET (1..4)
  BY <1>2
<1> HIDE DEF I
<1>5. CASE I = {}
  <2>1. page(r, s, n) = NoPage
    BY <1>1, <1>5
  <2>2. \A i \in {1, 2, 3, 4} : i \notin I
    BY <1>5
  <2>3. QED
    BY <1>3, <2>1, <2>2, Zenon DEF r
<1>6. CASE I # {}
  <2>1. Min(I) = IF 1 \in I THEN 1 ELSE IF 2 \in I THEN 2 ELSE IF 3 \in I THEN 3 ELSE 4
    BY <1>4, <1>6, MinOfFour
  <2>2. 1 \in I \/ 2 \in I \/ 3 \in I \/ 4 \in I
    <3>1. \A i \in 1..4 : i \in {1, 2, 3, 4}
      OBVIOUS
    <3>2. \A i \in I : i \in {1, 2, 3, 4}
      BY <1>4, <3>1, Zenon
    <3>3. QED
      BY <1>6, <3>2, Zenon
  <2>3. page(r, s, n) = r[Min(I)]
    BY <1>1, <1>6, <2>1
  <2>4. QED
    BY <1>2, <1>3, <2>1, <2>2, <2>3 DEF r
<1>7. QED
  BY <1>5, <1>6

\* The table of a name: there is one section for each.
LEMMA ByNameIs ==
    ASSUME NEW n
    PROVE  byName(ClientRegistry, n) =
             IF n = <<"cert-proxy-client">> THEN clientPage
             ELSE IF n = <<"cert-proxy-server">> THEN serverPage
             ELSE IF n = <<"cert-proxy-clients">> THEN clientsPage
             ELSE IF n = <<"cert-proxy">> THEN protocolPage
             ELSE NoPage
<1> DEFINE r == ClientRegistry
           Has(d) == \E k \in DOMAIN r : r[k].Section = d /\ r[k].Name = n
           I == {i \in 1..Len(Digits) : Has(Digits[i])}
           lowest == IF I # {} THEN Min(I) ELSE 0
<1>1. byName(r, n) = IF lowest = 0 THEN NoPage ELSE page(r, Digits[lowest], n)
  BY DEF byName, SelectInSeq
<1>2. Len(Digits) = 9 /\ Digits[5] = <<"5">> /\ Digits[7] = <<"7">> /\ Digits[8] = <<"8">>
  BY DEF Digits
<1>3. \A i \in 1..9 : /\ Digits[i] = <<"5">> => i = 5
                      /\ Digits[i] = <<"7">> => i = 7
                      /\ Digits[i] = <<"8">> => i = 8
  BY DEF Digits
<1>4. \A d : Has(d) <=> \/ d = <<"8">> /\ n = <<"cert-proxy-client">>
                        \/ d = <<"8">> /\ n = <<"cert-proxy-server">>
                        \/ d = <<"5">> /\ n = <<"cert-proxy-clients">>
                        \/ d = <<"7">> /\ n = <<"cert-proxy">>
  <2>1. /\ DOMAIN r = {1, 2, 3, 4} /\ r[1] = clientPage /\ r[2] = serverPage
        /\ r[3] = clientsPage /\ r[4] = protocolPage
    <3>1. ASSUME NEW a, NEW b, NEW c, NEW d, NEW q, q = <<a, b, c, d>>
          PROVE  /\ DOMAIN q = {1, 2, 3, 4}
                 /\ q[1] = a /\ q[2] = b /\ q[3] = c /\ q[4] = d
      BY <3>1
    <3> HIDE DEF r
    <3>2. r = <<clientPage, serverPage, clientsPage, protocolPage>>
      BY PagesDiffer DEF r
    <3>3. QED
      BY <3>1, <3>2
  <2> HIDE DEF r
  <2>2. ASSUME NEW d
        PROVE  Has(d) <=> \/ r[1].Section = d /\ r[1].Name = n
                          \/ r[2].Section = d /\ r[2].Name = n
                          \/ r[3].Section = d /\ r[3].Name = n
                          \/ r[4].Section = d /\ r[4].Name = n
    BY <2>1, Zenon
  <2> HIDE DEF Has
  <2>3. QED
    BY <2>1, <2>2, PagesDiffer, Zenon
<1> HIDE DEF r, Has
<1>5. I \in SUBSET (1..9)
  BY <1>2
<1>6. CASE n \in {<<"cert-proxy-client">>, <<"cert-proxy-server">>}
  <2>1. I = {8}
    BY <1>2, <1>3, <1>4, <1>6
  <2>2. Min(I) = 8
    BY <1>5, <2>1, EndsOfPositions
  <2>3. byName(r, n) = page(r, <<"8">>, n)
    BY <1>1, <1>2, <2>1, <2>2
  <2>4. QED
    BY <1>6, <2>3, PageIs DEF r
<1>7. CASE n = <<"cert-proxy-clients">>
  <2>1. I = {5}
    BY <1>2, <1>3, <1>4, <1>7
  <2>2. Min(I) = 5
    BY <1>5, <2>1, EndsOfPositions
  <2>3. byName(r, n) = page(r, <<"5">>, n)
    BY <1>1, <1>2, <2>1, <2>2
  <2>4. QED
    BY <1>7, <2>3, PageIs DEF r
<1>8. CASE n = <<"cert-proxy">>
  <2>1. I = {7}
    BY <1>2, <1>3, <1>4, <1>8
  <2>2. Min(I) = 7
    BY <1>5, <2>1, EndsOfPositions
  <2>3. byName(r, n) = page(r, <<"7">>, n)
    BY <1>1, <1>2, <2>1, <2>2
  <2>4. QED
    BY <1>8, <2>3, PageIs DEF r
<1>9. CASE n \notin {<<"cert-proxy-client">>, <<"cert-proxy-server">>, <<"cert-proxy-clients">>,
                     <<"cert-proxy">>}
  <2>1. I = {}
    BY <1>4, <1>9
  <2>2. QED
    BY <1>1, <1>9, <2>1 DEF r
<1>10. QED
  BY <1>6, <1>7, <1>8, <1>9

\* A page is recorded under one of the section digits, and no digit is a name.
LEMMA SectionsAreDigits ==
    /\ isSection(<<"5">>) /\ isSection(<<"7">>) /\ isSection(<<"8">>)
    /\ \A a \in {<<>>, <<"cert-proxy-client">>, <<"cert-proxy-server">>,
                  <<"cert-proxy-clients">>, <<"cert-proxy">>} : ~isSection(a)
<1>1. /\ Len(Digits) = 9
      /\ Digits[1] = <<"1">> /\ Digits[2] = <<"2">> /\ Digits[3] = <<"3">>
      /\ Digits[4] = <<"4">> /\ Digits[5] = <<"5">> /\ Digits[6] = <<"6">>
      /\ Digits[7] = <<"7">> /\ Digits[8] = <<"8">> /\ Digits[9] = <<"9">>
  BY DEF Digits
<1> HIDE DEF Digits
<1>2. ASSUME NEW a PROVE isSection(a) <=> \E i \in 1..9 : Digits[i] = a
  BY <1>1 DEF isSection, Contains
<1>3. \A i \in 1..9 : i \in {1, 2, 3, 4, 5, 6, 7, 8, 9}
  OBVIOUS
<1>4. 5 \in 1..9 /\ 7 \in 1..9 /\ 8 \in 1..9
  OBVIOUS
<1>5. isSection(<<"5">>) /\ isSection(<<"7">>) /\ isSection(<<"8">>)
  BY <1>1, <1>2, <1>4, Zenon
<1>6. \A i \in 1..9 : Digits[i] \notin
         {<<>>, <<"cert-proxy-client">>, <<"cert-proxy-server">>,
          <<"cert-proxy-clients">>, <<"cert-proxy">>}
  BY <1>1, <1>3
<1>7. QED
  BY <1>2, <1>5, <1>6, Zenon

\* The pages that are built in.
ManualPages == {clientPage, serverPage, clientsPage, protocolPage}

\* The page that is found is described by the arguments, the client's own first.
LEMMA ResolveAsDescribed ==
    ASSUME NEW args \in Seq(Text), NEW found, found = Resolve(ClientRegistry, args),
           NEW wanted, wanted = Described(args, ManualPages)
    PROVE  /\ wanted = {} <=> found = NoPage
           /\ found # NoPage => found \in wanted
           /\ clientPage \in wanted => found = clientPage
<1>1. /\ clientPage # serverPage /\ clientPage # clientsPage /\ clientPage # protocolPage
      /\ clientPage # NoPage /\ serverPage # NoPage /\ clientsPage # NoPage
      /\ protocolPage # NoPage
  <2>1. \A x, y : <<x>> = <<y>> => x = y
    OBVIOUS
  <2>2. /\ <<"cert-proxy-client">> # <<"">> /\ <<"cert-proxy-server">> # <<"">>
        /\ <<"cert-proxy-clients">> # <<"">> /\ <<"cert-proxy">> # <<"">>
        /\ <<"cert-proxy-client">> # <<"cert-proxy-server">>
        /\ <<"cert-proxy-client">> # <<"cert-proxy-clients">>
        /\ <<"cert-proxy-client">> # <<"cert-proxy">>
    BY <2>1
  <2>3. QED
    BY <2>2, PagesDiffer, Zenon
<1>2. Len(args) \in Nat
  OBVIOUS
<1>3. CASE args = <<>>
  <2>1. found = clientPage
    BY <1>3, PageIs DEF Resolve, defaultSection
  <2>2. wanted = {clientPage}
    <3>1. wanted = {p \in ManualPages : p.Name = <<"cert-proxy-client">>}
      BY <1>3 DEF Described
    <3>2. /\ <<"cert-proxy-server">> # <<"cert-proxy-client">>
          /\ <<"cert-proxy-clients">> # <<"cert-proxy-client">>
          /\ <<"cert-proxy">> # <<"cert-proxy-client">>
      OBVIOUS
    <3>3. \A x : x \in wanted <=> x = clientPage
      BY <3>1, <3>2, PagesDiffer, Zenon DEF ManualPages
    <3>4. QED
      BY <3>3
  <2>3. QED
    BY <1>1, <2>1, <2>2
<1>4. CASE Len(args) = 1
  <2> DEFINE a == args[1]
  <2>1. wanted = {p \in ManualPages : a \in {p.Name, p.Section}}
    BY <1>4 DEF Described
  <2>2. found = IF isSection(a) THEN page(ClientRegistry, a, <<>>)
                ELSE byName(ClientRegistry, a)
    BY <1>4 DEF Resolve
  <2> HIDE DEF a
  <2>3. \A x : x \in wanted <=>
             \/ x = clientPage /\ a \in {<<"cert-proxy-client">>, <<"8">>}
             \/ x = serverPage /\ a \in {<<"cert-proxy-server">>, <<"8">>}
             \/ x = clientsPage /\ a \in {<<"cert-proxy-clients">>, <<"5">>}
             \/ x = protocolPage /\ a \in {<<"cert-proxy">>, <<"7">>}
    BY <2>1, PagesDiffer, Zenon DEF ManualPages
  <2>4. CASE isSection(a)
    <3>1. found = IF a = <<"8">> THEN clientPage ELSE IF a = <<"5">> THEN clientsPage
                  ELSE IF a = <<"7">> THEN protocolPage ELSE NoPage
      BY <2>2, <2>4, PageIs
    <3>2. a \notin {<<"cert-proxy-client">>, <<"cert-proxy-server">>,
                    <<"cert-proxy-clients">>, <<"cert-proxy">>}
      BY <2>4, SectionsAreDigits
    <3>3. QED
      BY <1>1, <2>3, <3>1, <3>2
  <2>5. CASE ~isSection(a)
    <3>1. found = IF a = <<"cert-proxy-client">> THEN clientPage
                  ELSE IF a = <<"cert-proxy-server">> THEN serverPage
                  ELSE IF a = <<"cert-proxy-clients">> THEN clientsPage
                  ELSE IF a = <<"cert-proxy">> THEN protocolPage ELSE NoPage
      BY <2>2, <2>5, ByNameIs
    <3>2. a \notin {<<"5">>, <<"7">>, <<"8">>}
      BY <2>5, SectionsAreDigits
    <3>3. QED
      BY <1>1, <2>3, <3>1, <3>2
  <2>6. QED
    BY <2>4, <2>5
<1>5. CASE Len(args) = 2
  <2> DEFINE a == args[1]
             b == args[2]
  <2>1. wanted = {p \in ManualPages : p.Section = a /\ b \in {p.Name, <<>>}}
    BY <1>5 DEF Described
  <2>2. found = page(ClientRegistry, a, b)
    BY <1>5 DEF Resolve
  <2> HIDE DEF a, b
  <2>3. \A x : x \in wanted <=>
             \/ x = clientPage /\ a = <<"8">> /\ b \in {<<"cert-proxy-client">>, <<>>}
             \/ x = serverPage /\ a = <<"8">> /\ b \in {<<"cert-proxy-server">>, <<>>}
             \/ x = clientsPage /\ a = <<"5">> /\ b \in {<<"cert-proxy-clients">>, <<>>}
             \/ x = protocolPage /\ a = <<"7">> /\ b \in {<<"cert-proxy">>, <<>>}
    BY <2>1, PagesDiffer, Zenon DEF ManualPages
  <2>4. found = IF a = <<"8">> /\ b \in {<<>>, <<"cert-proxy-client">>} THEN clientPage
             ELSE IF a = <<"8">> /\ b = <<"cert-proxy-server">> THEN serverPage
             ELSE IF a = <<"5">> /\ b \in {<<>>, <<"cert-proxy-clients">>} THEN clientsPage
             ELSE IF a = <<"7">> /\ b \in {<<>>, <<"cert-proxy">>} THEN protocolPage
             ELSE NoPage
    BY <2>2, PageIs
  <2>5. QED
    BY <1>1, <2>3, <2>4
<1>6. CASE args # <<>> /\ Len(args) # 1 /\ Len(args) # 2
  <2>1. found = NoPage /\ wanted = {}
    BY <1>6 DEF Resolve, Described
  <2>2. QED
    BY <1>1, <2>1
<1>7. QED
  BY <1>3, <1>4, <1>5, <1>6

\* After "man" as the first word nothing is taken for a flag, and the rest are
\* the arguments of the subcommand.
LEMMA CommandArgs ==
    ASSUME NEW argv \in Seq(Text), argv # <<>>, argv[1] = <<"man">>
    PROVE  Parsed(argv) = 0 /\ Args(argv) = argv
<1> DEFINE I == {i \in 1..Len(argv) : argv[i] \notin Flags}
<1>1. Len(argv) \in Nat /\ 1 \in 1..Len(argv) /\ I \subseteq 1..Len(argv)
  OBVIOUS
<1>2. /\ <<"man">> # <<"--">> /\ <<"man">> # <<"-help">> /\ <<"man">> # <<"-version">>
      /\ <<"man">> # <<"-option">> /\ <<"man">> # <<"-bad">>
  OBVIOUS
<1>3. 1 \in I
  <2>1. <<"man">> \notin Flags
    BY <1>2, Zenon DEF Flags
  <2>2. QED
    BY <1>1, <2>1
<1>4. Min(I) = 1
  <2>1. I \in SUBSET Int /\ \A i \in I : 1 <= i
    BY <1>1
  <2>2. QED
    BY <1>3, <2>1, MinIs
<1>5. Parsed(argv) = IF (IF I # {} THEN Min(I) ELSE 0) = 0 THEN Len(argv)
                     ELSE (IF I # {} THEN Min(I) ELSE 0) - 1
  BY DEF Parsed, SelectInSeq
<1>6. Parsed(argv) = 0
  <2> HIDE DEF I
  <2>1. I # {}
    BY <1>3
  <2>2. QED
    BY <1>4, <1>5, <2>1
<1>7. SubSeq(argv, 1, Len(argv)) = argv
  BY SubSeqFull
<1>8. Head(argv) # <<"--">>
  BY <1>1, <1>2
<1>9. Args(argv) = LET rest == SubSeq(argv, Parsed(argv) + 1, Len(argv))
                   IN  IF rest # <<>> /\ Head(rest) = <<"--">> THEN Tail(rest) ELSE rest
  BY DEF Args
<1>10. Parsed(argv) + 1 = 1
  BY <1>6
<1>11. QED
  BY <1>6, <1>7, <1>8, <1>9, <1>10, Zenon

-----------------------------------------------------------------------------
\* The start.

\* How far the domains are gathered.
Gathered ==
    /\ main = "flags" => cns = {}
    /\ main \in {"secret", "connect", "certbase", "cnfile"} => cns = ToSet(Args(inp.argv))
    /\ main \in {"tls", "fetch"} => cns = ToSet(Args(inp.argv)) \cup AddItemsFromFile
    /\ main = "fetch" => inp.auto
    /\ main = "new" => cns = Wanted

\* What a checked address is, from the check of -connect on.
AddressChecked ==
    main \in {"certbase", "cnfile", "tls", "fetch", "new"} =>
       /\ base.form = "url" /\ base.scheme = "https" /\ base.host # "none"
       /\ LandsIn(base) = "path"
       /\ base.path # <<>> => Last(base.path) # "/"

\* From the check of -certbase on there is such a directory.
CertbaseChecked == main \in {"cnfile", "tls", "fetch", "new"} => inp.certbase = "dir"

\* The inductive invariant of the start.
StartInv ==
    /\ StartOK
    /\ main \in StartLocations \cup Exits
    /\ IsFiniteSet(cns)
    /\ Gathered
    /\ AddressChecked
    /\ CertbaseChecked

\* The path of an address without the slashes at its end.
LEMMA SanitizedPath ==
    ASSUME NEW u \in Address
    PROVE  /\ Sanitized(u) = [u EXCEPT !.path = Sanitized(u).path, !.fragment = "none"]
           /\ Sanitized(u).path \in Seq({"/", "x"})
           /\ Sanitized(u).path # <<>> => Last(Sanitized(u).path) # "/"
<1> DEFINE p == u.path
           I == {i \in 1..Len(p) : p[i] # "/"}
           k == IF I # {} THEN Max(I) ELSE 0
           q == SubSeq(p, 1, k)
<1>1. Sanitized(u) = [u EXCEPT !.path = q, !.fragment = "none"]
  BY DEF Sanitized, SelectLastInSeq
<1>2. p \in Seq({"/", "x"})
  BY DEF Address
<1>3. Len(p) \in Nat /\ I \in SUBSET (1..Len(p))
  BY <1>2
<1>4. I # {} => Max(I) \in I
  BY <1>3, EndsOfPositions
<1>5. k \in 0..Len(p) /\ (k # 0 => p[k] # "/")
  BY <1>3, <1>4
<1>6. Sanitized(u).path = q
  BY <1>1 DEF Address
<1> HIDE DEF p, I, k
<1>7. /\ q \in Seq({"/", "x"})
      /\ Len(q) = k
      /\ \A i \in 1..k : q[i] = p[i]
  BY <1>2, <1>3, <1>5, SubSeqProperties
<1> HIDE DEF q
<1>8. q # <<>> => k # 0
  BY <1>7
<1>9. q # <<>> => Last(q) # "/"
  BY <1>3, <1>5, <1>7, <1>8 DEF Last
<1>10. QED
  BY <1>1, <1>6, <1>7, <1>9

\* The checks that let an address through, and what becomes of it.
LEMMA ConnectSound ==
    ASSUME NEW a \in Address, NEW u, u = withScheme(a),
           u.form # "malformed", checkConnectURL(u)
    PROVE  /\ Sanitized(u) \in Address
           /\ Sanitized(u).form = "url" /\ Sanitized(u).scheme = "https"
           /\ Sanitized(u).host # "none"
           /\ LandsIn(Sanitized(u)) = "path"
           /\ Sanitized(u).path # <<>> => Last(Sanitized(u).path) # "/"
<1>1. /\ u \in Address /\ u.form = "url" /\ u.scheme = "https"
      /\ u.host # "none" /\ u.query = "none"
  BY DEF withScheme, checkConnectURL, Address
<1>2. PICK q \in Seq({"/", "x"}) :
        /\ Sanitized(u) = [u EXCEPT !.path = q, !.fragment = "none"]
        /\ Sanitized(u).path = q
        /\ q # <<>> => Last(q) # "/"
  BY <1>1, SanitizedPath
<1> DEFINE v == [u EXCEPT !.path = q, !.fragment = "none"]
<1>3. /\ v.form = u.form /\ v.scheme = u.scheme /\ v.host = u.host
      /\ v.query = u.query /\ v.fragment = "none" /\ v.path = q
  BY <1>1 DEF Address
<1>4. v \in Address
  BY <1>1 DEF Address
<1> HIDE DEF v
<1>5. Sanitized(u) = v
  BY <1>2 DEF v
<1>6. LandsIn(v) = "path"
  BY <1>1, <1>3 DEF LandsIn
<1>7. QED
  BY <1>1, <1>2, <1>3, <1>4, <1>5, <1>6

\* The invariant holds when the client starts.
LEMMA StartInvInit == ASSUME inp \in Input, StartInit PROVE StartInv
<1>1. IsFiniteSet({})
  BY FS_EmptySet
<1>2. QED
  BY <1>1 DEF StartInit, StartInv, StartOK, StartLocations, Gathered, AddressChecked, CertbaseChecked

\* What an end of the client keeps.
LEMMA ExitKeeps == ASSUME StartInv, NEW code \in Exits, Exit(code) PROVE StartInv'
<1> USE DEF Exit, StartInv
<1>1. StartOK' /\ IsFiniteSet(cns)'
  BY DEF StartOK
<1>2. main' \in Exits
  OBVIOUS
<1>3. Gathered' /\ AddressChecked' /\ CertbaseChecked'
  BY <1>2 DEF Gathered, AddressChecked, CertbaseChecked, Exits
<1>4. QED
  BY <1>1, <1>2, <1>3

\* parseFlags up to the arguments.
LEMMA ParseFlagsKeeps == ASSUME StartInv, ParseFlags PROVE StartInv'
<1>1. CASE \E code \in Exits : Exit(code)
  BY <1>1, ExitKeeps
<1>2. CASE ShowManual
  <2>1. Display(shown') \subseteq Exits
    BY DEF Display, Exits
  <2>2. QED
    BY <1>1, <1>2, <2>1 DEF ShowManual
<1>3. CASE AddArgs
  <2>1. inp' = inp /\ base' = base /\ main = "flags"
    BY <1>3 DEF AddArgs
  <2>2. CASE main' = "exit1" /\ UNCHANGED cns
    BY <1>1, <2>1, <2>2 DEF Exit, Exits
  <2>3. CASE main' = "secret" /\ cns' = ToSet(Args(inp.argv))
    <3>1. inp.argv \in Seq(Text)
      BY DEF StartInv, StartOK, Input
    <3>2. cns' \subseteq Text /\ IsFiniteSet(cns')
      BY <2>3, <3>1, ArgsText, ToSetFinite
    <3>3. StartOK'
      BY <2>1, <3>2 DEF StartInv, StartOK
    <3>4. Gathered' /\ AddressChecked' /\ CertbaseChecked'
      BY <2>1, <2>3 DEF Gathered, AddressChecked, CertbaseChecked
    <3>5. QED
      BY <2>3, <3>2, <3>3, <3>4 DEF StartInv, StartLocations
  <2>4. QED
    BY <1>3, <2>2, <2>3 DEF AddArgs
<1>4. QED
  BY <1>1, <1>2, <1>3 DEF ParseFlags, FlagsRejected, Inform, Usage, Exits

\* The other checks: the address is the one that changes something.
LEMMA ChecksKeep ==
    ASSUME StartInv, ReadSecret \/ Connect \/ CheckCertbase \/ SetupTLS
    PROVE  StartInv'
<1>0. inp' = inp /\ cns' = cns
  BY DEF ReadSecret, Connect, CheckCertbase, SetupTLS, Check
<1>1. CASE main' \in {"exit1", "exit2"} /\ base' = base
  BY <1>0, <1>1, ExitKeeps DEF Exit, Exits
<1>2. CASE ReadSecret /\ main' \notin {"exit1", "exit2"}
  BY <1>0, <1>2 DEF ReadSecret, Check, StartInv, StartOK, StartLocations, Gathered,
     AddressChecked, CertbaseChecked
<1>3. CASE Connect /\ main' \notin {"exit1", "exit2"}
  <2> DEFINE u == withScheme(inp.connect)
  <2>1. /\ main = "connect" /\ main' = "certbase" /\ base' = Sanitized(u)
        /\ u.form # "malformed" /\ checkConnectURL(u)
    BY <1>3 DEF Connect, Check
  <2>2. inp.connect \in Address
    BY DEF StartInv, StartOK, Input
  <2>3. AddressChecked' /\ base' \in Address
    BY <2>1, <2>2, ConnectSound DEF AddressChecked
  <2> HIDE DEF u
  <2>4. QED
    BY <1>0, <2>1, <2>3 DEF StartInv, StartOK, StartLocations, Gathered, CertbaseChecked
<1>4. CASE CheckCertbase /\ main' \notin {"exit1", "exit2"}
  <2>1. main = "certbase" /\ main' = "cnfile" /\ base' = base /\ inp.certbase = "dir"
    BY <1>4 DEF CheckCertbase, Check
  <2>2. AddressChecked'
    BY <2>1 DEF StartInv, AddressChecked
  <2>3. QED
    BY <1>0, <2>1, <2>2 DEF StartInv, StartOK, StartLocations, Gathered, CertbaseChecked
<1>5. CASE SetupTLS /\ main' \notin {"exit1", "exit2"}
  <2>1. /\ main = "tls" /\ base' = base
        /\ main' = IF inp.auto THEN "fetch" ELSE "new"
    BY <1>5 DEF SetupTLS, TLSFailure
  <2>2. AddressChecked' /\ CertbaseChecked'
    BY <1>0, <2>1 DEF StartInv, AddressChecked, CertbaseChecked
  <2>3. Gathered'
    BY <1>0, <2>1 DEF StartInv, Gathered, Wanted, AddItemsFromFile
  <2>4. QED
    BY <1>0, <2>1, <2>2, <2>3 DEF StartInv, StartOK, StartLocations
<1>6. QED
  BY <1>1, <1>2, <1>3, <1>4, <1>5 DEF ReadSecret, Connect, CheckCertbase, SetupTLS,
     TLSFailure, Check

\* The file of domains and the server's list.
LEMMA ListsKeep == ASSUME StartInv, ReadCNs \/ FetchCNs \/ FetchFails PROVE StartInv'
<1>0. inp' = inp /\ base' = base
  BY DEF ReadCNs, FetchCNs, FetchFails, Exit
<1>1. CASE main' = "exit1" /\ cns' = cns
  BY <1>0, <1>1, ExitKeeps DEF Exit, Exits
<1>2. CASE ReadCNs /\ main' = "tls" /\ cns' = cns \cup AddItemsFromFile
  <2>1. main = "cnfile"
    BY <1>2 DEF ReadCNs
  <2>2. inp.cnfile \in Seq(Text) \cup {None}
    BY DEF StartInv, StartOK, Input
  <2>3. AddItemsFromFile \subseteq Text /\ IsFiniteSet(AddItemsFromFile)
    BY <2>2, ItemsText, FS_EmptySet DEF AddItemsFromFile
  <2>4. cns' \subseteq Text /\ IsFiniteSet(cns')
    BY <1>2, <2>3, FS_Union DEF StartInv, StartOK
  <2>5. AddressChecked' /\ CertbaseChecked'
    BY <1>0, <1>2, <2>1 DEF StartInv, AddressChecked, CertbaseChecked
  <2>6. Gathered'
    BY <1>0, <1>2, <2>1 DEF StartInv, Gathered, AddItemsFromFile
  <2>7. QED
    BY <1>0, <1>2, <2>4, <2>5, <2>6 DEF StartInv, StartOK, StartLocations
<1>3. CASE FetchCNs /\ main' = "new" /\ cns' = cns \cup {Trim(n) : n \in Items(inp.list)}
  <2>1. main = "fetch"
    BY <1>3 DEF FetchCNs
  <2>2. inp.list \in Seq(Text)
    BY DEF StartInv, StartOK, Input
  <2>3. cns' = cns \cup Items(inp.list)
    BY <1>3, <2>2, ItemsText
  <2>4. cns' \subseteq Text /\ IsFiniteSet(cns')
    BY <2>2, <2>3, ItemsText, FS_Union DEF StartInv, StartOK
  <2>5. AddressChecked' /\ CertbaseChecked'
    BY <1>0, <1>3, <2>1 DEF StartInv, AddressChecked, CertbaseChecked
  <2>6. Gathered'
    BY <1>0, <1>3, <2>1, <2>3 DEF StartInv, Gathered, Wanted, AddItemsFromFile
  <2>7. QED
    BY <1>0, <1>3, <2>4, <2>5, <2>6 DEF StartInv, StartOK, StartLocations
<1>4. QED
  BY <1>1, <1>2, <1>3 DEF ReadCNs, FetchCNs, FetchFails, Exit

\* Every step of the start keeps its invariant.
LEMMA StartInvNext == StartInv /\ StartNext => StartInv'
  BY ParseFlagsKeeps, ChecksKeep, ListsKeep DEF StartNext

\* And so does a step that leaves the start alone.
LEMMA StartInvStutter == StartInv /\ UNCHANGED <<main, inp, cns, base, shown>> => StartInv'
<1> SUFFICES ASSUME StartInv, UNCHANGED <<main, inp, cns, base, shown>> PROVE StartInv'
  OBVIOUS
<1>1. StartOK' /\ IsFiniteSet(cns)' /\ (main \in StartLocations \cup Exits)'
  BY DEF StartInv, StartOK
<1>2. Gathered' /\ AddressChecked' /\ CertbaseChecked'
  BY DEF StartInv, Gathered, AddressChecked, CertbaseChecked, Wanted, AddItemsFromFile
<1>3. QED
  BY <1>1, <1>2 DEF StartInv

\* The property of the address and the store follows from it.
LEMMA StartInvSound == StartInv => RequestsAreSound
  BY DEF StartInv, AddressChecked, CertbaseChecked, RequestsAreSound

-----------------------------------------------------------------------------
\* Names and pages, step by step.

\* The domains that have been gathered are checked.
Validated == \A n \in cns : ValidateDomain(n)

\* A list with a name that is not valid ends the client before it is taken over.
LEMMA ValidatedNext ==
    ASSUME Validated, StartNext PROVE Validated'
<1>1. CASE cns' = cns
  BY <1>1 DEF Validated
<1>2. CASE AddArgs
  <2>1. CASE \A n \in ToSet(Args(inp.argv)) : ValidateDomain(n)
    BY <1>2, <2>1 DEF AddArgs, Validated
  <2>2. QED
    BY <1>1, <1>2, <2>1 DEF AddArgs
<1>3. CASE ReadCNs
  BY <1>1, <1>3 DEF ReadCNs, Validated
<1>4. CASE FetchCNs
  BY <1>1, <1>4 DEF FetchCNs, Validated
<1>5. QED
  BY <1>1, <1>2, <1>3, <1>4 DEF StartNext, ParseFlags, FlagsRejected, Inform, ShowManual,
     Usage, Exit, ReadSecret, Connect, CheckCertbase, SetupTLS, Check, FetchFails

\* So they stay below -certbase, and the names of clients below -ccd.
LEMMA ValidatedBelow ==
    ASSUME StartOK, Validated PROVE NamesStayBelow
<1>1. \A n \in cns : n \in Text
  BY DEF StartOK
<1>2. \A dirs : \A n \in cns : Join(dirs, n) = Append(dirs, n)
  BY <1>1, DomainStaysBelow DEF Validated
<1>3. ASSUME inp.cnfile # None, NEW n \in ToSet(inp.cnfile), ValidateClientName(n), NEW dirs
      PROVE  Join(dirs, n) = Append(dirs, n)
  <2>1. inp.cnfile \in Seq(Text)
    BY <1>3 DEF StartOK, Input
  <2>2. n \in Text
    BY <2>1, ToSetFinite
  <2>3. QED
    BY <1>3, <2>2, DomainStaysBelow DEF ValidateClientName
<1>4. QED
  BY <1>2, <1>3 DEF NamesStayBelow

\* The page that is shown, once the arguments are read.
LEMMA ManualNext ==
    ASSUME inp \in Input, ManualAsDescribed, StartNext PROVE ManualAsDescribed'
<1> DEFINE asked == inp.argv # <<>> /\ inp.argv[1] = <<"man">>
           wanted == IF asked THEN Described(Tail(inp.argv), ManualPages) ELSE {}
           Found == /\ wanted = {} <=> shown' = NoPage
                    /\ shown' # NoPage => shown' \in wanted
                    /\ clientPage \in wanted => shown' = clientPage
<1>1. inp' = inp
  BY DEF StartNext, ParseFlags, FlagsRejected, Inform, ShowManual, Usage, AddArgs, Exit,
     ReadSecret, Connect, CheckCertbase, SetupTLS, Check, ReadCNs, FetchCNs, FetchFails
<1>2. inp.argv \in Seq(Text)
  BY DEF Input
<1>3. main' # "flags"
  <2>1. CASE ShowManual
    BY <2>1 DEF ShowManual, Exit, Display
  <2>2. CASE SetupTLS
    BY <2>2 DEF SetupTLS, TLSFailure
  <2>3. QED
    BY <2>1, <2>2 DEF StartNext, ParseFlags, FlagsRejected, Inform, Usage, AddArgs, Exit,
       ReadSecret, Connect, CheckCertbase, Check, ReadCNs, FetchCNs, FetchFails
<1>4. ManualAsDescribed' = Found
  BY <1>1, <1>3 DEF ManualAsDescribed, ManualPages
<1>5. CASE main # "flags"
  <2>1. shown' = shown
    BY <1>5 DEF StartNext, ParseFlags, FlagsRejected, Inform, ShowManual, Usage, AddArgs,
       ReadSecret, Connect, CheckCertbase, SetupTLS, Check, ReadCNs, FetchCNs, FetchFails
  <2>2. QED
    BY <1>4, <1>5, <2>1 DEF ManualAsDescribed, ManualPages
<1>6. CASE main = "flags" /\ asked
  <2>1. Parsed(inp.argv) = 0 /\ Args(inp.argv) = inp.argv
    BY <1>2, <1>6, CommandArgs
  <2>2. \A f : ~Given(f)
    BY <1>2, <2>1 DEF Given, ToSet
  <2>3. IsCommand(inp.argv)
    BY <1>6 DEF IsCommand, Command
  <2>4. ShowManual
    BY <1>6, <2>2, <2>3 DEF StartNext, ParseFlags, FlagsRejected, Inform, Usage, AddArgs,
       ReadSecret, Connect, CheckCertbase, SetupTLS, Check, ReadCNs, FetchCNs, FetchFails
  <2>5. shown' = Resolve(ClientRegistry, Tail(inp.argv))
    BY <2>1, <2>4 DEF ShowManual
  <2>6. Tail(inp.argv) \in Seq(Text)
    BY <1>2, <1>6
  <2>7. Found
    BY <1>6, <2>5, <2>6, ResolveAsDescribed
  <2>8. QED
    BY <1>4, <2>7
<1>7. CASE main = "flags" /\ ~asked
  <2>1. shown = NoPage /\ ~IsCommand(inp.argv)
    BY <1>7 DEF ManualAsDescribed, IsCommand, Command
  <2>2. shown' = shown
    BY <1>7, <2>1 DEF StartNext, ParseFlags, FlagsRejected, Inform, ShowManual, Usage, AddArgs,
       ReadSecret, Connect, CheckCertbase, SetupTLS, Check, ReadCNs, FetchCNs, FetchFails
  <2>3. QED
    BY <1>4, <1>7, <2>1, <2>2
<1>8. QED
  BY <1>5, <1>6, <1>7

=============================================================================
