---------------------------- MODULE FormatsProofs ----------------------------
(***************************************************************************)
(* The promises of Wire, Listing, RoutePatterns and Mime for texts, lines, *)
(* mailboxes and patterns of every length and for messages of any number   *)
(* of parts, and so the properties of MCFormats for all bounds.            *)
(*                                                                         *)
(* The loops of the code are functions that refer to themselves.  That     *)
(* such a function exists, and how it grows with its argument, follows     *)
(* from induction over sets: the property to be proved is a set, and the   *)
(* sequences that have it are shown to be all sequences.                   *)
(***************************************************************************)
EXTENDS MCFormats, SequenceTheorems, FiniteSetTheorems, WellFoundedInduction, TLAPS

-----------------------------------------------------------------------------
(* Induction, with a set for the property that is proved                   *)

\* A set of numbers has a least one.
LEMMA LeastNumber ==
    ASSUME NEW S \in SUBSET Nat, S # {}
    PROVE  \E i \in S : \A j \in S : i <= j
<1> DEFINE R == OpToRel(<, Nat)
<1>1. IsWellFoundedOn(R, Nat)
  BY NatLessThanWellFounded
<1>2. \A x, y \in Nat : x < y => <<x, y>> \in R
  BY DEF OpToRel
<1> HIDE DEF R
<1>3. PICK i \in S : \A j \in S : ~ (<<j, i>> \in R)
  BY <1>1, WFMin
<1>4. \A j \in S : j \in Nat /\ i \in Nat /\ ~ (j < i)
  BY <1>2, <1>3
<1>5. \A j \in S : i <= j
  BY <1>4
<1> QED
  BY <1>3, <1>5

\* A set with 0 that is closed under successors contains every number: the
\* least number that is missing would have a predecessor that is missing too.
LEMMA SetInduction ==
    ASSUME NEW S, 0 \in S, \A n \in Nat : n \in S => n + 1 \in S
    PROVE  Nat \subseteq S
<1> SUFFICES ASSUME Nat \ S # {} PROVE FALSE
  OBVIOUS
<1>1. PICK x \in Nat \ S : \A y \in Nat \ S : x <= y
  <2>1. Nat \ S \in SUBSET Nat
    OBVIOUS
  <2> QED
    BY <2>1, LeastNumber
<1>2. x # 0 /\ x - 1 \in Nat /\ ~ (x <= x - 1)
  BY <1>1
<1>3. x - 1 \in S
  BY <1>1, <1>2
<1>4. (x - 1) + 1 \in S
  BY <1>2, <1>3
<1> QED
  BY <1>1, <1>2, <1>4

\* A set with the empty sequence that is closed under one more element
\* contains every sequence.
LEMMA SeqInduction ==
    ASSUME NEW A, NEW P, <<>> \in P,
           \A s \in Seq(A), x \in A : s \in P => Append(s, x) \in P
    PROVE  Seq(A) \subseteq P
<1> DEFINE Good == {n \in Nat : \A s \in Seq(A) : Len(s) = n => s \in P}
<1>1. 0 \in Good
  <2>1. \A s \in Seq(A) : Len(s) = 0 => s = <<>>
    BY EmptySeq
  <2> QED
    BY <2>1
<1>2. ASSUME NEW n \in Nat, n \in Good PROVE n + 1 \in Good
  <2> SUFFICES ASSUME NEW t \in Seq(A), Len(t) = n + 1 PROVE t \in P
    OBVIOUS
  <2>1. t # <<>>
    BY EmptySeq
  <2>2. PICK s \in Seq(A), x \in A : t = Append(s, x)
    BY <2>1, SequenceEmptyOrAppend
  <2>3. Len(s) \in Nat /\ Len(t) = Len(s) + 1
    BY <2>2, AppendProperties, LenProperties
  <2>4. Len(s) = n
    BY <2>3
  <2> QED
    BY <1>2, <2>2, <2>4
<1> HIDE DEF Good
<1>3. Nat \subseteq Good
  BY <1>1, <1>2, SetInduction
<1> QED
  BY <1>3, LenProperties DEF Good

\* Cutting off the element that was appended.
LEMMA FrontLast ==
    ASSUME NEW A, NEW s \in Seq(A), NEW x \in A
    PROVE  /\ Front(Append(s, x)) = s /\ Last(Append(s, x)) = x
           /\ Append(s, x) # <<>> /\ Append(s, x) \in Seq(A)
<1> DEFINE t == Append(s, x)
<1>1. /\ t \in Seq(A) /\ t # <<>> /\ Len(t) = Len(s) + 1 /\ t[Len(s) + 1] = x
      /\ \A i \in 1..Len(s) : t[i] = s[i]
  BY AppendProperties
<1>2. Len(s) \in Nat
  BY LenProperties
<1> HIDE DEF t
<1>3. \A i \in 1..Len(s) : t[i] \in A
  BY <1>1, ElementOfSeq
<1>4. /\ SubSeq(t, 1, Len(s)) \in Seq(A)
      /\ Len(SubSeq(t, 1, Len(s))) = Len(s)
      /\ \A i \in 1..Len(s) : SubSeq(t, 1, Len(s))[i] = t[i]
  BY <1>2, <1>3, SubSeqProperties
<1>5. SubSeq(t, 1, Len(s)) = s
  BY <1>1, <1>4, SeqEqual
<1>6. Front(t) = SubSeq(t, 1, Len(s)) /\ Last(t) = x
  BY <1>1, <1>2 DEF Front, Last
<1> QED
  BY <1>1, <1>5, <1>6 DEF t

\* What is left of a sequence without its last element.
LEMMA FrontOf ==
    ASSUME NEW A, NEW t \in Seq(A), t # <<>>
    PROVE  /\ Front(t) \in Seq(A) /\ Last(t) \in A /\ t = Append(Front(t), Last(t))
           /\ Len(t) \in Nat \ {0} /\ Len(Front(t)) = Len(t) - 1
<1>1. PICK s \in Seq(A), x \in A : t = Append(s, x)
  BY SequenceEmptyOrAppend
<1>2. Front(t) = s /\ Last(t) = x
  BY <1>1, FrontLast
<1>3. Len(s) \in Nat /\ Len(t) = Len(s) + 1
  BY <1>1, AppendProperties, LenProperties
<1> QED
  BY <1>1, <1>2, <1>3

-----------------------------------------------------------------------------
(* Functions on sequences that refer to themselves                         *)

\* The values of a function that is defined by recursion on s, element by
\* element.
Runs(B, base, step, s) ==
    {g \in [0..Len(s) -> B] :
        g[0] = base /\ \A n \in 1..Len(s) : g[n] = step[g[n - 1]][s[n]]}

\* All of them end with the same value.
RunsTo(B, base, step, s, b) ==
    /\ \E g \in Runs(B, base, step, s) : g[Len(s)] = b
    /\ \A g \in Runs(B, base, step, s) : g[Len(s)] = b

\* On nothing there is just one, that ends with what it begins with.
LEMMA RunOfNothing ==
    ASSUME NEW B, NEW base \in B, NEW step
    PROVE  RunsTo(B, base, step, <<>>, base)
<1> DEFINE g == [n \in 0..0 |-> base]
<1>1. g \in [0..0 -> B] /\ g[0] = base
  OBVIOUS
<1>2. Len(<<>>) = 0
  OBVIOUS
<1> HIDE DEF g
<1>3. g \in Runs(B, base, step, <<>>)
  BY <1>1, <1>2 DEF Runs
<1> QED
  BY <1>1, <1>2, <1>3 DEF RunsTo, Runs

\* With one more element there is just one more value, the next.
LEMMA RunOfOneMore ==
    ASSUME NEW A, NEW B, NEW base \in B, NEW step, \A b \in B, x \in A : step[b][x] \in B,
           NEW s \in Seq(A), NEW x \in A, NEW b \in B, RunsTo(B, base, step, s, b)
    PROVE  step[b][x] \in B /\ RunsTo(B, base, step, Append(s, x), step[b][x])
<1> DEFINE t == Append(s, x)
           m == Len(s)
           next == step[b][x]
<1>1. /\ m \in Nat /\ Len(t) = m + 1 /\ t[m + 1] = x
      /\ \A i \in 1..m : t[i] = s[i]
  BY AppendProperties, LenProperties
<1>2. next \in B
  OBVIOUS
<1> HIDE DEF t, m, next
<1>3. PICK g \in [0..m -> B] :
        g[m] = b /\ g[0] = base /\ \A n \in 1..m : g[n] = step[g[n - 1]][s[n]]
  BY DEF RunsTo, Runs, m
<1> DEFINE h == [n \in 0..(m + 1) |-> IF n = m + 1 THEN next ELSE g[n]]
<1>4. h \in [0..(m + 1) -> B] /\ h[m + 1] = next /\ \A n \in 0..m : h[n] = g[n]
  BY <1>1, <1>2, <1>3
<1> HIDE DEF h
<1>5. h \in Runs(B, base, step, t)
  <2>1. h[0] = base
    BY <1>1, <1>3, <1>4
  <2>2. ASSUME NEW n \in 1..(m + 1) PROVE h[n] = step[h[n - 1]][t[n]]
    <3>1. CASE n = m + 1
      BY <1>1, <1>3, <1>4, <3>1 DEF next
    <3>2. CASE n # m + 1
      <4>1. n \in 1..m /\ n \in 0..m /\ n - 1 \in 0..m
        BY <1>1, <3>2
      <4> QED
        BY <1>1, <1>3, <1>4, <4>1
    <3> QED
      BY <3>1, <3>2
  <2> QED
    BY <1>1, <1>4, <2>1, <2>2 DEF Runs
<1>6. ASSUME NEW r \in Runs(B, base, step, t) PROVE r[m + 1] = next
  <2>1. /\ r \in [0..(m + 1) -> B] /\ r[0] = base
        /\ \A n \in 1..(m + 1) : r[n] = step[r[n - 1]][t[n]]
    BY <1>1 DEF Runs
  <2> DEFINE q == [n \in 0..m |-> r[n]]
  <2>2. q \in [0..m -> B] /\ \A n \in 0..m : q[n] = r[n]
    BY <1>1, <2>1
  <2> HIDE DEF q
  <2>3. \A n \in 1..m : n \in 0..m /\ n - 1 \in 0..m /\ n \in 1..(m + 1) /\ 0 \in 0..m
    BY <1>1
  <2>4. \A n \in 1..m : q[n] = step[q[n - 1]][s[n]]
    BY <1>1, <2>1, <2>2, <2>3
  <2>5. 0 \in 0..m /\ m \in 0..m /\ m + 1 \in 1..(m + 1) /\ (m + 1) - 1 = m
    BY <1>1
  <2>6. q[0] = base
    BY <2>1, <2>2, <2>5
  <2>7. q \in Runs(B, base, step, s)
    BY <2>2, <2>4, <2>6 DEF Runs, m
  <2>8. r[m] = b
    BY <2>2, <2>5, <2>7 DEF RunsTo, m
  <2> QED
    BY <1>1, <2>1, <2>5, <2>8 DEF next
<1> QED
  BY <1>1, <1>2, <1>4, <1>5, <1>6 DEF RunsTo, t, next

\* A value to begin with, and the next value for each value and element.
Steps(A, B, base, step) == base \in B /\ \A b \in B, x \in A : step[b][x] \in B

\* For every sequence there are values, and they end with the same value.
LEMMA RunsExist ==
    ASSUME NEW A, NEW B, NEW base, NEW step, Steps(A, B, base, step), NEW t \in Seq(A)
    PROVE  \E b \in B : RunsTo(B, base, step, t, b)
<1> USE DEF Steps
<1> DEFINE P == {s \in Seq(A) : \E b \in B : RunsTo(B, base, step, s, b)}
<1>1. <<>> \in P
  <2>1. <<>> \in Seq(A)
    BY EmptySeq
  <2> QED
    BY <2>1, RunOfNothing
<1>2. ASSUME NEW s \in Seq(A), NEW x \in A, s \in P PROVE Append(s, x) \in P
  <2>1. PICK b \in B : RunsTo(B, base, step, s, b)
    BY <1>2
  <2>2. step[b][x] \in B /\ RunsTo(B, base, step, Append(s, x), step[b][x])
    BY <2>1, RunOfOneMore
  <2>3. Append(s, x) \in Seq(A)
    BY AppendProperties
  <2> QED
    BY <2>2, <2>3
<1>3. Seq(A) \subseteq P
  <2> HIDE DEF P
  <2> QED
    BY <1>1, <1>2, SeqInduction
<1> QED
  BY <1>3

\* There is a function with the values that base and step ask for.
LEMMA FoldExists ==
    ASSUME NEW A, NEW B, NEW base, NEW step, Steps(A, B, base, step)
    PROVE  \E f \in [Seq(A) -> B] :
                /\ f[<<>>] = base
                /\ \A s \in Seq(A) \ {<<>>} : f[s] = step[f[Front(s)]][Last(s)]
<1> USE DEF Steps
<1> DEFINE f == [s \in Seq(A) |-> CHOOSE b \in B : RunsTo(B, base, step, s, b)]
<1>4. ASSUME NEW s \in Seq(A) PROVE f[s] \in B /\ RunsTo(B, base, step, s, f[s])
  BY RunsExist
<1>5. ASSUME NEW s, NEW b, NEW c, RunsTo(B, base, step, s, b), RunsTo(B, base, step, s, c)
      PROVE  b = c
  BY <1>5 DEF RunsTo
<1>6. f \in [Seq(A) -> B]
  BY <1>4
<1> HIDE DEF f
<1>7. f[<<>>] = base
  <2>1. <<>> \in Seq(A)
    BY EmptySeq
  <2> QED
    BY <1>4, <1>5, <2>1, RunOfNothing
<1>8. ASSUME NEW t \in Seq(A) \ {<<>>} PROVE f[t] = step[f[Front(t)]][Last(t)]
  <2>1. Front(t) \in Seq(A) /\ Last(t) \in A /\ t = Append(Front(t), Last(t))
    BY FrontOf
  <2>2. f[Front(t)] \in B /\ RunsTo(B, base, step, Front(t), f[Front(t)])
    BY <1>4, <2>1
  <2>3. RunsTo(B, base, step, Append(Front(t), Last(t)), step[f[Front(t)]][Last(t)])
    BY <2>1, <2>2, RunOfOneMore
  <2>4. RunsTo(B, base, step, t, f[t])
    BY <1>4
  <2> QED
    BY <1>5, <2>1, <2>3, <2>4
<1> QED
  BY <1>6, <1>7, <1>8

\* And a function with these values grows with its argument, step by step.
LEMMA FoldIs ==
    ASSUME NEW A, NEW B, NEW base, NEW step, Steps(A, B, base, step), NEW F,
           F[<<>>] = base,
           \A s \in Seq(A) \ {<<>>} :
                F[Front(s)] \in B => F[s] = step[F[Front(s)]][Last(s)]
    PROVE  /\ \A s \in Seq(A) : F[s] \in B
           /\ \A s \in Seq(A), x \in A : F[Append(s, x)] = step[F[s]][x]
<1> USE DEF Steps
<1> DEFINE P == {s \in Seq(A) : F[s] \in B}
<1>1. <<>> \in P
  BY EmptySeq
<1>2. ASSUME NEW s \in Seq(A), NEW x \in A, F[s] \in B
      PROVE  F[Append(s, x)] = step[F[s]][x] /\ F[Append(s, x)] \in B
  <2>1. /\ Append(s, x) \in Seq(A) \ {<<>>}
        /\ Front(Append(s, x)) = s /\ Last(Append(s, x)) = x
    BY FrontLast
  <2>2. F[Append(s, x)] = step[F[s]][x]
    BY <1>2, <2>1
  <2>3. step[F[s]][x] \in B
    BY <1>2
  <2> QED
    BY <2>2, <2>3
<1>3. ASSUME NEW s \in Seq(A), NEW x \in A, s \in P PROVE Append(s, x) \in P
  <2>1. Append(s, x) \in Seq(A)
    BY AppendProperties
  <2> QED
    BY <1>2, <1>3, <2>1
<1> HIDE DEF P
<1>4. Seq(A) \subseteq P
  BY <1>1, <1>3, SeqInduction
<1> QED
  BY <1>2, <1>4 DEF P

-----------------------------------------------------------------------------
(* Lines, texts and sums                                                   *)

\* What a line is made of, and what Split makes of a text.
Plain == Octets \ {LF}
\* Lists of lines, and what bytes.Split can return: at least one line.
LineLists == Seq(Seq(Plain))
Splits == LineLists \ {<<>>}

\* One more octet: it ends a line or belongs to the last one.
SplitMore(lines, o) ==
    IF o = LF THEN Append(lines, <<>>)
    ELSE Append(Front(lines), Append(Last(lines), o))

\* One more octet keeps the lines free of line feeds.
LEMMA SplitMoreType ==
    ASSUME NEW lines \in Splits, NEW o \in Octets
    PROVE  SplitMore(lines, o) \in Splits
<1>1. CASE o = LF
  <2>1. <<>> \in Seq(Plain) /\ lines \in Seq(Seq(Plain))
    BY EmptySeq DEF Splits, LineLists
  <2>2. Append(lines, <<>>) \in Seq(Seq(Plain)) /\ Append(lines, <<>>) # <<>>
    BY <2>1, AppendProperties
  <2> QED
    BY <1>1, <2>2 DEF SplitMore, Splits, LineLists
<1>2. CASE o # LF
  <2>1. Front(lines) \in Seq(Seq(Plain)) /\ Last(lines) \in Seq(Plain) /\ o \in Plain
    BY <1>2, FrontOf DEF Splits, LineLists, Plain
  <2> DEFINE line == Append(Last(lines), o)
  <2>2. line \in Seq(Plain)
    BY <2>1, AppendProperties
  <2> HIDE DEF line
  <2>3. Append(Front(lines), line) \in Seq(Seq(Plain)) /\ Append(Front(lines), line) # <<>>
    BY <2>1, <2>2, AppendProperties
  <2> QED
    BY <1>2, <2>3 DEF SplitMore, Splits, LineLists, line, line, line, line
<1> QED
  BY <1>1, <1>2

\* bytes.Split, octet by octet: lines without line feeds, at least one.
LEMMA SplitIs ==
    /\ Split[<<>>] = << <<>> >>
    /\ \A s \in Seq(Octets) : Split[s] \in Splits
    /\ \A s \in Seq(Octets), o \in Octets : Split[Append(s, o)] = SplitMore(Split[s], o)
<1> DEFINE A == Octets
           B == Splits
           base == << <<>> >>
           step == [b \in B |-> [x \in A |-> SplitMore(b, x)]]
           Rule(f, s) == IF s = <<>> THEN << <<>> >>
                         ELSE LET lines == f[Front(s)]
                              IN  IF Last(s) = LF THEN Append(lines, <<>>)
                                  ELSE Append(Front(lines), Append(Last(lines), Last(s)))
<1>1. base \in B
  <2>1. <<>> \in Seq(Plain)
    BY EmptySeq
  <2>2. base \in Seq(Seq(Plain)) /\ base # <<>>
    BY <2>1
  <2> QED
    BY <2>2 DEF Splits, LineLists
<1>2. \A b \in B, x \in A : step[b][x] \in B /\ step[b][x] = SplitMore(b, x)
  BY SplitMoreType
<1>3. \A g, s : s # <<>> => Rule(g, s) = LET b == g[Front(s)] x == Last(s) IN SplitMore(b, x)
  BY DEF SplitMore
<1>4. \A g : Rule(g, <<>>) = base
  OBVIOUS
<1>5. Split = CHOOSE g : g = [s \in Seq(A) |-> Rule(g, s)]
  BY DEF Split
<1> HIDE DEF A, B, base, step, Rule
<1>6. Steps(A, B, base, step)
  BY <1>1, <1>2 DEF Steps
<1>7. PICK f \in [Seq(A) -> B] :
        /\ f[<<>>] = base
        /\ \A s \in Seq(A) \ {<<>>} : f[s] = step[f[Front(s)]][Last(s)]
  BY <1>6, FoldExists
<1>8. ASSUME NEW g, NEW s \in Seq(A) \ {<<>>}, g[Front(s)] \in B
      PROVE  Rule(g, s) = step[g[Front(s)]][Last(s)]
  <2>1. Last(s) \in A
    BY FrontOf
  <2>2. Rule(g, s) = LET b == g[Front(s)] x == Last(s) IN SplitMore(b, x)
    BY <1>3
  <2> QED
    BY <1>2, <1>8, <2>1, <2>2
<1>9. f = [s \in Seq(A) |-> Rule(f, s)]
  <2>1. ASSUME NEW s \in Seq(A), s # <<>> PROVE f[s] = Rule(f, s)
    <3>1. f[Front(s)] \in B
      BY <1>7, <2>1, FrontOf
    <3> QED
      BY <1>7, <1>8, <2>1, <3>1
  <2>2. \A s \in Seq(A) : f[s] = Rule(f, s)
    BY <1>4, <1>7, <2>1
  <2> QED
    BY <1>7, <2>2
<1>10. Split = [s \in Seq(A) |-> Rule(Split, s)]
  BY <1>5, <1>9
<1>11. Split[<<>>] = base
  <2>1. <<>> \in Seq(A)
    BY EmptySeq
  <2> QED
    BY <1>4, <1>10, <2>1
<1>12. \A s \in Seq(A) \ {<<>>} :
         Split[Front(s)] \in B => Split[s] = step[Split[Front(s)]][Last(s)]
  BY <1>8, <1>10
<1>13. /\ \A s \in Seq(A) : Split[s] \in B
       /\ \A s \in Seq(A), x \in A : Split[Append(s, x)] = step[Split[s]][x]
  BY <1>6, <1>11, <1>12, FoldIs
<1> QED
  BY <1>2, <1>11, <1>13 DEF A, B, base

\* Pieces one behind the other, piece by piece.
LEMMA FlatIs ==
    /\ Flat[<<>>] = <<>>
    /\ \A p \in Seq(Seq(Octets)) : Flat[p] \in Seq(Octets)
    /\ \A p \in Seq(Seq(Octets)), x \in Seq(Octets) : Flat[Append(p, x)] = Flat[p] \o x
<1> DEFINE A == Seq(Octets)
           B == Seq(Octets)
           base == <<>>
           step == [b \in B |-> [x \in A |-> b \o x]]
           Rule(f, s) == IF s = <<>> THEN <<>> ELSE f[Front(s)] \o Last(s)
<1>1. base \in B
  BY EmptySeq
<1>2. \A b \in B, x \in A : step[b][x] \in B /\ step[b][x] = b \o x
  BY ConcatProperties
<1>3. \A g, s : s # <<>> => Rule(g, s) = LET b == g[Front(s)] x == Last(s) IN b \o x
  OBVIOUS
<1>4. \A g : Rule(g, <<>>) = base
  OBVIOUS
<1>5. Flat = CHOOSE g : g = [s \in Seq(A) |-> Rule(g, s)]
  BY DEF Flat
<1> HIDE DEF A, B, base, step, Rule
<1>6. Steps(A, B, base, step)
  BY <1>1, <1>2 DEF Steps
<1>7. PICK f \in [Seq(A) -> B] :
        /\ f[<<>>] = base
        /\ \A s \in Seq(A) \ {<<>>} : f[s] = step[f[Front(s)]][Last(s)]
  BY <1>6, FoldExists
<1>8. ASSUME NEW g, NEW s \in Seq(A) \ {<<>>}, g[Front(s)] \in B
      PROVE  Rule(g, s) = step[g[Front(s)]][Last(s)]
  <2>1. Last(s) \in A
    BY FrontOf
  <2>2. Rule(g, s) = LET b == g[Front(s)] x == Last(s) IN b \o x
    BY <1>3
  <2> QED
    BY <1>2, <1>8, <2>1, <2>2
<1>9. f = [s \in Seq(A) |-> Rule(f, s)]
  <2>1. ASSUME NEW s \in Seq(A), s # <<>> PROVE f[s] = Rule(f, s)
    <3>1. f[Front(s)] \in B
      BY <1>7, <2>1, FrontOf
    <3> QED
      BY <1>7, <1>8, <2>1, <3>1
  <2>2. \A s \in Seq(A) : f[s] = Rule(f, s)
    BY <1>4, <1>7, <2>1
  <2> QED
    BY <1>7, <2>2
<1>10. Flat = [s \in Seq(A) |-> Rule(Flat, s)]
  BY <1>5, <1>9
<1>11. Flat[<<>>] = base
  <2>1. <<>> \in Seq(A)
    BY EmptySeq
  <2> QED
    BY <1>4, <1>10, <2>1
<1>12. \A s \in Seq(A) \ {<<>>} :
         Flat[Front(s)] \in B => Flat[s] = step[Flat[Front(s)]][Last(s)]
  BY <1>8, <1>10
<1>13. /\ \A s \in Seq(A) : Flat[s] \in B
       /\ \A s \in Seq(A), x \in A : Flat[Append(s, x)] = step[Flat[s]][x]
  BY <1>6, <1>11, <1>12, FoldIs
<1> QED
  BY <1>2, <1>11, <1>13 DEF A, B, base

\* A sum, number by number.
LEMMA SumIs ==
    /\ Sum[<<>>] = 0
    /\ \A p \in Seq(Nat) : Sum[p] \in Nat
    /\ \A p \in Seq(Nat), n \in Nat : Sum[Append(p, n)] = Sum[p] + n
<1> DEFINE A == Nat
           B == Nat
           base == 0
           step == [b \in B |-> [x \in A |-> b + x]]
           Rule(f, s) == IF s = <<>> THEN 0 ELSE f[Front(s)] + Last(s)
<1>1. base \in B
  OBVIOUS
<1>2. \A b \in B, x \in A : step[b][x] \in B /\ step[b][x] = b + x
  OBVIOUS
<1>3. \A g, s : s # <<>> => Rule(g, s) = LET b == g[Front(s)] x == Last(s) IN b + x
  OBVIOUS
<1>4. \A g : Rule(g, <<>>) = base
  OBVIOUS
<1>5. Sum = CHOOSE g : g = [s \in Seq(A) |-> Rule(g, s)]
  BY DEF Sum
<1> HIDE DEF A, B, base, step, Rule
<1>6. Steps(A, B, base, step)
  BY <1>1, <1>2 DEF Steps
<1>7. PICK f \in [Seq(A) -> B] :
        /\ f[<<>>] = base
        /\ \A s \in Seq(A) \ {<<>>} : f[s] = step[f[Front(s)]][Last(s)]
  BY <1>6, FoldExists
<1>8. ASSUME NEW g, NEW s \in Seq(A) \ {<<>>}, g[Front(s)] \in B
      PROVE  Rule(g, s) = step[g[Front(s)]][Last(s)]
  <2>1. Last(s) \in A
    BY FrontOf
  <2>2. Rule(g, s) = LET b == g[Front(s)] x == Last(s) IN b + x
    BY <1>3
  <2> QED
    BY <1>2, <1>8, <2>1, <2>2
<1>9. f = [s \in Seq(A) |-> Rule(f, s)]
  <2>1. ASSUME NEW s \in Seq(A), s # <<>> PROVE f[s] = Rule(f, s)
    <3>1. f[Front(s)] \in B
      BY <1>7, <2>1, FrontOf
    <3> QED
      BY <1>7, <1>8, <2>1, <3>1
  <2>2. \A s \in Seq(A) : f[s] = Rule(f, s)
    BY <1>4, <1>7, <2>1
  <2> QED
    BY <1>7, <2>2
<1>10. Sum = [s \in Seq(A) |-> Rule(Sum, s)]
  BY <1>5, <1>9
<1>11. Sum[<<>>] = base
  <2>1. <<>> \in Seq(A)
    BY EmptySeq
  <2> QED
    BY <1>4, <1>10, <2>1
<1>12. \A s \in Seq(A) \ {<<>>} :
         Sum[Front(s)] \in B => Sum[s] = step[Sum[Front(s)]][Last(s)]
  BY <1>8, <1>10
<1>13. /\ \A s \in Seq(A) : Sum[s] \in B
       /\ \A s \in Seq(A), x \in A : Sum[Append(s, x)] = step[Sum[s]][x]
  BY <1>6, <1>11, <1>12, FoldIs
<1> QED
  BY <1>2, <1>11, <1>13 DEF A, B, base

\* A function applied to each element of a sequence.
Map(f, s) == [i \in DOMAIN s |-> f[s[i]]]
\* A function from A to B.
Maps(f, A, B) == \A x \in A : f[x] \in B

\* Such a function keeps the length, and is applied element by element.
LEMMA MapIs ==
    ASSUME NEW A, NEW B, NEW f, Maps(f, A, B)
    PROVE  /\ Map(f, <<>>) = <<>>
           /\ \A s \in Seq(A) : /\ Map(f, s) \in Seq(B) /\ Len(Map(f, s)) = Len(s)
                                /\ \A i \in 1..Len(s) : Map(f, s)[i] = f[s[i]]
           /\ \A s \in Seq(A), x \in A : Map(f, Append(s, x)) = Append(Map(f, s), f[x])
<1>1. Map(f, <<>>) = <<>>
  BY DEF Map
<1>2. ASSUME NEW s \in Seq(A)
      PROVE  /\ Map(f, s) \in Seq(B) /\ Len(Map(f, s)) = Len(s)
             /\ \A i \in 1..Len(s) : Map(f, s)[i] = f[s[i]]
  <2>1. Len(s) \in Nat /\ DOMAIN s = 1..Len(s) /\ \A i \in 1..Len(s) : s[i] \in A
    BY LenProperties, ElementOfSeq
  <2>2. Map(f, s) \in [1..Len(s) -> B]
    BY <2>1 DEF Map, Maps
  <2>3. \A i \in 1..Len(s) : Map(f, s)[i] = f[s[i]]
    BY <2>1 DEF Map
  <2> QED
    BY <2>1, <2>2, <2>3
<1>3. ASSUME NEW s \in Seq(A), NEW x \in A PROVE Map(f, Append(s, x)) = Append(Map(f, s), f[x])
  <2> DEFINE t == Append(s, x)
             u == Append(Map(f, s), f[x])
  <2>1. /\ t \in Seq(A) /\ Len(t) = Len(s) + 1 /\ t[Len(s) + 1] = x
        /\ \A i \in 1..Len(s) : t[i] = s[i]
    BY AppendProperties
  <2>2. Map(f, s) \in Seq(B) /\ Len(Map(f, s)) = Len(s) /\ f[x] \in B
    BY <1>2 DEF Maps
  <2>3. /\ u \in Seq(B) /\ Len(u) = Len(s) + 1 /\ u[Len(s) + 1] = f[x]
        /\ \A i \in 1..Len(s) : u[i] = Map(f, s)[i]
    BY <2>2, AppendProperties
  <2>4. /\ Map(f, t) \in Seq(B) /\ Len(Map(f, t)) = Len(t)
        /\ \A i \in 1..Len(t) : Map(f, t)[i] = f[t[i]]
    BY <1>2, <2>1
  <2>5. Len(s) \in Nat
    BY LenProperties
  <2> HIDE DEF t, u
  <2>6. ASSUME NEW i \in 1..Len(t) PROVE Map(f, t)[i] = u[i]
    <3>1. CASE i = Len(s) + 1
      BY <2>1, <2>3, <2>4, <3>1
    <3>2. CASE i # Len(s) + 1
      <4>1. i \in 1..Len(s)
        BY <2>1, <2>5, <3>2
      <4> QED
        BY <1>2, <2>1, <2>3, <2>4, <4>1
    <3> QED
      BY <3>1, <3>2
  <2>7. Map(f, t) = u
    BY <2>1, <2>3, <2>4, <2>6, SeqEqual
  <2> QED
    BY <2>7 DEF t, u
<1> QED
  BY <1>1, <1>2, <1>3

\* A prefix has the elements that come first.
LEMMA PrefixIs ==
    ASSUME NEW A, NEW s \in Seq(A), NEW t \in Seq(A)
    PROVE  IsPrefix(s, t) <=> Len(s) <= Len(t) /\ \A i \in 1..Len(s) : s[i] = t[i]
<1>1. Len(s) \in Nat /\ Len(t) \in Nat
  BY LenProperties
<1> SUFFICES ASSUME Len(s) <= Len(t)
             PROVE  SubSeq(s, 1, Len(s)) = SubSeq(t, 1, Len(s))
                        <=> \A i \in 1..Len(s) : s[i] = t[i]
  BY DEF IsPrefix
<1>2. SubSeq(s, 1, Len(s)) = s
  BY SubSeqFull
<1>3. \A i \in 1..Len(s) : t[i] \in A
  <2>1. \A i \in 1..Len(s) : i \in 1..Len(t)
    BY <1>1
  <2> QED
    BY <2>1, ElementOfSeq
<1>4. /\ SubSeq(t, 1, Len(s)) \in Seq(A) /\ Len(SubSeq(t, 1, Len(s))) = Len(s)
      /\ \A i \in 1..Len(s) : SubSeq(t, 1, Len(s))[i] = t[i]
  BY <1>1, <1>3, SubSeqProperties
<1> DEFINE u == SubSeq(t, 1, Len(s))
<1> HIDE DEF u
<1>5. s = u <=> \A i \in 1..Len(s) : s[i] = u[i]
  BY <1>4, SeqEqual DEF u
<1> QED
  BY <1>2, <1>4, <1>5 DEF u

\* The first place of a value, as SelectInSeq finds it.
LEMMA FirstIs ==
    ASSUME NEW s, NEW x, Len(s) \in Nat, NEW n \in 1..Len(s), s[n] = x,
           \A i \in 1..Len(s) : s[i] = x => n <= i
    PROVE  LET I == {i \in 1..Len(s) : s[i] = x}
           IN  I # {} /\ Min(I) = n
<1> DEFINE I == {i \in 1..Len(s) : s[i] = x}
<1>1. n \in I /\ \A i \in I : n <= i
  OBVIOUS
<1>2. I \subseteq Int
  OBVIOUS
<1> HIDE DEF I
<1>3. \A m \in I : (\A i \in I : m <= i) => m = n
  BY <1>1, <1>2
<1>4. Min(I) = n
  BY <1>1, <1>3 DEF Min
<1>5. I # {} /\ Min(I) = n
  BY <1>1, <1>4
<1> QED
  BY <1>5 DEF I

-----------------------------------------------------------------------------
(* Octets and lines                                                        *)

\* The octets are different, and a line feed is in no line.
LEMMA Letters ==
    /\ DOT \in Octets /\ CR \in Octets /\ LF \in Octets /\ X \in Octets
    /\ DOT # CR /\ DOT # LF /\ CR # LF /\ X # LF
    /\ DOT \in Plain /\ CR \in Plain /\ X \in Plain
    /\ Plain \subseteq Octets
BY DEF Octets, Plain, DOT, CR, LF, X

\* What has no line feeds is a text too.
LEMMA PlainText ==
    /\ Seq(Plain) \subseteq Seq(Octets)
    /\ LineLists \subseteq Seq(Seq(Octets))
<1>1. Seq(Plain) \subseteq Seq(Octets)
  BY Letters, SeqMonotonic
<1> QED
  BY <1>1, SeqMonotonic DEF LineLists

\* The end of a line is a carriage return and a line feed.
LEMMA EndIs == End \in Seq(Octets) /\ Len(End) = 2 /\ End = <<CR>> \o <<LF>> /\ <<CR>> \in Seq(Plain)
<1>1. <<CR>> \in Seq(Plain) /\ End \in Seq(Octets) /\ Len(End) = 2
  BY Letters DEF End
<1>2. End = <<CR>> \o <<LF>>
  <2>1. <<CR>> \in Seq(Octets) /\ LF \in Octets
    BY Letters
  <2>2. <<CR>> \o <<LF>> = Append(<<CR>>, LF)
    BY <2>1, AppendIsConcat
  <2> DEFINE u == Append(<<CR>>, LF)
             e == <<CR, LF>>
  <2>3. u \in Seq(Octets) /\ Len(u) = 2 /\ u[1] = CR /\ u[2] = LF
    BY <2>1, AppendProperties
  <2>4. e \in Seq(Octets) /\ Len(e) = 2 /\ e[1] = CR /\ e[2] = LF
    BY Letters
  <2> HIDE DEF u, e
  <2>5. \A i \in 1..2 : u[i] = e[i]
    BY <2>3, <2>4
  <2>6. u = e
    BY <2>3, <2>4, <2>5, SeqEqual
  <2> QED
    BY <2>2, <2>6 DEF End, u, e
<1> QED
  BY <1>1, <1>2

\* A line is dotted if its first octet is a dot.
LEMMA DottedIs ==
    ASSUME NEW line \in Seq(Octets)
    PROVE  Dotted(line) <=> line # <<>> /\ line[1] = DOT
<1>1. <<DOT>> \in Seq(Octets) /\ Len(<<DOT>>) = 1 /\ <<DOT>>[1] = DOT
  BY Letters
<1> DEFINE d == <<DOT>>
<1>4. Dotted(line) <=> IsPrefix(d, line)
  BY DEF Dotted
<1> HIDE DEF d
<1>5. IsPrefix(d, line) <=> Len(d) <= Len(line) /\ \A i \in 1..Len(d) : d[i] = line[i]
  <2>1. d \in Seq(Octets)
    BY <1>1 DEF d
  <2> QED
    BY <2>1, PrefixIs
<1>2. Dotted(line) <=> 1 <= Len(line) /\ \A i \in 1..1 : <<DOT>>[i] = line[i]
  BY <1>1, <1>4, <1>5 DEF d
<1>3. 1 <= Len(line) <=> line # <<>>
  BY EmptySeq, LenProperties
<1> QED
  BY <1>1, <1>2, <1>3

\* A line with its dot is not the terminator, and the dot can be removed.
LEMMA StuffedIs ==
    ASSUME NEW line \in Seq(Plain)
    PROVE  /\ Stuffed(line) \in Seq(Plain)
           /\ Stuffed(line) # <<DOT>>
           /\ Unstuffed(Stuffed(line)) = line
           /\ Len(Stuffed(line)) = Len(line) + IF Dotted(line) THEN 1 ELSE 0
<1>1. line \in Seq(Octets) /\ <<DOT>> \in Seq(Plain) /\ Len(<<DOT>>) = 1 /\ <<DOT>>[1] = DOT
  BY PlainText, Letters
<1>2. Len(line) \in Nat
  BY LenProperties
<1>3. CASE Dotted(line)
  <2> DEFINE s == <<DOT>> \o line
  <2>1. /\ s \in Seq(Plain) /\ Len(s) = 1 + Len(line)
        /\ \A i \in 1..(1 + Len(line)) : s[i] = IF i <= 1 THEN <<DOT>>[i] ELSE line[i - 1]
    BY <1>1, ConcatProperties
  <2> HIDE DEF s
  <2>2. Stuffed(line) = s
    BY <1>3 DEF Stuffed, s
  <2>3. Len(line) >= 1
    BY <1>1, <1>2, <1>3, DottedIs, EmptySeq
  <2>4. s # <<>> /\ s # <<DOT>> /\ s[1] = DOT
    BY <1>1, <1>2, <2>1, <2>3
  <2>5. s \in Seq(Octets)
    BY <2>1, PlainText
  <2>6. Dotted(s)
    BY <2>4, <2>5, DottedIs
  <2>7. /\ Tail(s) \in Seq(Plain) /\ Len(Tail(s)) = Len(line)
        /\ \A i \in 1..Len(line) : Tail(s)[i] = s[i + 1]
    BY <1>2, <2>1, <2>4, HeadTailProperties
  <2>8. \A i \in 1..Len(line) : Tail(s)[i] = line[i]
    BY <1>2, <2>1, <2>7
  <2>9. Tail(s) = line
    BY <2>7, <2>8, SeqEqual
  <2> QED
    BY <1>2, <1>3, <2>1, <2>2, <2>4, <2>6, <2>9 DEF Unstuffed
<1>4. CASE ~Dotted(line)
  <2>1. Stuffed(line) = line
    BY <1>4 DEF Stuffed
  <2>2. line # <<DOT>>
    BY <1>1, <1>4, DottedIs
  <2> QED
    BY <1>2, <1>4, <2>1, <2>2 DEF Unstuffed
<1> QED
  BY <1>3, <1>4

\* strings.TrimSuffix removes one octet if it is the last.
LEMMA TrimIs ==
    ASSUME NEW s \in Seq(Octets), NEW o \in Octets
    PROVE  /\ TrimSuffix(<<>>, o) = <<>>
           /\ TrimSuffix(Append(s, o), o) = s
           /\ \A x \in Octets : x # o => TrimSuffix(Append(s, x), o) = Append(s, x)
           /\ TrimSuffix(s, o) \in Seq(Octets)
           /\ s \in Seq(Plain) => TrimSuffix(s, o) \in Seq(Plain)
<1>1. TrimSuffix(<<>>, o) = <<>>
  BY DEF TrimSuffix
<1>2. TrimSuffix(Append(s, o), o) = s
  BY FrontLast DEF TrimSuffix
<1>3. \A x \in Octets : x # o => TrimSuffix(Append(s, x), o) = Append(s, x)
  BY FrontLast DEF TrimSuffix
<1>4. TrimSuffix(s, o) \in Seq(Octets)
  BY FrontOf DEF TrimSuffix
<1>5. s \in Seq(Plain) => TrimSuffix(s, o) \in Seq(Plain)
  BY FrontOf DEF TrimSuffix
<1> QED
  BY <1>1, <1>2, <1>3, <1>4, <1>5

\* Octets of one line after a text belong to its last line.
LEMMA SplitLine ==
    ASSUME NEW s \in Seq(Octets), NEW line \in Seq(Plain)
    PROVE  Split[s \o line] = Append(Front(Split[s]), Last(Split[s]) \o line)
<1> DEFINE p == Front(Split[s])
           l == Last(Split[s])
           P == {u \in Seq(Plain) : Split[s \o u] = Append(p, l \o u)}
<1>1. p \in Seq(Seq(Plain)) /\ l \in Seq(Plain) /\ Split[s] = Append(p, l)
  BY SplitIs, FrontOf DEF Splits, LineLists
<1> HIDE DEF p, l
<1>2. <<>> \in P
  BY <1>1, EmptySeq, ConcatEmptySeq
<1>3. ASSUME NEW u \in Seq(Plain), NEW o \in Plain, u \in P PROVE Append(u, o) \in P
  <2>1. /\ u \in Seq(Octets) /\ o \in Octets /\ o # LF /\ Append(u, o) \in Seq(Plain)
        /\ s \o u \in Seq(Octets) /\ l \o u \in Seq(Plain)
    BY <1>1, PlainText, Letters, AppendProperties, ConcatProperties DEF Plain
  <2>2. s \o Append(u, o) = Append(s \o u, o) /\ l \o Append(u, o) = Append(l \o u, o)
    <3>1. Append(u, o) = u \o <<o>> /\ <<o>> \in Seq(Octets) /\ <<o>> \in Seq(Plain)
      <4>1. Append(u, o) = u \o <<o>>
        BY <2>1, AppendIsConcat
      <4> QED
        BY <2>1, <4>1
    <3>2. s \o (u \o <<o>>) = (s \o u) \o <<o>>
      BY <2>1, <3>1, ConcatAssociative
    <3>3. l \o (u \o <<o>>) = (l \o u) \o <<o>>
      BY <1>1, <3>1, ConcatAssociative
    <3>4. Append(s \o u, o) = (s \o u) \o <<o>>
      BY <2>1, AppendIsConcat
    <3>5. Append(l \o u, o) = (l \o u) \o <<o>>
      BY <2>1, AppendIsConcat
    <3> QED
      BY <3>1, <3>2, <3>3, <3>4, <3>5
  <2>3. Split[Append(s \o u, o)] = SplitMore(Append(p, l \o u), o)
    BY <1>3, <2>1, SplitIs
  <2>4. SplitMore(Append(p, l \o u), o) = Append(p, Append(l \o u, o))
    BY <1>1, <2>1, FrontLast DEF SplitMore
  <2> QED
    BY <2>1, <2>2, <2>3, <2>4
<1> HIDE DEF P
<1>4. Seq(Plain) \subseteq P
  BY <1>2, <1>3, SeqInduction
<1> QED
  BY <1>4 DEF P, p, l

\* And the end of a line begins another.
LEMMA SplitEnd ==
    ASSUME NEW s \in Seq(Octets), NEW line \in Seq(Plain)
    PROVE  Split[s \o (line \o End)] =
                Append(Append(Front(Split[s]), Last(Split[s]) \o (line \o <<CR>>)), <<>>)
<1> DEFINE u == line \o <<CR>>
<1>1. u \in Seq(Plain) /\ u \in Seq(Octets) /\ line \in Seq(Octets) /\ <<CR>> \in Seq(Octets)
  BY EndIs, PlainText, ConcatProperties
<1>2. <<LF>> \in Seq(Octets) /\ LF \in Octets
  BY Letters
<1>3. line \o End = u \o <<LF>>
  BY <1>1, <1>2, EndIs, ConcatAssociative
<1> HIDE DEF u
<1>4. s \o u \in Seq(Octets)
  BY <1>1, ConcatProperties
<1>5. s \o (u \o <<LF>>) = Append(s \o u, LF)
  BY <1>1, <1>2, <1>4, ConcatAssociative, AppendIsConcat
<1>6. Split[Append(s \o u, LF)] = Append(Split[s \o u], <<>>)
  BY <1>2, <1>4, SplitIs DEF SplitMore
<1>7. Split[s \o u] = Append(Front(Split[s]), Last(Split[s]) \o u)
  BY <1>1, SplitLine
<1> QED
  BY <1>3, <1>5, <1>6, <1>7 DEF u

\* The lines of a text with and without their carriage returns and dots.
Crs(lines) == [i \in DOMAIN lines |-> lines[i] \o <<CR>>]
Trims(lines) == [i \in DOMAIN lines |-> TrimSuffix(lines[i], CR)]
Stuff(lines) == [i \in DOMAIN lines |-> Stuffed(lines[i])]

\* Carriage returns are added line by line.
LEMMA CrsIs ==
    /\ Crs(<<>>) = <<>>
    /\ \A ls \in LineLists : /\ Crs(ls) \in LineLists /\ Len(Crs(ls)) = Len(ls)
                             /\ \A i \in 1..Len(ls) : Crs(ls)[i] = ls[i] \o <<CR>>
    /\ \A ls \in LineLists, l \in Seq(Plain) :
            Crs(Append(ls, l)) = Append(Crs(ls), l \o <<CR>>)
<1> DEFINE A == Seq(Plain)
           f == [l \in A |-> l \o <<CR>>]
<1>1. Maps(f, A, A) /\ \A l \in A : f[l] = l \o <<CR>>
  BY EndIs, ConcatProperties DEF Maps
<1>2. ASSUME NEW ls \in Seq(A) PROVE Crs(ls) = Map(f, ls)
  BY ElementOfSeq, LenProperties DEF Crs, Map
<1>3. <<>> \in Seq(A)
  BY EmptySeq
<1>4. \A ls \in Seq(A), l \in A : Append(ls, l) \in Seq(A)
  BY AppendProperties
<1> HIDE DEF f, A
<1>5. /\ Map(f, <<>>) = <<>>
      /\ \A s \in Seq(A) : /\ Map(f, s) \in Seq(A) /\ Len(Map(f, s)) = Len(s)
                           /\ \A i \in 1..Len(s) : Map(f, s)[i] = f[s[i]]
      /\ \A s \in Seq(A), x \in A : Map(f, Append(s, x)) = Append(Map(f, s), f[x])
  BY <1>1, MapIs
<1>7. Crs(<<>>) = <<>>
  BY <1>2, <1>3, <1>5
<1>8. ASSUME NEW ls \in Seq(A)
      PROVE  /\ Crs(ls) \in Seq(A) /\ Len(Crs(ls)) = Len(ls)
             /\ \A i \in 1..Len(ls) : Crs(ls)[i] = ls[i] \o <<CR>>
  <2>1. /\ Map(f, ls) \in Seq(A) /\ Len(Map(f, ls)) = Len(ls)
        /\ \A i \in 1..Len(ls) : Map(f, ls)[i] = f[ls[i]]
    BY <1>5
  <2>2. \A i \in 1..Len(ls) : f[ls[i]] = ls[i] \o <<CR>>
    BY <1>1, ElementOfSeq
  <2>3. Crs(ls) = Map(f, ls)
    BY <1>2
  <2> QED
    BY <2>1, <2>2, <2>3
<1>9. ASSUME NEW ls \in Seq(A), NEW l \in A
      PROVE  Crs(Append(ls, l)) = Append(Crs(ls), l \o <<CR>>)
  <2>1. Append(ls, l) \in Seq(A)
    BY <1>4
  <2>2. Crs(Append(ls, l)) = Map(f, Append(ls, l)) /\ Crs(ls) = Map(f, ls)
    BY <1>2, <2>1
  <2>3. Map(f, Append(ls, l)) = Append(Map(f, ls), f[l]) /\ f[l] = l \o <<CR>>
    BY <1>1, <1>5
  <2> QED
    BY <2>2, <2>3
<1> QED
  BY <1>7, <1>8, <1>9 DEF A, LineLists

\* Dots are added to each line.
LEMMA StuffIs ==
    \A ls \in LineLists : /\ Stuff(ls) \in LineLists /\ Len(Stuff(ls)) = Len(ls)
                          /\ \A i \in 1..Len(ls) : Stuff(ls)[i] = Stuffed(ls[i])
<1> SUFFICES ASSUME NEW ls \in LineLists
             PROVE  /\ Stuff(ls) \in LineLists /\ Len(Stuff(ls)) = Len(ls)
                    /\ \A i \in 1..Len(ls) : Stuff(ls)[i] = Stuffed(ls[i])
  OBVIOUS
<1> DEFINE A == Seq(Plain)
<1>1. /\ Len(ls) \in Nat /\ DOMAIN ls = 1..Len(ls)
      /\ \A i \in 1..Len(ls) : ls[i] \in A
  BY LenProperties, ElementOfSeq DEF LineLists
<1>2. \A i \in 1..Len(ls) : Stuffed(ls[i]) \in A
  BY <1>1, StuffedIs
<1> HIDE DEF A
<1>3. Stuff(ls) \in [1..Len(ls) -> A]
  BY <1>1, <1>2 DEF Stuff
<1>4. Stuff(ls) \in Seq(A) /\ Len(Stuff(ls)) = Len(ls)
  BY <1>1, <1>3
<1> QED
  BY <1>1, <1>4 DEF Stuff, A, LineLists

\* The text of lines grows line by line.
LEMMA ConcatIs ==
    /\ Concat(<<>>) = <<>>
    /\ \A ls \in LineLists : Concat(ls) \in Seq(Octets)
    /\ \A ls \in LineLists, l \in Seq(Plain) :
            Concat(Append(ls, l)) = Concat(ls) \o (l \o End)
<1> DEFINE A == Seq(Plain)
           B == Seq(Octets)
           f == [l \in A |-> l \o End]
<1>1. Maps(f, A, B) /\ \A l \in A : f[l] = l \o End /\ f[l] \in B
  <2>1. \A l \in A : l \in B /\ End \in B
    BY PlainText, EndIs
  <2>2. \A l \in A : l \o End \in B
    BY <2>1, ConcatProperties
  <2> QED
    BY <2>2 DEF Maps
<1>2. ASSUME NEW ls \in Seq(A) PROVE Concat(ls) = Flat[Map(f, ls)]
  <2>1. \A i \in DOMAIN ls : ls[i] \in A
    BY ElementOfSeq, LenProperties
  <2>2. [i \in DOMAIN ls |-> ls[i] \o End] = Map(f, ls)
    BY <2>1 DEF Map
  <2> QED
    BY <2>2 DEF Concat
<1>3. <<>> \in Seq(A)
  BY EmptySeq
<1>4. \A ls \in Seq(A), l \in A : Append(ls, l) \in Seq(A)
  BY AppendProperties
<1> HIDE DEF f, A, B
<1>5. /\ Map(f, <<>>) = <<>>
      /\ \A s \in Seq(A) : Map(f, s) \in Seq(B)
      /\ \A s \in Seq(A), x \in A : Map(f, Append(s, x)) = Append(Map(f, s), f[x])
  BY <1>1, MapIs
<1>6. /\ Flat[<<>>] = <<>>
      /\ \A p \in Seq(B) : Flat[p] \in B
      /\ \A p \in Seq(B), x \in B : Flat[Append(p, x)] = Flat[p] \o x
  BY FlatIs DEF B
<1>7. Concat(<<>>) = <<>>
  BY <1>2, <1>3, <1>5, <1>6
<1>8. \A ls \in Seq(A) : Concat(ls) \in B
  BY <1>2, <1>5, <1>6
<1>9. ASSUME NEW ls \in Seq(A), NEW l \in A
      PROVE  Concat(Append(ls, l)) = Concat(ls) \o (l \o End)
  <2>1. Append(ls, l) \in Seq(A)
    BY <1>4
  <2>2. Concat(Append(ls, l)) = Flat[Map(f, Append(ls, l))] /\ Concat(ls) = Flat[Map(f, ls)]
    BY <1>2, <2>1
  <2>3. Map(f, Append(ls, l)) = Append(Map(f, ls), f[l]) /\ f[l] = l \o End /\ f[l] \in B
    BY <1>1, <1>5
  <2>4. Map(f, ls) \in Seq(B)
    BY <1>5
  <2>5. Flat[Append(Map(f, ls), f[l])] = Flat[Map(f, ls)] \o f[l]
    BY <1>6, <2>3, <2>4
  <2> QED
    BY <2>2, <2>3, <2>5
<1> QED
  BY <1>7, <1>8, <1>9 DEF A, B, LineLists

\* A text of whole lines, after another of whole lines, is split into both.
LEMMA SplitConcat ==
    ASSUME NEW s \in Seq(Octets), NEW p \in LineLists, Split[s] = Append(p, <<>>),
           NEW ls \in LineLists
    PROVE  Split[s \o Concat(ls)] = Append(p \o Crs(ls), <<>>)
<1> DEFINE A == Seq(Plain)
           P == {ms \in LineLists : Split[s \o Concat(ms)] = Append(p \o Crs(ms), <<>>)}
<1>1. <<>> \in P
  <2>1. <<>> \in LineLists
    BY EmptySeq DEF LineLists
  <2>2. s \o <<>> = s /\ p \o <<>> = p
    BY ConcatEmptySeq DEF LineLists
  <2> QED
    BY <2>1, <2>2, ConcatIs, CrsIs
<1>2. ASSUME NEW ms \in Seq(A), NEW l \in A, ms \in P PROVE Append(ms, l) \in P
  <2>1. /\ ms \in LineLists /\ Append(ms, l) \in LineLists
        /\ l \o End \in Seq(Octets) /\ l \o <<CR>> \in A
    <3>1. l \in Seq(Octets) /\ End \in Seq(Octets) /\ <<CR>> \in A
      BY PlainText, EndIs
    <3> QED
      BY <3>1, ConcatProperties, AppendProperties DEF LineLists
  <2> DEFINE c == Concat(ms)
             q == p \o Crs(ms)
             e == l \o <<CR>>
  <2>2. c \in Seq(Octets) /\ Concat(Append(ms, l)) = c \o (l \o End)
    BY <2>1, ConcatIs
  <2>3. Crs(ms) \in Seq(A) /\ p \in Seq(A) /\ q \in Seq(A) /\ Crs(Append(ms, l)) = Append(Crs(ms), e)
    BY <2>1, CrsIs, ConcatProperties DEF LineLists
  <2> HIDE DEF c
  <2>4. s \o c \in Seq(Octets)
    BY <2>2, ConcatProperties
  <2>5. s \o (c \o (l \o End)) = (s \o c) \o (l \o End)
    <3> DEFINE u == l \o End
    <3>1. u \in Seq(Octets)
      BY <2>1
    <3> HIDE DEF u
    <3>2. s \o (c \o u) = (s \o c) \o u
      BY <2>2, <3>1, ConcatAssociative, SMTT(60)
    <3> QED
      BY <3>2 DEF u
  <2>6. Split[s \o c] = Append(q, <<>>)
    BY <1>2 DEF c
  <2> HIDE DEF q
  <2>7. <<>> \in A /\ Front(Append(q, <<>>)) = q /\ Last(Append(q, <<>>)) = <<>>
    <3> HIDE DEF A
    <3>1. <<>> \in A
      BY EmptySeq DEF A
    <3> QED
      BY <2>3, <3>1, FrontLast
  <2>8. <<>> \o (l \o <<CR>>) = e
    BY <2>1, ConcatEmptySeq
  <2>9. Split[(s \o c) \o (l \o End)] = Append(Append(q, e), <<>>)
    BY <2>4, <2>6, <2>7, <2>8, SplitEnd
  <2>10. p \o Append(Crs(ms), e) = Append(q, e)
    <3> HIDE DEF e
    <3>1. e \in A /\ <<e>> \in Seq(A)
      BY <2>1 DEF e
    <3>2. Append(Crs(ms), e) = Crs(ms) \o <<e>>
      BY <2>3, <3>1, AppendIsConcat
    <3>3. p \o (Crs(ms) \o <<e>>) = (p \o Crs(ms)) \o <<e>>
      BY <2>3, <3>1, ConcatAssociative, SMTT(60)
    <3>4. Append(q, e) = q \o <<e>>
      BY <2>3, <3>1, AppendIsConcat
    <3> QED
      BY <3>2, <3>3, <3>4 DEF q
  <2> QED
    BY <2>1, <2>2, <2>3, <2>5, <2>9, <2>10
<1> HIDE DEF P
<1>3. Seq(A) \subseteq P
  BY <1>1, <1>2, SeqInduction
<1> QED
  BY <1>3 DEF P, A, LineLists

\* A carriage return that was added can be taken away.
LEMMA TrimCr == \A l \in Seq(Plain) : TrimSuffix(l \o <<CR>>, CR) = l
<1> SUFFICES ASSUME NEW l \in Seq(Plain) PROVE TrimSuffix(l \o <<CR>>, CR) = l
  OBVIOUS
<1>1. l \in Seq(Octets) /\ CR \in Octets
  BY PlainText, Letters
<1>2. l \o <<CR>> = Append(l, CR)
  BY <1>1, AppendIsConcat
<1> QED
  BY <1>1, <1>2, TrimIs

\* Carriage returns are removed line by line, those that were added all.
LEMMA TrimsIs ==
    /\ \A ls \in LineLists : /\ Trims(ls) \in LineLists /\ Len(Trims(ls)) = Len(ls)
                             /\ \A i \in 1..Len(ls) : Trims(ls)[i] = TrimSuffix(ls[i], CR)
    /\ \A ls \in LineLists, l \in Seq(Plain) :
            Trims(Append(ls, l)) = Append(Trims(ls), TrimSuffix(l, CR))
    /\ \A ls \in LineLists : Trims(Crs(ls)) = ls
<1> DEFINE A == Seq(Plain)
           f == [l \in A |-> TrimSuffix(l, CR)]
<1>1. Maps(f, A, A) /\ \A l \in A : f[l] = TrimSuffix(l, CR)
  BY TrimIs, PlainText, Letters DEF Maps
<1>2. ASSUME NEW ls \in Seq(A) PROVE Trims(ls) = Map(f, ls)
  BY ElementOfSeq, LenProperties DEF Trims, Map
<1>3. \A ls \in Seq(A), l \in A : Append(ls, l) \in Seq(A)
  BY AppendProperties
<1> HIDE DEF f, A
<1>4. /\ \A s \in Seq(A) : /\ Map(f, s) \in Seq(A) /\ Len(Map(f, s)) = Len(s)
                           /\ \A i \in 1..Len(s) : Map(f, s)[i] = f[s[i]]
      /\ \A s \in Seq(A), x \in A : Map(f, Append(s, x)) = Append(Map(f, s), f[x])
  BY <1>1, MapIs
<1>5. \A ls \in Seq(A) : \A i \in 1..Len(ls) : ls[i] \in A
  BY ElementOfSeq
<1>6. ASSUME NEW ls \in Seq(A) PROVE Trims(Crs(ls)) = ls
  <2>1. Crs(ls) \in Seq(A) /\ Len(Crs(ls)) = Len(ls) /\ \A i \in 1..Len(ls) : Crs(ls)[i] = ls[i] \o <<CR>>
    BY CrsIs DEF LineLists, A
  <2>2. \A i \in 1..Len(ls) : Crs(ls)[i] \in A
    BY <1>5, <2>1
  <2>3. /\ Trims(Crs(ls)) \in Seq(A) /\ Len(Trims(Crs(ls))) = Len(ls)
        /\ \A i \in 1..Len(ls) : Trims(Crs(ls))[i] = TrimSuffix(ls[i] \o <<CR>>, CR)
    <3> DEFINE m == Crs(ls)
    <3>1. m \in Seq(A) /\ Len(m) = Len(ls) /\ \A i \in 1..Len(ls) : m[i] = ls[i] \o <<CR>> /\ m[i] \in A
      BY <2>1, <2>2
    <3> HIDE DEF m
    <3>2. Trims(m) \in Seq(A) /\ Len(Trims(m)) = Len(m) /\ \A i \in 1..Len(m) : Trims(m)[i] = f[m[i]]
      <4>1. Trims(m) = Map(f, m)
        BY <1>2, <3>1
      <4>2. /\ Map(f, m) \in Seq(A) /\ Len(Map(f, m)) = Len(m)
            /\ \A i \in 1..Len(m) : Map(f, m)[i] = f[m[i]]
        BY <1>4, <3>1
      <4> QED
        BY <4>1, <4>2
    <3>3. \A i \in 1..Len(ls) : Trims(m)[i] = TrimSuffix(ls[i] \o <<CR>>, CR)
      BY <1>1, <3>1, <3>2
    <3> QED
      BY <3>1, <3>2, <3>3 DEF m
  <2>4. \A i \in 1..Len(ls) : Trims(Crs(ls))[i] = ls[i]
    BY <1>5, <2>3, TrimCr DEF A
  <2> QED
    BY <2>3, <2>4, SeqEqual
<1>8. ASSUME NEW ls \in Seq(A)
      PROVE  /\ Trims(ls) \in Seq(A) /\ Len(Trims(ls)) = Len(ls)
             /\ \A i \in 1..Len(ls) : Trims(ls)[i] = TrimSuffix(ls[i], CR)
  <2>1. /\ Map(f, ls) \in Seq(A) /\ Len(Map(f, ls)) = Len(ls)
        /\ \A i \in 1..Len(ls) : Map(f, ls)[i] = f[ls[i]]
    BY <1>4
  <2>2. \A i \in 1..Len(ls) : f[ls[i]] = TrimSuffix(ls[i], CR)
    BY <1>1, ElementOfSeq
  <2>3. Trims(ls) = Map(f, ls)
    BY <1>2
  <2> QED
    BY <2>1, <2>2, <2>3
<1>9. ASSUME NEW ls \in Seq(A), NEW l \in A
      PROVE  Trims(Append(ls, l)) = Append(Trims(ls), TrimSuffix(l, CR))
  <2>1. Append(ls, l) \in Seq(A)
    BY <1>3
  <2>2. Trims(Append(ls, l)) = Map(f, Append(ls, l)) /\ Trims(ls) = Map(f, ls)
    BY <1>2, <2>1
  <2>3. Map(f, Append(ls, l)) = Append(Map(f, ls), f[l]) /\ f[l] = TrimSuffix(l, CR)
    BY <1>1, <1>4
  <2> QED
    BY <2>2, <2>3
<1> QED
  BY <1>6, <1>8, <1>9 DEF A, LineLists

\* What a client makes of the lines that are sent to it: the same lines, and an
\* empty one after the last end of a line.
LEMMA ClientPlain ==
    ASSUME NEW ls \in LineLists
    PROVE  Trims(Split[Concat(ls)]) = Append(ls, <<>>)
<1>1. <<>> \in Seq(Octets) /\ <<>> \in LineLists /\ <<>> \in Seq(Plain)
  BY EmptySeq DEF LineLists
<1>2. Append(<<>>, <<>>) = << <<>> >>
  OBVIOUS
<1>3. Split[<<>>] = Append(<<>>, <<>>)
  BY <1>2, SplitIs
<1>4. Split[<<>> \o Concat(ls)] = Append(<<>> \o Crs(ls), <<>>)
  BY <1>1, <1>3, SplitConcat
<1>5. Concat(ls) \in Seq(Octets) /\ Crs(ls) \in Seq(Seq(Plain)) /\ Crs(ls) \in LineLists
  BY ConcatIs, CrsIs DEF LineLists
<1>6. <<>> \o Concat(ls) = Concat(ls) /\ <<>> \o Crs(ls) = Crs(ls)
  BY <1>5, ConcatEmptySeq
<1>7. Trims(Append(Crs(ls), <<>>)) = Append(Trims(Crs(ls)), TrimSuffix(<<>>, CR))
  BY <1>1, <1>5, TrimsIs
<1>8. TrimSuffix(<<>>, CR) = <<>>
  BY <1>1, TrimIs, Letters
<1> QED
  BY <1>4, <1>6, <1>7, <1>8, TrimsIs

-----------------------------------------------------------------------------
(* The loops of writeDotStuffed and readData                               *)

\* The states of the loops of writeDotStuffed and readData.
WriteStates == [inHeaders : BOOLEAN, emitted : Nat, done : BOOLEAN, out : Seq(Seq(Octets))]
ReadStates == [buf : Seq(Octets), tooLarge : BOOLEAN]

\* The loop of writeDotStuffed, line by line.
LEMMA WriteLinesIs ==
    ASSUME NEW n \in Int
    PROVE  /\ WriteLines(<<>>, n) =
                [inHeaders |-> n >= 0, emitted |-> 0, done |-> FALSE, out |-> <<>>]
           /\ \A s \in Seq(Seq(Octets)) : WriteLines(s, n) \in WriteStates
           /\ \A s \in Seq(Seq(Octets)), x \in Seq(Octets) :
                WriteLines(Append(s, x), n) = WriteNext(WriteLines(s, n), x, n)
<1> DEFINE A == Seq(Octets)
           B == WriteStates
           base == [inHeaders |-> n >= 0, emitted |-> 0, done |-> FALSE, out |-> <<>>]
           step == [b \in B |-> [x \in A |-> WriteNext(b, x, n)]]
           Rule(f, s) == IF s = <<>> THEN base ELSE WriteNext(f[Front(s)], Last(s), n)
           F == CHOOSE g : g = [s \in Seq(A) |-> Rule(g, s)]
<1>1. base \in B
  BY EmptySeq DEF WriteStates
<1>2. \A b \in B, x \in A : step[b][x] \in B /\ step[b][x] = WriteNext(b, x, n)
  <2>1. ASSUME NEW b \in B, NEW x \in A PROVE WriteNext(b, x, n) \in B
    <3> DEFINE more == Append(b.out, x)
    <3>1. /\ b \in WriteStates /\ more \in Seq(Seq(Octets)) /\ b.emitted + 1 \in Nat
          /\ 0 \in Nat /\ (n = 0) \in BOOLEAN
      BY AppendProperties DEF WriteStates
    <3> HIDE DEF more
    <3>2. [b EXCEPT !.out = more, !.inHeaders = FALSE, !.done = n = 0] \in WriteStates
      BY <3>1 DEF WriteStates
    <3>3. [b EXCEPT !.done = TRUE] \in WriteStates
      BY <3>1 DEF WriteStates
    <3>4. [b EXCEPT !.out = more, !.emitted = IF b.inHeaders THEN 0 ELSE b.emitted + 1]
              \in WriteStates
      BY <3>1 DEF WriteStates
    <3> QED
      BY <3>1, <3>2, <3>3, <3>4 DEF WriteNext, more
  <2> QED
    BY <2>1
<1>3. \A g, s : s # <<>> => Rule(g, s) = WriteNext(g[Front(s)], Last(s), n)
  OBVIOUS
<1>4. \A g : Rule(g, <<>>) = base
  OBVIOUS
<1>5. \A s : WriteLines(s, n) = F[s]
  BY DEF WriteLines
<1> HIDE DEF A, B, base, step, Rule
<1>6. Steps(A, B, base, step)
  BY <1>1, <1>2 DEF Steps
<1>7. PICK f \in [Seq(A) -> B] :
        /\ f[<<>>] = base
        /\ \A s \in Seq(A) \ {<<>>} : f[s] = step[f[Front(s)]][Last(s)]
  BY <1>6, FoldExists
<1>8. ASSUME NEW g, NEW s \in Seq(A) \ {<<>>}, g[Front(s)] \in B
      PROVE  Rule(g, s) = step[g[Front(s)]][Last(s)]
  <2>1. Last(s) \in A
    BY FrontOf
  <2>2. Rule(g, s) = WriteNext(g[Front(s)], Last(s), n)
    BY <1>3
  <2> QED
    BY <1>2, <1>8, <2>1, <2>2
<1>9. f = [s \in Seq(A) |-> Rule(f, s)]
  <2>1. ASSUME NEW s \in Seq(A), s # <<>> PROVE f[s] = Rule(f, s)
    <3>1. f[Front(s)] \in B
      BY <1>7, <2>1, FrontOf
    <3> QED
      BY <1>7, <1>8, <2>1, <3>1
  <2>2. \A s \in Seq(A) : f[s] = Rule(f, s)
    BY <1>4, <1>7, <2>1
  <2> QED
    BY <1>7, <2>2
<1>10. F = [s \in Seq(A) |-> Rule(F, s)]
  BY <1>9
<1> HIDE DEF F
<1>11. F[<<>>] = base
  <2>1. <<>> \in Seq(A)
    BY EmptySeq
  <2> QED
    BY <1>4, <1>10, <2>1
<1>12. \A s \in Seq(A) \ {<<>>} : F[Front(s)] \in B => F[s] = step[F[Front(s)]][Last(s)]
  BY <1>8, <1>10
<1>13. /\ \A s \in Seq(A) : F[s] \in B
       /\ \A s \in Seq(A), x \in A : F[Append(s, x)] = step[F[s]][x]
  BY <1>6, <1>11, <1>12, FoldIs
<1>14. \A s \in Seq(A), x \in A : F[Append(s, x)] = WriteNext(F[s], x, n)
  BY <1>2, <1>13
<1> QED
  BY <1>5, <1>11, <1>13, <1>14 DEF A, B, base

\* The loop of readData, line by line.
LEMMA ReadLinesIs ==
    ASSUME NEW max \in Nat
    PROVE  /\ ReadLines(<<>>, max) = [buf |-> <<>>, tooLarge |-> FALSE]
           /\ \A s \in Seq(Seq(Octets)) : ReadLines(s, max) \in ReadStates
           /\ \A s \in Seq(Seq(Octets)), x \in Seq(Octets) :
                ReadLines(Append(s, x), max) = ReadLine(ReadLines(s, max), x, max)
<1> DEFINE A == Seq(Octets)
           B == ReadStates
           base == [buf |-> <<>>, tooLarge |-> FALSE]
           step == [b \in B |-> [x \in A |-> ReadLine(b, x, max)]]
           Rule(f, s) == IF s = <<>> THEN base ELSE ReadLine(f[Front(s)], Last(s), max)
           F == CHOOSE g : g = [s \in Seq(A) |-> Rule(g, s)]
<1>1. base \in B
  BY EmptySeq DEF ReadStates
<1>2. \A b \in B, x \in A : step[b][x] \in B /\ step[b][x] = ReadLine(b, x, max)
  <2>1. ASSUME NEW b \in B, NEW x \in A PROVE ReadLine(b, x, max) \in B
    <3>1. Unstuffed(x) \in Seq(Octets) /\ End \in Seq(Octets) /\ b.buf \in Seq(Octets)
      <4>1. Dotted(x) => x # <<>>
        BY DottedIs
      <4>2. x # <<>> => Tail(x) \in Seq(Octets)
        BY HeadTailProperties
      <4> QED
        BY <4>1, <4>2, EndIs DEF Unstuffed, ReadStates
    <3>2. (b.buf \o Unstuffed(x)) \o End \in Seq(Octets)
      BY <3>1, ConcatProperties
    <3> QED
      BY <3>2 DEF ReadLine, ReadStates
  <2> QED
    BY <2>1
<1>3. \A g, s : s # <<>> => Rule(g, s) = ReadLine(g[Front(s)], Last(s), max)
  OBVIOUS
<1>4. \A g : Rule(g, <<>>) = base
  OBVIOUS
<1>5. \A s : ReadLines(s, max) = F[s]
  BY DEF ReadLines
<1> HIDE DEF A, B, base, step, Rule
<1>6. Steps(A, B, base, step)
  BY <1>1, <1>2 DEF Steps
<1>7. PICK f \in [Seq(A) -> B] :
        /\ f[<<>>] = base
        /\ \A s \in Seq(A) \ {<<>>} : f[s] = step[f[Front(s)]][Last(s)]
  BY <1>6, FoldExists
<1>8. ASSUME NEW g, NEW s \in Seq(A) \ {<<>>}, g[Front(s)] \in B
      PROVE  Rule(g, s) = step[g[Front(s)]][Last(s)]
  <2>1. Last(s) \in A
    BY FrontOf
  <2>2. Rule(g, s) = ReadLine(g[Front(s)], Last(s), max)
    BY <1>3
  <2> QED
    BY <1>2, <1>8, <2>1, <2>2
<1>9. f = [s \in Seq(A) |-> Rule(f, s)]
  <2>1. ASSUME NEW s \in Seq(A), s # <<>> PROVE f[s] = Rule(f, s)
    <3>1. f[Front(s)] \in B
      BY <1>7, <2>1, FrontOf
    <3> QED
      BY <1>7, <1>8, <2>1, <3>1
  <2>2. \A s \in Seq(A) : f[s] = Rule(f, s)
    BY <1>4, <1>7, <2>1
  <2> QED
    BY <1>7, <2>2
<1>10. F = [s \in Seq(A) |-> Rule(F, s)]
  BY <1>9
<1> HIDE DEF F
<1>11. F[<<>>] = base
  <2>1. <<>> \in Seq(A)
    BY EmptySeq
  <2> QED
    BY <1>4, <1>10, <2>1
<1>12. \A s \in Seq(A) \ {<<>>} : F[Front(s)] \in B => F[s] = step[F[Front(s)]][Last(s)]
  BY <1>8, <1>10
<1>13. /\ \A s \in Seq(A) : F[s] \in B
       /\ \A s \in Seq(A), x \in A : F[Append(s, x)] = step[F[s]][x]
  BY <1>6, <1>11, <1>12, FoldIs
<1>14. \A s \in Seq(A), x \in A : F[Append(s, x)] = ReadLine(F[s], x, max)
  BY <1>2, <1>13
<1> QED
  BY <1>5, <1>11, <1>13, <1>14 DEF A, B, base

-----------------------------------------------------------------------------
(* What RETR, TOP and LIST send, and what readData receives                *)

\* The lines of a stored text.
LEMMA SplitLinesType == \A raw \in Seq(Octets) : SplitLines(raw) \in LineLists
<1> SUFFICES ASSUME NEW raw \in Seq(Octets), raw # <<>> PROVE SplitLines(raw) \in LineLists
  BY EmptySeq DEF SplitLines, LineLists
<1> DEFINE s == TrimSuffix(TrimSuffix(raw, LF), CR)
<1>1. s \in Seq(Octets)
  BY TrimIs, Letters
<1> HIDE DEF s
<1>2. Split[s] \in LineLists
  BY <1>1, SplitIs DEF Splits
<1>3. SplitLines(raw) = Trims(Split[s])
  BY DEF SplitLines, Trims, s
<1> QED
  BY <1>2, <1>3, TrimsIs

\* RETR sends all lines.
LEMMA AllLines ==
    ASSUME NEW n \in Int, n < 0, NEW ls \in LineLists
    PROVE  WriteLines(ls, n).out = ls
<1> DEFINE A == Seq(Plain)
           All(ms) == LET st == WriteLines(ms, n)
                      IN  st.out = ms /\ ~st.done /\ ~st.inHeaders
           P == {ms \in LineLists : All(ms)}
<1>1. <<>> \in P
  <2> DEFINE st == WriteLines(<<>>, n)
  <2>1. st = [inHeaders |-> n >= 0, emitted |-> 0, done |-> FALSE, out |-> <<>>]
    BY WriteLinesIs
  <2> HIDE DEF st
  <2>2. st.out = <<>> /\ ~st.done /\ st.inHeaders = (n >= 0)
    BY <2>1
  <2>3. ~ (n >= 0)
    OBVIOUS
  <2>4. ~st.inHeaders
    BY <2>2, <2>3
  <2> QED
    BY <2>2, <2>4, EmptySeq DEF LineLists, st
<1>2. ASSUME NEW ms \in Seq(A), NEW l \in A, ms \in P PROVE Append(ms, l) \in P
  <2>1. ms \in Seq(Seq(Octets)) /\ l \in Seq(Octets) /\ Append(ms, l) \in LineLists
    BY PlainText, AppendProperties DEF LineLists
  <2> DEFINE st == WriteLines(ms, n)
             next == WriteLines(Append(ms, l), n)
  <2>2. st \in WriteStates /\ next = WriteNext(st, l, n)
    BY <2>1, WriteLinesIs
  <2>3. st.out = ms /\ ~st.done /\ ~st.inHeaders
    BY <1>2
  <2> HIDE DEF st
  <2>4. next = [st EXCEPT !.out = Append(@, l), !.emitted = IF st.inHeaders THEN 0 ELSE @ + 1]
    BY <2>2, <2>3 DEF WriteNext
  <2>5. next.out = Append(ms, l) /\ next.done = st.done /\ next.inHeaders = st.inHeaders
    BY <2>2, <2>3, <2>4 DEF WriteStates
  <2> QED
    BY <2>1, <2>3, <2>5
<1> HIDE DEF P
<1>3. Seq(A) \subseteq P
  BY <1>1, <1>2, SeqInduction
<1> QED
  BY <1>3 DEF P, LineLists

\* The beginning of a sequence stays when it grows.
LEMMA PrefixGrows ==
    ASSUME NEW A, NEW s \in Seq(A), NEW x \in A, NEW k \in Int, k <= Len(s)
    PROVE  SubSeq(Append(s, x), 1, k) = SubSeq(s, 1, k)
<1> DEFINE t == Append(s, x)
<1>1. /\ Len(s) \in Nat /\ Len(t) = Len(s) + 1 /\ t \in Seq(A)
      /\ \A i \in 1..Len(s) : t[i] = s[i] /\ s[i] \in A
  BY AppendProperties, LenProperties, ElementOfSeq
<1> HIDE DEF t
<1>2. \A i \in 1..k : i \in 1..Len(s)
  BY <1>1
<1>3. \A i \in 1..k : t[i] \in A /\ s[i] \in A
  BY <1>1, <1>2
<1>4. /\ SubSeq(s, 1, k) \in Seq(A) /\ Len(SubSeq(s, 1, k)) = IF 1 <= k THEN k - 1 + 1 ELSE 0
      /\ \A i \in 1..(k - 1 + 1) : SubSeq(s, 1, k)[i] = s[1 + i - 1]
  BY <1>3, SubSeqProperties
<1>5. /\ SubSeq(t, 1, k) \in Seq(A) /\ Len(SubSeq(t, 1, k)) = IF 1 <= k THEN k - 1 + 1 ELSE 0
      /\ \A i \in 1..(k - 1 + 1) : SubSeq(t, 1, k)[i] = t[1 + i - 1]
  BY <1>3, SubSeqProperties
<1>6. \A i \in 1..Len(SubSeq(s, 1, k)) : SubSeq(t, 1, k)[i] = SubSeq(s, 1, k)[i]
  BY <1>1, <1>2, <1>4, <1>5
<1> QED
  BY <1>4, <1>5, <1>6, SeqEqual DEF t

\* Where the header ends: the first empty line.
FirstEmpty(ls, e) ==
    e \in 1..Len(ls) /\ ls[e] = <<>> /\ \A i \in 1..Len(ls) : ls[i] = <<>> => e <= i
NoneEmpty(ls) == \A i \in 1..Len(ls) : ls[i] # <<>>

\* The state of the loop of writeDotStuffed for TOP n after the lines ls: in
\* the header; in the body, with not more than n lines of it; and done.
InHeader(ls, st) ==
    NoneEmpty(ls) /\ st.inHeaders /\ st.emitted = 0 /\ ~st.done /\ st.out = ls
InBody(ls, n, st) ==
    \E e \in 1..Len(ls) :
        /\ FirstEmpty(ls, e) /\ Len(ls) <= e + n
        /\ ~st.inHeaders /\ st.emitted = Len(ls) - e /\ st.done = (n = 0) /\ st.out = ls
Beyond(ls, n, st) ==
    \E e \in 1..Len(ls) :
        /\ FirstEmpty(ls, e) /\ Len(ls) > e + n
        /\ st.done /\ st.out = SubSeq(ls, 1, e + n)
TopState(ls, n, st) == InHeader(ls, st) \/ InBody(ls, n, st) \/ Beyond(ls, n, st)

\* One round of the loop of writeDotStuffed keeps the state of TOP.
LEMMA TopStep ==
    ASSUME NEW n \in Nat, NEW ls \in LineLists, NEW l \in Seq(Plain),
           NEW st \in WriteStates, TopState(ls, n, st)
    PROVE  TopState(Append(ls, l), n, WriteNext(st, l, n))
<1> DEFINE ms == Append(ls, l)
           m == Len(ls)
           next == WriteNext(st, l, n)
<1>1. /\ m \in Nat /\ Len(ms) = m + 1 /\ ms[m + 1] = l
      /\ \A i \in 1..m : ms[i] = ls[i]
  BY AppendProperties, LenProperties DEF LineLists
<1>2. \A i \in 1..(m + 1) : i \in 1..m \/ i = m + 1
  BY <1>1
<1>3. \A k \in Int : k <= m => SubSeq(ms, 1, k) = SubSeq(ls, 1, k)
  BY PrefixGrows DEF LineLists
<1>4. SubSeq(ls, 1, m) = ls
  BY SubSeqFull DEF LineLists
<1> HIDE DEF ms, m
<1>5. ASSUME NEW e \in 1..m, FirstEmpty(ls, e) PROVE e \in 1..(m + 1) /\ FirstEmpty(ms, e)
  <2>1. e \in 1..(m + 1) /\ ms[e] = <<>>
    BY <1>1, <1>5 DEF FirstEmpty
  <2>2. \A i \in 1..(m + 1) : ms[i] = <<>> => e <= i
    BY <1>1, <1>2, <1>5 DEF FirstEmpty, m
  <2> QED
    BY <1>1, <2>1, <2>2 DEF FirstEmpty
<1>6. CASE InHeader(ls, st)
  <2>1. \A i \in 1..m : ms[i] # <<>>
    BY <1>1, <1>6 DEF InHeader, NoneEmpty, m
  <2>2. CASE l = <<>>
    <3>1. next.inHeaders = FALSE /\ next.done = (n = 0) /\ next.emitted = 0 /\ next.out = ms
      BY <1>6, <2>2 DEF InHeader, WriteNext, WriteStates, ms
    <3>2. FirstEmpty(ms, m + 1) /\ m + 1 \in 1..Len(ms)
      BY <1>1, <1>2, <2>1, <2>2 DEF FirstEmpty
    <3>3. InBody(ms, n, next)
      BY <1>1, <3>1, <3>2 DEF InBody
    <3> QED
      BY <3>3 DEF TopState, ms
  <2>3. CASE l # <<>>
    <3>1. /\ next.inHeaders = st.inHeaders /\ next.done = st.done /\ next.emitted = 0
          /\ next.out = ms
      BY <1>6, <2>3 DEF InHeader, WriteNext, WriteStates, ms
    <3>2. NoneEmpty(ms)
      BY <1>1, <1>2, <2>1, <2>3 DEF NoneEmpty
    <3> QED
      BY <1>6, <3>1, <3>2 DEF InHeader, TopState, ms
  <2> QED
    BY <2>2, <2>3
<1>7. CASE InBody(ls, n, st)
  <2>1. PICK e \in 1..m :
            /\ FirstEmpty(ls, e) /\ m <= e + n
            /\ ~st.inHeaders /\ st.emitted = m - e /\ st.done = (n = 0) /\ st.out = ls
    BY <1>7 DEF InBody, m
  <2>2. e \in 1..(m + 1) /\ FirstEmpty(ms, e) /\ e \in Nat
    BY <1>1, <1>5, <2>1
  <2>3. CASE m = e + n
    <3>1. next.done /\ next.out = ls
      BY <1>1, <2>1, <2>2, <2>3 DEF WriteNext, WriteStates
    <3>2. next.out = SubSeq(ms, 1, e + n)
      BY <1>1, <1>3, <1>4, <2>2, <2>3, <3>1
    <3>3. Beyond(ms, n, next)
      BY <1>1, <2>2, <2>3, <3>1, <3>2 DEF Beyond
    <3> QED
      BY <3>3 DEF TopState, ms
  <2>4. CASE m < e + n
    <3>1. n # 0 /\ ~st.done /\ ~ (st.emitted >= n)
      <4>1. n # 0 /\ ~ (st.emitted >= n)
        BY <1>1, <2>1, <2>2, <2>4
      <4>2. ~st.done
        BY <2>1, <4>1
      <4> QED
        BY <4>1, <4>2
    <3>2. /\ next.inHeaders = st.inHeaders /\ next.done = st.done
          /\ next.emitted = st.emitted + 1 /\ next.out = ms
      BY <2>1, <3>1 DEF WriteNext, WriteStates, ms
    <3>3. next.emitted = (m + 1) - e
      BY <1>1, <2>1, <2>2, <3>2
    <3>4. InBody(ms, n, next)
      BY <1>1, <2>1, <2>2, <2>4, <3>1, <3>2, <3>3 DEF InBody
    <3> QED
      BY <3>4 DEF TopState, ms
  <2> QED
    BY <1>1, <2>1, <2>2, <2>3, <2>4
<1>8. CASE Beyond(ls, n, st)
  <2>1. PICK e \in 1..m :
            FirstEmpty(ls, e) /\ m > e + n /\ st.done /\ st.out = SubSeq(ls, 1, e + n)
    BY <1>8 DEF Beyond, m
  <2>2. e \in 1..(m + 1) /\ FirstEmpty(ms, e) /\ e \in Nat
    BY <1>1, <1>5, <2>1
  <2>3. next = st
    BY <2>1 DEF WriteNext
  <2>4. Beyond(ms, n, next)
    BY <1>1, <1>3, <2>1, <2>2, <2>3 DEF Beyond
  <2> QED
    BY <2>4 DEF TopState, ms
<1> QED
  BY <1>6, <1>7, <1>8 DEF TopState

\* So after all lines it is in one of these states.
LEMMA TopLines ==
    ASSUME NEW n \in Nat, NEW ls \in LineLists
    PROVE  TopState(ls, n, WriteLines(ls, n))
<1> DEFINE A == Seq(Plain)
           P == {ms \in LineLists : TopState(ms, n, WriteLines(ms, n))}
<1>1. <<>> \in P
  <2>1. <<>> \in LineLists /\ Len(<<>>) = 0
    BY EmptySeq DEF LineLists
  <2> DEFINE st == WriteLines(<<>>, n)
  <2>4. st = [inHeaders |-> n >= 0, emitted |-> 0, done |-> FALSE, out |-> <<>>]
    BY WriteLinesIs
  <2> HIDE DEF st
  <2>5. st.out = <<>> /\ ~st.done /\ st.emitted = 0 /\ st.inHeaders = (n >= 0)
    BY <2>4
  <2>6. n >= 0
    OBVIOUS
  <2>2. InHeader(<<>>, st) <=> NoneEmpty(<<>>)
    BY <2>5, <2>6 DEF InHeader
  <2>3. NoneEmpty(<<>>)
    BY DEF NoneEmpty
  <2> QED
    BY <2>1, <2>2, <2>3 DEF TopState, st
<1>2. ASSUME NEW ms \in Seq(A), NEW l \in A, ms \in P PROVE Append(ms, l) \in P
  <2>1. ms \in Seq(Seq(Octets)) /\ l \in Seq(Octets) /\ Append(ms, l) \in LineLists
    BY PlainText, AppendProperties DEF LineLists
  <2>2. /\ WriteLines(ms, n) \in WriteStates
        /\ WriteLines(Append(ms, l), n) = WriteNext(WriteLines(ms, n), l, n)
    BY <2>1, WriteLinesIs
  <2> QED
    BY <1>2, <2>1, <2>2, TopStep
<1> HIDE DEF P
<1>3. Seq(A) \subseteq P
  BY <1>1, <1>2, SeqInduction
<1> QED
  BY <1>3 DEF P, LineLists

\* What TOP and RETR send are the first of the lines.
LEMMA LinesType ==
    ASSUME NEW raw \in Seq(Octets), NEW n \in Int
    PROVE  Lines(raw, n) \in LineLists
<1> DEFINE ls == SplitLines(raw)
<1>1. ls \in LineLists
  BY SplitLinesType
<1>2. Lines(raw, n) = WriteLines(ls, n).out
  BY DEF Lines
<1> HIDE DEF ls
<1>3. CASE n < 0
  BY <1>1, <1>2, <1>3, AllLines
<1>4. CASE n \in Nat
  <2>1. TopState(ls, n, WriteLines(ls, n))
    BY <1>1, <1>4, TopLines
  <2>2. ASSUME NEW k \in Int, k < Len(ls) PROVE SubSeq(ls, 1, k) \in LineLists
    <3>1. Len(ls) \in Nat /\ \A i \in 1..Len(ls) : ls[i] \in Seq(Plain)
      BY <1>1, LenProperties, ElementOfSeq DEF LineLists
    <3>2. \A i \in 1..k : ls[i] \in Seq(Plain)
      BY <2>2, <3>1
    <3> QED
      BY <3>2, SubSeqProperties DEF LineLists
  <2>3. \A e \in 1..Len(ls) : e + n \in Int
    BY <1>4
  <2> QED
    BY <1>1, <1>2, <2>1, <2>2, <2>3 DEF TopState, InHeader, InBody, Beyond
<1> QED
  BY <1>3, <1>4

\* TOP n: the header, the empty line, and n lines of the body, if it has them.
THEOREM TopCorrect ==
    ASSUME NEW raw \in Seq(Octets), NEW n \in Int
    PROVE  TopIsPrefix(raw, n)
<1> SUFFICES ASSUME n >= 0 PROVE TopIsPrefix(raw, n)
  BY DEF TopIsPrefix
<1> DEFINE ls == SplitLines(raw)
           empty == SelectInSeq(ls, LAMBDA line : line = <<>>)
           st == WriteLines(ls, n)
<1>1. ls \in LineLists /\ Len(ls) \in Nat
  BY SplitLinesType, LenProperties DEF LineLists
<1>2. TopState(ls, n, st)
  BY <1>1, TopLines
<1>3. Lines(raw, n) = st.out
  BY DEF Lines
<1> HIDE DEF st
<1>4. SUFFICES Lines(raw, n) = IF empty = 0 \/ empty + n >= Len(ls) THEN ls
                               ELSE SubSeq(ls, 1, empty + n)
  BY DEF TopIsPrefix
<1> HIDE DEF ls
<1>5. CASE InHeader(ls, st)
  <2>1. {i \in 1..Len(ls) : ls[i] = <<>>} = {}
    BY <1>5 DEF InHeader, NoneEmpty
  <2>2. empty = 0
    BY <2>1 DEF SelectInSeq
  <2> QED
    BY <1>3, <1>5, <2>2 DEF InHeader
<1>6. ASSUME NEW e \in 1..Len(ls), FirstEmpty(ls, e) PROVE empty = e /\ e \in Nat /\ e # 0
  <2> DEFINE I == {i \in 1..Len(ls) : ls[i] = <<>>}
  <2>1. I # {} /\ Min(I) = e
    BY <1>1, <1>6, FirstIs DEF FirstEmpty
  <2>2. empty = IF I # {} THEN Min(I) ELSE 0
    BY DEF SelectInSeq
  <2> HIDE DEF I
  <2> QED
    BY <2>1, <2>2
<1> HIDE DEF empty
<1>7. CASE InBody(ls, n, st)
  BY <1>1, <1>3, <1>6, <1>7 DEF InBody
<1>8. CASE Beyond(ls, n, st)
  BY <1>1, <1>3, <1>6, <1>8 DEF Beyond
<1> QED
  BY <1>2, <1>5, <1>7, <1>8 DEF TopState

\* Dots are added line by line.
LEMMA StuffMore ==
    /\ Stuff(<<>>) = <<>>
    /\ \A ls \in LineLists, l \in Seq(Plain) :
            Stuff(Append(ls, l)) = Append(Stuff(ls), Stuffed(l))
<1> DEFINE A == Seq(Plain)
           f == [l \in A |-> Stuffed(l)]
<1>1. Maps(f, A, A) /\ \A l \in A : f[l] = Stuffed(l)
  BY StuffedIs DEF Maps
<1>2. ASSUME NEW ls \in Seq(A) PROVE Stuff(ls) = Map(f, ls)
  BY ElementOfSeq, LenProperties DEF Stuff, Map
<1>3. <<>> \in Seq(A)
  BY EmptySeq
<1>4. \A ls \in Seq(A), l \in A : Append(ls, l) \in Seq(A)
  BY AppendProperties
<1> HIDE DEF f, A
<1>5. /\ Map(f, <<>>) = <<>>
      /\ \A s \in Seq(A), x \in A : Map(f, Append(s, x)) = Append(Map(f, s), f[x])
  BY <1>1, MapIs
<1> QED
  BY <1>1, <1>2, <1>3, <1>4, <1>5 DEF A, LineLists

\* What is sent is a text of lines, the last of which is the terminator.
LEMMA WireText ==
    ASSUME NEW raw \in Seq(Octets), NEW n \in Int
    PROVE  WriteDotStuffed(raw, n) = Concat(Append(Stuff(Lines(raw, n)), <<DOT>>))
<1> DEFINE ls == Lines(raw, n)
<1>1. ls \in LineLists
  BY LinesType
<1>2. WriteDotStuffed(raw, n) = Flat[[i \in DOMAIN ls |-> WriteLine(ls[i])]] \o <<DOT>> \o End
  BY DEF WriteDotStuffed
<1> HIDE DEF ls
<1>3. Stuff(ls) \in LineLists
  BY <1>1, StuffIs
<1>4. <<DOT>> \in Seq(Plain)
  <2>1. DOT \in Plain
    BY Letters
  <2> QED
    BY <2>1
<1>5. [i \in DOMAIN ls |-> WriteLine(ls[i])] = [i \in DOMAIN Stuff(ls) |-> Stuff(ls)[i] \o End]
  BY DEF WriteLine, Stuff
<1>6. WriteDotStuffed(raw, n) = (Concat(Stuff(ls)) \o <<DOT>>) \o End
  BY <1>2, <1>5 DEF Concat
<1>7. Concat(Append(Stuff(ls), <<DOT>>)) = Concat(Stuff(ls)) \o (<<DOT>> \o End)
  BY <1>3, <1>4, ConcatIs
<1>8. Concat(Stuff(ls)) \in Seq(Octets) /\ <<DOT>> \in Seq(Octets) /\ End \in Seq(Octets)
  BY <1>3, <1>4, ConcatIs, PlainText, EndIs
<1>9. (Concat(Stuff(ls)) \o <<DOT>>) \o End = Concat(Stuff(ls)) \o (<<DOT>> \o End)
  BY <1>8, ConcatAssociative
<1> QED
  BY <1>6, <1>7, <1>9 DEF ls

\* The octets that lines take on the wire.
Sizes(lines) ==
    [i \in DOMAIN lines |-> Len(lines[i]) + 2 + IF Dotted(lines[i]) THEN 1 ELSE 0]
\* The sizes of lines are numbers, and grow line by line.
LEMMA SizesIs ==
    /\ Sizes(<<>>) = <<>>
    /\ \A ls \in LineLists : Sizes(ls) \in Seq(Nat)
    /\ \A ls \in LineLists, l \in Seq(Plain) :
            Sizes(Append(ls, l)) = Append(Sizes(ls), Len(Stuffed(l)) + 2)
<1> DEFINE A == Seq(Plain)
           f == [l \in A |-> Len(l) + 2 + IF Dotted(l) THEN 1 ELSE 0]
<1>1. Maps(f, A, Nat)
  BY LenProperties DEF Maps
<1>2. \A l \in A : f[l] = Len(Stuffed(l)) + 2
  BY LenProperties, StuffedIs
<1>3. ASSUME NEW ls \in Seq(A) PROVE Sizes(ls) = Map(f, ls)
  BY ElementOfSeq, LenProperties DEF Sizes, Map
<1>4. <<>> \in Seq(A)
  BY EmptySeq
<1>5. \A ls \in Seq(A), l \in A : Append(ls, l) \in Seq(A)
  BY AppendProperties
<1> HIDE DEF f, A
<1>6. /\ Map(f, <<>>) = <<>>
      /\ \A s \in Seq(A) : Map(f, s) \in Seq(Nat)
      /\ \A s \in Seq(A), x \in A : Map(f, Append(s, x)) = Append(Map(f, s), f[x])
  BY <1>1, MapIs
<1> QED
  BY <1>2, <1>3, <1>4, <1>5, <1>6 DEF A, LineLists

\* The octets of a text are those of its lines, with dots and line ends.
LEMMA SizesAddUp ==
    ASSUME NEW ls \in LineLists
    PROVE  Len(Concat(Stuff(ls))) = Sum[Sizes(ls)]
<1> DEFINE A == Seq(Plain)
           P == {ms \in LineLists : Len(Concat(Stuff(ms))) = Sum[Sizes(ms)]}
<1>1. <<>> \in P
  <2>1. <<>> \in LineLists
    BY EmptySeq DEF LineLists
  <2>2. Len(Concat(Stuff(<<>>))) = 0
    BY StuffMore, ConcatIs
  <2> QED
    BY <2>1, <2>2, SizesIs, SumIs
<1>2. ASSUME NEW ms \in Seq(A), NEW l \in A, ms \in P PROVE Append(ms, l) \in P
  <2>1. ms \in LineLists /\ Append(ms, l) \in LineLists
    BY AppendProperties DEF LineLists
  <2>2. Stuff(ms) \in LineLists /\ Stuffed(l) \in Seq(Plain) /\ Stuffed(l) \in Seq(Octets)
    BY <2>1, StuffIs, StuffedIs, PlainText
  <2>3. Concat(Stuff(Append(ms, l))) = Concat(Stuff(ms)) \o (Stuffed(l) \o End)
    BY <2>1, <2>2, StuffMore, ConcatIs
  <2>4. Concat(Stuff(ms)) \in Seq(Octets) /\ End \in Seq(Octets)
    BY <2>2, ConcatIs, EndIs
  <2>5. Stuffed(l) \o End \in Seq(Octets) /\ Len(Stuffed(l) \o End) = Len(Stuffed(l)) + 2
    BY <2>2, <2>4, EndIs, ConcatProperties
  <2>6. Len(Concat(Stuff(Append(ms, l)))) = Len(Concat(Stuff(ms))) + (Len(Stuffed(l)) + 2)
    BY <2>3, <2>4, <2>5, ConcatProperties
  <2>7. Len(Stuffed(l)) + 2 \in Nat
    BY <2>2, LenProperties
  <2>8. Sum[Sizes(Append(ms, l))] = Sum[Sizes(ms)] + (Len(Stuffed(l)) + 2)
    <3>1. Sizes(ms) \in Seq(Nat)
      BY <2>1, SizesIs
    <3>2. Sizes(Append(ms, l)) = Append(Sizes(ms), Len(Stuffed(l)) + 2)
      BY <2>1, SizesIs
    <3> QED
      BY <2>7, <3>1, <3>2, SumIs
  <2> QED
    BY <1>2, <2>1, <2>6, <2>8
<1> HIDE DEF P
<1>3. Seq(A) \subseteq P
  BY <1>1, <1>2, SeqInduction
<1> QED
  BY <1>3 DEF P, LineLists

\* RETR sends as many octets as LIST and STAT announce.
THEOREM SizeCorrect ==
    ASSUME NEW raw \in Seq(Octets)
    PROVE  /\ OctetsAsAnnounced(raw) /\ CrlfSize(raw) \in Nat
           /\ Len(WriteDotStuffed(raw, -1)) = CrlfSize(raw) + 3
<1> DEFINE ls == SplitLines(raw)
<1>1. ls \in LineLists
  BY SplitLinesType
<1>2. Lines(raw, -1) = ls
  BY <1>1, AllLines DEF Lines
<1>3. CrlfSize(raw) = Sum[Sizes(ls)]
  BY DEF CrlfSize, Sizes
<1> HIDE DEF ls
<1>4. WriteDotStuffed(raw, -1) = Concat(Append(Stuff(ls), <<DOT>>))
  BY <1>2, WireText
<1>5. Stuff(ls) \in LineLists /\ <<DOT>> \in Seq(Plain) /\ <<DOT>> \in Seq(Octets)
  <2>1. DOT \in Plain /\ DOT \in Octets
    BY Letters
  <2> QED
    BY <1>1, <2>1, StuffIs
<1>6. Concat(Append(Stuff(ls), <<DOT>>)) = Concat(Stuff(ls)) \o (<<DOT>> \o End)
  BY <1>5, ConcatIs
<1>7. Concat(Stuff(ls)) \in Seq(Octets) /\ End \in Seq(Octets) /\ Len(End) = 2
  BY <1>5, ConcatIs, EndIs
<1>8. <<DOT>> \o End \in Seq(Octets) /\ Len(<<DOT>> \o End) = 3
  <2> DEFINE d == <<DOT>>
  <2>1. d \in Seq(Octets) /\ Len(d) = 1
    BY <1>5
  <2> HIDE DEF d
  <2>2. End \in Seq(Octets) /\ Len(End) = 2
    BY <1>7
  <2>3. d \o End \in Seq(Octets) /\ Len(d \o End) = Len(d) + Len(End)
    BY <2>1, <2>2, ConcatProperties
  <2>4. d \o End \in Seq(Octets) /\ Len(d \o End) = 3
    BY <2>1, <2>2, <2>3
  <2> QED
    BY <2>4 DEF d
<1>9. Len(WriteDotStuffed(raw, -1)) = Len(Concat(Stuff(ls))) + 3
  BY <1>4, <1>6, <1>7, <1>8, ConcatProperties
<1>10. Sum[Sizes(ls)] \in Nat
  BY <1>1, SizesIs, SumIs
<1> QED
  BY <1>1, <1>3, <1>9, <1>10, SizesAddUp DEF OctetsAsAnnounced

\* A client that reads lines with their dots gets the lines, and nothing but an
\* empty line is left behind the terminator.
LEMMA ClientReads ==
    ASSUME NEW ls \in LineLists
    PROVE  ClientLines(Concat(Append(Stuff(ls), <<DOT>>))) =
                [text |-> ls, rest |-> << <<>> >>]
<1> DEFINE d == <<DOT>>
           sent == Append(Stuff(ls), d)
           plain == Append(sent, <<>>)
           m == Len(ls)
           end == SelectInSeq(plain, LAMBDA line : line = d)
<1>1. d \in Seq(Plain)
  BY Letters
<1>2. m \in Nat /\ \A i \in 1..m : ls[i] \in Seq(Plain)
  BY LenProperties, ElementOfSeq DEF LineLists
<1>3. /\ Stuff(ls) \in Seq(Seq(Plain)) /\ Len(Stuff(ls)) = m
      /\ \A i \in 1..m : Stuff(ls)[i] = Stuffed(ls[i])
  BY StuffIs DEF LineLists
<1>4. \A i \in 1..m : Stuffed(ls[i]) # d /\ Unstuffed(Stuffed(ls[i])) = ls[i]
  BY <1>2, StuffedIs
<1> HIDE DEF d, m
<1>5. /\ sent \in Seq(Seq(Plain)) /\ Len(sent) = m + 1 /\ sent[m + 1] = d
      /\ \A i \in 1..m : sent[i] = Stuffed(ls[i])
  BY <1>1, <1>2, <1>3, AppendProperties
<1> HIDE DEF sent
<1>6. <<>> \in Seq(Plain)
  BY EmptySeq
<1>7. /\ plain \in Seq(Seq(Plain)) /\ Len(plain) = m + 2 /\ plain[m + 2] = <<>> /\ plain[m + 1] = d
      /\ \A i \in 1..m : plain[i] = Stuffed(ls[i])
  BY <1>2, <1>5, <1>6, AppendProperties
<1>8. [i \in DOMAIN Split[Concat(sent)] |-> TrimSuffix(Split[Concat(sent)][i], CR)] = plain
  BY <1>5, ClientPlain DEF LineLists, Trims
<1> HIDE DEF plain
<1>9. end = m + 1
  <2> DEFINE I == {i \in 1..Len(plain) : plain[i] = d}
  <2>1. \A i \in 1..m : plain[i] # d
    BY <1>4, <1>7
  <2>2. \A i \in 1..Len(plain) : plain[i] = d => m + 1 <= i
    BY <1>2, <1>7, <2>1
  <2>3. m + 1 \in 1..Len(plain) /\ Len(plain) \in Nat /\ plain[m + 1] = d
    BY <1>2, <1>7
  <2>5. I # {} /\ Min(I) = m + 1
    BY <2>2, <2>3, FirstIs, ZenonT(60)
  <2>4. end = IF I # {} THEN Min(I) ELSE 0
    BY DEF SelectInSeq
  <2> HIDE DEF I
  <2> QED
    BY <2>4, <2>5
<1>10. ClientLines(Concat(sent)) =
            [text |-> [i \in 1..(end - 1) |-> Unstuffed(plain[i])],
             rest |-> SubSeq(plain, end + 1, Len(plain))]
  <2> DEFINE Read(p) == LET to == SelectInSeq(p, LAMBDA line : line = <<DOT>>)
                        IN  [text |-> [i \in 1..(to - 1) |-> Unstuffed(p[i])],
                             rest |-> SubSeq(p, to + 1, Len(p))]
             trimmed == [i \in DOMAIN Split[Concat(sent)] |-> TrimSuffix(Split[Concat(sent)][i], CR)]
  <2>1. ClientLines(Concat(sent)) = Read(trimmed)
    BY DEF ClientLines
  <2>2. Read(plain) = [text |-> [i \in 1..(end - 1) |-> Unstuffed(plain[i])],
                       rest |-> SubSeq(plain, end + 1, Len(plain))]
    BY DEF d
  <2>3. trimmed = plain
    BY <1>8
  <2> HIDE DEF Read, trimmed
  <2> QED
    BY <2>1, <2>2, <2>3
<1> HIDE DEF end
<1>11. [i \in 1..(end - 1) |-> Unstuffed(plain[i])] = ls
  <2>1. end - 1 = m
    BY <1>2, <1>9
  <2>2. \A i \in 1..m : Unstuffed(plain[i]) = ls[i]
    BY <1>4, <1>7
  <2>3. ls = [i \in 1..m |-> ls[i]]
    BY LenProperties DEF m, LineLists
  <2> QED
    BY <2>1, <2>2, <2>3
<1>12. SubSeq(plain, end + 1, Len(plain)) = << <<>> >>
  <2> DEFINE r == SubSeq(plain, m + 2, m + 2)
             e == << <<>> >>
  <2>1. e \in Seq(Seq(Plain)) /\ Len(e) = 1 /\ e[1] = <<>>
    BY <1>6
  <2>2. r \in Seq(Seq(Plain)) /\ Len(r) = 1 /\ r[1] = plain[m + 2]
    <3>1. \A i \in (m + 2)..(m + 2) : plain[i] \in Seq(Plain)
      BY <1>6, <1>7
    <3> DEFINE k == m + 2
    <3>2. k \in Int /\ k - k + 1 = 1 /\ k + 1 - 1 = k /\ 1 \in 1..(k - k + 1) /\ k <= k
      BY <1>2
    <3>3. \A i \in k..k : plain[i] \in Seq(Plain)
      BY <3>1
    <3> HIDE DEF k
    <3>4. /\ SubSeq(plain, k, k) \in Seq(Seq(Plain))
          /\ Len(SubSeq(plain, k, k)) = IF k <= k THEN k - k + 1 ELSE 0
          /\ \A i \in 1..(k - k + 1) : SubSeq(plain, k, k)[i] = plain[k + i - 1]
      BY <3>2, <3>3, SubSeqProperties
    <3>5. /\ SubSeq(plain, k, k) \in Seq(Seq(Plain)) /\ Len(SubSeq(plain, k, k)) = 1
          /\ SubSeq(plain, k, k)[1] = plain[k]
      BY <3>2, <3>4
    <3> QED
      BY <3>5 DEF k
  <2> HIDE DEF r, e
  <2>3. r = e
    <3>1. \A i \in 1..1 : r[i] = e[i]
      BY <1>7, <2>1, <2>2
    <3> QED
      BY <2>1, <2>2, <3>1, SeqEqual
  <2>4. end + 1 = m + 2
    BY <1>2, <1>9
  <2> QED
    BY <1>7, <2>3, <2>4 DEF r, e
<1> QED
  BY <1>10, <1>11, <1>12 DEF sent, d

\* No line of a message is taken for its end, and nothing after it for a line.
THEOREM NoLineEnds ==
    ASSUME NEW raw \in Seq(Octets), NEW n \in Int
    PROVE  NoLineEndsIt(raw, n)
<1> DEFINE ls == Lines(raw, n)
<1>1. ls \in LineLists
  BY LinesType
<1>2. ClientLines(WriteDotStuffed(raw, n)) = [text |-> ls, rest |-> << <<>> >>]
  BY <1>1, WireText, ClientReads
<1> QED
  BY <1>2 DEF NoLineEndsIt

\* Two elements, one after the other.
LEMMA PairIs ==
    ASSUME NEW A, NEW a \in A, NEW b \in A
    PROVE  <<a, b>> = <<a>> \o <<b>> /\ <<a>> \in Seq(A) /\ <<b>> \in Seq(A)
<1> DEFINE p == <<a, b>>
           s == <<a>>
           t == <<b>>
           u == s \o t
<1>1. s \in Seq(A) /\ Len(s) = 1 /\ s[1] = a /\ t \in Seq(A) /\ Len(t) = 1 /\ t[1] = b
  OBVIOUS
<1>2. p \in Seq(A) /\ Len(p) = 2 /\ p[1] = a /\ p[2] = b
  OBVIOUS
<1> HIDE DEF s, t, p
<1>3. /\ u \in Seq(A) /\ Len(u) = 2
      /\ \A i \in 1..2 : u[i] = IF i <= 1 THEN s[i] ELSE t[i - 1]
  BY <1>1, ConcatProperties
<1> HIDE DEF u
<1>4. \A i \in 1..2 : u[i] = p[i]
  BY <1>1, <1>2, <1>3
<1>5. p = u
  BY <1>2, <1>3, <1>4, SeqEqual
<1> QED
  BY <1>1, <1>5 DEF p, s, t, u

\* What readData has read of lines: all of them, or it knows that they are too
\* large.
ReadSoFar(ls, st, max) ==
    IF st.tooLarge THEN Len(Concat(ls)) > max
    ELSE st.buf = Concat(ls) /\ Len(Concat(ls)) <= max

\* So it is after every number of lines.
LEMMA ReadAll ==
    ASSUME NEW max \in Nat, NEW ls \in LineLists
    PROVE  /\ ReadLines(Stuff(ls), max) \in ReadStates
           /\ ReadSoFar(ls, ReadLines(Stuff(ls), max), max)
<1> DEFINE A == Seq(Plain)
           P == {ms \in LineLists : /\ ReadLines(Stuff(ms), max) \in ReadStates
                                    /\ ReadSoFar(ms, ReadLines(Stuff(ms), max), max)}
<1>1. <<>> \in P
  <2>1. <<>> \in LineLists /\ <<>> \in Seq(Seq(Octets))
    BY EmptySeq DEF LineLists
  <2>2. ReadLines(<<>>, max) = [buf |-> <<>>, tooLarge |-> FALSE] /\ ReadLines(<<>>, max) \in ReadStates
    BY <2>1, ReadLinesIs
  <2>3. Stuff(<<>>) = <<>> /\ Concat(<<>>) = <<>> /\ Len(<<>>) = 0
    BY StuffMore, ConcatIs
  <2> QED
    BY <2>1, <2>2, <2>3 DEF ReadSoFar
<1>2. ASSUME NEW ms \in Seq(A), NEW l \in A, ms \in P PROVE Append(ms, l) \in P
  <2> DEFINE st == ReadLines(Stuff(ms), max)
             next == ReadLines(Stuff(Append(ms, l)), max)
             c == Concat(ms)
  <2>1. ms \in LineLists /\ Append(ms, l) \in LineLists /\ l \in Seq(Octets)
    BY AppendProperties, PlainText DEF LineLists
  <2>2. Stuff(ms) \in Seq(Seq(Octets)) /\ Stuffed(l) \in Seq(Octets)
    BY <2>1, StuffIs, StuffedIs, PlainText
  <2>3. st \in ReadStates /\ next \in ReadStates /\ next = ReadLine(st, Stuffed(l), max)
    <3>1. Stuff(Append(ms, l)) = Append(Stuff(ms), Stuffed(l))
      BY <2>1, StuffMore
    <3>2. Append(Stuff(ms), Stuffed(l)) \in Seq(Seq(Octets))
      BY <2>2, AppendProperties
    <3> QED
      BY <2>2, <3>1, <3>2, ReadLinesIs
  <2>4. ReadSoFar(ms, st, max)
    BY <1>2
  <2>5. Unstuffed(Stuffed(l)) = l
    BY StuffedIs
  <2>6. c \in Seq(Octets) /\ Len(c) \in Nat /\ Len(l) \in Nat
    BY <2>1, ConcatIs, LenProperties
  <2>7. Concat(Append(ms, l)) = (c \o l) \o End
    <3>1. Concat(Append(ms, l)) = c \o (l \o End)
      BY <2>1, ConcatIs
    <3> HIDE DEF c
    <3>2. (c \o l) \o End = c \o (l \o End)
      BY <2>1, <2>6, ConcatAssociative, EndIs, SMTT(60)
    <3> QED
      BY <3>1, <3>2
  <2>8. Len(Concat(Append(ms, l))) = Len(c) + Len(l) + 2
    <3>1. c \o l \in Seq(Octets) /\ Len(c \o l) = Len(c) + Len(l)
      BY <2>1, <2>6, ConcatProperties
    <3> DEFINE k == c \o l
    <3>2. k \in Seq(Octets)
      BY <3>1
    <3> HIDE DEF k
    <3>3. Len(k \o End) = Len(k) + Len(End)
      BY <3>2, EndIs, ConcatProperties
    <3> QED
      BY <2>7, <3>1, <3>3, EndIs DEF k
  <2> HIDE DEF st, next, c
  <2>9. ReadSoFar(Append(ms, l), next, max)
    <3>1. CASE st.tooLarge
      <4>1. Len(c) > max
        BY <2>4, <3>1 DEF ReadSoFar, c
      <4>2. next.tooLarge
        BY <2>3, <3>1 DEF ReadLine, ReadStates
      <4> QED
        BY <2>6, <2>8, <4>1, <4>2 DEF ReadSoFar
    <3>2. CASE ~st.tooLarge
      <4>1. st.buf = c
        BY <2>4, <3>2 DEF ReadSoFar, c
      <4>2. CASE Over(c, l, max)
        <5>1. next.tooLarge
          BY <2>3, <2>5, <4>1, <4>2 DEF ReadLine, ReadStates
        <5>2. Len(c) + Len(l) + 2 > max
          BY <4>2 DEF Over
        <5> QED
          BY <2>8, <5>1, <5>2 DEF ReadSoFar
      <4>3. CASE ~Over(c, l, max)
        <5>1. next = [st EXCEPT !.buf = @ \o l \o End]
          BY <2>3, <2>5, <3>2, <4>1, <4>3 DEF ReadLine
        <5>2. ~next.tooLarge /\ next.buf = (c \o l) \o End
          BY <2>3, <3>2, <4>1, <5>1 DEF ReadStates
        <5>3. Len(c) + Len(l) + 2 <= max
          BY <2>6, <4>3 DEF Over
        <5> QED
          BY <2>7, <2>8, <5>2, <5>3 DEF ReadSoFar
      <4> QED
        BY <4>2, <4>3
    <3> QED
      BY <3>1, <3>2
  <2> QED
    BY <2>1, <2>3, <2>9 DEF next
<1> HIDE DEF P
<1>3. Seq(A) \subseteq P
  BY <1>1, <1>2, SeqInduction
<1> QED
  BY <1>3 DEF P, LineLists

\* What a client sends: the lines, the end and the next command.
LEMMA SentIs ==
    ASSUME NEW ls \in LineLists
    PROVE  /\ Sent(ls) \in LineLists /\ Len(Sent(ls)) = Len(ls) + 2 /\ Len(ls) \in Nat
           /\ Sent(ls)[Len(ls) + 1] = <<DOT>> /\ Sent(ls)[Len(ls) + 2] = <<X>>
           /\ \A i \in 1..Len(ls) : /\ Sent(ls)[i] = Stuff(ls)[i]
                                    /\ Stuff(ls)[i] = Stuffed(ls[i])
                                    /\ Stuffed(ls[i]) # <<DOT>>
<1> DEFINE d == <<DOT>>
           x == <<X>>
           A == Seq(Plain)
           m == Len(ls)
           wire == Append(Append(Stuff(ls), d), x)
<1>1. d \in A /\ x \in A /\ d # x
  <2>1. DOT \in Plain /\ X \in Plain
    BY Letters
  <2>2. DOT # X
    BY DEF DOT, X
  <2> QED
    BY <2>1, <2>2
<1>2. m \in Nat /\ \A i \in 1..m : ls[i] \in A
  BY LenProperties, ElementOfSeq DEF LineLists
<1>3. /\ Stuff(ls) \in Seq(A) /\ Len(Stuff(ls)) = m
      /\ \A i \in 1..m : Stuff(ls)[i] = Stuffed(ls[i])
  BY StuffIs DEF LineLists
<1>4. \A i \in 1..m : Stuffed(ls[i]) # d
  BY <1>2, StuffedIs
<1>5. Sent(ls) = wire
  <2>1. Sent(ls) = Stuff(ls) \o <<d, x>>
    BY DEF Sent, Stuff
  <2> HIDE DEF d, x, A
  <2>2. <<d, x>> = <<d>> \o <<x>> /\ <<d>> \in Seq(A) /\ <<x>> \in Seq(A)
    BY <1>1, PairIs
  <2>3. Stuff(ls) \o <<d, x>> = (Stuff(ls) \o <<d>>) \o <<x>>
    BY <1>3, <2>2, ConcatAssociative
  <2>4. Append(Stuff(ls), d) = Stuff(ls) \o <<d>> /\ Append(Stuff(ls), d) \in Seq(A)
    BY <1>1, <1>3, AppendIsConcat, AppendProperties
  <2>5. wire = Append(Stuff(ls), d) \o <<x>>
    BY <1>1, <2>4, AppendIsConcat
  <2> QED
    BY <2>1, <2>3, <2>4, <2>5
<1> HIDE DEF d, x, m, A
<1>6. /\ wire \in Seq(A) /\ Len(wire) = m + 2 /\ wire[m + 1] = d /\ wire[m + 2] = x
      /\ \A i \in 1..m : wire[i] = Stuff(ls)[i]
  <2> DEFINE v == Append(Stuff(ls), d)
  <2>1. /\ v \in Seq(A) /\ Len(v) = m + 1 /\ v[m + 1] = d
        /\ \A i \in 1..m : v[i] = Stuff(ls)[i]
    BY <1>1, <1>2, <1>3, AppendProperties
  <2> HIDE DEF v
  <2>2. /\ Append(v, x) \in Seq(A) /\ Len(Append(v, x)) = m + 2 /\ Append(v, x)[m + 2] = x
        /\ \A i \in 1..(m + 1) : Append(v, x)[i] = v[i]
    BY <1>1, <1>2, <2>1, AppendProperties
  <2> QED
    BY <1>2, <2>1, <2>2 DEF v
<1> HIDE DEF wire
<1> QED
  BY <1>2, <1>3, <1>4, <1>5, <1>6 DEF A, m, d, x, LineLists

\* The least of some numbers is the one that is found.
LEMMA LeastIs ==
    ASSUME NEW I \in SUBSET Nat, NEW n \in I, \A i \in I : n <= i
    PROVE  I # {} /\ Min(I) = n
<1>1. \A m \in I : (\A i \in I : m <= i) => m = n
  OBVIOUS
<1>2. Min(I) = n
  BY <1>1 DEF Min
<1> QED
  BY <1>2

\* readData stops at the first line that is the end, or too long.
LEMMA StopsAt ==
    ASSUME NEW wire \in LineLists, NEW reader, NEW n \in 1..Len(wire),
           wire[n] = <<DOT>> \/ TooLong(wire[n], reader),
           \A i \in 1..Len(wire) : wire[i] = <<DOT>> \/ TooLong(wire[i], reader) => n <= i
    PROVE  Stop(wire, reader) = n
<1> DEFINE I == {i \in 1..Len(wire) : wire[i] = <<DOT>> \/ TooLong(wire[i], reader)}
           stop == Stop(wire, reader)
<1>1. I \subseteq Nat /\ n \in I /\ \A i \in I : n <= i
  OBVIOUS
<1>2. stop = IF I # {} THEN Min(I) ELSE 0
  BY DEF Stop, SelectInSeq
<1> HIDE DEF I, stop
<1>3. stop = n
  BY <1>1, <1>2, LeastIs
<1> QED
  BY <1>3 DEF stop

\* readData finds the end of what a client sends, and what is behind it, if no
\* line is too long.
LEMMA EndFound ==
    ASSUME NEW ls \in LineLists, NEW max \in Nat, NEW reader \in Readers,
           \A i \in 1..Len(ls) : ~TooLong(Stuffed(ls[i]), reader)
    PROVE  LET s == ReadLines(Stuff(ls), max)
           IN  ReadData(Sent(ls), max, reader) =
                    [err |-> FALSE, buf |-> s.buf, tooLarge |-> s.tooLarge,
                     rest |-> << <<X>> >>]
<1> DEFINE d == <<DOT>>
           x == <<X>>
           A == Seq(Plain)
           m == Len(ls)
           wire == Sent(ls)
           stop == Stop(wire, reader)
<1>1. x \in A
  BY Letters
<1>2. m \in Nat
  BY SentIs
<1>3. /\ Stuff(ls) \in Seq(A) /\ Len(Stuff(ls)) = m
  BY StuffIs DEF LineLists
<1>6. /\ wire \in Seq(A) /\ Len(wire) = m + 2 /\ wire[m + 1] = d /\ wire[m + 2] = x
      /\ \A i \in 1..m : wire[i] = Stuff(ls)[i] /\ wire[i] # d /\ ~TooLong(wire[i], reader)
  <2>1. /\ Sent(ls) \in LineLists /\ Len(Sent(ls)) = Len(ls) + 2
        /\ Sent(ls)[Len(ls) + 1] = <<DOT>> /\ Sent(ls)[Len(ls) + 2] = <<X>>
    BY SentIs
  <2>2. ASSUME NEW i \in 1..m
        PROVE  wire[i] = Stuff(ls)[i] /\ wire[i] # d /\ ~TooLong(wire[i], reader)
    <3>1. wire[i] = Stuff(ls)[i] /\ wire[i] = Stuffed(ls[i]) /\ Stuffed(ls[i]) # d
      BY SentIs
    <3> QED
      BY <3>1
  <2> QED
    BY <2>1, <2>2 DEF LineLists
<1> HIDE DEF x, m, A, wire
<1>7. stop = m + 1 /\ ~TooLong(wire[stop], reader)
  <2>1. ~TooLong(d, reader)
    BY DEF TooLong, Readers
  <2>2. \A i \in 1..Len(wire) : wire[i] = d \/ TooLong(wire[i], reader) => m + 1 <= i
    BY <1>2, <1>6
  <2>3. m + 1 \in 1..Len(wire)
    BY <1>2, <1>6
  <2>4. wire \in LineLists
    BY <1>6, Zenon DEF LineLists, A
  <2>5. stop = m + 1
    BY <1>6, <2>2, <2>3, <2>4, StopsAt
  <2> HIDE DEF stop
  <2> QED
    BY <1>6, <2>1, <2>5
<1> HIDE DEF d, stop
<1>8. SubSeq(wire, 1, m) = Stuff(ls)
  <2>1. \A i \in 1..m : wire[i] \in A
    BY <1>2, <1>6, ElementOfSeq
  <2>2. /\ SubSeq(wire, 1, m) \in Seq(A) /\ Len(SubSeq(wire, 1, m)) = m
        /\ \A i \in 1..m : SubSeq(wire, 1, m)[i] = wire[i]
    BY <1>2, <2>1, SubSeqProperties
  <2> DEFINE r == SubSeq(wire, 1, m)
  <2>3. r \in Seq(A) /\ Len(r) = m /\ \A i \in 1..m : r[i] = Stuff(ls)[i]
    BY <1>6, <2>2
  <2> HIDE DEF r
  <2>4. r = Stuff(ls)
    BY <1>3, <2>3, SeqEqual
  <2> QED
    BY <2>4 DEF r
<1>9. SubSeq(wire, m + 2, m + 2) = <<x>>
  <2> DEFINE k == m + 2
             e == <<x>>
             r == SubSeq(wire, k, k)
  <2>1. k \in Int /\ k - k + 1 = 1 /\ k + 1 - 1 = k /\ 1 \in 1..(k - k + 1) /\ k <= k
    BY <1>2
  <2>2. \A i \in k..k : wire[i] \in A
    BY <1>1, <1>2, <1>6
  <2>3. e \in Seq(A) /\ Len(e) = 1 /\ e[1] = x
    BY <1>1
  <2>4. wire[k] = x
    BY <1>6
  <2> HIDE DEF k, e
  <2>5. /\ SubSeq(wire, k, k) \in Seq(A)
        /\ Len(SubSeq(wire, k, k)) = IF k <= k THEN k - k + 1 ELSE 0
        /\ \A i \in 1..(k - k + 1) : SubSeq(wire, k, k)[i] = wire[k + i - 1]
    BY <2>1, <2>2, SubSeqProperties
  <2>6. r \in Seq(A) /\ Len(r) = 1 /\ r[1] = x
    BY <2>1, <2>4, <2>5
  <2> HIDE DEF r
  <2>7. \A i \in 1..1 : r[i] = e[i]
    BY <2>3, <2>6
  <2>8. r = e
    BY <2>3, <2>6, <2>7, SeqEqual
  <2> QED
    BY <2>8 DEF r, e, k
<1> DEFINE lines == SubSeq(wire, 1, stop - 1)
           behind == SubSeq(wire, stop + 1, Len(wire))
<1>10. lines = Stuff(ls) /\ behind = <<x>>
  <2>1. stop - 1 = m /\ stop + 1 = m + 2 /\ Len(wire) = m + 2
    BY <1>2, <1>6, <1>7
  <2> QED
    BY <1>8, <1>9, <2>1
<1>11. ReadData(wire, max, reader) =
         IF TooLong(wire[stop], reader)
         THEN [err |-> TRUE, buf |-> <<>>, tooLarge |-> FALSE,
               rest |-> Left(wire[stop], reader) \o behind]
         ELSE [err |-> FALSE, buf |-> ReadLines(lines, max).buf,
               tooLarge |-> ReadLines(lines, max).tooLarge, rest |-> behind]
  BY DEF ReadData, stop
<1> HIDE DEF lines, behind
<1> QED
  BY <1>7, <1>10, <1>11 DEF wire, x

\* readData breaks off at the first line that is too long, and leaves what is
\* behind it.
LEMMA LongFound ==
    ASSUME NEW ls \in LineLists, NEW max \in Nat, NEW reader \in Readers,
           NEW k \in 1..Len(ls), TooLong(Stuffed(ls[k]), reader),
           \A i \in 1..Len(ls) : TooLong(Stuffed(ls[i]), reader) => k <= i
    PROVE  ReadData(Sent(ls), max, reader) =
                [err |-> TRUE, buf |-> <<>>, tooLarge |-> FALSE,
                 rest |-> Left(Stuffed(ls[k]), reader)
                            \o SubSeq(Sent(ls), k + 1, Len(ls) + 2)]
<1> DEFINE d == <<DOT>>
           m == Len(ls)
           wire == Sent(ls)
           stop == Stop(wire, reader)
<1>1. /\ wire \in LineLists /\ Len(wire) = m + 2 /\ m \in Nat
      /\ \A i \in 1..m : wire[i] = Stuffed(ls[i]) /\ Stuffed(ls[i]) # d
  BY SentIs
<1> HIDE DEF wire, m
<1>2. k \in 1..m /\ \A i \in 1..m : TooLong(Stuffed(ls[i]), reader) => k <= i
  BY DEF m
<1>3. wire[k] = Stuffed(ls[k])
  BY <1>1, <1>2
<1>4. stop = k
  <2>1. ASSUME NEW i \in 1..Len(wire), wire[i] = d \/ TooLong(wire[i], reader)
        PROVE  k <= i
    <3>1. CASE i \in 1..m
      BY <1>1, <1>2, <2>1, <3>1
    <3>2. CASE i \notin 1..m
      BY <1>1, <1>2, <3>2
    <3> QED
      BY <3>1, <3>2
  <2>2. k \in 1..Len(wire) /\ TooLong(wire[k], reader)
    BY <1>1, <1>2, <1>3
  <2> QED
    BY <1>1, <2>1, <2>2, StopsAt
<1> DEFINE Result(n) ==
             IF TooLong(wire[n], reader)
             THEN [err |-> TRUE, buf |-> <<>>, tooLarge |-> FALSE,
                   rest |-> Left(wire[n], reader) \o SubSeq(wire, n + 1, Len(wire))]
             ELSE [err |-> FALSE, buf |-> ReadLines(SubSeq(wire, 1, n - 1), max).buf,
                   tooLarge |-> ReadLines(SubSeq(wire, 1, n - 1), max).tooLarge,
                   rest |-> SubSeq(wire, n + 1, Len(wire))]
<1>5. ReadData(wire, max, reader) = Result(stop)
  BY DEF ReadData
<1> HIDE DEF stop
<1>6. ReadData(wire, max, reader) = Result(k)
  BY <1>4, <1>5
<1> QED
  BY <1>1, <1>3, <1>6 DEF wire, m

\* The first line that is too long, if there is one.
FirstLong(ls, reader) == SelectInSeq(ls, LAMBDA line : TooLong(Stuffed(line), reader))

LEMMA FirstLongIs ==
    ASSUME NEW ls \in LineLists, NEW reader
    PROVE  \/ /\ FirstLong(ls, reader) = 0
              /\ \A i \in 1..Len(ls) : ~TooLong(Stuffed(ls[i]), reader)
           \/ /\ FirstLong(ls, reader) \in 1..Len(ls)
              /\ TooLong(Stuffed(ls[FirstLong(ls, reader)]), reader)
              /\ \A i \in 1..Len(ls) :
                    TooLong(Stuffed(ls[i]), reader) => FirstLong(ls, reader) <= i
<1> DEFINE I == {i \in 1..Len(ls) : TooLong(Stuffed(ls[i]), reader)}
           first == FirstLong(ls, reader)
<1>1. first = IF I # {} THEN Min(I) ELSE 0
  BY DEF FirstLong, SelectInSeq
<1>2. I \subseteq 1..Len(ls) /\ \A i \in 1..Len(ls) : i \in I <=> TooLong(Stuffed(ls[i]), reader)
  OBVIOUS
<1> HIDE DEF I, first
<1>3. CASE I = {}
  BY <1>1, <1>2, <1>3 DEF first
<1>4. CASE I # {}
  <2>1. I \in SUBSET Nat
    BY <1>2
  <2>2. PICK n \in I : \A i \in I : n <= i
    BY <1>4, <2>1, LeastNumber
  <2>3. first = n
    BY <1>1, <1>4, <2>1, <2>2, LeastIs
  <2> QED
    BY <1>2, <2>2, <2>3 DEF first
<1> QED
  BY <1>3, <1>4

\* A message without too long lines is refused exactly if it is too large, and
\* read to its end; one with such a line is read up to it, and never accepted.
THEOREM RefusedCorrect ==
    ASSUME NEW ls \in LineLists, NEW received \in Seq(Octets), NEW max \in Nat,
           NEW reader \in Readers
    PROVE  RefusedIfTooLarge(ls, received, max, reader)
<1> DEFINE s == ReadLines(Stuff(ls), max)
           data == ReadData(Sent(ls), max, reader)
           k == FirstLong(ls, reader)
           fits == Len(received) + Len(Concat(ls)) <= max
<1> SUFFICES /\ Accepted(data, received, max) <=> k = 0 /\ fits
             /\ data.err <=> k # 0
             /\ data.rest = IF k = 0 THEN << <<X>> >>
                            ELSE Left(Stuffed(ls[k]), reader)
                                    \o SubSeq(Sent(ls), k + 1, Len(ls) + 2)
  BY DEF RefusedIfTooLarge, FirstLong
<1>1. s \in ReadStates /\ ReadSoFar(ls, s, max)
  BY ReadAll
<1>2. Len(received) \in Nat /\ Len(Concat(ls)) \in Nat
  BY ConcatIs, LenProperties
<1>3. CASE k = 0 /\ \A i \in 1..Len(ls) : ~TooLong(Stuffed(ls[i]), reader)
  <2>1. /\ ~data.err /\ data.buf = s.buf /\ data.tooLarge = s.tooLarge
        /\ data.rest = << <<X>> >>
    BY <1>3, EndFound
  <2> HIDE DEF s, data, k
  <2>2. Accepted(data, received, max) <=> ~s.tooLarge /\ Len(received) + Len(s.buf) <= max
    BY <2>1 DEF Accepted
  <2>3. s.tooLarge => ~fits
    BY <1>1, <1>2 DEF ReadSoFar
  <2>4. ~s.tooLarge => s.buf = Concat(ls)
    BY <1>1 DEF ReadSoFar
  <2> HIDE DEF fits
  <2>5. Accepted(data, received, max) <=> fits
    BY <2>2, <2>3, <2>4 DEF fits
  <2> QED
    BY <1>3, <2>1, <2>5
<1>4. CASE /\ k \in 1..Len(ls) /\ TooLong(Stuffed(ls[k]), reader)
           /\ \A i \in 1..Len(ls) : TooLong(Stuffed(ls[i]), reader) => k <= i
  <2>1. k # 0
    BY <1>4
  <2> HIDE DEF k
  <2> DEFINE rest == Left(Stuffed(ls[k]), reader) \o SubSeq(Sent(ls), k + 1, Len(ls) + 2)
  <2>2. data = [err |-> TRUE, buf |-> <<>>, tooLarge |-> FALSE, rest |-> rest]
    BY <1>4, LongFound, Zenon
  <2> HIDE DEF data, rest
  <2>3. data.err /\ data.rest = rest
    BY <2>2
  <2> QED
    BY <2>1, <2>3 DEF Accepted, rest
<1> HIDE DEF fits, data
<1>5. \/ k = 0 /\ \A i \in 1..Len(ls) : ~TooLong(Stuffed(ls[i]), reader)
      \/ /\ k \in 1..Len(ls) /\ TooLong(Stuffed(ls[k]), reader)
         /\ \A i \in 1..Len(ls) : TooLong(Stuffed(ls[i]), reader) => k <= i
  BY FirstLongIs, Zenon
<1> HIDE DEF k
<1> QED
  BY <1>3, <1>4, <1>5, Zenon

\* What is appended to the second is appended to both.
LEMMA AppendLast ==
    ASSUME NEW A, NEW s \in Seq(A), NEW t \in Seq(A), NEW x \in A
    PROVE  s \o Append(t, x) = Append(s \o t, x)
<1>1. Append(t, x) = t \o <<x>> /\ <<x>> \in Seq(A)
  BY AppendIsConcat
<1>2. (s \o t) \o <<x>> = s \o (t \o <<x>>)
  BY <1>1, ConcatAssociative
<1>3. s \o t \in Seq(A)
  BY ConcatProperties
<1>4. Append(s \o t, x) = (s \o t) \o <<x>>
  BY <1>3, AppendIsConcat
<1> QED
  BY <1>1, <1>2, <1>4

\* The text of two lists of lines is that of the first and that of the second.
LEMMA ConcatBoth ==
    ASSUME NEW rs \in LineLists, NEW ls \in LineLists
    PROVE  Concat(rs \o ls) = Concat(rs) \o Concat(ls)
<1> DEFINE A == Seq(Plain)
           P == {ms \in LineLists : Concat(rs \o ms) = Concat(rs) \o Concat(ms)}
<1>1. <<>> \in P
  <2>1. <<>> \in LineLists /\ rs \o <<>> = rs
    BY EmptySeq, ConcatEmptySeq DEF LineLists
  <2>2. Concat(rs) \in Seq(Octets) /\ Concat(<<>>) = <<>>
    BY ConcatIs
  <2>3. Concat(rs) \o <<>> = Concat(rs)
    BY <2>2, ConcatEmptySeq
  <2> QED
    BY <2>1, <2>2, <2>3
<1>2. ASSUME NEW ms \in Seq(A), NEW l \in A, ms \in P PROVE Append(ms, l) \in P
  <2>1. ms \in LineLists /\ Append(ms, l) \in LineLists /\ rs \o ms \in LineLists
    BY AppendProperties, ConcatProperties DEF LineLists
  <2>2. rs \o Append(ms, l) = Append(rs \o ms, l)
    BY AppendLast DEF LineLists
  <2> DEFINE e == l \o End
             c == Concat(ms)
             r == Concat(rs)
  <2>3. e \in Seq(Octets) /\ c \in Seq(Octets) /\ r \in Seq(Octets)
    <3>1. l \in Seq(Octets)
      BY PlainText
    <3> QED
      BY <2>1, <3>1, ConcatIs, EndIs, ConcatProperties
  <2>4. Concat(Append(rs \o ms, l)) = Concat(rs \o ms) \o e /\ Concat(Append(ms, l)) = c \o e
    BY <2>1, ConcatIs
  <2>5. Concat(rs \o ms) = r \o c
    BY <1>2
  <2> HIDE DEF e, c, r
  <2>6. (r \o c) \o e = r \o (c \o e)
    BY <2>3, ConcatAssociative, SMTT(60)
  <2> QED
    BY <2>1, <2>2, <2>4, <2>5, <2>6 DEF r
<1> HIDE DEF P
<1>3. Seq(A) \subseteq P
  BY <1>1, <1>2, SeqInduction
<1> QED
  BY <1>3 DEF P, LineLists

\* Lines without a carriage return at the end of the last of them.
LastTrim(lines) ==
    [i \in DOMAIN lines |-> IF i = Len(lines) THEN TrimSuffix(lines[i], CR) ELSE lines[i]]

\* Only the last line is trimmed.
LEMMA LastTrimIs ==
    /\ LastTrim(<<>>) = <<>>
    /\ \A ls \in LineLists, l \in Seq(Plain) :
            LastTrim(Append(ls, l)) = Append(ls, TrimSuffix(l, CR))
<1>1. LastTrim(<<>>) = <<>>
  BY DEF LastTrim
<1>2. ASSUME NEW ls \in LineLists, NEW l \in Seq(Plain)
      PROVE  LastTrim(Append(ls, l)) = Append(ls, TrimSuffix(l, CR))
  <2> DEFINE A == Seq(Plain)
             t == TrimSuffix(l, CR)
             s == Append(ls, l)
             u == Append(ls, t)
             m == Len(ls)
  <2>1. t \in A
    BY TrimIs, PlainText, Letters
  <2>2. m \in Nat
    BY LenProperties DEF LineLists
  <2>3. s \in Seq(A) /\ Len(s) = m + 1 /\ s[m + 1] = l /\ \A i \in 1..m : s[i] = ls[i]
    BY AppendProperties DEF LineLists
  <2> HIDE DEF t
  <2>4. u \in Seq(A) /\ Len(u) = m + 1 /\ u[m + 1] = t /\ \A i \in 1..m : u[i] = ls[i]
    BY <2>1, AppendProperties DEF LineLists
  <2> HIDE DEF s, u, m, A
  <2>5. DOMAIN s = 1..(m + 1) /\ u = [i \in 1..(m + 1) |-> u[i]]
    BY <2>2, <2>3, <2>4, LenProperties
  <2>6. ASSUME NEW i \in 1..(m + 1)
        PROVE  u[i] = IF i = Len(s) THEN TrimSuffix(s[i], CR) ELSE s[i]
    <3>1. CASE i = m + 1
      BY <2>3, <2>4, <3>1 DEF t
    <3>2. CASE i # m + 1
      <4>1. i \in 1..m
        BY <2>2, <3>2
      <4> QED
        BY <2>3, <2>4, <3>2, <4>1
    <3> QED
      BY <3>1, <3>2
  <2>7. LastTrim(s) = u
    BY <2>5, <2>6 DEF LastTrim
  <2> QED
    BY <2>7 DEF s, u, t
<1> QED
  BY <1>1, <1>2

\* The lines of a text that was made of lines.
LEMMA SplitLinesConcat ==
    ASSUME NEW ls \in LineLists
    PROVE  SplitLines(Concat(ls)) = LastTrim(ls)
<1>1. CASE ls = <<>>
  BY <1>1, ConcatIs, LastTrimIs DEF SplitLines
<1>2. CASE ls # <<>>
  <2> DEFINE p == Front(ls)
             l == Last(ls)
             c == Concat(p)
             k == c \o l
  <2>1. p \in LineLists /\ l \in Seq(Plain) /\ ls = Append(p, l) /\ l \in Seq(Octets)
    BY <1>2, FrontOf, PlainText DEF LineLists
  <2> HIDE DEF p, l
  <2>2. c \in Seq(Octets) /\ Concat(ls) = c \o (l \o End)
    BY <2>1, ConcatIs
  <2> HIDE DEF c
  <2>3. k \in Seq(Octets)
    BY <2>1, <2>2, ConcatProperties
  <2>4. CR \in Octets /\ LF \in Octets /\ CR # LF
    BY Letters
  <2>5. Concat(ls) = Append(Append(k, CR), LF)
    <3> DEFINE r == <<CR>>
               f == <<LF>>
    <3>1. r \in Seq(Octets) /\ f \in Seq(Octets) /\ End = r \o f
      BY <2>4, EndIs
    <3>2. Append(k, CR) = k \o r /\ Append(k, CR) \in Seq(Octets)
      BY <2>3, <2>4, AppendIsConcat, AppendProperties
    <3>3. Append(Append(k, CR), LF) = Append(k, CR) \o f
      BY <2>4, <3>2, AppendIsConcat
    <3>4. c \o (l \o End) = k \o End
      BY <2>1, <2>2, EndIs, ConcatAssociative
    <3> HIDE DEF r, f, k
    <3>5. (k \o r) \o f = k \o (r \o f)
      BY <2>3, <3>1, ConcatAssociative
    <3> QED
      BY <2>2, <3>1, <3>2, <3>3, <3>4, <3>5
  <2>6. Append(k, CR) \in Seq(Octets)
    BY <2>3, <2>4, AppendProperties
  <2> HIDE DEF k
  <2>7. TrimSuffix(TrimSuffix(Concat(ls), LF), CR) = k
    <3>1. TrimSuffix(Append(k, CR), CR) = k
      BY <2>3, <2>4, TrimIs
    <3> DEFINE q == Append(k, CR)
    <3>2. q \in Seq(Octets)
      BY <2>6
    <3> HIDE DEF q
    <3>3. TrimSuffix(Append(q, LF), LF) = q
      BY <2>4, <3>2, TrimIs
    <3> QED
      BY <2>5, <3>1, <3>3 DEF q
  <2>8. Concat(ls) # <<>>
    BY <2>4, <2>5, <2>6, FrontLast
  <2>9. Split[c] = Append(Crs(p), <<>>)
    <3>1. <<>> \in Seq(Octets) /\ <<>> \in LineLists /\ Split[<<>>] = Append(<<>>, <<>>)
      BY EmptySeq, SplitIs DEF LineLists
    <3>2. Split[<<>> \o c] = Append(<<>> \o Crs(p), <<>>)
      BY <2>1, <3>1, SplitConcat DEF c
    <3>3. Crs(p) \in Seq(Seq(Plain))
      BY <2>1, CrsIs DEF LineLists
    <3>4. <<>> \o c = c /\ <<>> \o Crs(p) = Crs(p)
      BY <2>2, <3>3, ConcatEmptySeq
    <3> QED
      BY <3>2, <3>4
  <2>10. Split[k] = Append(Crs(p), l)
    <3>1. Split[k] = Append(Front(Split[c]), Last(Split[c]) \o l)
      BY <2>1, <2>2, SplitLine DEF k
    <3>2. Crs(p) \in Seq(Seq(Plain)) /\ <<>> \in Seq(Plain)
      BY <2>1, CrsIs, EmptySeq DEF LineLists
    <3>3. Front(Split[c]) = Crs(p) /\ Last(Split[c]) = <<>>
      BY <2>9, <3>2, FrontLast, ZenonT(60)
    <3>4. <<>> \o l = l
      BY <2>1, ConcatEmptySeq
    <3> QED
      BY <3>1, <3>3, <3>4
  <2>11. SplitLines(Concat(ls)) = Trims(Split[k])
    BY <2>7, <2>8 DEF SplitLines, Trims
  <2>12. Trims(Append(Crs(p), l)) = Append(p, TrimSuffix(l, CR))
    <3> DEFINE q == Crs(p)
    <3>1. q \in LineLists /\ Trims(q) = p
      BY <2>1, CrsIs, TrimsIs
    <3> HIDE DEF q
    <3>2. Trims(Append(q, l)) = Append(Trims(q), TrimSuffix(l, CR))
      BY <2>1, <3>1, TrimsIs
    <3> QED
      BY <3>1, <3>2 DEF q
  <2> QED
    BY <2>1, <2>10, <2>11, <2>12, LastTrimIs
<1> QED
  BY <1>1, <1>2

\* What is accepted comes out as it went in, behind the lines of a header that
\* was put before it.
THEOREM RoundTripCorrect ==
    ASSUME NEW rs \in LineLists, LastTrim(rs) = rs, NEW ls \in LineLists, NEW max \in Nat,
           NEW reader \in Readers
    PROVE  ComesOutAsSent(ls, Concat(rs), max, reader)
<1> DEFINE received == Concat(rs)
           data == ReadData(Sent(ls), max, reader)
           s == ReadLines(Stuff(ls), max)
           raw == received \o data.buf
           out == ClientLines(WriteDotStuffed(raw, -1)).text
<1> SUFFICES ASSUME Accepted(data, received, max)
             PROVE  out = (IF received = <<>> THEN <<>> ELSE SplitLines(received)) \o LastTrim(ls)
  BY DEF ComesOutAsSent, LastTrim
<1>1. data.buf = Concat(ls)
  <2>1. s \in ReadStates /\ ReadSoFar(ls, s, max)
    BY ReadAll
  <2>2. ~data.err /\ ~data.tooLarge
    BY DEF Accepted
  <2>3. data.buf = s.buf /\ data.tooLarge = s.tooLarge
    <3> DEFINE k == FirstLong(ls, reader)
    <3>1. \/ k = 0 /\ \A i \in 1..Len(ls) : ~TooLong(Stuffed(ls[i]), reader)
          \/ /\ k \in 1..Len(ls) /\ TooLong(Stuffed(ls[k]), reader)
             /\ \A i \in 1..Len(ls) : TooLong(Stuffed(ls[i]), reader) => k <= i
      BY FirstLongIs, Zenon
    <3> HIDE DEF k
    <3>2. ASSUME k \in 1..Len(ls), TooLong(Stuffed(ls[k]), reader),
                 \A i \in 1..Len(ls) : TooLong(Stuffed(ls[i]), reader) => k <= i
          PROVE  FALSE
      <4> DEFINE rest == Left(Stuffed(ls[k]), reader)
                            \o SubSeq(Sent(ls), k + 1, Len(ls) + 2)
      <4>1. data = [err |-> TRUE, buf |-> <<>>, tooLarge |-> FALSE, rest |-> rest]
        BY <3>2, LongFound, Zenon
      <4> HIDE DEF data, rest
      <4> QED
        BY <2>2, <4>1
    <3>3. \A i \in 1..Len(ls) : ~TooLong(Stuffed(ls[i]), reader)
      BY <3>1, <3>2, Zenon
    <3> QED
      BY <3>3, EndFound
  <2> QED
    BY <2>1, <2>2, <2>3 DEF ReadSoFar
<1> HIDE DEF data
<1>2. rs \o ls \in LineLists
  BY ConcatProperties DEF LineLists
<1>3. raw = Concat(rs \o ls)
  BY <1>1, ConcatBoth
<1>4. raw \in Seq(Octets)
  BY <1>2, <1>3, ConcatIs
<1>5. SplitLines(raw) = LastTrim(rs \o ls)
  BY <1>2, <1>3, SplitLinesConcat
<1> HIDE DEF raw
<1>6. out = LastTrim(rs \o ls)
  <2>1. NoLineEndsIt(raw, -1)
    BY <1>4, NoLineEnds
  <2>2. out = Lines(raw, -1)
    BY <2>1 DEF NoLineEndsIt
  <2>3. SplitLines(raw) \in LineLists
    BY <1>4, SplitLinesType
  <2>4. Lines(raw, -1) = SplitLines(raw)
    BY <2>3, AllLines DEF Lines
  <2> QED
    BY <1>5, <2>2, <2>4
<1> HIDE DEF out
<1>7. (IF received = <<>> THEN <<>> ELSE SplitLines(received)) = rs
  <2>1. SplitLines(received) = rs
    BY SplitLinesConcat
  <2>2. received = <<>> => SplitLines(received) = <<>>
    BY DEF SplitLines
  <2> QED
    BY <2>1, <2>2
<1>8. CASE ls = <<>>
  <2>1. rs \o <<>> = rs
    BY ConcatEmptySeq DEF LineLists
  <2> QED
    BY <1>6, <1>7, <1>8, <2>1, LastTrimIs
<1>9. CASE ls # <<>>
  <2> DEFINE p == Front(ls)
             l == Last(ls)
             t == TrimSuffix(l, CR)
  <2>1. p \in LineLists /\ l \in Seq(Plain) /\ ls = Append(p, l)
    BY <1>9, FrontOf DEF LineLists
  <2> HIDE DEF p, l
  <2>2. t \in Seq(Plain)
    BY <2>1, TrimIs, PlainText, Letters
  <2> HIDE DEF t
  <2>3. rs \o Append(p, l) = Append(rs \o p, l) /\ rs \o Append(p, t) = Append(rs \o p, t)
    BY <2>1, <2>2, AppendLast, SMTT(60) DEF LineLists
  <2>4. rs \o p \in LineLists
    BY <2>1, ConcatProperties DEF LineLists
  <2>5. LastTrim(Append(rs \o p, l)) = Append(rs \o p, t) /\ LastTrim(ls) = Append(p, t)
    BY <2>1, <2>4, LastTrimIs DEF t
  <2> QED
    BY <1>6, <1>7, <2>1, <2>3, <2>5
<1> QED
  BY <1>8, <1>9

-----------------------------------------------------------------------------
(* Numbers and pages: LIST, STAT and List                                  *)

\* Induction up to a number.
LEMMA UpTo ==
    ASSUME NEW L \in Nat, NEW P, 0 \in P, \A n \in 1..L : n - 1 \in P => n \in P
    PROVE  0..L \subseteq P
<1> DEFINE Good == {n \in Nat : n <= L => n \in P}
<1>1. 0 \in Good
  OBVIOUS
<1>2. ASSUME NEW n \in Nat, n \in Good PROVE n + 1 \in Good
  <2> SUFFICES ASSUME n + 1 <= L PROVE n + 1 \in P
    OBVIOUS
  <2>1. n \in P
    BY <1>2
  <2>2. n + 1 \in 1..L /\ (n + 1) - 1 = n
    OBVIOUS
  <2> QED
    BY <2>1, <2>2
<1> HIDE DEF Good
<1>3. Nat \subseteq Good
  BY <1>1, <1>2, SetInduction
<1> QED
  BY <1>3 DEF Good

\* The loops that pick some of the elements of a sequence, in its order.
Picks(A, s, kept, f) ==
    /\ f \in [0..Len(s) -> Seq(A)]
    /\ f[0] = <<>>
    /\ \A n \in 1..Len(s) : f[n] = IF n \in kept THEN Append(f[n - 1], s[n]) ELSE f[n - 1]

\* There is such a loop for every choice of places.
LEMMA PicksExist ==
    ASSUME NEW A, NEW s \in Seq(A), NEW kept
    PROVE  \E f : Picks(A, s, kept, f)
<1> DEFINE B == Seq(A)
           step == [b \in B |-> [n \in 1..Len(s) |-> IF n \in kept THEN Append(b, s[n]) ELSE b]]
           t == [n \in 1..Len(s) |-> n]
           C == 1..Len(s)
<1>1. Len(s) \in Nat /\ \A n \in C : s[n] \in A
  BY LenProperties, ElementOfSeq
<1>2. <<>> \in B /\ \A b \in B, n \in C : step[b][n] \in B
  BY <1>1, EmptySeq, AppendProperties
<1>3. t \in Seq(C) /\ Len(t) = Len(s) /\ \A n \in C : t[n] = n
  BY <1>1
<1>4. \A b \in B, n \in C : step[b][n] = IF n \in kept THEN Append(b, s[n]) ELSE b
  OBVIOUS
<1> HIDE DEF B, step, t
<1>5. Steps(C, B, <<>>, step)
  BY <1>2 DEF Steps
<1> HIDE DEF C
<1>6. PICK b \in B : RunsTo(B, <<>>, step, t, b)
  BY <1>3, <1>5, RunsExist
<1>7. PICK f \in [0..Len(t) -> B] :
        f[0] = <<>> /\ \A n \in 1..Len(t) : f[n] = step[f[n - 1]][t[n]]
  BY <1>6 DEF RunsTo, Runs
<1>8. ASSUME NEW n \in 1..Len(s)
      PROVE  f[n] = IF n \in kept THEN Append(f[n - 1], s[n]) ELSE f[n - 1]
  <2>1. n \in C /\ n - 1 \in 0..Len(s)
    BY <1>1 DEF C
  <2>2. f[n - 1] \in B
    BY <1>3, <1>7, <2>1
  <2> QED
    BY <1>3, <1>4, <1>7, <2>1, <2>2
<1> QED
  BY <1>3, <1>7, <1>8 DEF Picks, B

\* The first values of a function, one by one.
LEMMA Initial ==
    ASSUME NEW A, NEW h, NEW n \in Nat \ {0}, \A i \in 1..n : h[i] \in A
    PROVE  /\ [i \in 1..(n - 1) |-> h[i]] \in Seq(A)
           /\ [i \in 1..n |-> h[i]] = Append([i \in 1..(n - 1) |-> h[i]], h[n])
<1> DEFINE s == [i \in 1..(n - 1) |-> h[i]]
           t == [i \in 1..n |-> h[i]]
           u == Append(s, h[n])
<1>1. s \in Seq(A) /\ Len(s) = n - 1 /\ \A i \in 1..(n - 1) : s[i] = h[i]
  OBVIOUS
<1>2. t \in Seq(A) /\ Len(t) = n /\ \A i \in 1..n : t[i] = h[i]
  OBVIOUS
<1>3. h[n] \in A
  OBVIOUS
<1> HIDE DEF s, t
<1>4. u \in Seq(A) /\ Len(u) = n /\ u[n] = h[n] /\ \A i \in 1..(n - 1) : u[i] = s[i]
  BY <1>1, <1>3, AppendProperties
<1> HIDE DEF u
<1>5. ASSUME NEW i \in 1..n PROVE t[i] = u[i]
  <2>1. CASE i = n
    BY <1>2, <1>4, <2>1
  <2>2. CASE i # n
    BY <1>1, <1>2, <1>4, <2>2
  <2> QED
    BY <2>1, <2>2
<1>6. t = u
  BY <1>2, <1>4, <1>5, SeqEqual
<1> QED
  BY <1>1, <1>6 DEF s, t, u

\* What a loop has picked: just the elements at the places that are kept, as
\* many as there are such places, with the sum of their sizes.
Kept(kept, n) == {i \in 1..n : i \in kept}
\* What a loop has picked: the elements at the places that are kept, as many
\* as there are such places.
LEMMA PickedSet ==
    ASSUME NEW A, NEW s \in Seq(A), NEW kept, NEW f, Picks(A, s, kept, f), NEW n \in 0..Len(s)
    PROVE  /\ f[n] \in Seq(A)
           /\ Len(f[n]) = Cardinality(Kept(kept, n)) /\ IsFiniteSet(Kept(kept, n))
           /\ \A i \in 1..Len(f[n]) : \E j \in Kept(kept, n) : f[n][i] = s[j]
           /\ \A j \in Kept(kept, n) : \E i \in 1..Len(f[n]) : f[n][i] = s[j]
<1> DEFINE Good(k) ==
               /\ Len(f[k]) = Cardinality(Kept(kept, k)) /\ IsFiniteSet(Kept(kept, k))
               /\ \A i \in 1..Len(f[k]) : \E j \in Kept(kept, k) : f[k][i] = s[j]
               /\ \A j \in Kept(kept, k) : \E i \in 1..Len(f[k]) : f[k][i] = s[j]
           P == {k \in 0..Len(s) : Good(k)}
<1>1. Len(s) \in Nat /\ \A k \in 1..Len(s) : s[k] \in A
  BY LenProperties, ElementOfSeq
<1>2. \A k \in 0..Len(s) : f[k] \in Seq(A) /\ Len(f[k]) \in Nat
  BY LenProperties DEF Picks
<1>3. 0 \in P
  <2>1. f[0] = <<>> /\ Len(f[0]) = 0
    BY DEF Picks
  <2>2. Kept(kept, 0) = {}
    BY DEF Kept
  <2>3. Cardinality({}) = 0 /\ IsFiniteSet({})
    BY FS_EmptySet
  <2>4. Len(f[0]) = Cardinality(Kept(kept, 0)) /\ IsFiniteSet(Kept(kept, 0))
    BY <2>1, <2>2, <2>3
  <2>5. \A i \in 1..Len(f[0]) : \E j \in Kept(kept, 0) : f[0][i] = s[j]
    <3>1. 1..Len(f[0]) = {}
      BY <2>1
    <3> QED
      BY <3>1
  <2>6. \A j \in Kept(kept, 0) : \E i \in 1..Len(f[0]) : f[0][i] = s[j]
    BY <2>2
  <2>7. 0 \in 0..Len(s)
    BY <1>1
  <2> QED
    BY <2>4, <2>5, <2>6, <2>7
<1>4. ASSUME NEW k \in 1..Len(s), k - 1 \in P PROVE k \in P
  <2>1. k - 1 \in 0..Len(s) /\ k \in 0..Len(s) /\ k \notin Kept(kept, k - 1)
    BY <1>1 DEF Kept
  <2>2. Good(k - 1)
    BY <1>4
  <2>3. f[k] = IF k \in kept THEN Append(f[k - 1], s[k]) ELSE f[k - 1]
    BY DEF Picks
  <2>4. CASE k \in kept
    <3> DEFINE r == f[k - 1]
               m == Len(r)
    <3>1. Kept(kept, k) = Kept(kept, k - 1) \cup {k}
      BY <1>1, <2>4 DEF Kept
    <3>2. r \in Seq(A) /\ m \in Nat /\ s[k] \in A
      BY <1>1, <1>2, <2>1
    <3>3. f[k] = Append(r, s[k])
      BY <2>3, <2>4
    <3>4. /\ m = Cardinality(Kept(kept, k - 1)) /\ IsFiniteSet(Kept(kept, k - 1))
          /\ \A i \in 1..m : \E j \in Kept(kept, k - 1) : r[i] = s[j]
          /\ \A j \in Kept(kept, k - 1) : \E i \in 1..m : r[i] = s[j]
      BY <2>2
    <3> HIDE DEF m, r
    <3>5. Len(f[k]) = m + 1 /\ f[k][m + 1] = s[k] /\ \A i \in 1..m : f[k][i] = r[i]
      BY <3>2, <3>3, AppendProperties DEF m
    <3>6. Cardinality(Kept(kept, k)) = m + 1 /\ IsFiniteSet(Kept(kept, k))
      BY <2>1, <3>1, <3>4, FS_AddElement
    <3>7. ASSUME NEW i \in 1..(m + 1) PROVE \E j \in Kept(kept, k) : f[k][i] = s[j]
      <4>1. CASE i = m + 1
        BY <3>1, <3>5, <4>1
      <4>2. CASE i # m + 1
        <5>1. i \in 1..m
          BY <3>2, <4>2
        <5> QED
          BY <3>1, <3>4, <3>5, <5>1
      <4> QED
        BY <4>1, <4>2
    <3>8. ASSUME NEW j \in Kept(kept, k) PROVE \E i \in 1..(m + 1) : f[k][i] = s[j]
      <4>1. CASE j = k
        <5>1. m + 1 \in 1..(m + 1)
          BY <3>2
        <5> QED
          BY <3>5, <4>1, <5>1
      <4>2. CASE j # k
        <5>1. PICK i \in 1..m : r[i] = s[j]
          BY <3>1, <3>4, <4>2
        <5>2. i \in 1..(m + 1)
          BY <3>2
        <5> QED
          BY <3>5, <5>1, <5>2
      <4> QED
        BY <4>1, <4>2
    <3> QED
      BY <2>1, <3>5, <3>6, <3>7, <3>8
  <2>5. CASE k \notin kept
    <3>1. Kept(kept, k) = Kept(kept, k - 1)
      BY <1>1, <2>5 DEF Kept
    <3>2. f[k] = f[k - 1]
      BY <2>3, <2>5
    <3> QED
      BY <2>1, <2>2, <3>1, <3>2
  <2> QED
    BY <2>4, <2>5
<1> HIDE DEF P
<1>5. 0..Len(s) \subseteq P
  BY <1>1, <1>3, <1>4, UpTo
<1> QED
  BY <1>2, <1>5 DEF P

\* The values of the chosen ones of the first n, 0 for the others.
Values(size, s, kept, n) == [i \in 1..n |-> IF i \in kept THEN size[s[i]] ELSE 0]

\* And their sizes add up to those at the places that are kept.
LEMMA PickedSum ==
    ASSUME NEW A, NEW s \in Seq(A), NEW kept, NEW f, Picks(A, s, kept, f), NEW n \in 0..Len(s),
           NEW size, Maps(size, A, Nat)
    PROVE  Sum[Map(size, f[n])] = Sum[Values(size, s, kept, n)]
<1> DEFINE h == [i \in 1..Len(s) |-> IF i \in kept THEN size[s[i]] ELSE 0]
           P == {k \in 0..Len(s) : Sum[Map(size, f[k])] = Sum[[i \in 1..k |-> h[i]]]}
<1>1. Len(s) \in Nat /\ \A k \in 1..Len(s) : s[k] \in A
  BY LenProperties, ElementOfSeq
<1>2. \A k \in 0..Len(s) : f[k] \in Seq(A)
  BY DEF Picks
<1>3. \A k \in 1..Len(s) : h[k] \in Nat /\ h[k] = IF k \in kept THEN size[s[k]] ELSE 0
  BY <1>1 DEF Maps
<1> HIDE DEF h
<1>4. 0 \in P
  <2>1. [i \in 1..0 |-> h[i]] = <<>>
    OBVIOUS
  <2>2. Map(size, f[0]) = <<>>
    BY MapIs DEF Picks
  <2> QED
    BY <1>1, <2>1, <2>2
<1>5. ASSUME NEW k \in 1..Len(s), k - 1 \in P PROVE k \in P
  <2> DEFINE before == [i \in 1..(k - 1) |-> h[i]]
             r == f[k - 1]
  <2>1. k \in Nat \ {0} /\ k \in 0..Len(s) /\ k - 1 \in 0..Len(s) /\ \A i \in 1..k : h[i] \in Nat
    BY <1>1, <1>3
  <2>2. before \in Seq(Nat) /\ [i \in 1..k |-> h[i]] = Append(before, h[k])
    BY <2>1, Initial
  <2>3. Sum[Map(size, r)] = Sum[before]
    BY <1>5
  <2> HIDE DEF before
  <2>4. Sum[[i \in 1..k |-> h[i]]] = Sum[before] + h[k] /\ Sum[before] \in Nat
    BY <1>3, <2>2, SumIs
  <2>5. f[k] = IF k \in kept THEN Append(r, s[k]) ELSE r
    BY DEF Picks
  <2>6. r \in Seq(A) /\ s[k] \in A
    BY <1>1, <1>2, <2>1
  <2> HIDE DEF r
  <2>7. CASE k \in kept
    <3>1. Map(size, r) \in Seq(Nat) /\ Map(size, Append(r, s[k])) = Append(Map(size, r), size[s[k]])
      BY <2>6, MapIs
    <3>2. size[s[k]] \in Nat /\ h[k] = size[s[k]]
      BY <1>3, <2>6, <2>7 DEF Maps
    <3>3. Sum[Append(Map(size, r), size[s[k]])] = Sum[Map(size, r)] + size[s[k]]
      BY <3>1, <3>2, SumIs
    <3> QED
      BY <2>1, <2>3, <2>4, <2>5, <2>7, <3>1, <3>2, <3>3
  <2>8. CASE k \notin kept
    <3>1. h[k] = 0
      BY <1>3, <2>8
    <3>2. f[k] = r
      BY <2>5, <2>8
    <3> QED
      BY <2>1, <2>3, <2>4, <3>1, <3>2
  <2> QED
    BY <2>7, <2>8
<1> HIDE DEF P
<1>6. 0..Len(s) \subseteq P
  BY <1>1, <1>4, <1>5, UpTo
<1>7. [i \in 1..n |-> h[i]] = Values(size, s, kept, n)
  <2>1. \A i \in 1..n : i \in 1..Len(s)
    BY <1>1
  <2> QED
    BY <1>3, <2>1 DEF Values
<1> QED
  BY <1>6, <1>7 DEF P

\* The loop of LIST picks the numbers that are not marked.
Numbers(n) == [i \in 1..n |-> i]
\* So do the numbers that LIST shows.
LEMMA UnmarkedPicks ==
    ASSUME NEW V, NEW view \in Seq(V), NEW marked
    PROVE  \E f : /\ Picks(1..Len(view), Numbers(Len(view)), DOMAIN view \ marked, f)
                  /\ Unmarked(view, marked) = f[Len(view)]
<1> DEFINE L == Len(view)
           A == 1..L
           s == Numbers(L)
           kept == DOMAIN view \ marked
           Rule(g, n) == IF n = 0 THEN <<>>
                         ELSE IF n \in marked THEN g[n - 1] ELSE Append(g[n - 1], n)
           F == CHOOSE g : g = [n \in 0..L |-> Rule(g, n)]
<1>1. L \in Nat /\ DOMAIN view = 1..L
  BY LenProperties
<1>2. s \in Seq(A) /\ Len(s) = L /\ \A n \in 1..L : s[n] = n
  BY <1>1 DEF Numbers
<1>3. Unmarked(view, marked) = F[L]
  BY DEF Unmarked
<1> HIDE DEF s, A, L
<1>4. PICK f : Picks(A, s, kept, f)
  BY <1>2, PicksExist
<1>5. f \in [0..L -> Seq(A)] /\ f[0] = <<>>
  BY <1>2, <1>4 DEF Picks
<1>6. \A n \in 1..L : f[n] = IF n \in marked THEN f[n - 1] ELSE Append(f[n - 1], n)
  BY <1>1, <1>2, <1>4 DEF Picks
<1>7. f = [n \in 0..L |-> Rule(f, n)]
  <2>1. ASSUME NEW n \in 0..L PROVE f[n] = Rule(f, n)
    <3>1. CASE n = 0
      BY <1>5, <3>1
    <3>2. CASE n # 0
      <4>1. n \in 1..L
        BY <1>1, <3>2
      <4> QED
        BY <1>6, <3>2, <4>1
    <3> QED
      BY <3>1, <3>2
  <2> QED
    BY <1>5, <2>1
<1>8. F = [n \in 0..L |-> Rule(F, n)]
  <2> HIDE DEF Rule
  <2> QED
    BY <1>7
<1> HIDE DEF F
<1> DEFINE P == {n \in 0..L : F[n] = f[n]}
<1>9. 0 \in P
  <2>1. 0 \in 0..L
    BY <1>1
  <2> QED
    BY <1>5, <1>8, <2>1
<1>10. ASSUME NEW n \in 1..L, n - 1 \in P PROVE n \in P
  <2>1. n \in 0..L /\ n # 0
    BY <1>1
  <2>2. F[n] = IF n \in marked THEN F[n - 1] ELSE Append(F[n - 1], n)
    BY <1>8, <2>1
  <2> QED
    BY <1>6, <1>10, <2>1, <2>2
<1>11. 0..L \subseteq P
  <2> HIDE DEF P
  <2> QED
    BY <1>1, <1>9, <1>10, UpTo
<1>12. F[L] = f[L]
  BY <1>1, <1>11
<1> QED
  BY <1>3, <1>4, <1>12 DEF A, L, s

\* LIST, RETR and STAT agree, whatever is marked.
THEOREM ListsCorrect ==
    ASSUME NEW view \in Seq(Seq(Octets)), NEW marked
    PROVE  ListsAgree(view, marked)
<1> DEFINE L == Len(view)
           A == 1..L
           s == Numbers(L)
           kept == DOMAIN view \ marked
           left == Unmarked(view, marked)
           list == List(view, marked)
           stat == Stat(view, marked)
           size == [n \in A |-> CrlfSize(view[n])]
<1>1. L \in Nat /\ DOMAIN view = 1..L /\ \A n \in 1..L : view[n] \in Seq(Octets)
  BY LenProperties, ElementOfSeq
<1>2. s \in Seq(A) /\ Len(s) = L /\ \A n \in 1..L : s[n] = n
  BY <1>1 DEF Numbers
<1>3. \A n \in 1..L : CrlfSize(view[n]) \in Nat /\ Len(WriteDotStuffed(view[n], -1)) = CrlfSize(view[n]) + 3
  BY <1>1, SizeCorrect
<1>4. Maps(size, A, Nat) /\ \A n \in 1..L : size[n] = CrlfSize(view[n])
  BY <1>3 DEF Maps
<1>5. PICK f : Picks(A, s, kept, f) /\ left = f[L]
  BY UnmarkedPicks
<1>6. Kept(kept, L) = kept
  BY <1>1 DEF Kept
<1>7. list = [i \in DOMAIN left |-> [number |-> left[i], octets |-> CrlfSize(view[left[i]])]]
  BY DEF List
<1>8. stat = [count |-> Cardinality(kept),
              octets |-> Sum[[i \in DOMAIN view |-> IF i \in kept THEN CrlfSize(view[i]) ELSE 0]]]
  BY DEF Stat
<1>9. \A n : Found(view, marked, n) <=> n \in kept
  BY DEF Found
<1>10. kept \subseteq 1..L
  BY <1>1
<1> HIDE DEF L, s, kept, left, list, stat, size
<1>11. L \in 0..Len(s)
  BY <1>1, <1>2
<1>12. /\ left \in Seq(A) /\ Len(left) = Cardinality(kept)
       /\ \A i \in 1..Len(left) : \E j \in kept : left[i] = s[j]
       /\ \A j \in kept : \E i \in 1..Len(left) : left[i] = s[j]
  <2> HIDE DEF A
  <2>1. Picks(A, s, kept, f) /\ s \in Seq(A)
    BY <1>2, <1>5
  <2>2. /\ f[L] \in Seq(A) /\ Len(f[L]) = Cardinality(Kept(kept, L))
        /\ \A i \in 1..Len(f[L]) : \E j \in Kept(kept, L) : f[L][i] = s[j]
        /\ \A j \in Kept(kept, L) : \E i \in 1..Len(f[L]) : f[L][i] = s[j]
    BY <1>11, <2>1, PickedSet
  <2> QED
    BY <1>5, <1>6, <2>2
<1>13. DOMAIN left = 1..Len(left) /\ Len(left) \in Nat /\ DOMAIN list = 1..Len(left) /\ Len(list) = Len(left)
  BY <1>7, <1>12, LenProperties
<1>14. \A i \in 1..Len(left) : /\ left[i] \in kept /\ left[i] \in 1..L
                               /\ list[i].number = left[i]
                               /\ list[i].octets = CrlfSize(view[left[i]])
  BY <1>2, <1>7, <1>10, <1>12, <1>13
<1>15. ASSUME NEW n \in 0..(Len(view) + 1)
       PROVE  Found(view, marked, n) <=> \E i \in DOMAIN list : list[i].number = n
  <2>1. ASSUME n \in kept PROVE \E i \in DOMAIN list : list[i].number = n
    <3>1. s[n] = n
      BY <1>2, <1>10, <2>1
    <3>2. PICK i \in 1..Len(left) : left[i] = n
      BY <1>12, <2>1, <3>1
    <3> QED
      BY <1>13, <1>14, <3>2
  <2>2. ASSUME NEW i \in DOMAIN list, list[i].number = n PROVE n \in kept
    BY <1>13, <1>14, <2>2
  <2> QED
    BY <1>9, <2>1, <2>2
<1>16. ASSUME NEW i \in DOMAIN list
       PROVE  list[i].octets + 3 = Len(WriteDotStuffed(view[list[i].number], -1))
  <2>1. i \in 1..Len(left) /\ left[i] \in 1..L
    BY <1>13, <1>14
  <2> QED
    BY <1>3, <1>14, <2>1
<1>17. stat.count = Len(list)
  BY <1>8, <1>12, <1>13
<1>18. stat.octets = Sum[[i \in DOMAIN list |-> list[i].octets]]
  <2>1. Sum[Map(size, left)] = Sum[[i \in 1..L |-> IF i \in kept THEN size[s[i]] ELSE 0]]
    <3> HIDE DEF A
    <3>1. Maps(size, A, Nat)
      BY <1>4
    <3> HIDE DEF kept
    <3>2. Picks(A, s, kept, f) /\ s \in Seq(A)
      BY <1>2, <1>5
    <3>3. Sum[Map(size, f[L])] = Sum[Values(size, s, kept, L)]
      BY <1>11, <3>1, <3>2, PickedSum
    <3> QED
      BY <1>5, <3>3 DEF Values
  <2>2. [i \in 1..L |-> IF i \in kept THEN size[s[i]] ELSE 0]
            = [i \in DOMAIN view |-> IF i \in kept THEN CrlfSize(view[i]) ELSE 0]
    BY <1>1, <1>2, <1>4
  <2>3. Map(size, left) = [i \in DOMAIN list |-> list[i].octets]
    BY <1>4, <1>13, <1>14 DEF Map
  <2> QED
    BY <1>8, <2>1, <2>2, <2>3
<1> QED
  BY <1>15, <1>16, <1>17, <1>18 DEF ListsAgree, list, stat

\* A finite set of numbers can be put in order, and what is in order has all
\* of them.
Orders(s, S) ==
    /\ s \in [1..Cardinality(S) -> S]
    /\ \A i, j \in DOMAIN s : i < j => s[i] < s[j]

\* A finite set of numbers can be put in order.
LEMMA OrderExists ==
    ASSUME NEW M \in Nat, NEW S, S \subseteq 1..M
    PROVE  \E s : Orders(s, S)
<1> DEFINE P == {m \in 0..M : \A T \in SUBSET (1..m) : \E s : Orders(s, T)}
<1>1. 0 \in P
  <2>1. ASSUME NEW T \in SUBSET (1..0) PROVE \E s : Orders(s, T)
    <3>1. T = {} /\ Cardinality(T) = 0
      <4>1. 1..0 = {}
        OBVIOUS
      <4>2. T = {}
        BY <4>1
      <4> QED
        BY <4>2, FS_EmptySet
    <3> DEFINE e == [i \in 1..0 |-> i]
    <3>2. e \in [1..Cardinality(T) -> T] /\ DOMAIN e = {}
      BY <3>1
    <3> HIDE DEF e
    <3>3. Orders(e, T)
      BY <3>2 DEF Orders
    <3> QED
      BY <3>3
  <2> QED
    BY <2>1
<1>2. ASSUME NEW m \in 1..M, m - 1 \in P PROVE m \in P
  <2>1. ASSUME NEW T \in SUBSET (1..m) PROVE \E s : Orders(s, T)
    <3>1. CASE m \notin T
      <4>1. T \in SUBSET (1..(m - 1))
        BY <3>1
      <4> QED
        BY <1>2, <4>1
    <3>2. CASE m \in T
      <4> DEFINE U == T \ {m}
                 n == Cardinality(U)
      <4>1. U \in SUBSET (1..(m - 1)) /\ T = U \cup {m} /\ m \notin U
        BY <3>2
      <4>2. IsFiniteSet(U)
        <5>1. IsFiniteSet(1..(m - 1))
          BY FS_Interval
        <5> HIDE DEF U
        <5> QED
          BY <4>1, <5>1, FS_Subset
      <4> HIDE DEF U
      <4>3. n \in Nat /\ Cardinality(T) = n + 1
        BY <4>1, <4>2, FS_AddElement, FS_CardinalityType
      <4>4. PICK s : Orders(s, U)
        BY <1>2, <4>1
      <4> HIDE DEF n
      <4>5. s \in [1..n -> U] /\ \A i, j \in 1..n : i < j => s[i] < s[j]
        BY <4>4 DEF Orders, n
      <4> DEFINE t == [i \in 1..(n + 1) |-> IF i = n + 1 THEN m ELSE s[i]]
      <4>6. t[n + 1] = m /\ \A i \in 1..n : t[i] = s[i] /\ s[i] \in U
        BY <4>3, <4>5
      <4>7. t \in [1..(n + 1) -> T]
        <5>1. ASSUME NEW i \in 1..(n + 1) PROVE t[i] \in T
          <6>1. CASE i = n + 1
            BY <4>1, <6>1
          <6>2. CASE i # n + 1
            <7>1. i \in 1..n
              BY <4>3, <6>2
            <7> QED
              BY <4>1, <4>6, <7>1
          <6> QED
            BY <6>1, <6>2
        <5> QED
          BY <5>1
      <4> HIDE DEF t
      <4>8. ASSUME NEW i \in 1..(n + 1), NEW j \in 1..(n + 1), i < j PROVE t[i] < t[j]
        <5>1. i \in 1..n
          BY <4>3, <4>8
        <5>2. CASE j = n + 1
          <6>1. t[i] = s[i] /\ s[i] \in U /\ t[j] = m
            BY <4>6, <5>1, <5>2
          <6>2. s[i] \in 1..(m - 1)
            BY <4>1, <6>1
          <6> QED
            BY <6>1, <6>2
        <5>3. CASE j # n + 1
          <6>1. j \in 1..n
            BY <4>3, <5>3
          <6> QED
            BY <4>5, <4>6, <4>8, <5>1, <6>1
        <5> QED
          BY <5>2, <5>3
      <4>9. Orders(t, T)
        BY <4>3, <4>7, <4>8 DEF Orders
      <4> QED
        BY <4>9
    <3> QED
      BY <3>1, <3>2
  <2> QED
    BY <2>1
<1> HIDE DEF P
<1>3. 0..M \subseteq P
  BY <1>1, <1>2, UpTo
<1>4. M \in P
  BY <1>3
<1> QED
  BY <1>4 DEF P

\* And what is in order has all of them: none can be missing.
LEMMA OrderedAll ==
    ASSUME NEW M \in Nat, NEW S, S \subseteq 1..M, NEW s, Orders(s, S)
    PROVE  s \in Seq(S) /\ Len(s) = Cardinality(S) /\ ToSet(s) = S
<1> DEFINE n == Cardinality(S)
<1>1. IsFiniteSet(S)
  <2>1. IsFiniteSet(1..M)
    BY FS_Interval
  <2> QED
    BY <2>1, FS_Subset
<1>2. n \in Nat
  BY <1>1, FS_CardinalityType
<1>3. s \in [1..n -> S] /\ \A i, j \in DOMAIN s : i < j => s[i] < s[j]
  BY DEF Orders
<1> HIDE DEF n
<1>4. s \in Injection(1..n, S)
  <2>1. ASSUME NEW i \in 1..n, NEW j \in 1..n, s[i] = s[j] PROVE i = j
    <3>1. s[i] \in S /\ i \in DOMAIN s /\ j \in DOMAIN s
      BY <1>3
    <3>2. s[i] \in 1..M
      BY <3>1
    <3>3. ~ (i < j) /\ ~ (j < i)
      BY <1>3, <2>1, <3>1, <3>2
    <3> QED
      BY <1>2, <3>3
  <2> QED
    BY <1>3, <2>1 DEF Injection, IsInjective
<1>5. Cardinality(1..n) = n
  BY <1>2, FS_Interval
<1>6. s \in Surjection(1..n, S)
  BY <1>1, <1>4, <1>5, FS_Injection DEF n
<1>7. ToSet(s) = S
  BY <1>3, <1>6 DEF Surjection, ToSet
<1> QED
  BY <1>2, <1>3, <1>7 DEF n

\* Sorted puts a set in order.
LEMMA SortedOrders ==
    ASSUME NEW M \in Nat, NEW S, S \subseteq 1..M
    PROVE  Orders(Sorted(S), S)
BY OrderExists DEF Sorted, Orders

LEMMA SortedIs ==
    ASSUME NEW M \in Nat, NEW S, S \subseteq 1..M
    PROVE  Sorted(S) \in Seq(S) /\ ToSet(Sorted(S)) = S
BY SortedOrders, OrderedAll

\* Messages in mailboxes.
BoxesOf(M, boxes) == boxes \in [DOMAIN boxes -> Seq(1..M)]
AllOf(boxes) == UNION {ToSet(boxes[b]) : b \in DOMAIN boxes}

\* The pool has the messages of the mailbox that is asked for, or all.
LEMMA PoolIs ==
    ASSUME NEW M \in Nat, NEW boxes, BoxesOf(M, boxes), NEW mb
    PROVE  /\ Pool(boxes, mb) \in Seq(1..M)
           /\ ToSet(Pool(boxes, mb)) =
                {m \in AllOf(boxes) : mb \in DOMAIN boxes => m \in ToSet(boxes[mb])}
<1>1. AllOf(boxes) \subseteq 1..M
  <2>1. ASSUME NEW b \in DOMAIN boxes PROVE ToSet(boxes[b]) \subseteq 1..M
    <3>1. boxes[b] \in Seq(1..M)
      BY DEF BoxesOf
    <3>2. DOMAIN boxes[b] = 1..Len(boxes[b]) /\ \A i \in 1..Len(boxes[b]) : boxes[b][i] \in 1..M
      BY <3>1, LenProperties, ElementOfSeq
    <3> QED
      BY <3>2 DEF ToSet
  <2> QED
    BY <2>1 DEF AllOf
<1>2. CASE mb \in DOMAIN boxes
  <2>1. Pool(boxes, mb) = boxes[mb] /\ boxes[mb] \in Seq(1..M)
    BY <1>2 DEF Pool, BoxesOf
  <2> QED
    BY <1>2, <2>1 DEF AllOf
<1>3. CASE mb \notin DOMAIN boxes
  <2>1. Pool(boxes, mb) = Sorted(AllOf(boxes))
    BY <1>3 DEF Pool, AllOf
  <2>2. Sorted(AllOf(boxes)) \in Seq(AllOf(boxes)) /\ ToSet(Sorted(AllOf(boxes))) = AllOf(boxes)
    BY <1>1, SortedIs
  <2>3. Sorted(AllOf(boxes)) \in Seq(1..M)
    <3> DEFINE S == AllOf(boxes)
               s == Sorted(S)
    <3>1. s \in Seq(S) /\ S \subseteq 1..M
      BY <1>1, <2>2
    <3> HIDE DEF S, s
    <3>2. s \in [1..Len(s) -> S] /\ Len(s) \in Nat
      BY <3>1, LenProperties
    <3>3. s \in [1..Len(s) -> 1..M]
      BY <3>1, <3>2
    <3> QED
      BY <3>2, <3>3 DEF s, S
  <2> QED
    BY <1>3, <2>1, <2>2, <2>3
<1> QED
  BY <1>2, <1>3

\* The loop of List picks the messages that are wanted.
LEMMA MatchesPick ==
    ASSUME NEW A, NEW boxes, NEW mb, NEW wanted, Pool(boxes, mb) \in Seq(A)
    PROVE  LET pool == Pool(boxes, mb)
           IN  \E f : /\ Picks(A, pool, {n \in DOMAIN pool : pool[n] \in wanted}, f)
                      /\ Matching(boxes, mb, wanted) = f[Len(pool)]
<1> DEFINE s == Pool(boxes, mb)
           L == Len(s)
           kept == {n \in DOMAIN s : s[n] \in wanted}
           Rule(g, n) == IF n = 0 THEN <<>>
                         ELSE IF s[n] \notin wanted THEN g[n - 1] ELSE Append(g[n - 1], s[n])
           F == CHOOSE g : g = [n \in 0..L |-> Rule(g, n)]
<1>1. L \in Nat /\ DOMAIN s = 1..L
  BY LenProperties
<1>2. Matching(boxes, mb, wanted) = F[L]
  BY DEF Matching
<1> HIDE DEF s, L
<1>3. s \in Seq(A)
  BY DEF s
<1>4. PICK f : Picks(A, s, kept, f)
  BY <1>3, PicksExist
<1>5. f \in [0..L -> Seq(A)] /\ f[0] = <<>>
  BY <1>4 DEF Picks, L
<1>6. ASSUME NEW n \in 1..L
      PROVE  f[n] = IF s[n] \notin wanted THEN f[n - 1] ELSE Append(f[n - 1], s[n])
  <2>1. n \in kept <=> s[n] \in wanted
    BY <1>1
  <2>2. f[n] = IF n \in kept THEN Append(f[n - 1], s[n]) ELSE f[n - 1]
    BY <1>4 DEF Picks, L
  <2> QED
    BY <2>1, <2>2
<1>7. f = [n \in 0..L |-> Rule(f, n)]
  <2>1. ASSUME NEW n \in 0..L PROVE f[n] = Rule(f, n)
    <3>1. CASE n = 0
      BY <1>5, <3>1
    <3>2. CASE n # 0
      <4>1. n \in 1..L
        BY <1>1, <3>2
      <4> QED
        BY <1>6, <3>2, <4>1
    <3> QED
      BY <3>1, <3>2
  <2> QED
    BY <1>5, <2>1
<1>8. F = [n \in 0..L |-> Rule(F, n)]
  <2> HIDE DEF Rule
  <2> QED
    BY <1>7
<1> HIDE DEF F
<1> DEFINE P == {n \in 0..L : F[n] = f[n]}
<1>9. 0 \in P
  <2>1. 0 \in 0..L
    BY <1>1
  <2> QED
    BY <1>5, <1>8, <2>1
<1>10. ASSUME NEW n \in 1..L, n - 1 \in P PROVE n \in P
  <2>1. n \in 0..L /\ n # 0
    BY <1>1
  <2>2. F[n] = IF s[n] \notin wanted THEN F[n - 1] ELSE Append(F[n - 1], s[n])
    BY <1>8, <2>1
  <2> QED
    BY <1>6, <1>10, <2>1, <2>2
<1>11. 0..L \subseteq P
  <2> HIDE DEF P
  <2> QED
    BY <1>1, <1>9, <1>10, UpTo
<1>12. F[L] = f[L]
  BY <1>1, <1>11
<1> QED
  BY <1>2, <1>4, <1>12 DEF L, s

\* So List looks at just the messages that are wanted, of the right mailbox.
LEMMA MatchesIs ==
    ASSUME NEW M \in Nat, NEW boxes, BoxesOf(M, boxes), NEW mb, NEW wanted
    PROVE  /\ Matching(boxes, mb, wanted) \in Seq(1..M)
           /\ ToSet(Matching(boxes, mb, wanted)) =
                {m \in AllOf(boxes) :
                    m \in wanted /\ (mb \in DOMAIN boxes => m \in ToSet(boxes[mb]))}
<1> DEFINE s == Pool(boxes, mb)
           A == 1..M
           L == Len(s)
           kept == {n \in DOMAIN s : s[n] \in wanted}
           matches == Matching(boxes, mb, wanted)
<1>1. /\ s \in Seq(A)
      /\ ToSet(s) = {m \in AllOf(boxes) : mb \in DOMAIN boxes => m \in ToSet(boxes[mb])}
  BY PoolIs
<1>2. PICK f : Picks(A, s, kept, f) /\ matches = f[L]
  BY <1>1, MatchesPick
<1> HIDE DEF s, A, L, matches
<1>3. L \in Nat /\ L = Len(s) /\ DOMAIN s = 1..L
  BY <1>1, LenProperties DEF L
<1>4. Kept(kept, L) = kept
  BY <1>3 DEF Kept
<1>5. L \in 0..Len(s)
  BY <1>3
<1>6. /\ f[L] \in Seq(A)
      /\ \A i \in 1..Len(f[L]) : \E j \in Kept(kept, L) : f[L][i] = s[j]
      /\ \A j \in Kept(kept, L) : \E i \in 1..Len(f[L]) : f[L][i] = s[j]
  <2> HIDE DEF kept
  <2>1. Picks(A, s, kept, f) /\ s \in Seq(A)
    BY <1>1, <1>2
  <2>2. /\ f[L] \in Seq(A) /\ Len(f[L]) = Cardinality(Kept(kept, L))
        /\ \A i \in 1..Len(f[L]) : \E j \in Kept(kept, L) : f[L][i] = s[j]
        /\ \A j \in Kept(kept, L) : \E i \in 1..Len(f[L]) : f[L][i] = s[j]
    BY <1>5, <2>1, PickedSet
  <2> QED
    BY <2>2
<1>7. DOMAIN matches = 1..Len(matches)
  BY <1>2, <1>6, LenProperties
<1>8. ToSet(matches) = {s[j] : j \in kept}
  <2> HIDE DEF kept
  <2>1. /\ \A i \in 1..Len(matches) : \E j \in kept : matches[i] = s[j]
        /\ \A j \in kept : \E i \in 1..Len(matches) : matches[i] = s[j]
    BY <1>2, <1>4, <1>6
  <2>2. ToSet(matches) = {matches[i] : i \in 1..Len(matches)}
    BY <1>7 DEF ToSet
  <2>3. ASSUME NEW i \in 1..Len(matches) PROVE matches[i] \in {s[j] : j \in kept}
    BY <2>1
  <2>4. ASSUME NEW j \in kept PROVE s[j] \in {matches[i] : i \in 1..Len(matches)}
    BY <2>1
  <2> QED
    BY <2>2, <2>3, <2>4
<1>9. {s[j] : j \in kept} = {m \in ToSet(s) : m \in wanted}
  BY DEF ToSet
<1> QED
  BY <1>1, <1>2, <1>6, <1>8, <1>9 DEF matches, A

\* What is left to show behind the first i, newest first.
Rest(s, i) == [j \in 1..(Len(s) - i) |-> s[Len(s) - i + 1 - j]]

\* The number of messages on a page.
LEMMA Least ==
    ASSUME NEW a \in Nat \ {0}, NEW b \in Nat
    PROVE  Max({0, Min({a, b})}) = IF a <= b THEN a ELSE b
<1> DEFINE m == IF a <= b THEN a ELSE b
<1>1. m \in Nat /\ m \in {a, b} /\ m <= a /\ m <= b
  OBVIOUS
<1> HIDE DEF m
<1>2. Min({a, b}) = m
  <2>1. m \in {a, b} /\ \A y \in {a, b} : m <= y
    BY <1>1
  <2>2. \A x \in {a, b} : (\A y \in {a, b} : x <= y) => x = m
    BY <1>1
  <2> QED
    BY <2>1, <2>2 DEF Min
<1>3. Max({0, m}) = m
  <2>1. m \in {0, m} /\ \A y \in {0, m} : m >= y
    BY <1>1
  <2>2. \A x \in {0, m} : (\A y \in {0, m} : x >= y) => x = m
    BY <1>1
  <2> QED
    BY <2>1, <2>2 DEF Max
<1> QED
  BY <1>2, <1>3 DEF m

\* A page, and what is left behind it, is what was left.
LEMMA PageAndRest ==
    ASSUME NEW A, NEW s \in Seq(A), NEW i \in 0..Len(s), NEW limit \in Nat \ {0}
    PROVE  LET page == Page(s, i, limit)
           IN  /\ page \in Seq(A) /\ Len(page) \in Nat /\ i + Len(page) \in 0..Len(s)
               /\ page = <<>> <=> i = Len(s)
               /\ Rest(s, i) = page \o Rest(s, i + Len(page))
               /\ Len(page) = 0 <=> i = Len(s)
<1> DEFINE N == Len(s)
           last == N - i
           p == IF limit <= last THEN limit ELSE last
           page == Page(s, i, limit)
           r == Rest(s, i + p)
           all == Rest(s, i)
<1>1. N \in Nat /\ \A k \in 1..N : s[k] \in A
  BY LenProperties, ElementOfSeq
<1>2. last \in Nat /\ i \in Nat
  BY <1>1
<1>3. p \in Nat /\ p <= last /\ (p = 0 <=> last = 0)
  BY <1>2
<1>4. Max({0, Min({limit, last})}) = p
  BY <1>2, Least
<1>5. page = [j \in 1..p |-> s[last + 1 - j]]
  BY <1>4 DEF Page
<1> HIDE DEF p, page
<1>6. page \in Seq(A) /\ Len(page) = p /\ \A j \in 1..p : page[j] = s[N - i + 1 - j]
  <2>1. \A j \in 1..p : last + 1 - j \in 1..N
    BY <1>1, <1>2, <1>3
  <2>2. page \in [1..p -> A]
    BY <1>1, <1>5, <2>1
  <2> QED
    BY <1>3, <1>5, <2>2, SMTT(30)
<1>7. N - (i + p) \in Nat /\ N - (i + p) = last - p
  BY <1>1, <1>2, <1>3
<1>8. r \in Seq(A) /\ Len(r) = last - p /\ \A j \in 1..(last - p) : r[j] = s[last - p + 1 - j]
  <2>1. \A j \in 1..(last - p) : last - p + 1 - j \in 1..N
    BY <1>1, <1>2, <1>3
  <2>2. r = [j \in 1..(last - p) |-> s[last - p + 1 - j]]
    BY <1>7 DEF Rest
  <2>3. r \in [1..(last - p) -> A]
    BY <1>1, <2>1, <2>2
  <2> QED
    BY <1>7, <2>2, <2>3, SMTT(60)
<1>9. all \in Seq(A) /\ Len(all) = last /\ \A j \in 1..last : all[j] = s[last + 1 - j]
  <2>1. \A j \in 1..last : last + 1 - j \in 1..N
    BY <1>1, <1>2
  <2>2. all = [j \in 1..last |-> s[last + 1 - j]]
    BY DEF Rest
  <2>3. all \in [1..last -> A]
    BY <1>1, <2>1, <2>2
  <2> QED
    BY <1>2, <2>2, <2>3
<1> HIDE DEF r, all, last
<1> DEFINE both == page \o r
<1>10. /\ both \in Seq(A) /\ Len(both) = p + (last - p)
       /\ \A j \in 1..(p + (last - p)) : both[j] = IF j <= p THEN page[j] ELSE r[j - p]
  <2>1. page \in Seq(A) /\ r \in Seq(A) /\ Len(page) = p /\ Len(r) = last - p
    BY <1>6, <1>8
  <2>2. /\ page \o r \in Seq(A) /\ Len(page \o r) = Len(page) + Len(r)
        /\ \A j \in 1..(Len(page) + Len(r)) :
                (page \o r)[j] = IF j <= Len(page) THEN page[j] ELSE r[j - Len(page)]
    BY <2>1, ConcatProperties
  <2> QED
    BY <2>1, <2>2
<1> HIDE DEF both
<1>11. ASSUME NEW j \in 1..last PROVE all[j] = both[j]
  <2>1. CASE j <= p
    <3>1. j \in 1..p /\ j \in 1..(p + (last - p))
      BY <1>2, <1>3, <2>1
    <3> QED
      BY <1>6, <1>9, <1>10, <2>1, <3>1 DEF last
  <2>2. CASE ~ (j <= p)
    <3>1. j - p \in 1..(last - p) /\ j \in 1..(p + (last - p)) /\ last - p + 1 - (j - p) = last + 1 - j
      BY <1>2, <1>3, <2>2
    <3> QED
      BY <1>8, <1>9, <1>10, <2>2, <3>1
  <2> QED
    BY <2>1, <2>2
<1>12. Len(both) = last
  BY <1>2, <1>3, <1>10
<1>13. all = both
  BY <1>9, <1>10, <1>11, <1>12, SeqEqual
<1>14. page = <<>> <=> p = 0
  BY <1>6
<1>15. i + p \in 0..N /\ (p = 0 <=> i = N)
  BY <1>1, <1>2, <1>3 DEF last
<1> QED
  BY <1>3, <1>6, <1>13, <1>14, <1>15 DEF all, both, r, page

\* Page after page shows every message that matches, newest first.
THEOREM PagesCorrect ==
    ASSUME NEW M \in Nat, NEW boxes, BoxesOf(M, boxes), NEW mb, NEW wanted, NEW limit \in Int
    PROVE  PagesCover(boxes, mb, wanted, limit)
<1> DEFINE A == 1..M
           s == Matching(boxes, mb, wanted)
           N == Len(s)
           size == Limit(limit)
           first == ListMessages(boxes, mb, wanted, -1, limit)
           Shows(i) == ListMessages(boxes, mb, wanted, i, limit).messages
           Rule(g, i) == LET page == Shows(i)
                         IN  IF page = <<>> THEN <<>>
                             ELSE page \o IF i + Len(page) > first.total THEN <<>> ELSE g[i + Len(page)]
           from == CHOOSE g : g = [i \in 0..first.total |-> Rule(g, i)]
<1>1. s \in Seq(A) /\ N \in Nat
  BY MatchesIs, LenProperties
<1>2. ToSet(s) = {m \in AllOf(boxes) :
                    m \in wanted /\ (mb \in DOMAIN boxes => m \in ToSet(boxes[mb]))}
  BY MatchesIs
<1>3. size \in Nat \ {0}
  BY ListingAssumption DEF Limit
<1>4. first.total = N
  BY DEF ListMessages
<1>5. ASSUME NEW i \in 0..N PROVE Shows(i) = Page(s, i, size)
  <2>1. Offset(i) = i
    BY <1>1 DEF Offset
  <2> QED
    BY <2>1 DEF ListMessages
<1>6. PagesCover(boxes, mb, wanted, limit) <=>
        /\ from[0] = Reverse(s)
        /\ Len(from[0]) = first.total
        /\ ToSet(from[0]) = {m \in AllOf(boxes) :
                                m \in wanted /\ (mb \in DOMAIN boxes => m \in ToSet(boxes[mb]))}
        /\ Shows(first.total) = <<>>
  BY DEF PagesCover, AllOf
<1> HIDE DEF A, s, N, size, first, Shows
<1>7. ASSUME NEW i \in 0..N
      PROVE  /\ Shows(i) \in Seq(A) /\ Len(Shows(i)) \in Nat /\ i + Len(Shows(i)) \in 0..N
             /\ Shows(i) = <<>> <=> i = N
             /\ Len(Shows(i)) = 0 <=> i = N
             /\ Rest(s, i) = Shows(i) \o Rest(s, i + Len(Shows(i)))
  <2> DEFINE page == Page(s, i, size)
  <2>1. i \in 0..Len(s)
    BY DEF N
  <2>2. /\ page \in Seq(A) /\ Len(page) \in Nat /\ i + Len(page) \in 0..Len(s)
        /\ page = <<>> <=> i = Len(s)
        /\ Rest(s, i) = page \o Rest(s, i + Len(page))
        /\ Len(page) = 0 <=> i = Len(s)
    BY <1>1, <1>3, <2>1, PageAndRest
  <2>3. Shows(i) = page
    BY <1>5
  <2> HIDE DEF page
  <2> QED
    BY <2>2, <2>3 DEF N
<1>8. Rest(s, N) = <<>>
  <2>1. N - N = 0
    BY <1>1
  <2> QED
    BY <2>1 DEF Rest, N
<1>9. ASSUME NEW i \in 0..N, NEW g, i # N => g[i + Len(Shows(i))] = Rest(s, i + Len(Shows(i)))
      PROVE  Rule(g, i) = Rest(s, i)
  <2>1. CASE i = N
    <3>1. Shows(i) = <<>>
      BY <1>7, <2>1
    <3> QED
      BY <1>8, <2>1, <3>1
  <2>2. CASE i # N
    <3>1. Shows(i) # <<>> /\ ~ (i + Len(Shows(i)) > first.total)
      <4>1. i + Len(Shows(i)) \in 0..N /\ Shows(i) # <<>>
        BY <1>7, <2>2
      <4>2. ~ (i + Len(Shows(i)) > N)
        BY <1>1, <4>1
      <4> QED
        BY <1>4, <4>1, <4>2
    <3>2. Rule(g, i) = Shows(i) \o g[i + Len(Shows(i))]
      BY <3>1
    <3> QED
      BY <1>7, <1>9, <2>2, <3>2
  <2> QED
    BY <2>1, <2>2
<1>10. \E g : g = [i \in 0..N |-> Rule(g, i)]
  <2> DEFINE g == [i \in 0..N |-> Rest(s, i)]
  <2>1. ASSUME NEW i \in 0..N PROVE g[i] = Rule(g, i)
    <3>1. g[i + Len(Shows(i))] = Rest(s, i + Len(Shows(i)))
      BY <1>7
    <3>2. g[i] = Rest(s, i)
      OBVIOUS
    <3> HIDE DEF g
    <3> QED
      BY <1>9, <3>1, <3>2
  <2>2. g = [i \in 0..N |-> g[i]]
    OBVIOUS
  <2> HIDE DEF g, Rule
  <2>3. g = [i \in 0..N |-> Rule(g, i)]
    BY <2>1, <2>2
  <2> QED
    BY <2>3
<1>11. from = [i \in 0..N |-> Rule(from, i)]
  <2> HIDE DEF Rule
  <2> QED
    BY <1>4, <1>10
<1> HIDE DEF from, Rule
<1> DEFINE P == {k \in 0..N : \A i \in (N - k)..N : from[i] = Rest(s, i)}
<1>12. ASSUME NEW i \in 0..N, \A j \in (i + 1)..N : from[j] = Rest(s, j)
       PROVE  from[i] = Rest(s, i)
  <2>1. i # N => i + Len(Shows(i)) \in (i + 1)..N
    BY <1>1, <1>7
  <2>2. i # N => from[i + Len(Shows(i))] = Rest(s, i + Len(Shows(i)))
    BY <1>12, <2>1
  <2>3. Rule(from, i) = Rest(s, i)
    BY <1>9, <2>2
  <2> QED
    BY <1>11, <2>3
<1>13. 0 \in P
  <2>1. ASSUME NEW i \in (N - 0)..N PROVE from[i] = Rest(s, i)
    <3>1. i \in 0..N /\ (i + 1)..N = {}
      BY <1>1
    <3> QED
      BY <1>12, <3>1
  <2> QED
    BY <1>1, <2>1
<1>14. ASSUME NEW k \in 1..N, k - 1 \in P PROVE k \in P
  <2>1. \A j \in (N - (k - 1))..N : from[j] = Rest(s, j)
    BY <1>14
  <2>2. ASSUME NEW i \in (N - k)..N PROVE from[i] = Rest(s, i)
    <3>1. i \in 0..N /\ \A j \in (i + 1)..N : j \in (N - (k - 1))..N
      BY <1>1
    <3>2. \A j \in (i + 1)..N : from[j] = Rest(s, j)
      BY <2>1, <3>1
    <3> QED
      BY <1>12, <3>1, <3>2
  <2> QED
    BY <1>1, <2>2
<1>15. from[0] = Rest(s, 0)
  <2>1. 0..N \subseteq P
    <3> HIDE DEF P
    <3> QED
      BY <1>1, <1>13, <1>14, UpTo
  <2>2. N \in P /\ 0 \in (N - N)..N
    BY <1>1, <2>1
  <2> QED
    BY <2>2
<1>16. Rest(s, 0) = Reverse(s)
  <2>1. N - 0 = N /\ \A j \in 1..N : N - 0 + 1 - j = N - j + 1
    BY <1>1
  <2> QED
    BY <2>1 DEF Rest, Reverse, N
<1>17. Len(Reverse(s)) = N /\ ToSet(Reverse(s)) = ToSet(s)
  <2> DEFINE r == Reverse(s)
  <2>1. DOMAIN s = 1..N /\ Len(s) = N /\ \A j \in 1..N : s[j] \in A
    BY <1>1, LenProperties, ElementOfSeq DEF N
  <2>2. r = [j \in 1..N |-> s[N - j + 1]]
    BY <2>1 DEF Reverse
  <2>3. \A j \in 1..N : N - j + 1 \in 1..N /\ N - (N - j + 1) + 1 = j
    BY <1>1
  <2> HIDE DEF r
  <2>4. DOMAIN r = 1..N /\ \A j \in 1..N : r[j] = s[N - j + 1] /\ s[j] = r[N - j + 1]
    BY <2>2, <2>3
  <2>5. r \in [1..N -> A]
    BY <2>1, <2>2, <2>3
  <2>6. Len(r) = N
    BY <1>1, <2>5
  <2>7. ToSet(r) = {r[j] : j \in 1..N} /\ ToSet(s) = {s[j] : j \in 1..N}
    BY <2>1, <2>4 DEF ToSet
  <2>8. \A j \in 1..N : r[j] \in ToSet(s) /\ s[j] \in ToSet(r)
    BY <2>3, <2>4, <2>7
  <2>9. ToSet(r) = ToSet(s)
    BY <2>7, <2>8
  <2> QED
    BY <2>6, <2>9 DEF r
<1>18. Shows(first.total) = <<>>
  BY <1>1, <1>4, <1>7
<1> QED
  BY <1>2, <1>4, <1>6, <1>15, <1>16, <1>17, <1>18
-----------------------------------------------------------------------------
(* Pages of a list that changes                                            *)

\* There is one order only.
LEMMA OrderUnique ==
    ASSUME NEW M \in Nat, NEW S, S \subseteq 1..M, NEW s, NEW t, Orders(s, S), Orders(t, S)
    PROVE  s = t
<1> DEFINE n == Len(s)
<1>1. s \in Seq(S) /\ t \in Seq(S) /\ Len(t) = n /\ ToSet(s) = S /\ ToSet(t) = S
  BY OrderedAll
<1>2. n \in Nat /\ DOMAIN s = 1..n /\ DOMAIN t = 1..n
  BY <1>1, LenProperties
<1>3. /\ \A i, j \in 1..n : i < j => s[i] < s[j]
      /\ \A i, j \in 1..n : i < j => t[i] < t[j]
  BY <1>2 DEF Orders
<1>4. \A i \in 1..n : s[i] \in 1..M /\ t[i] \in 1..M
  <2>1. \A i \in 1..n : s[i] \in S /\ t[i] \in S
    BY <1>1, <1>2 DEF ToSet
  <2> QED
    BY <2>1
<1>5. /\ \A i \in 1..n : \E j \in 1..n : s[j] = t[i]
      /\ \A i \in 1..n : \E j \in 1..n : t[j] = s[i]
  BY <1>1, <1>2 DEF ToSet
<1> HIDE DEF n
<1> DEFINE D == {i \in 1..n : s[i] # t[i]}
<1>6. D = {}
  <2> SUFFICES ASSUME D # {} PROVE FALSE
    OBVIOUS
  <2>1. D \in SUBSET Nat
    BY <1>2
  <2>2. PICK i \in D : \A k \in D : i <= k
    <3> HIDE DEF D
    <3> QED
      BY <2>1, LeastNumber
  <2>3. i \in 1..n /\ s[i] # t[i] /\ \A k \in 1..n : k < i => s[k] = t[k]
    BY <1>2, <2>2
  <2>4. CASE s[i] < t[i]
    <3>1. PICK j \in 1..n : t[j] = s[i]
      BY <1>5, <2>3
    <3>2. j < i
      <4>1. ~ (i < j) /\ i # j
        BY <1>3, <1>4, <2>3, <2>4, <3>1
      <4> QED
        BY <1>2, <2>3, <4>1
    <3> QED
      BY <1>3, <1>4, <2>3, <3>1, <3>2
  <2>5. CASE t[i] < s[i]
    <3>1. PICK j \in 1..n : s[j] = t[i]
      BY <1>5, <2>3
    <3>2. j < i
      <4>1. ~ (i < j) /\ i # j
        BY <1>3, <1>4, <2>3, <2>5, <3>1
      <4> QED
        BY <1>2, <2>3, <4>1
    <3> QED
      BY <1>3, <1>4, <2>3, <3>1, <3>2
  <2> QED
    BY <1>4, <2>3, <2>4, <2>5
<1>7. \A i \in 1..Len(s) : s[i] = t[i]
  BY <1>6 DEF n
<1> QED
  BY <1>1, <1>7, SeqEqual DEF n

\* A sequence without the element at one place.
LEMMA RemovedIs ==
    ASSUME NEW A, NEW s \in Seq(A), NEW i \in 1..Len(s)
    PROVE  /\ RemoveAt(s, i) \in Seq(A) /\ Len(RemoveAt(s, i)) = Len(s) - 1
           /\ \A j \in 1..(Len(s) - 1) : RemoveAt(s, i)[j] = IF j < i THEN s[j] ELSE s[j + 1]
<1> DEFINE u == SubSeq(s, 1, i - 1)
           v == SubSeq(s, i + 1, Len(s))
<1>1. Len(s) \in Nat /\ \A k \in 1..Len(s) : s[k] \in A
  BY LenProperties, ElementOfSeq
<1>2. u \in Seq(A) /\ Len(u) = i - 1 /\ \A k \in 1..(i - 1) : u[k] = s[k]
  <2>1. \A k \in 1..(i - 1) : s[k] \in A
    BY <1>1
  <2> QED
    BY <1>1, <2>1, SubSeqProperties
<1>3. v \in Seq(A) /\ Len(v) = Len(s) - i /\ \A k \in 1..(Len(s) - i) : v[k] = s[i + k]
  <2>1. \A k \in (i + 1)..Len(s) : s[k] \in A
    BY <1>1
  <2>2. /\ v \in Seq(A) /\ Len(v) = IF i + 1 <= Len(s) THEN Len(s) - (i + 1) + 1 ELSE 0
        /\ \A k \in 1..(Len(s) - (i + 1) + 1) : v[k] = s[i + 1 + k - 1]
    BY <1>1, <2>1, SubSeqProperties
  <2> QED
    BY <1>1, <2>2
<1> HIDE DEF u, v
<1>4. /\ u \o v \in Seq(A) /\ Len(u \o v) = Len(u) + Len(v)
      /\ \A k \in 1..(Len(u) + Len(v)) : (u \o v)[k] = IF k <= Len(u) THEN u[k] ELSE v[k - Len(u)]
  BY <1>2, <1>3, ConcatProperties
<1>5. RemoveAt(s, i) = u \o v
  BY DEF RemoveAt, u, v
<1>6. ASSUME NEW j \in 1..(Len(s) - 1) PROVE (u \o v)[j] = IF j < i THEN s[j] ELSE s[j + 1]
  <2>1. CASE j < i
    <3>1. j \in 1..(i - 1) /\ j \in 1..(Len(u) + Len(v)) /\ j <= Len(u)
      BY <1>1, <1>2, <1>3, <2>1
    <3> QED
      BY <1>2, <1>4, <2>1, <3>1
  <2>2. CASE ~ (j < i)
    <3>1. /\ j - Len(u) \in 1..(Len(s) - i) /\ j \in 1..(Len(u) + Len(v)) /\ ~ (j <= Len(u))
          /\ i + (j - Len(u)) = j + 1
      BY <1>1, <1>2, <1>3, <2>2
    <3> QED
      BY <1>3, <1>4, <2>2, <3>1
  <2> QED
    BY <2>1, <2>2
<1>7. Len(u \o v) = Len(s) - 1
  BY <1>1, <1>2, <1>3, <1>4
<1> QED
  BY <1>4, <1>5, <1>6, <1>7, Zenon

\* The next number comes last, and one that is left out leaves a gap.
LEMMA SortedMore ==
    ASSUME NEW M \in Nat, NEW S, S \subseteq 1..M
    PROVE  Sorted(S \cup {M + 1}) = Append(Sorted(S), M + 1)
<1> DEFINE T == S \cup {M + 1}
           s == Sorted(S)
           t == Append(s, M + 1)
           n == Len(s)
<1>1. Orders(s, S) /\ M + 1 \notin S
  <2>1. Orders(s, S)
    BY SortedOrders
  <2>2. M + 1 \notin 1..M
    OBVIOUS
  <2> QED
    BY <2>1, <2>2
<1>2. s \in Seq(S) /\ n = Cardinality(S) /\ n \in Nat
  <2> HIDE DEF s
  <2> QED
    BY <1>1, OrderedAll, LenProperties
<1>3. IsFiniteSet(S)
  <2>1. IsFiniteSet(1..M)
    BY FS_Interval
  <2> QED
    BY <2>1, FS_Subset
<1>4. Cardinality(T) = n + 1
  BY <1>1, <1>2, <1>3, FS_AddElement
<1> HIDE DEF s, n
<1>5. /\ t \in Seq(T) /\ Len(t) = n + 1 /\ t[n + 1] = M + 1 /\ \A i \in 1..n : t[i] = s[i]
  <2>1. s \in Seq(T)
    <3>1. s \in [1..n -> S]
      BY <1>2, LenProperties DEF n
    <3> QED
      BY <1>2, <3>1
  <2> QED
    BY <2>1, AppendProperties DEF n
<1>6. \A i \in 1..n : s[i] \in S /\ s[i] \in 1..M
  BY <1>2, ElementOfSeq DEF n
<1>7. \A i, j \in 1..n : i < j => s[i] < s[j]
  BY <1>1, <1>2, LenProperties DEF Orders, n
<1> HIDE DEF t
<1>8. \A i, j \in 1..(n + 1) : i < j => t[i] < t[j]
  <2> SUFFICES ASSUME NEW i \in 1..(n + 1), NEW j \in 1..(n + 1), i < j PROVE t[i] < t[j]
    OBVIOUS
  <2>1. i \in 1..n
    BY <1>2
  <2>2. CASE j = n + 1
    BY <1>5, <1>6, <2>1, <2>2
  <2>3. CASE j \in 1..n
    BY <1>5, <1>7, <2>1, <2>3
  <2> QED
    BY <1>2, <2>2, <2>3
<1> HIDE DEF T
<1>9. Orders(t, T)
  BY <1>4, <1>5, <1>8, LenProperties DEF Orders
<1>10. T \subseteq 1..(M + 1) /\ M + 1 \in Nat
  BY DEF T
<1>11. Sorted(T) = t
  BY <1>9, <1>10, SortedOrders, OrderUnique
<1> QED
  BY <1>11 DEF s, t, T

LEMMA SortedLess ==
    ASSUME NEW M \in Nat, NEW S, S \subseteq 1..M, NEW p \in 1..Len(Sorted(S))
    PROVE  Sorted(S \ {Sorted(S)[p]}) = RemoveAt(Sorted(S), p)
<1> DEFINE s == Sorted(S)
           t == RemoveAt(s, p)
           n == Len(s)
           T == S \ {s[p]}
<1>1. Orders(s, S)
  BY SortedOrders
<1> HIDE DEF s
<1>2. s \in Seq(S) /\ n = Cardinality(S) /\ n \in Nat /\ p \in 1..n
  BY <1>1, OrderedAll, LenProperties DEF s
<1>3. IsFiniteSet(S)
  <2>1. IsFiniteSet(1..M)
    BY FS_Interval
  <2> QED
    BY <2>1, FS_Subset
<1>4. s[p] \in S
  BY <1>2, ElementOfSeq
<1>5. Cardinality(T) = n - 1
  BY <1>2, <1>3, <1>4, FS_RemoveElement
<1>6. \A i \in 1..n : s[i] \in S /\ s[i] \in 1..M
  <2>1. \A i \in 1..n : s[i] \in S
    BY <1>2, ElementOfSeq
  <2> QED
    BY <2>1
<1>7. \A i, j \in 1..n : i < j => s[i] < s[j]
  BY <1>1, <1>2, LenProperties DEF Orders
<1>8. t \in Seq(S) /\ Len(t) = n - 1 /\ \A j \in 1..(n - 1) : t[j] = IF j < p THEN s[j] ELSE s[j + 1]
  BY <1>2, RemovedIs
<1> HIDE DEF t, n
<1>9. \A i, j \in 1..(n - 1) : i < j => t[i] < t[j]
  <2> SUFFICES ASSUME NEW i \in 1..(n - 1), NEW j \in 1..(n - 1), i < j PROVE t[i] < t[j]
    OBVIOUS
  <2>1. i \in 1..n /\ j \in 1..n /\ i + 1 \in 1..n /\ j + 1 \in 1..n /\ i < j + 1 /\ i + 1 < j + 1
    BY <1>2
  <2>2. t[i] = IF i < p THEN s[i] ELSE s[i + 1]
    BY <1>8
  <2>3. t[j] = IF j < p THEN s[j] ELSE s[j + 1]
    BY <1>8
  <2>4. s[i] < s[j] /\ s[i] < s[j + 1] /\ s[i + 1] < s[j + 1]
    BY <1>7, <2>1
  <2>5. j < p => i < p
    BY <1>2
  <2> QED
    BY <2>2, <2>3, <2>4, <2>5
<1>10. \A j \in 1..(n - 1) : t[j] \in T
  <2> SUFFICES ASSUME NEW j \in 1..(n - 1) PROVE t[j] \in T
    OBVIOUS
  <2>1. j \in 1..n /\ j + 1 \in 1..n
    BY <1>2
  <2>2. CASE j < p
    BY <1>2, <1>6, <1>7, <1>8, <2>1, <2>2
  <2>3. CASE ~ (j < p)
    <3>1. p < j + 1
      BY <1>2, <2>3
    <3> QED
      BY <1>2, <1>6, <1>7, <1>8, <2>1, <2>3, <3>1
  <2> QED
    BY <2>2, <2>3
<1>11. T \subseteq 1..M
  OBVIOUS
<1> HIDE DEF T
<1>12. Orders(t, T)
  <2>1. DOMAIN t = 1..(n - 1)
    BY <1>8, LenProperties
  <2>2. t \in [1..(n - 1) -> T]
    <3>1. t \in [1..(n - 1) -> S]
      BY <1>8, LenProperties
    <3> QED
      BY <1>10, <3>1
  <2> QED
    BY <1>5, <1>9, <2>1, <2>2 DEF Orders
<1>13. Sorted(T) = t
  BY <1>11, <1>12, SortedOrders, OrderUnique
<1> QED
  BY <1>13 DEF s, t, T

\* A message is delivered to a mailbox, and one is deleted from it.
Arrived(boxes, b, m) == [boxes EXCEPT ![b] = Append(@, m)]
Deleted(boxes, b, k) == [boxes EXCEPT ![b] = RemoveAt(@, k)]

\* Is the mailbox among those that are listed?
Listed(boxes, mb, b) == mb \in DOMAIN boxes => mb = b

\* Each message is in one mailbox, and there once.
InOnePlace(boxes) ==
    \A b, c \in DOMAIN boxes : \A i \in DOMAIN boxes[b], j \in DOMAIN boxes[c] :
        boxes[b][i] = boxes[c][j] => b = c /\ i = j

LEMMA AllInRange ==
    ASSUME NEW M \in Nat, NEW boxes, BoxesOf(M, boxes)
    PROVE  AllOf(boxes) \subseteq 1..M
<1>1. ASSUME NEW b \in DOMAIN boxes PROVE ToSet(boxes[b]) \subseteq 1..M
  <2>1. boxes[b] \in Seq(1..M)
    BY DEF BoxesOf
  <2>2. DOMAIN boxes[b] = 1..Len(boxes[b]) /\ \A i \in 1..Len(boxes[b]) : boxes[b][i] \in 1..M
    BY <2>1, LenProperties, ElementOfSeq
  <2> QED
    BY <2>2 DEF ToSet
<1> QED
  BY <1>1 DEF AllOf

\* The pool grows at its end ...
LEMMA PoolGrows ==
    ASSUME NEW M \in Nat, NEW boxes, BoxesOf(M, boxes), NEW b \in DOMAIN boxes, NEW mb
    PROVE  LET later == Arrived(boxes, b, M + 1)
           IN  /\ BoxesOf(M + 1, later)
               /\ Pool(later, mb) = IF Listed(boxes, mb, b) THEN Append(Pool(boxes, mb), M + 1)
                                    ELSE Pool(boxes, mb)
<1> DEFINE later == Arrived(boxes, b, M + 1)
           new == Append(boxes[b], M + 1)
<1>1. later = [boxes EXCEPT ![b] = new] /\ DOMAIN later = DOMAIN boxes
  BY DEF Arrived
<1>2. boxes[b] \in Seq(1..M)
  BY DEF BoxesOf
<1>3. ASSUME NEW s \in Seq(1..M) PROVE s \in Seq(1..(M + 1))
  <2>1. s \in [1..Len(s) -> 1..M] /\ Len(s) \in Nat
    BY <1>3, LenProperties
  <2>2. s \in [1..Len(s) -> 1..(M + 1)]
    BY <2>1
  <2> QED
    BY <2>1, <2>2
<1>4. new \in Seq(1..(M + 1)) /\ ToSet(new) = ToSet(boxes[b]) \cup {M + 1}
  <2>1. boxes[b] \in Seq(1..(M + 1)) /\ M + 1 \in 1..(M + 1)
    BY <1>2, <1>3
  <2> DEFINE s == boxes[b]
             n == Len(s)
  <2>2. /\ new \in Seq(1..(M + 1)) /\ Len(new) = n + 1 /\ new[n + 1] = M + 1
        /\ \A i \in 1..n : new[i] = s[i]
    BY <2>1, AppendProperties
  <2>3. DOMAIN s = 1..n /\ DOMAIN new = 1..(n + 1) /\ n \in Nat
    BY <2>1, <2>2, LenProperties
  <2> HIDE DEF s, new, n
  <2>4. \A i \in 1..(n + 1) : i = n + 1 \/ i \in 1..n
    BY <2>3
  <2>5. ToSet(new) = ToSet(s) \cup {M + 1}
    <3>1. ToSet(new) = {new[i] : i \in 1..(n + 1)} /\ ToSet(s) = {s[i] : i \in 1..n}
      BY <2>3 DEF ToSet
    <3>2. ASSUME NEW i \in 1..(n + 1) PROVE new[i] \in ToSet(s) \cup {M + 1}
      BY <2>2, <2>4, <3>1
    <3>3. ASSUME NEW i \in 1..n PROVE s[i] \in ToSet(new)
      <4>1. i \in 1..(n + 1) /\ new[i] = s[i]
        BY <2>2, <2>3
      <4> QED
        BY <3>1, <4>1
    <3>4. M + 1 \in ToSet(new)
      <4>1. n + 1 \in 1..(n + 1)
        BY <2>3
      <4> QED
        BY <2>2, <3>1, <4>1
    <3> QED
      BY <3>1, <3>2, <3>3, <3>4
  <2> QED
    BY <2>2, <2>5 DEF s
<1>5. \A c \in DOMAIN boxes : later[c] = IF c = b THEN new ELSE boxes[c]
  BY <1>1
<1> HIDE DEF later, new
<1>6. BoxesOf(M + 1, later)
  <2>1. ASSUME NEW c \in DOMAIN boxes PROVE later[c] \in Seq(1..(M + 1))
    <3>1. boxes[c] \in Seq(1..M)
      BY DEF BoxesOf
    <3> QED
      BY <1>3, <1>4, <1>5, <3>1
  <2> QED
    BY <1>1, <2>1 DEF BoxesOf
<1>7. CASE mb \in DOMAIN boxes
  <2>1. Pool(later, mb) = later[mb] /\ Pool(boxes, mb) = boxes[mb]
    BY <1>1, <1>7 DEF Pool
  <2> QED
    BY <1>5, <1>6, <1>7, <2>1 DEF Listed, later, new
<1>8. CASE mb \notin DOMAIN boxes
  <2>1. Pool(later, mb) = Sorted(AllOf(later)) /\ Pool(boxes, mb) = Sorted(AllOf(boxes))
    BY <1>1, <1>8 DEF Pool, AllOf
  <2>2. AllOf(later) = AllOf(boxes) \cup {M + 1}
    BY <1>1, <1>4, <1>5 DEF AllOf
  <2>3. Sorted(AllOf(boxes) \cup {M + 1}) = Append(Sorted(AllOf(boxes)), M + 1)
    BY AllInRange, SortedMore
  <2> QED
    BY <1>6, <1>8, <2>1, <2>2, <2>3 DEF Listed, later
<1> QED
  BY <1>7, <1>8

\* ... and loses what is deleted.
LEMMA PoolShrinks ==
    ASSUME NEW M \in Nat, NEW boxes, BoxesOf(M, boxes), InOnePlace(boxes),
           NEW b \in DOMAIN boxes, NEW k \in DOMAIN boxes[b], NEW mb
    PROVE  LET later == Deleted(boxes, b, k)
           IN  /\ BoxesOf(M, later)
               /\ IF Listed(boxes, mb, b)
                  THEN \E i \in 1..Len(Pool(boxes, mb)) :
                          /\ Pool(boxes, mb)[i] = boxes[b][k]
                          /\ Pool(later, mb) = RemoveAt(Pool(boxes, mb), i)
                  ELSE Pool(later, mb) = Pool(boxes, mb)
<1> DEFINE later == Deleted(boxes, b, k)
           s == boxes[b]
           n == Len(s)
           m == s[k]
           new == RemoveAt(s, k)
<1>1. later = [boxes EXCEPT ![b] = new] /\ DOMAIN later = DOMAIN boxes
  BY DEF Deleted
<1>2. s \in Seq(1..M)
  BY DEF BoxesOf
<1>3. n \in Nat /\ DOMAIN s = 1..n /\ k \in 1..n
  BY <1>2, LenProperties
<1>4. /\ new \in Seq(1..M) /\ Len(new) = n - 1
      /\ \A j \in 1..(n - 1) : new[j] = IF j < k THEN s[j] ELSE s[j + 1]
  BY <1>2, <1>3, RemovedIs
<1>5. \A c \in DOMAIN boxes : later[c] = IF c = b THEN new ELSE boxes[c]
  BY <1>1
<1>6. \A i \in 1..n : s[i] = m => i = k
  BY <1>3 DEF InOnePlace
<1>7. \A c \in DOMAIN boxes \ {b} : m \notin ToSet(boxes[c])
  BY DEF InOnePlace, ToSet
<1> HIDE DEF later, new, s, n, m
<1>8. BoxesOf(M, later)
  <2>1. \A c \in DOMAIN boxes : boxes[c] \in Seq(1..M)
    BY DEF BoxesOf
  <2> QED
    BY <1>1, <1>4, <1>5, <2>1 DEF BoxesOf
<1>9. ToSet(new) = ToSet(s) \ {m} /\ m \in ToSet(s)
  <2>1. DOMAIN new = 1..(n - 1)
    BY <1>4, LenProperties
  <2>2. ASSUME NEW j \in 1..(n - 1) PROVE new[j] \in ToSet(s) \ {m}
    <3>1. j \in 1..n /\ j + 1 \in 1..n /\ (j < k => j # k) /\ (~ (j < k) => j + 1 # k)
      BY <1>3
    <3> QED
      BY <1>3, <1>4, <1>6, <3>1 DEF ToSet
  <2>3. ASSUME NEW i \in 1..n, s[i] # m PROVE \E j \in 1..(n - 1) : new[j] = s[i]
    <3>1. i # k
      BY <2>3 DEF m
    <3>2. CASE i < k
      <4>1. i \in 1..(n - 1)
        BY <1>3, <3>2
      <4> QED
        BY <1>4, <3>2, <4>1
    <3>3. CASE k < i
      <4>1. i - 1 \in 1..(n - 1) /\ ~ (i - 1 < k) /\ (i - 1) + 1 = i
        BY <1>3, <3>3
      <4>2. new[i - 1] = s[i]
        BY <1>4, <4>1
      <4> QED
        BY <4>1, <4>2
    <3> QED
      BY <1>3, <3>1, <3>2, <3>3
  <2>4. m \in ToSet(s)
    BY <1>3 DEF ToSet, m
  <2>5. ToSet(new) = {new[j] : j \in 1..(n - 1)} /\ ToSet(s) = {s[i] : i \in 1..n}
    BY <1>3, <2>1 DEF ToSet
  <2> QED
    BY <2>2, <2>3, <2>4, <2>5
<1>10. CASE mb \in DOMAIN boxes
  <2>1. Pool(later, mb) = later[mb] /\ Pool(boxes, mb) = boxes[mb]
    BY <1>1, <1>10 DEF Pool
  <2>2. CASE mb = b
    <3>1. Pool(boxes, mb) = s /\ Pool(later, mb) = RemoveAt(s, k)
      BY <1>5, <2>1, <2>2 DEF new, s
    <3>2. k \in 1..Len(Pool(boxes, mb)) /\ Pool(boxes, mb)[k] = m
      BY <1>3, <3>1 DEF n, m
    <3> QED
      BY <1>8, <2>2, <3>1, <3>2 DEF Listed, later, m, s
  <2>3. CASE mb # b
    <3>1. Pool(later, mb) = Pool(boxes, mb)
      BY <1>5, <1>10, <2>1, <2>3
    <3> QED
      BY <1>8, <1>10, <2>3, <3>1 DEF Listed, later
  <2> QED
    BY <2>2, <2>3
<1>11. CASE mb \notin DOMAIN boxes
  <2> DEFINE S == AllOf(boxes)
             q == Sorted(S)
  <2>1. Pool(later, mb) = Sorted(AllOf(later)) /\ Pool(boxes, mb) = q
    BY <1>1, <1>11 DEF Pool, AllOf
  <2>2. AllOf(later) = S \ {m} /\ m \in S
    <3>1. S = UNION {ToSet(boxes[c]) : c \in DOMAIN boxes}
      BY DEF AllOf
    <3>2. AllOf(later) = UNION {ToSet(later[c]) : c \in DOMAIN boxes}
      BY <1>1 DEF AllOf
    <3>3. ToSet(boxes[b]) = ToSet(s)
      BY DEF s
    <3> HIDE DEF S
    <3> QED
      BY <1>5, <1>7, <1>9, <3>1, <3>2, <3>3
  <2>3. S \subseteq 1..M
    BY AllInRange
  <2> HIDE DEF S
  <2>4. q \in Seq(S) /\ ToSet(q) = S
    BY <2>3, SortedIs
  <2>5. PICK i \in 1..Len(q) : q[i] = m
    <3> HIDE DEF q
    <3>1. DOMAIN q = 1..Len(q)
      BY <2>4, LenProperties
    <3> QED
      BY <2>2, <2>4, <3>1 DEF ToSet
  <2>6. Sorted(S \ {m}) = RemoveAt(q, i)
    <3>1. Sorted(S \ {q[i]}) = RemoveAt(q, i)
      BY <2>3, <2>5, SortedLess
    <3> QED
      BY <2>5, <3>1
  <2>7. Pool(later, mb) = RemoveAt(Pool(boxes, mb), i) /\ Pool(boxes, mb)[i] = m
        /\ i \in 1..Len(Pool(boxes, mb))
    BY <2>1, <2>2, <2>5, <2>6
  <2>8. Listed(boxes, mb, b)
    BY <1>11 DEF Listed
  <2>9. \E j \in 1..Len(Pool(boxes, mb)) : /\ Pool(boxes, mb)[j] = m
                                           /\ Pool(later, mb) = RemoveAt(Pool(boxes, mb), j)
    BY <2>7
  <2> QED
    BY <1>8, <2>8, <2>9, Zenon DEF later, m, s
<1> QED
  BY <1>10, <1>11

\* Two loops that start and go on alike end alike.
LEMMA SamePicks ==
    ASSUME NEW L \in Nat, NEW f, NEW g, f[0] = g[0],
           \A n \in 1..L : f[n - 1] = g[n - 1] => f[n] = g[n]
    PROVE  f[L] = g[L]
<1> DEFINE P == {n \in 0..L : f[n] = g[n]}
<1>1. 0 \in P
  OBVIOUS
<1>2. \A n \in 1..L : n - 1 \in P => n \in P
  OBVIOUS
<1> HIDE DEF P
<1>3. 0..L \subseteq P
  BY <1>1, <1>2, UpTo
<1>4. L \in 0..L
  OBVIOUS
<1> QED
  BY <1>3, <1>4 DEF P

\* The loop of List, as steps.
Looks(A, s, wanted, f) ==
    /\ f \in [0..Len(s) -> Seq(A)] /\ f[0] = <<>>
    /\ \A n \in 1..Len(s) : f[n] = IF s[n] \in wanted THEN Append(f[n - 1], s[n]) ELSE f[n - 1]
LEMMA MatchingSteps ==
    ASSUME NEW A, NEW boxes, NEW mb, NEW wanted, NEW s \in Seq(A), Pool(boxes, mb) = s
    PROVE  \E f : Looks(A, s, wanted, f) /\ Matching(boxes, mb, wanted) = f[Len(s)]
<1> DEFINE kept == {n \in DOMAIN s : s[n] \in wanted}
<1>1. PICK f : Picks(A, s, kept, f) /\ Matching(boxes, mb, wanted) = f[Len(s)]
  BY MatchesPick
<1>2. DOMAIN s = 1..Len(s)
  BY LenProperties
<1>3. \A n \in 1..Len(s) : n \in kept <=> s[n] \in wanted
  BY <1>2
<1> HIDE DEF kept
<1> QED
  BY <1>1, <1>3 DEF Picks, Looks

\* Of a pool that has grown it picks the same, and the new one if it is wanted.
LEMMA MatchingGrows ==
    ASSUME NEW A, NEW boxes, NEW later, NEW mb, NEW wanted, NEW s \in Seq(A), NEW m \in A,
           Pool(boxes, mb) = s, Pool(later, mb) = Append(s, m)
    PROVE  Matching(later, mb, wanted) =
                IF m \in wanted THEN Append(Matching(boxes, mb, wanted), m)
                ELSE Matching(boxes, mb, wanted)
<1> DEFINE t == Append(s, m)
           L == Len(s)
<1>1. t \in Seq(A) /\ Len(t) = L + 1 /\ t[L + 1] = m /\ \A i \in 1..L : t[i] = s[i]
  BY AppendProperties
<1>2. L \in Nat /\ Pool(later, mb) = t
  BY LenProperties
<1> HIDE DEF t, L
<1>3. PICK f : Looks(A, s, wanted, f) /\ Matching(boxes, mb, wanted) = f[L]
  BY MatchingSteps DEF L
<1>4. PICK g : Looks(A, t, wanted, g) /\ Matching(later, mb, wanted) = g[Len(t)]
  BY <1>1, <1>2, MatchingSteps
<1>5. f[L] = g[L]
  <2>1. ASSUME NEW n \in 1..L, f[n - 1] = g[n - 1] PROVE f[n] = g[n]
    <3>1. n \in 1..Len(t) /\ t[n] = s[n]
      BY <1>1, <1>2
    <3>2. f[n] = IF s[n] \in wanted THEN Append(f[n - 1], s[n]) ELSE f[n - 1]
      BY <1>3 DEF Looks, L
    <3>3. g[n] = IF t[n] \in wanted THEN Append(g[n - 1], t[n]) ELSE g[n - 1]
      BY <1>4, <3>1 DEF Looks
    <3> QED
      BY <2>1, <3>1, <3>2, <3>3
  <2>2. f[0] = g[0] /\ \A n \in 1..L : f[n - 1] = g[n - 1] => f[n] = g[n]
    BY <1>3, <1>4, <2>1 DEF Looks
  <2> QED
    BY <1>2, <2>2, SamePicks
<1>6. L + 1 \in 1..Len(t) /\ (L + 1) - 1 = L
  BY <1>1, <1>2
<1>7. g[L + 1] = IF m \in wanted THEN Append(g[L], m) ELSE g[L]
  BY <1>1, <1>4, <1>6 DEF Looks
<1> QED
  BY <1>1, <1>3, <1>4, <1>5, <1>7

LEMMA MatchingSame ==
    ASSUME NEW boxes, NEW later, NEW mb, NEW wanted, Pool(later, mb) = Pool(boxes, mb)
    PROVE  Matching(later, mb, wanted) = Matching(boxes, mb, wanted)
BY DEF Matching

\* Without the element at place p, which is not its last, a sequence grows as
\* it did with it.
LEMMA RemovedAppend ==
    ASSUME NEW A, NEW s \in Seq(A), NEW p \in 1..Len(s), NEW x \in A
    PROVE  RemoveAt(Append(s, x), p) = Append(RemoveAt(s, p), x)
<1> DEFINE t == Append(s, x)
           u == RemoveAt(s, p)
           n == Len(s)
<1>1. n \in Nat
  BY LenProperties
<1>2. t \in Seq(A) /\ Len(t) = n + 1 /\ t[n + 1] = x /\ \A i \in 1..n : t[i] = s[i]
  BY AppendProperties
<1>3. u \in Seq(A) /\ Len(u) = n - 1 /\ \A j \in 1..(n - 1) : u[j] = IF j < p THEN s[j] ELSE s[j + 1]
  BY RemovedIs
<1> HIDE DEF t, u
<1>4. p \in 1..Len(t) /\ p \in 1..n
  BY <1>1, <1>2
<1>5. /\ RemoveAt(t, p) \in Seq(A) /\ Len(RemoveAt(t, p)) = (n + 1) - 1
      /\ \A j \in 1..((n + 1) - 1) : RemoveAt(t, p)[j] = IF j < p THEN t[j] ELSE t[j + 1]
  BY <1>2, <1>4, RemovedIs
<1>6. /\ Append(u, x) \in Seq(A) /\ Len(Append(u, x)) = Len(u) + 1
      /\ \A j \in 1..Len(u) : Append(u, x)[j] = u[j]
      /\ Append(u, x)[Len(u) + 1] = x
  BY <1>3, AppendProperties
<1> DEFINE v == RemoveAt(t, p)
           w == Append(u, x)
<1> HIDE DEF v, w, n
<1>7. v \in Seq(A) /\ w \in Seq(A) /\ Len(v) = n /\ Len(w) = n
  BY <1>1, <1>3, <1>5, <1>6 DEF v, w
<1>8. ASSUME NEW j \in 1..n PROVE v[j] = w[j]
  <2>1. v[j] = IF j < p THEN t[j] ELSE t[j + 1]
    BY <1>1, <1>5 DEF v
  <2>2. CASE j = n
    <3>1. w[j] = x /\ ~ (j < p)
      BY <1>1, <1>3, <1>4, <1>6, <2>2 DEF w
    <3> QED
      BY <1>2, <2>1, <2>2, <3>1
  <2>3. CASE j # n
    <3>1. j \in 1..(n - 1) /\ j + 1 \in 1..n
      BY <1>1, <2>3
    <3>2. w[j] = u[j]
      BY <1>3, <1>6, <3>1 DEF w
    <3>3. u[j] = IF j < p THEN s[j] ELSE s[j + 1]
      BY <1>3, <3>1
    <3>4. t[j] = s[j] /\ t[j + 1] = s[j + 1]
      BY <1>2, <3>1
    <3> QED
      BY <2>1, <3>2, <3>3, <3>4
  <2> QED
    BY <2>2, <2>3
<1>9. v = w
  BY <1>7, <1>8, SeqEqual
<1> QED
  BY <1>9 DEF v, w, t, u

LEMMA RemovedLast ==
    ASSUME NEW A, NEW s \in Seq(A), NEW x \in A
    PROVE  RemoveAt(Append(s, x), Len(s) + 1) = s
<1> DEFINE t == Append(s, x)
           n == Len(s)
<1>1. n \in Nat
  BY LenProperties
<1>2. t \in Seq(A) /\ Len(t) = n + 1 /\ \A i \in 1..n : t[i] = s[i]
  BY AppendProperties
<1> HIDE DEF t
<1>3. n + 1 \in 1..Len(t)
  BY <1>1, <1>2
<1>4. /\ RemoveAt(t, n + 1) \in Seq(A) /\ Len(RemoveAt(t, n + 1)) = (n + 1) - 1
      /\ \A j \in 1..((n + 1) - 1) : RemoveAt(t, n + 1)[j] = IF j < n + 1 THEN t[j] ELSE t[j + 1]
  BY <1>2, <1>3, RemovedIs
<1>5. \A j \in 1..n : RemoveAt(t, n + 1)[j] = s[j]
  BY <1>1, <1>2, <1>4
<1>6. Len(RemoveAt(t, n + 1)) = n
  BY <1>1, <1>4
<1>7. RemoveAt(t, n + 1) = s
  BY <1>4, <1>5, <1>6, SeqEqual
<1> QED
  BY <1>7 DEF t

\* So it does without one of the pool: what it picks misses that one, too.
LEMMA MatchingShrinks ==
    ASSUME NEW A, NEW boxes, NEW later, NEW mb, NEW wanted, NEW s \in Seq(A),
           NEW i \in 1..Len(s), Pool(boxes, mb) = s, Pool(later, mb) = RemoveAt(s, i)
    PROVE  LET matches == Matching(boxes, mb, wanted)
           IN  /\ matches \in Seq(A)
               /\ IF s[i] \notin wanted THEN Matching(later, mb, wanted) = matches
                  ELSE \E p \in 1..Len(matches) :
                          matches[p] = s[i] /\ Matching(later, mb, wanted) = RemoveAt(matches, p)
<1> DEFINE t == RemoveAt(s, i)
           L == Len(s)
<1>1. /\ t \in Seq(A) /\ Len(t) = L - 1
      /\ \A j \in 1..(L - 1) : t[j] = IF j < i THEN s[j] ELSE s[j + 1]
  BY RemovedIs
<1>2. L \in Nat /\ i \in 1..L /\ Pool(later, mb) = t /\ \A j \in 1..L : s[j] \in A
  BY LenProperties, ElementOfSeq
<1> HIDE DEF t, L
<1>3. PICK f : Looks(A, s, wanted, f) /\ Matching(boxes, mb, wanted) = f[L]
  BY MatchingSteps DEF L
<1>4. PICK g : Looks(A, t, wanted, g) /\ Matching(later, mb, wanted) = g[Len(t)]
  BY <1>1, <1>2, MatchingSteps
<1>5. /\ f \in [0..L -> Seq(A)] /\ f[0] = <<>>
      /\ \A n \in 1..L : f[n] = IF s[n] \in wanted THEN Append(f[n - 1], s[n]) ELSE f[n - 1]
  BY <1>3 DEF Looks, L
<1>6. /\ g[0] = <<>>
      /\ \A n \in 1..(L - 1) : g[n] = IF t[n] \in wanted THEN Append(g[n - 1], t[n]) ELSE g[n - 1]
  BY <1>1, <1>4 DEF Looks
<1>7. f[i - 1] = g[i - 1]
  <2>1. ASSUME NEW n \in 1..(i - 1), f[n - 1] = g[n - 1] PROVE f[n] = g[n]
    <3>1. n \in 1..L /\ n \in 1..(L - 1) /\ n < i
      BY <1>2
    <3>2. t[n] = s[n]
      BY <1>1, <3>1
    <3>3. f[n] = IF s[n] \in wanted THEN Append(f[n - 1], s[n]) ELSE f[n - 1]
      BY <1>5, <3>1
    <3>4. g[n] = IF t[n] \in wanted THEN Append(g[n - 1], t[n]) ELSE g[n - 1]
      BY <1>6, <3>1
    <3> QED
      BY <2>1, <3>2, <3>3, <3>4
  <2>2. f[0] = g[0] /\ \A n \in 1..(i - 1) : f[n - 1] = g[n - 1] => f[n] = g[n]
    BY <1>5, <1>6, <2>1
  <2>3. i - 1 \in Nat
    BY <1>2
  <2> QED
    BY <2>2, <2>3, SamePicks
<1> DEFINE p == Len(f[i - 1]) + 1
           Less(v, u) == IF s[i] \notin wanted THEN v = u
                         ELSE p \in 1..Len(u) /\ u[p] = s[i] /\ v = RemoveAt(u, p)
<1>8. \A n \in 0..L : f[n] \in Seq(A)
  BY <1>5
<1>9. Less(g[i - 1], f[i])
  <2>1. f[i] = IF s[i] \in wanted THEN Append(f[i - 1], s[i]) ELSE f[i - 1]
    BY <1>2, <1>5
  <2>2. CASE s[i] \notin wanted
    BY <1>7, <2>1, <2>2
  <2>3. CASE s[i] \in wanted
    <3> DEFINE u == f[i - 1]
               x == s[i]
    <3>1. u \in Seq(A) /\ x \in A /\ Len(u) \in Nat
      <4>1. i - 1 \in 0..L
        BY <1>2
      <4> QED
        BY <1>2, <1>8, <4>1, LenProperties
    <3>2. f[i] = Append(u, x) /\ g[i - 1] = u /\ p = Len(u) + 1
      BY <1>7, <2>1, <2>3
    <3> HIDE DEF u, x
    <3>3. Len(Append(u, x)) = Len(u) + 1 /\ Append(u, x)[Len(u) + 1] = x
      BY <3>1, AppendProperties
    <3>4. RemoveAt(Append(u, x), Len(u) + 1) = u
      BY <3>1, RemovedLast
    <3> HIDE DEF p
    <3>5. p \in 1..Len(f[i])
      BY <3>1, <3>2, <3>3
    <3>6. f[i][p] = x /\ g[i - 1] = RemoveAt(f[i], p)
      BY <3>2, <3>3, <3>4
    <3> QED
      BY <2>3, <3>5, <3>6 DEF x
  <2> QED
    BY <2>2, <2>3
<1>10. ASSUME NEW u \in Seq(A), NEW x \in A, NEW v, Less(v, u) PROVE Less(Append(v, x), Append(u, x))
  <2>1. CASE s[i] \notin wanted
    BY <1>10, <2>1
  <2>2. CASE s[i] \in wanted
    <3> HIDE DEF p
    <3>1. p \in 1..Len(u) /\ u[p] = s[i] /\ v = RemoveAt(u, p) /\ Len(u) \in Nat
      BY <1>10, <2>2, LenProperties
    <3>2. RemoveAt(Append(u, x), p) = Append(RemoveAt(u, p), x)
      BY <3>1, RemovedAppend
    <3>3. Len(Append(u, x)) = Len(u) + 1 /\ Append(u, x)[p] = u[p]
      BY <3>1, AppendProperties
    <3>4. p \in 1..Len(Append(u, x))
      BY <3>1, <3>3
    <3> QED
      BY <2>2, <3>1, <3>2, <3>3, <3>4
  <2> QED
    BY <2>1, <2>2
<1> HIDE DEF Less
<1> DEFINE P == {n \in 0..(L - i) : Less(g[i - 1 + n], f[i + n])}
<1>11. 0 \in P
  <2>1. 0 \in 0..(L - i) /\ i - 1 + 0 = i - 1 /\ i + 0 = i
    BY <1>2
  <2> QED
    BY <1>9, <2>1
<1>12. ASSUME NEW n \in 1..(L - i), n - 1 \in P PROVE n \in P
  <2> DEFINE k == i + n
  <2>1. /\ k \in 1..L /\ k - 1 \in 1..(L - 1) /\ ~ (k - 1 < i) /\ (k - 1) + 1 = k
        /\ i - 1 + (n - 1) = (k - 1) - 1 /\ i + (n - 1) = k - 1 /\ i - 1 + n = k - 1
        /\ n \in 0..(L - i) /\ k - 1 \in 0..L
    BY <1>2
  <2>2. Less(g[(k - 1) - 1], f[k - 1])
    BY <1>12, <2>1
  <2>3. t[k - 1] = s[k]
    BY <1>1, <2>1
  <2>4. f[k] = IF s[k] \in wanted THEN Append(f[k - 1], s[k]) ELSE f[k - 1]
    BY <1>5, <2>1
  <2>5. g[k - 1] = IF t[k - 1] \in wanted THEN Append(g[(k - 1) - 1], t[k - 1]) ELSE g[(k - 1) - 1]
    BY <1>6, <2>1
  <2>6. f[k - 1] \in Seq(A) /\ s[k] \in A
    BY <1>2, <1>8, <2>1
  <2>7. Less(g[k - 1], f[k])
    BY <1>10, <2>2, <2>3, <2>4, <2>5, <2>6
  <2> QED
    BY <2>1, <2>7
<1> HIDE DEF P
<1>13. L - i \in P
  <2>1. L - i \in Nat
    BY <1>2
  <2>2. 0..(L - i) \subseteq P
    BY <1>11, <1>12, <2>1, UpTo
  <2> QED
    BY <2>1, <2>2
<1>14. Less(g[L - 1], f[L])
  <2>1. i - 1 + (L - i) = L - 1 /\ i + (L - i) = L
    BY <1>2
  <2> QED
    BY <1>13, <2>1 DEF P
<1>15. f[L] \in Seq(A)
  BY <1>2, <1>8
<1> HIDE DEF p
<1> QED
  BY <1>1, <1>3, <1>4, <1>14, <1>15 DEF Less

\* The number of messages on a page, wherever it begins.
LEMMA PageSize ==
    ASSUME NEW last \in Int, NEW limit \in Nat \ {0}
    PROVE  LET n == Max({0, Min({limit, last})})
           IN  n \in Nat /\ n <= limit /\ (n = 0 \/ n <= last) /\ (limit <= last => n = limit)
<1>1. CASE last \in Nat
  BY <1>1, Least
<1>2. CASE last \notin Nat
  <2>1. last < 0 /\ last < limit
    BY <1>2
  <2>2. Min({limit, last}) = last
    <3>1. last \in {limit, last} /\ \A y \in {limit, last} : last <= y
      BY <2>1
    <3>2. \A x \in {limit, last} : (\A y \in {limit, last} : x <= y) => x = last
      BY <2>1
    <3> QED
      BY <3>1, <3>2 DEF Min
  <2>3. Max({0, last}) = 0
    <3>1. 0 \in {0, last} /\ \A y \in {0, last} : 0 >= y
      BY <2>1
    <3>2. \A x \in {0, last} : (\A y \in {0, last} : x >= y) => x = 0
      BY <2>1
    <3> QED
      BY <3>1, <3>2 DEF Max
  <2> QED
    BY <2>1, <2>2, <2>3
<1> QED
  BY <1>1, <1>2

\* A page behind one more message is the page as it was ...
LEMMA PageGrows ==
    ASSUME NEW A, NEW s \in Seq(A), NEW m \in A, NEW offset \in Nat, NEW limit \in Nat \ {0}
    PROVE  Page(Append(s, m), offset + 1, limit) = Page(s, offset, limit)
<1> DEFINE t == Append(s, m)
           last == Len(s) - offset
           n == Max({0, Min({limit, last})})
<1>1. Len(s) \in Nat
  BY LenProperties
<1>2. Len(t) = Len(s) + 1 /\ \A i \in 1..Len(s) : t[i] = s[i]
  BY AppendProperties
<1>3. last \in Int /\ Len(t) - (offset + 1) = last
  BY <1>1, <1>2
<1> HIDE DEF t
<1>4. n \in Nat /\ (n = 0 \/ n <= last)
  <2> HIDE DEF last
  <2> QED
    BY <1>3, PageSize
<1>5. Page(s, offset, limit) = [i \in 1..n |-> s[last + 1 - i]]
  BY DEF Page
<1>6. Page(t, offset + 1, limit) = [i \in 1..n |-> t[last + 1 - i]]
  BY <1>3 DEF Page
<1> HIDE DEF n
<1>7. ASSUME NEW i \in 1..n PROVE t[last + 1 - i] = s[last + 1 - i]
  <2>1. last + 1 - i \in 1..Len(s)
    BY <1>1, <1>4
  <2> QED
    BY <1>2, <2>1
<1> HIDE DEF last
<1>8. [i \in 1..n |-> s[last + 1 - i]] = [i \in 1..n |-> t[last + 1 - i]]
  BY <1>7
<1> QED
  BY <1>5, <1>6, <1>8 DEF t

\* ... and so it is when one of the messages before it is gone, or one of
\* those behind it.
LEMMA PageShrinks ==
    ASSUME NEW A, NEW s \in Seq(A), NEW p \in 1..Len(s), NEW offset \in Nat, NEW limit \in Nat \ {0}
    PROVE  /\ p > Len(s) - offset =>
                Page(RemoveAt(s, p), offset - 1, limit) = Page(s, offset, limit)
           /\ p <= Len(s) - offset - limit =>
                Page(RemoveAt(s, p), offset, limit) = Page(s, offset, limit)
<1> DEFINE t == RemoveAt(s, p)
           N == Len(s)
           last == N - offset
           n == Max({0, Min({limit, last})})
<1>1. N \in Nat
  BY LenProperties
<1>2. Len(t) = N - 1 /\ \A j \in 1..(N - 1) : t[j] = IF j < p THEN s[j] ELSE s[j + 1]
  BY RemovedIs
<1>3. last \in Int
  BY <1>1
<1>4. n \in Nat /\ n <= limit /\ (n = 0 \/ n <= last) /\ (limit <= last => n = limit)
  <2> HIDE DEF last
  <2> QED
    BY <1>3, PageSize
<1>5. Page(s, offset, limit) = [i \in 1..n |-> s[last + 1 - i]]
  BY DEF Page
<1> HIDE DEF t, N
<1>6. ASSUME p > last PROVE Page(t, offset - 1, limit) = Page(s, offset, limit)
  <2>1. Len(t) - (offset - 1) = last
    BY <1>1, <1>2
  <2>2. Page(t, offset - 1, limit) = [i \in 1..n |-> t[last + 1 - i]]
    BY <2>1 DEF Page
  <2> HIDE DEF n
  <2>3. ASSUME NEW i \in 1..n PROVE t[last + 1 - i] = s[last + 1 - i]
    <3>1. last + 1 - i \in 1..(N - 1) /\ last + 1 - i < p
      BY <1>1, <1>4, <1>6 DEF N
    <3> QED
      BY <1>2, <3>1
  <2> HIDE DEF last
  <2>4. [i \in 1..n |-> s[last + 1 - i]] = [i \in 1..n |-> t[last + 1 - i]]
    BY <2>3
  <2> QED
    BY <1>5, <2>2, <2>4
<1>7. ASSUME p <= last - limit PROVE Page(t, offset, limit) = Page(s, offset, limit)
  <2> DEFINE k == Max({0, Min({limit, last - 1})})
  <2>1. Len(t) - offset = last - 1
    BY <1>1, <1>2
  <2>2. last - 1 \in Int /\ limit <= last - 1 /\ limit <= last
    BY <1>1, <1>7
  <2>3. k = limit /\ n = limit
    <3>1. n = limit
      BY <1>4, <2>2
    <3>2. k = limit
      <4> HIDE DEF last
      <4> QED
        BY <2>2, PageSize
    <3> QED
      BY <3>1, <3>2
  <2>4. Page(t, offset, limit) = [i \in 1..k |-> t[last - 1 + 1 - i]]
    BY <2>1 DEF Page
  <2> HIDE DEF n, k
  <2>5. ASSUME NEW i \in 1..limit PROVE t[last - 1 + 1 - i] = s[last + 1 - i]
    <3>1. /\ last - 1 + 1 - i \in 1..(N - 1) /\ ~ (last - 1 + 1 - i < p)
          /\ last - 1 + 1 - i + 1 = last + 1 - i
      BY <1>1, <1>7
    <3> QED
      BY <1>2, <3>1
  <2> HIDE DEF last
  <2>6. [i \in 1..limit |-> s[last + 1 - i]] = [i \in 1..limit |-> t[last - 1 + 1 - i]]
    BY <2>5
  <2> QED
    BY <1>5, <2>3, <2>4, <2>6
<1> QED
  BY <1>6, <1>7 DEF t, N

\* Someone goes through the pages of List and a message arrives: all that is
\* listed moves back by one if the new message is listed too, and else stays in
\* its place.  So who goes on at the old offset sees one message again, and
\* skips none.
THEOREM ArrivalMovesPages ==
    ASSUME NEW M \in Nat, NEW boxes, BoxesOf(M, boxes), NEW b \in DOMAIN boxes,
           NEW mb, NEW wanted, NEW offset \in Nat, NEW limit \in Int
    PROVE  LET later == Arrived(boxes, b, M + 1)
               more == IF Listed(boxes, mb, b) /\ M + 1 \in wanted THEN 1 ELSE 0
               before == ListMessages(boxes, mb, wanted, offset, limit)
               after == ListMessages(later, mb, wanted, offset + more, limit)
           IN  after.messages = before.messages /\ after.total = before.total + more
<1> DEFINE later == Arrived(boxes, b, M + 1)
           s == Pool(boxes, mb)
           matches == Matching(boxes, mb, wanted)
           now == Matching(later, mb, wanted)
           size == Limit(limit)
<1>1. /\ Pool(later, mb) = IF Listed(boxes, mb, b) THEN Append(s, M + 1) ELSE s
      /\ BoxesOf(M + 1, later)
  BY PoolGrows
<1>2. s \in Seq(1..(M + 1))
  <2>1. s \in Seq(1..M)
    BY PoolIs
  <2>2. s \in [1..Len(s) -> 1..M] /\ Len(s) \in Nat
    BY <2>1, LenProperties
  <2> HIDE DEF s
  <2>3. s \in [1..Len(s) -> 1..(M + 1)]
    BY <2>2
  <2> QED
    BY <2>2, <2>3
<1>3. matches \in Seq(1..(M + 1)) /\ Len(matches) \in Nat
  <2>1. matches \in Seq(1..M)
    BY MatchesIs
  <2> HIDE DEF matches
  <2>2. matches \in [1..Len(matches) -> 1..M] /\ Len(matches) \in Nat
    BY <2>1, LenProperties
  <2>3. matches \in [1..Len(matches) -> 1..(M + 1)]
    BY <2>2
  <2> QED
    BY <2>2, <2>3
<1>4. size \in Nat \ {0} /\ Offset(offset) = offset /\ Offset(offset + 1) = offset + 1
      /\ offset + 0 = offset
  BY ListingAssumption DEF Limit, Offset
<1>5. \A o \in Nat : /\ ListMessages(boxes, mb, wanted, o, limit).messages = Page(matches, o, size)
                     /\ ListMessages(later, mb, wanted, o, limit).messages = Page(now, o, size)
                     /\ ListMessages(boxes, mb, wanted, o, limit).total = Len(matches)
                     /\ ListMessages(later, mb, wanted, o, limit).total = Len(now)
  BY DEF ListMessages, Offset
<1> DEFINE A == 1..(M + 1)
           x == M + 1
<1> HIDE DEF later, s, matches, now, size
<1>6. x \in A /\ s \in Seq(A) /\ matches \in Seq(A)
  BY <1>2, <1>3
<1>7. ASSUME Listed(boxes, mb, b) PROVE now = IF x \in wanted THEN Append(matches, x) ELSE matches
  <2>1. Pool(boxes, mb) = s /\ Pool(later, mb) = Append(s, x)
    BY <1>1, <1>7 DEF s
  <2> HIDE DEF A, x
  <2>2. Matching(later, mb, wanted) =
            IF x \in wanted THEN Append(Matching(boxes, mb, wanted), x)
            ELSE Matching(boxes, mb, wanted)
    BY <1>6, <2>1, MatchingGrows
  <2> QED
    BY <2>2 DEF now, matches
<1>8. CASE Listed(boxes, mb, b) /\ M + 1 \in wanted
  <2>1. now = Append(matches, x)
    BY <1>8, <1>7
  <2>2. Page(now, offset + 1, size) = Page(matches, offset, size) /\ Len(now) = Len(matches) + 1
    <3> HIDE DEF A, x
    <3>1. Page(Append(matches, x), offset + 1, size) = Page(matches, offset, size)
      BY <1>4, <1>6, PageGrows
    <3>2. Len(Append(matches, x)) = Len(matches) + 1
      BY <1>6, AppendProperties
    <3> QED
      BY <2>1, <3>1, <3>2
  <2>3. offset + 1 \in Nat
    OBVIOUS
  <2> QED
    BY <1>5, <1>8, <2>2, <2>3 DEF later
<1>9. CASE ~ (Listed(boxes, mb, b) /\ M + 1 \in wanted)
  <2>1. now = matches
    <3>1. CASE Listed(boxes, mb, b)
      BY <1>9, <1>7, <3>1
    <3>2. CASE ~ Listed(boxes, mb, b)
      BY <1>1, <3>2, MatchingSame DEF now, matches, s
    <3> QED
      BY <3>1, <3>2
  <2> QED
    BY <1>3, <1>4, <1>5, <1>9, <2>1 DEF later
<1> QED
  BY <1>8, <1>9

\* A message is deleted, or pushed out of a full mailbox: one that is not
\* listed changes nothing, one that is listed behind a page not that page, and
\* one that was seen before a page moves it one place to the front, so that who
\* goes on at the old offset skips a message.
THEOREM DeletionMovesPages ==
    ASSUME NEW M \in Nat, NEW boxes, BoxesOf(M, boxes), InOnePlace(boxes),
           NEW b \in DOMAIN boxes, NEW k \in DOMAIN boxes[b],
           NEW mb, NEW wanted, NEW offset \in Nat, NEW limit \in Int
    PROVE  LET later == Deleted(boxes, b, k)
               matches == Matching(boxes, mb, wanted)
               before == ListMessages(boxes, mb, wanted, offset, limit)
               after(o) == ListMessages(later, mb, wanted, o, limit)
           IN  IF ~ (Listed(boxes, mb, b) /\ boxes[b][k] \in wanted)
               THEN after(offset) = before
               ELSE \E p \in 1..Len(matches) :
                       /\ matches[p] = boxes[b][k]
                       /\ after(offset).total = before.total - 1
                       /\ p > Len(matches) - offset =>
                             after(offset - 1).messages = before.messages
                       /\ p <= Len(matches) - offset - Limit(limit) =>
                             after(offset).messages = before.messages
<1> DEFINE later == Deleted(boxes, b, k)
           s == Pool(boxes, mb)
           m == boxes[b][k]
           matches == Matching(boxes, mb, wanted)
           now == Matching(later, mb, wanted)
           size == Limit(limit)
<1>1. /\ BoxesOf(M, later)
      /\ IF Listed(boxes, mb, b)
         THEN \E i \in 1..Len(s) : s[i] = m /\ Pool(later, mb) = RemoveAt(s, i)
         ELSE Pool(later, mb) = s
  BY PoolShrinks
<1>2. s \in Seq(1..M) /\ matches \in Seq(1..M)
  BY PoolIs, MatchesIs
<1>3. size \in Nat \ {0}
  BY ListingAssumption DEF Limit
<1>4. /\ \A o \in Nat : /\ ListMessages(boxes, mb, wanted, o, limit) =
                                [messages |-> Page(matches, o, size), total |-> Len(matches), offset |-> o]
                        /\ ListMessages(later, mb, wanted, o, limit) =
                                [messages |-> Page(now, o, size), total |-> Len(now), offset |-> o]
  BY DEF ListMessages, Offset
<1>5. ASSUME now = matches
      PROVE  ListMessages(later, mb, wanted, offset, limit) = ListMessages(boxes, mb, wanted, offset, limit)
  BY <1>5 DEF ListMessages
<1> HIDE DEF later, s, m, matches, now, size
<1>6. CASE ~ Listed(boxes, mb, b)
  <2>1. now = matches
    BY <1>1, <1>6, MatchingSame DEF now, matches, s
  <2> QED
    BY <1>5, <1>6, <2>1 DEF later
<1>7. CASE Listed(boxes, mb, b)
  <2>1. PICK i \in 1..Len(s) : s[i] = m /\ Pool(later, mb) = RemoveAt(s, i)
    BY <1>1, <1>7
  <2>2. Pool(boxes, mb) = s
    BY DEF s
  <2>3. IF s[i] \notin wanted THEN now = matches
        ELSE \E p \in 1..Len(matches) : matches[p] = s[i] /\ now = RemoveAt(matches, p)
    BY <1>2, <2>1, <2>2, MatchingShrinks DEF now, matches
  <2>4. CASE m \notin wanted
    BY <1>5, <2>1, <2>3, <2>4 DEF later, m
  <2>5. CASE m \in wanted
    <3>1. PICK p \in 1..Len(matches) : matches[p] = m /\ now = RemoveAt(matches, p)
      BY <2>1, <2>3, <2>5
    <3>2. Len(now) = Len(matches) - 1 /\ Len(matches) \in Nat
      BY <1>2, <3>1, RemovedIs, LenProperties
    <3>3. /\ p > Len(matches) - offset => Page(now, offset - 1, size) = Page(matches, offset, size)
          /\ p <= Len(matches) - offset - size => Page(now, offset, size) = Page(matches, offset, size)
      BY <1>2, <1>3, <3>1, PageShrinks
    <3>4. p > Len(matches) - offset => offset - 1 \in Nat
      BY <3>2
    <3>5. /\ matches[p] = boxes[b][k]
          /\ ListMessages(later, mb, wanted, offset, limit).total =
                ListMessages(boxes, mb, wanted, offset, limit).total - 1
          /\ p > Len(matches) - offset =>
                ListMessages(later, mb, wanted, offset - 1, limit).messages =
                    ListMessages(boxes, mb, wanted, offset, limit).messages
          /\ p <= Len(matches) - offset - size =>
                ListMessages(later, mb, wanted, offset, limit).messages =
                    ListMessages(boxes, mb, wanted, offset, limit).messages
      BY <1>4, <3>1, <3>2, <3>3, <3>4 DEF m
    <3> QED
      BY <1>7, <2>5, <3>5, Zenon DEF later, matches, m, size
  <2> QED
    BY <2>4, <2>5
<1> QED
  BY <1>6, <1>7
-----------------------------------------------------------------------------
(* The patterns of the routes                                              *)

\* A suffix has the elements that come last.
LEMMA SuffixIs ==
    ASSUME NEW A, NEW s \in Seq(A), NEW t \in Seq(A)
    PROVE  IsSuffix(s, t) <=> /\ Len(s) <= Len(t)
                              /\ \A i \in 1..Len(s) : s[i] = t[Len(t) - Len(s) + i]
<1> DEFINE m == Len(s)
           n == Len(t)
           r == Reverse(s)
           q == Reverse(t)
<1>1. m \in Nat /\ n \in Nat /\ (\A i \in 1..m : s[i] \in A) /\ \A i \in 1..n : t[i] \in A
  BY LenProperties, ElementOfSeq
<1>2. r \in Seq(A) /\ Len(r) = m /\ \A i \in 1..m : r[i] = s[m - i + 1]
  <2>1. r = [i \in 1..m |-> s[m - i + 1]] /\ \A i \in 1..m : m - i + 1 \in 1..m
    BY <1>1 DEF Reverse
  <2>2. r \in [1..m -> A]
    BY <1>1, <2>1
  <2> QED
    BY <1>1, <2>1, <2>2
<1>3. q \in Seq(A) /\ Len(q) = n /\ \A i \in 1..n : q[i] = t[n - i + 1]
  <2>1. q = [i \in 1..n |-> t[n - i + 1]] /\ \A i \in 1..n : n - i + 1 \in 1..n
    BY <1>1 DEF Reverse
  <2>2. q \in [1..n -> A]
    BY <1>1, <2>1
  <2> QED
    BY <1>1, <2>1, <2>2
<1>4. IsSuffix(s, t) <=> IsPrefix(r, q)
  BY DEF IsSuffix
<1> HIDE DEF m, n, r, q
<1>5. IsSuffix(s, t) <=> m <= n /\ \A i \in 1..m : r[i] = q[i]
  <2>1. IsPrefix(r, q) <=> Len(r) <= Len(q) /\ \A i \in 1..Len(r) : r[i] = q[i]
    <3>1. r \in Seq(A) /\ q \in Seq(A)
      BY <1>2, <1>3
    <3> QED
      BY <3>1, PrefixIs, SMTT(30)
  <2> QED
    BY <1>2, <1>3, <1>4, <2>1
<1>6. SUFFICES ASSUME m <= n
               PROVE  (\A i \in 1..m : r[i] = q[i]) <=> \A i \in 1..m : s[i] = t[n - m + i]
  BY <1>5 DEF m, n
<1>7. ASSUME \A i \in 1..m : r[i] = q[i], NEW i \in 1..m PROVE s[i] = t[n - m + i]
  <2>1. m - i + 1 \in 1..m /\ m - i + 1 \in 1..n /\ m - (m - i + 1) + 1 = i /\ n - (m - i + 1) + 1 = n - m + i
    BY <1>1, <1>6
  <2> QED
    BY <1>2, <1>3, <1>7, <2>1, SMTT(60)
<1>8. ASSUME \A i \in 1..m : s[i] = t[n - m + i], NEW i \in 1..m PROVE r[i] = q[i]
  <2>1. m - i + 1 \in 1..m /\ i \in 1..n /\ n - m + (m - i + 1) = n - i + 1
    BY <1>1, <1>6
  <2>2. s[m - i + 1] = t[n - m + (m - i + 1)]
    BY <1>8, <2>1
  <2>3. r[i] = s[m - i + 1] /\ q[i] = t[n - i + 1]
    BY <1>2, <1>3, <2>1
  <2> QED
    BY <2>1, <2>2, <2>3
<1> QED
  BY <1>7, <1>8

\* The fixed parts of patterns.
LEMMA NothingFits ==
    ASSUME NEW C, NEW s \in Seq(C)
    PROVE  IsPrefix(<<>>, s) /\ IsSuffix(<<>>, s) /\ Len(<<>>) = 0 /\ Len(s) \in Nat
<1> DEFINE e == <<>>
<1>1. e \in Seq(C) /\ Len(e) = 0
  BY EmptySeq
<1>2. Len(s) \in Nat
  BY LenProperties
<1> HIDE DEF e
<1>3. 1..0 = {} /\ 0 <= Len(s)
  BY <1>2
<1>4. IsPrefix(e, s) /\ IsSuffix(e, s)
  BY <1>1, <1>3, PrefixIs, SuffixIs
<1> QED
  BY <1>1, <1>2, <1>4 DEF e

\* A prefix of one letter.
LEMMA OneLetter ==
    ASSUME NEW C, NEW c \in C, NEW s \in Seq(C)
    PROVE  IsPrefix(<<c>>, s) <=> s # <<>> /\ s[1] = c
<1> DEFINE p == <<c>>
<1>1. p \in Seq(C) /\ Len(p) = 1 /\ p[1] = c
  OBVIOUS
<1>2. Len(s) \in Nat /\ (s # <<>> <=> Len(s) # 0)
  BY LenProperties, EmptySeq
<1> HIDE DEF p
<1>3. IsPrefix(p, s) <=> 1 <= Len(s) /\ \A i \in 1..1 : p[i] = s[i]
  BY <1>1, PrefixIs
<1>4. IsPrefix(p, s) <=> s # <<>> /\ s[1] = c
  BY <1>1, <1>2, <1>3
<1> QED
  BY <1>4 DEF p

\* A prefix and a suffix of two letters.
LEMMA TwoLetters ==
    ASSUME NEW C, NEW c \in C, NEW d \in C, NEW s \in Seq(C)
    PROVE  /\ IsPrefix(<<c, d>>, s) <=> Len(s) >= 2 /\ s[1] = c /\ s[2] = d
           /\ IsSuffix(<<c, d>>, s) <=> Len(s) >= 2 /\ s[Len(s) - 1] = c /\ s[Len(s)] = d
<1> DEFINE p == <<c, d>>
           n == Len(s)
<1>1. p \in Seq(C) /\ Len(p) = 2 /\ p[1] = c /\ p[2] = d
  OBVIOUS
<1>2. n \in Nat
  BY LenProperties
<1> HIDE DEF p
<1>3. IsPrefix(p, s) <=> 2 <= n /\ \A i \in 1..2 : p[i] = s[i]
  <2> p \in Seq(C)
    BY <1>1
  <2>1. IsPrefix(p, s) <=> Len(p) <= Len(s) /\ \A i \in 1..Len(p) : p[i] = s[i]
    BY PrefixIs
  <2> QED
    BY <1>1, <2>1
<1>4. IsSuffix(p, s) <=> 2 <= n /\ \A i \in 1..2 : p[i] = s[n - 2 + i]
  <2> p \in Seq(C)
    BY <1>1
  <2>1. IsSuffix(p, s) <=> Len(p) <= Len(s) /\ \A i \in 1..Len(p) : p[i] = s[Len(s) - Len(p) + i]
    BY SuffixIs
  <2> QED
    BY <1>1, <2>1
<1> HIDE DEF n
<1>5. n - 2 + 1 = n - 1 /\ n - 2 + 2 = n
  BY <1>2
<1>6. (\A i \in 1..2 : p[i] = s[i]) <=> s[1] = c /\ s[2] = d
  BY <1>1
<1>7. (\A i \in 1..2 : p[i] = s[n - 2 + i]) <=> s[n - 1] = c /\ s[n] = d
  BY <1>1, <1>5
<1> QED
  BY <1>2, <1>3, <1>4, <1>6, <1>7 DEF p, n

\* Counting a letter.
LEMMA CountIs ==
    ASSUME NEW C, NEW s \in Seq(C), NEW c
    PROVE  /\ Count(s, c) \in Nat
           /\ Count(s, c) = 0 <=> \A i \in 1..Len(s) : s[i] # c
           /\ \A k : (\A i \in 1..Len(s) : s[i] = c => i = k) => Count(s, c) <= 1
<1> DEFINE I == {i \in DOMAIN s : s[i] = c}
<1>1. Len(s) \in Nat /\ DOMAIN s = 1..Len(s)
  BY LenProperties
<1>2. IsFiniteSet(I)
  <2>1. IsFiniteSet(1..Len(s)) /\ I \in SUBSET (1..Len(s))
    BY <1>1, FS_Interval
  <2> HIDE DEF I
  <2> QED
    BY <2>1, FS_Subset
<1>3. Count(s, c) = Cardinality(I)
  BY DEF Count
<1>4. I = {} <=> \A i \in 1..Len(s) : s[i] # c
  BY <1>1
<1>5. ASSUME NEW k, \A i \in 1..Len(s) : s[i] = c => i = k PROVE Count(s, c) <= 1
  <2>1. I \in SUBSET {k}
    BY <1>1, <1>5
  <2> HIDE DEF I
  <2>2. IsFiniteSet({k}) /\ Cardinality({k}) = 1
    BY FS_Singleton
  <2>3. Cardinality(I) <= Cardinality({k})
    BY <2>1, <2>2, FS_Subset
  <2> QED
    BY <1>3, <2>2, <2>3
<1> HIDE DEF I
<1> QED
  BY <1>2, <1>3, <1>4, <1>5, FS_EmptySet, FS_CardinalityType

\* What a pattern with a wildcard at one place stands for.
LEMMA GlobAt ==
    ASSUME NEW C, STAR \in C, NEW p \in Seq(C), NEW a \in Seq(C), NEW k \in 1..Len(p), p[k] = STAR,
           \A i \in 1..Len(p) : p[i] = STAR => k <= i
    PROVE  Glob(p, a) <=> LET left == SubSeq(p, 1, k - 1)
                              right == SubSeq(p, k + 1, Len(p))
                          IN  /\ IsPrefix(left, a) /\ IsSuffix(right, a)
                              /\ Len(left) + Len(right) <= Len(a)
<1> DEFINE I == {i \in 1..Len(p) : p[i] = STAR}
           star == SelectInSeq(p, LAMBDA char : char = STAR)
<1>1. Len(p) \in Nat /\ k # 0
  BY LenProperties
<1>2. I # {} /\ Min(I) = k
  BY <1>1, FirstIs
<1>3. star = k
  <2>1. star = IF I # {} THEN Min(I) ELSE 0
    BY DEF SelectInSeq
  <2> HIDE DEF I
  <2> QED
    BY <1>2, <2>1
<1> DEFINE Means(at) == LET left == SubSeq(p, 1, at - 1)
                            right == SubSeq(p, at + 1, Len(p))
                        IN  IF at = 0 THEN a = p
                            ELSE /\ IsPrefix(left, a) /\ IsSuffix(right, a)
                                 /\ Len(left) + Len(right) <= Len(a)
<1>4. Glob(p, a) <=> Means(star)
  BY DEF Glob
<1>5. Means(k) <=> LET left == SubSeq(p, 1, k - 1)
                       right == SubSeq(p, k + 1, Len(p))
                   IN  /\ IsPrefix(left, a) /\ IsSuffix(right, a)
                       /\ Len(left) + Len(right) <= Len(a)
  BY <1>1
<1> HIDE DEF star, Means
<1> QED
  BY <1>3, <1>4, <1>5

\* @domain stands for *@domain.
LEMMA DomainMatches ==
    ASSUME NEW C, STAR \in C, AT \in C, NEW p \in Seq(C), p # <<>>, p[1] = AT, NEW a \in Seq(C)
    PROVE  Matches(p, a) <=> Glob(<<STAR>> \o p, a)
<1> DEFINE w == <<STAR>>
           g == w \o p
           n == Len(p)
<1>1. STAR # AT
  BY DEF STAR, AT
<1>2. w \in Seq(C) /\ Len(w) = 1 /\ w[1] = STAR
  OBVIOUS
<1>3. n \in Nat /\ n >= 1 /\ \A i \in 1..n : p[i] \in C
  BY LenProperties, ElementOfSeq, EmptySeq
<1>4. Matches(p, a) <=> IsSuffix(p, a)
  <2>1. p # w /\ ~ IsPrefix(<<STAR, AT>>, p) /\ IsPrefix(<<AT>>, p)
    BY <1>1, <1>2, OneLetter, TwoLetters
  <2> QED
    BY <2>1 DEF Matches
<1> HIDE DEF w, n
<1>5. g \in Seq(C) /\ Len(g) = n + 1 /\ \A i \in 1..(n + 1) : g[i] = IF i <= 1 THEN w[i] ELSE p[i - 1]
  <2>1. /\ w \o p \in Seq(C) /\ Len(w \o p) = Len(w) + n
        /\ \A i \in 1..(Len(w) + n) : (w \o p)[i] = IF i <= Len(w) THEN w[i] ELSE p[i - Len(w)]
    BY <1>2, ConcatProperties DEF n
  <2>2. Len(w) + n = n + 1
    BY <1>2, <1>3
  <2> QED
    BY <1>2, <2>1, <2>2
<1> HIDE DEF g
<1>6. 1 \in 1..Len(g) /\ g[1] = STAR
  BY <1>2, <1>3, <1>5
<1>7. \A i \in 1..Len(g) : g[i] = STAR => 1 <= i
  BY <1>3, <1>5
<1> DEFINE left == SubSeq(g, 1, 0)
           right == SubSeq(g, 2, n + 1)
<1>8. Glob(g, a) <=> IsPrefix(left, a) /\ IsSuffix(right, a) /\ Len(left) + Len(right) <= Len(a)
  <2>1. 1 - 1 = 0 /\ 1 + 1 = 2
    OBVIOUS
  <2> QED
    BY <1>5, <1>6, <1>7, <2>1, GlobAt
<1>9. left = <<>>
  BY SubSeqEmpty
<1>10. right = p
  <2>1. \A i \in 2..(n + 1) : g[i] \in C
    BY <1>3, <1>5
  <2>2. /\ SubSeq(g, 2, n + 1) \in Seq(C)
        /\ Len(SubSeq(g, 2, n + 1)) = IF 2 <= n + 1 THEN n + 1 - 2 + 1 ELSE 0
        /\ \A i \in 1..(n + 1 - 2 + 1) : SubSeq(g, 2, n + 1)[i] = g[2 + i - 1]
    BY <1>3, <2>1, SubSeqProperties
  <2> HIDE DEF right
  <2>3. right \in Seq(C) /\ Len(right) = n /\ \A i \in 1..n : right[i] = g[2 + i - 1]
    <3>1. n + 1 - 2 + 1 = n /\ 2 <= n + 1
      BY <1>3
    <3> QED
      BY <2>2, <3>1 DEF right
  <2>4. \A i \in 1..n : 2 + i - 1 \in 1..(n + 1) /\ 2 + i - 1 - 1 = i /\ ~ (2 + i - 1 <= 1)
    BY <1>3
  <2>5. \A i \in 1..n : right[i] = p[i]
    BY <1>5, <2>3, <2>4
  <2> QED
    BY <2>3, <2>5, SeqEqual DEF n
<1>11. IsSuffix(p, a) => n <= Len(a)
  BY SuffixIs DEF n
<1>12. IsPrefix(<<>>, a) /\ Len(<<>>) = 0
  BY NothingFits
<1> HIDE DEF left, right
<1>13. Glob(g, a) <=> IsSuffix(p, a) /\ 0 + n <= Len(a)
  BY <1>8, <1>9, <1>10, <1>12 DEF n
<1>14. 0 + n = n
  BY <1>3
<1> QED
  BY <1>4, <1>11, <1>13, <1>14 DEF g, w

\* *@domain stands for what ends with @domain.
LEMMA AnyoneMatches ==
    ASSUME NEW C, STAR \in C, AT \in C, NEW p \in Seq(C), NEW a \in Seq(C),
           IsPrefix(<<STAR, AT>>, p), Address(Tail(p))
    PROVE  /\ p # <<>> /\ p[1] # AT /\ Count(p, STAR) <= 1
           /\ Matches(p, a) <=> Glob(p, a)
<1> DEFINE n == Len(p)
           t == Tail(p)
<1>1. STAR # AT
  BY DEF STAR, AT
<1>2. n \in Nat /\ n >= 2 /\ p[1] = STAR /\ p[2] = AT
  BY TwoLetters, LenProperties
<1>3. p # <<>>
  BY <1>2
<1>4. t \in Seq(C) /\ Len(t) = n - 1 /\ \A i \in 1..(n - 1) : t[i] = p[i + 1]
  BY <1>3, HeadTailProperties
<1>5. \A i \in 1..(n - 1) : t[i] # STAR
  BY <1>4, CountIs DEF Address
<1> HIDE DEF t
<1>6. \A i \in 1..n : p[i] = STAR => i = 1
  <2>1. ASSUME NEW i \in 1..n, i # 1 PROVE p[i] # STAR
    <3>1. i - 1 \in 1..(n - 1) /\ (i - 1) + 1 = i
      BY <1>2, <2>1
    <3>2. t[i - 1] = p[i]
      BY <1>4, <3>1
    <3> QED
      BY <1>5, <3>1, <3>2
  <2> QED
    BY <2>1
<1>7. Count(p, STAR) <= 1
  BY <1>6, CountIs
<1>8. Matches(p, a) <=> IsSuffix(t, a)
  <2>1. p # <<STAR>>
    <3> DEFINE w == <<STAR>>
    <3>1. Len(w) = 1
      OBVIOUS
    <3> HIDE DEF w
    <3>2. p # w
      BY <1>2, <3>1
    <3> QED
      BY <3>2 DEF w
  <2> QED
    BY <2>1 DEF Matches, t
<1>9. Glob(p, a) <=> LET left == SubSeq(p, 1, 0)
                         right == SubSeq(p, 2, n)
                     IN  IsPrefix(left, a) /\ IsSuffix(right, a) /\ Len(left) + Len(right) <= Len(a)
  <2>1. 1 \in 1..n /\ (\A i \in 1..n : p[i] = STAR => 1 <= i) /\ 1 - 1 = 0 /\ 1 + 1 = 2
    BY <1>2
  <2> QED
    BY <1>2, <2>1, GlobAt
<1>10. SubSeq(p, 1, 0) = <<>> /\ SubSeq(p, 2, n) = t
  <2>1. SubSeq(p, 1, 0) = <<>>
    BY SubSeqEmpty
  <2>2. \A i \in 2..n : p[i] \in C
    BY <1>2, ElementOfSeq
  <2>3. /\ SubSeq(p, 2, n) \in Seq(C)
        /\ Len(SubSeq(p, 2, n)) = IF 2 <= n THEN n - 2 + 1 ELSE 0
        /\ \A i \in 1..(n - 2 + 1) : SubSeq(p, 2, n)[i] = p[2 + i - 1]
    BY <1>2, <2>2, SubSeqProperties
  <2> DEFINE r == SubSeq(p, 2, n)
  <2>4. r \in Seq(C) /\ Len(r) = n - 1 /\ \A i \in 1..(n - 1) : r[i] = t[i]
    <3>1. n - 2 + 1 = n - 1 /\ 2 <= n /\ \A i \in 1..(n - 1) : 2 + i - 1 = i + 1
      BY <1>2
    <3> QED
      BY <1>4, <2>3, <3>1
  <2> HIDE DEF r
  <2>5. r = t
    BY <1>4, <2>4, SeqEqual
  <2> QED
    BY <2>1, <2>5 DEF r
<1>11. IsSuffix(t, a) => Len(t) <= Len(a)
  BY <1>4, SuffixIs
<1>12. IsPrefix(<<>>, a) /\ Len(<<>>) = 0 /\ 0 + Len(t) = Len(t)
  BY <1>2, <1>4, NothingFits
<1>13. Glob(p, a) <=> IsSuffix(t, a) /\ 0 + Len(t) <= Len(a)
  BY <1>9, <1>10, <1>12
<1> QED
  BY <1>1, <1>2, <1>3, <1>7, <1>8, <1>11, <1>12, <1>13

\* local@* stands for what begins with local@; @* is read as *@*.
LEMMA EverywhereMatches ==
    ASSUME NEW C, STAR \in C, AT \in C, NEW p \in Seq(C), NEW a \in Seq(C),
           IsSuffix(<<AT, STAR>>, p), Address(Front(p))
    PROVE  /\ p # <<>> /\ Count(p, STAR) <= 1
           /\ p[1] # AT => (Matches(p, a) <=> Glob(p, a))
<1> DEFINE n == Len(p)
           f == Front(p)
<1>1. STAR # AT
  BY DEF STAR, AT
<1>2. n \in Nat /\ n >= 2 /\ p[n - 1] = AT /\ p[n] = STAR
  BY TwoLetters, LenProperties
<1>3. p # <<>>
  BY <1>2
<1>4. f \in Seq(C) /\ Len(f) = n - 1 /\ f = SubSeq(p, 1, n - 1) /\ p = Append(f, Last(p)) /\ Last(p) \in C
  BY <1>3, FrontOf DEF Front
<1>5. \A i \in 1..(n - 1) : f[i] = p[i]
  BY <1>4, AppendProperties
<1>6. \A i \in 1..(n - 1) : f[i] # STAR
  BY <1>4, CountIs DEF Address
<1> HIDE DEF f
<1>7. \A i \in 1..n : p[i] = STAR => i = n
  BY <1>2, <1>5, <1>6, SMTT(60)
<1>8. Count(p, STAR) <= 1
  BY <1>7, CountIs
<1>9. ASSUME p[1] # AT PROVE Matches(p, a) <=> Glob(p, a)
  <2>1. p[1] # STAR
    BY <1>2, <1>5, <1>6
  <2>2. p # <<STAR>> /\ ~ IsPrefix(<<STAR, AT>>, p) /\ ~ IsPrefix(<<AT>>, p)
    BY <1>9, <2>1, OneLetter, TwoLetters
  <2>3. Matches(p, a) <=> IsPrefix(f, a)
    BY <2>2 DEF Matches, f
  <2>4. Glob(p, a) <=> LET left == SubSeq(p, 1, n - 1)
                           right == SubSeq(p, n + 1, n)
                       IN  IsPrefix(left, a) /\ IsSuffix(right, a) /\ Len(left) + Len(right) <= Len(a)
    <3>1. n \in 1..n /\ \A i \in 1..n : p[i] = STAR => n <= i
      BY <1>2, <1>7
    <3> QED
      BY <1>2, <3>1, GlobAt
  <2>5. SubSeq(p, n + 1, n) = <<>>
    BY <1>2, SubSeqEmpty
  <2>6. IsPrefix(f, a) => Len(f) <= Len(a)
    BY <1>4, PrefixIs
  <2>7. IsSuffix(<<>>, a) /\ Len(<<>>) = 0 /\ Len(f) + 0 = Len(f)
    BY <1>2, <1>4, NothingFits
  <2>8. Glob(p, a) <=> IsPrefix(f, a) /\ Len(f) + 0 <= Len(a)
    BY <1>4, <2>4, <2>5, <2>7
  <2> QED
    BY <2>3, <2>6, <2>7, <2>8
<1> QED
  BY <1>3, <1>8, <1>9

\* An address stands for itself.
LEMMA AddressMatches ==
    ASSUME NEW C, STAR \in C, AT \in C, NEW p \in Seq(C), NEW a \in Seq(C), Address(p)
    PROVE  /\ p # <<>> /\ Count(p, STAR) <= 1
           /\ p[1] # AT => (Matches(p, a) <=> Glob(p, a))
<1> DEFINE n == Len(p)
<1>1. n \in Nat
  BY LenProperties
<1>2. \A i \in 1..n : p[i] # STAR
  BY CountIs DEF Address
<1>3. n # 0 /\ p # <<>>
  <2>1. ASSUME n = 0 PROVE FALSE
    <3>1. \A i \in 1..n : p[i] # AT
      BY <2>1
    <3>2. Count(p, AT) = 0
      BY <3>1, CountIs
    <3> QED
      BY <3>2 DEF Address
  <2>2. n # 0
    BY <2>1
  <2> QED
    BY <2>2
<1>4. ASSUME p[1] # AT PROVE Matches(p, a) <=> Glob(p, a)
  <2>1. p[1] # STAR /\ p[n] # STAR
    BY <1>1, <1>2, <1>3
  <2>2. p # <<STAR>> /\ ~ IsPrefix(<<STAR, AT>>, p) /\ ~ IsPrefix(<<AT>>, p) /\ ~ IsSuffix(<<AT, STAR>>, p)
    BY <1>4, <2>1, OneLetter, TwoLetters
  <2>3. Matches(p, a) <=> a = p
    BY <2>2 DEF Matches
  <2>4. Glob(p, a) <=> a = p
    <3> DEFINE I == {i \in 1..Len(p) : p[i] = STAR}
               star == SelectInSeq(p, LAMBDA char : char = STAR)
               left == SubSeq(p, 1, star - 1)
               right == SubSeq(p, star + 1, Len(p))
    <3>1. I = {}
      BY <1>2
    <3>2. star = IF I # {} THEN Min(I) ELSE 0
      BY DEF SelectInSeq
    <3>3. star = 0
      BY <3>1, <3>2
    <3>4. Glob(p, a) <=> IF star = 0 THEN a = p
                         ELSE /\ IsPrefix(left, a) /\ IsSuffix(right, a)
                              /\ Len(left) + Len(right) <= Len(a)
      BY DEF Glob
    <3> HIDE DEF star
    <3> QED
      BY <3>3, <3>4
  <2> QED
    BY <2>3, <2>4
<1> QED
  BY <1>3, <1>4 DEF Address

\* The wildcard alone stands for everything.
LEMMA StarMatches ==
    ASSUME NEW C, STAR \in C, AT \in C, NEW a \in Seq(C)
    PROVE  LET p == <<STAR>>
           IN  p # <<>> /\ Count(p, STAR) <= 1 /\ p[1] # AT /\ Matches(p, a) /\ Glob(p, a)
<1> DEFINE p == <<STAR>>
<1>1. STAR # AT
  BY DEF STAR, AT
<1>2. p \in Seq(C) /\ Len(p) = 1 /\ p[1] = STAR /\ p # <<>>
  OBVIOUS
<1>3. Matches(p, a)
  BY DEF Matches
<1> HIDE DEF p
<1>4. Count(p, STAR) <= 1
  <2>1. \A i \in 1..Len(p) : p[i] = STAR => i = 1
    BY <1>2
  <2> QED
    BY <1>2, <2>1, CountIs
<1>5. Glob(p, a) <=> LET left == SubSeq(p, 1, 0)
                         right == SubSeq(p, 2, 1)
                     IN  IsPrefix(left, a) /\ IsSuffix(right, a) /\ Len(left) + Len(right) <= Len(a)
  <2>1. 1 \in 1..Len(p) /\ (\A i \in 1..Len(p) : p[i] = STAR => 1 <= i) /\ 1 - 1 = 0 /\ 1 + 1 = 2
    BY <1>2
  <2> QED
    BY <1>2, <2>1, GlobAt
<1>6. SubSeq(p, 1, 0) = <<>> /\ SubSeq(p, 2, 1) = <<>>
  BY SubSeqEmpty
<1>7. IsPrefix(<<>>, a) /\ IsSuffix(<<>>, a) /\ Len(<<>>) = 0 /\ 0 + 0 <= Len(a)
  BY NothingFits
<1>8. Glob(p, a)
  BY <1>5, <1>6, <1>7
<1> QED
  BY <1>1, <1>2, <1>3, <1>4, <1>8 DEF p

\* A pattern of a documented form matches just what it stands for.
THEOREM PatternsCorrect ==
    ASSUME NEW C, STAR \in C, AT \in C, NEW p \in Seq(C), NEW a \in Seq(C)
    PROVE  PatternsMatch(p, a)
<1> SUFFICES ASSUME Documented(p)
             PROVE  /\ p # <<>> /\ Count(p, STAR) <= 1
                    /\ p[1] # AT => (Matches(p, a) <=> Glob(p, a))
  BY DomainMatches DEF PatternsMatch, Valid
<1>1. CASE p = <<STAR>>
  BY <1>1, StarMatches
<1>2. CASE Address(p)
  BY <1>2, AddressMatches
<1>3. CASE IsPrefix(<<STAR, AT>>, p) /\ Address(Tail(p))
  BY <1>3, AnyoneMatches
<1>4. CASE IsSuffix(<<AT, STAR>>, p) /\ Address(Front(p))
  BY <1>4, EverywhereMatches
<1> QED
  BY <1>1, <1>2, <1>3, <1>4 DEF Documented

-----------------------------------------------------------------------------
(* Where the header ends                                                   *)

\* Lines are taken or left out, one by one.
LEMMA NonEmptyIs ==
    /\ NonEmpty[<<>>] = <<>>
    /\ \A p \in Seq(Seq(Octets)) : NonEmpty[p] \in Seq(Seq(Octets))
    /\ \A p \in Seq(Seq(Octets)), x \in Seq(Octets) :
            NonEmpty[Append(p, x)] = IF x = <<>> THEN NonEmpty[p] ELSE Append(NonEmpty[p], x)
<1> DEFINE A == Seq(Octets)
           B == Seq(A)
           base == <<>>
           step == [b \in B |-> [x \in A |-> IF x = <<>> THEN b ELSE Append(b, x)]]
           Rule(f, s) == IF s = <<>> THEN <<>>
                         ELSE IF Last(s) = <<>> THEN f[Front(s)]
                         ELSE Append(f[Front(s)], Last(s))
<1>1. base \in B
  BY EmptySeq
<1>2. \A b \in B, x \in A : /\ step[b][x] \in B
                            /\ step[b][x] = IF x = <<>> THEN b ELSE Append(b, x)
  BY AppendProperties
<1>3. \A g, s : s # <<>> => Rule(g, s) = LET b == g[Front(s)] x == Last(s)
                                         IN  IF x = <<>> THEN b ELSE Append(b, x)
  OBVIOUS
<1>4. \A g : Rule(g, <<>>) = base
  OBVIOUS
<1>5. NonEmpty = CHOOSE g : g = [s \in Seq(A) |-> Rule(g, s)]
  BY DEF NonEmpty
<1> HIDE DEF A, B, base, step, Rule
<1>6. Steps(A, B, base, step)
  BY <1>1, <1>2 DEF Steps
<1>7. PICK f \in [Seq(A) -> B] :
        /\ f[<<>>] = base
        /\ \A s \in Seq(A) \ {<<>>} : f[s] = step[f[Front(s)]][Last(s)]
  BY <1>6, FoldExists
<1>8. ASSUME NEW g, NEW s \in Seq(A) \ {<<>>}, g[Front(s)] \in B
      PROVE  Rule(g, s) = step[g[Front(s)]][Last(s)]
  <2>1. Last(s) \in A
    BY FrontOf
  <2>2. Rule(g, s) = LET b == g[Front(s)] x == Last(s)
                     IN  IF x = <<>> THEN b ELSE Append(b, x)
    BY <1>3
  <2> QED
    BY <1>2, <1>8, <2>1, <2>2
<1>9. f = [s \in Seq(A) |-> Rule(f, s)]
  <2>1. ASSUME NEW s \in Seq(A), s # <<>> PROVE f[s] = Rule(f, s)
    <3>1. f[Front(s)] \in B
      BY <1>7, <2>1, FrontOf
    <3> QED
      BY <1>7, <1>8, <2>1, <3>1
  <2>2. \A s \in Seq(A) : f[s] = Rule(f, s)
    BY <1>4, <1>7, <2>1
  <2> QED
    BY <1>7, <2>2
<1>10. NonEmpty = [s \in Seq(A) |-> Rule(NonEmpty, s)]
  BY <1>5, <1>9
<1>11. NonEmpty[<<>>] = base
  <2>1. <<>> \in Seq(A)
    BY EmptySeq
  <2> QED
    BY <1>4, <1>10, <2>1
<1>12. \A s \in Seq(A) \ {<<>>} :
         NonEmpty[Front(s)] \in B => NonEmpty[s] = step[NonEmpty[Front(s)]][Last(s)]
  BY <1>8, <1>10
<1>13. /\ \A s \in Seq(A) : NonEmpty[s] \in B
       /\ \A s \in Seq(A), x \in A : NonEmpty[Append(s, x)] = step[NonEmpty[s]][x]
  BY <1>6, <1>11, <1>12, FoldIs
<1>14. \A s \in Seq(A), x \in A :
         NonEmpty[Append(s, x)] = IF x = <<>> THEN NonEmpty[s] ELSE Append(NonEmpty[s], x)
  BY <1>2, <1>13
<1> QED
  BY <1>11, <1>13, <1>14 DEF A, B, base

\* Line ends of one kind, lines with neither of their octets, and the text of
\* lines that end with them.
Seps == {<<LF>>, End}
Clean == Octets \ {CR, LF}
Ended(sep, lines) == Flat[[i \in DOMAIN lines |-> lines[i] \o sep]]

\* Such octets are octets of lines; such line ends have one octet or two.
LEMMA CleanText ==
    /\ Clean \subseteq Plain /\ Seq(Clean) \subseteq Seq(Plain)
    /\ Seq(Clean) \subseteq Seq(Octets) /\ Seq(Seq(Clean)) \subseteq LineLists
    /\ \A o \in Clean : o \in Octets /\ o # CR /\ o # LF
    /\ \A sep \in Seps : sep \in Seq(Octets)
<1>1. Clean \subseteq Plain
  BY DEF Clean, Plain
<1>2. Seq(Clean) \subseteq Seq(Plain)
  BY <1>1, SeqMonotonic
<1>3. Seq(Clean) \subseteq Seq(Octets)
  BY <1>2, PlainText
<1>4. Seq(Seq(Clean)) \subseteq LineLists
  BY <1>2, SeqMonotonic DEF LineLists
<1>5. \A o \in Clean : o \in Octets /\ o # CR /\ o # LF
  BY DEF Clean
<1>6. \A sep \in Seps : sep \in Seq(Octets)
  <2>1. <<LF>> \in Seq(Octets) /\ End \in Seq(Octets)
    BY Letters, EndIs
  <2> QED
    BY <2>1 DEF Seps
<1> QED
  BY <1>1, <1>2, <1>3, <1>4, <1>5, <1>6

\* The text of lines grows line by line.
LEMMA EndedIs ==
    ASSUME NEW sep \in Seps
    PROVE  /\ Ended(sep, <<>>) = <<>>
           /\ \A ls \in Seq(Seq(Clean)) : Ended(sep, ls) \in Seq(Octets)
           /\ \A ls \in Seq(Seq(Clean)), l \in Seq(Clean) :
                    Ended(sep, Append(ls, l)) = Ended(sep, ls) \o (l \o sep)
<1> DEFINE A == Seq(Clean)
           B == Seq(Octets)
           f == [l \in A |-> l \o sep]
<1>1. Maps(f, A, B) /\ \A l \in A : f[l] = l \o sep /\ f[l] \in B
  <2>1. \A l \in A : l \in B /\ sep \in B
    BY CleanText
  <2>2. \A l \in A : l \o sep \in B
    BY <2>1, ConcatProperties
  <2> QED
    BY <2>2 DEF Maps
<1>2. ASSUME NEW ls \in Seq(A) PROVE Ended(sep, ls) = Flat[Map(f, ls)]
  <2>1. \A i \in DOMAIN ls : ls[i] \in A
    BY ElementOfSeq, LenProperties
  <2>2. [i \in DOMAIN ls |-> ls[i] \o sep] = Map(f, ls)
    BY <2>1 DEF Map
  <2> QED
    BY <2>2 DEF Ended
<1>3. <<>> \in Seq(A)
  BY EmptySeq
<1>4. \A ls \in Seq(A), l \in A : Append(ls, l) \in Seq(A)
  BY AppendProperties
<1> HIDE DEF f, A, B
<1>5. /\ Map(f, <<>>) = <<>>
      /\ \A s \in Seq(A) : Map(f, s) \in Seq(B)
      /\ \A s \in Seq(A), x \in A : Map(f, Append(s, x)) = Append(Map(f, s), f[x])
  BY <1>1, MapIs
<1>6. /\ Flat[<<>>] = <<>>
      /\ \A p \in Seq(B) : Flat[p] \in B
      /\ \A p \in Seq(B), x \in B : Flat[Append(p, x)] = Flat[p] \o x
  BY FlatIs DEF B
<1>7. Ended(sep, <<>>) = <<>>
  BY <1>2, <1>3, <1>5, <1>6
<1>8. \A ls \in Seq(A) : Ended(sep, ls) \in B
  BY <1>2, <1>5, <1>6
<1>9. ASSUME NEW ls \in Seq(A), NEW l \in A
      PROVE  Ended(sep, Append(ls, l)) = Ended(sep, ls) \o (l \o sep)
  <2>1. Append(ls, l) \in Seq(A)
    BY <1>4
  <2>2. Ended(sep, Append(ls, l)) = Flat[Map(f, Append(ls, l))] /\ Ended(sep, ls) = Flat[Map(f, ls)]
    BY <1>2, <2>1
  <2>3. Map(f, Append(ls, l)) = Append(Map(f, ls), f[l]) /\ f[l] = l \o sep /\ f[l] \in B
    BY <1>1, <1>5
  <2>4. Map(f, ls) \in Seq(B)
    BY <1>5
  <2>5. Flat[Append(Map(f, ls), f[l])] = Flat[Map(f, ls)] \o f[l]
    BY <1>6, <2>3, <2>4
  <2> QED
    BY <2>2, <2>3, <2>5
<1> QED
  BY <1>7, <1>8, <1>9 DEF A, B

\* A clean line ends with no carriage return.
LEMMA CleanTrim == \A l \in Seq(Clean) : TrimSuffix(l, CR) = l
<1> SUFFICES ASSUME NEW l \in Seq(Clean) PROVE TrimSuffix(l, CR) = l
  OBVIOUS
<1>1. CASE l = <<>>
  BY <1>1, TrimIs, Letters, EmptySeq
<1>2. CASE l # <<>>
  <2>1. Front(l) \in Seq(Clean) /\ Last(l) \in Clean /\ l = Append(Front(l), Last(l))
    BY <1>2, FrontOf
  <2>2. Front(l) \in Seq(Octets) /\ Last(l) \in Octets /\ Last(l) # CR /\ CR \in Octets
    BY <2>1, CleanText, Letters
  <2>3. TrimSuffix(Append(Front(l), Last(l)), CR) = Append(Front(l), Last(l))
    BY <2>2, TrimIs
  <2> QED
    BY <2>1, <2>3
<1> QED
  BY <1>1, <1>2

\* One more line of a text is one more of what it is split into.
LEMMA SplitEndedLine ==
    ASSUME NEW sep \in Seps, NEW s \in Seq(Octets), NEW r \in LineLists,
           Split[s] = Append(r, <<>>), NEW l \in Seq(Clean)
    PROVE  \E more \in LineLists :
                /\ Split[s \o (l \o sep)] = Append(more, <<>>)
                /\ Trims(more) = Append(Trims(r), l)
<1>1. l \in Seq(Plain) /\ l \in Seq(Octets) /\ <<>> \in Seq(Plain)
  BY CleanText, EmptySeq
<1>2. Front(Split[s]) = r /\ Last(Split[s]) = <<>>
  BY <1>1, FrontLast, ZenonT(60) DEF LineLists
<1>3. <<>> \o l = l
  BY <1>1, ConcatEmptySeq
<1>4. CASE sep = <<LF>>
  <2>1. Split[s \o l] = Append(r, l)
    BY <1>1, <1>2, <1>3, SplitLine
  <2>2. s \o l \in Seq(Octets) /\ <<LF>> \in Seq(Octets) /\ LF \in Octets
    BY <1>1, Letters, ConcatProperties
  <2>3. s \o (l \o <<LF>>) = Append(s \o l, LF)
    BY <1>1, <2>2, ConcatAssociative, AppendIsConcat
  <2>4. Split[Append(s \o l, LF)] = Append(Split[s \o l], <<>>)
    BY <2>2, SplitIs DEF SplitMore
  <2>5. Append(r, l) \in LineLists
    BY <1>1, AppendProperties DEF LineLists
  <2>6. Trims(Append(r, l)) = Append(Trims(r), TrimSuffix(l, CR))
    BY <1>1, TrimsIs
  <2> QED
    BY <1>4, <2>1, <2>3, <2>4, <2>5, <2>6, CleanTrim
<1>5. CASE sep = End
  <2> DEFINE m == l \o <<CR>>
  <2>1. m \in Seq(Plain) /\ TrimSuffix(m, CR) = l
    BY <1>1, EndIs, ConcatProperties, TrimCr
  <2>2. <<>> \o m = m
    BY <2>1, ConcatEmptySeq
  <2>3. Split[s \o (l \o End)] = Append(Append(r, <<>> \o m), <<>>)
    BY <1>1, <1>2, SplitEnd
  <2> HIDE DEF m
  <2>4. Append(r, m) \in LineLists
    BY <2>1, AppendProperties DEF LineLists
  <2>5. Trims(Append(r, m)) = Append(Trims(r), TrimSuffix(m, CR))
    BY <2>1, TrimsIs
  <2> QED
    BY <1>5, <2>1, <2>2, <2>3, <2>4, <2>5
<1> QED
  BY <1>4, <1>5 DEF Seps

\* So Split finds the lines that a text is made of.
LEMMA SplitEnded ==
    ASSUME NEW sep \in Seps, NEW ls \in Seq(Seq(Clean))
    PROVE  \E r \in LineLists : Split[Ended(sep, ls)] = Append(r, <<>>) /\ Trims(r) = ls
<1> DEFINE A == Seq(Clean)
           P == {ms \in Seq(A) :
                    \E r \in LineLists : Split[Ended(sep, ms)] = Append(r, <<>>) /\ Trims(r) = ms}
<1>1. <<>> \in P
  <2>1. <<>> \in LineLists /\ <<>> \in Seq(A) /\ Append(<<>>, <<>>) = << <<>> >>
    BY EmptySeq DEF LineLists
  <2>2. Trims(<<>>) = <<>>
    BY DEF Trims
  <2> QED
    BY <2>1, <2>2, EndedIs, SplitIs
<1>2. ASSUME NEW ms \in Seq(A), NEW l \in A, ms \in P PROVE Append(ms, l) \in P
  <2>1. PICK r \in LineLists : Split[Ended(sep, ms)] = Append(r, <<>>) /\ Trims(r) = ms
    BY <1>2
  <2>2. /\ Ended(sep, ms) \in Seq(Octets) /\ Append(ms, l) \in Seq(A)
        /\ Ended(sep, Append(ms, l)) = Ended(sep, ms) \o (l \o sep)
    BY EndedIs, AppendProperties
  <2>3. \E more \in LineLists :
            /\ Split[Ended(sep, ms) \o (l \o sep)] = Append(more, <<>>)
            /\ Trims(more) = Append(Trims(r), l)
    BY <2>1, <2>2, SplitEndedLine
  <2> QED
    BY <2>1, <2>2, <2>3
<1> HIDE DEF P
<1>3. Seq(A) \subseteq P
  BY <1>1, <1>2, SeqInduction
<1> QED
  BY <1>3 DEF P

\* And one line behind them, that has no end.
LEMMA SplitBoth ==
    ASSUME NEW sep \in Seps, NEW ls \in Seq(Seq(Clean)), NEW l \in Seq(Clean)
    PROVE  \E r \in LineLists :
                /\ Split[Ended(sep, ls) \o l] = Append(r, l) /\ Trims(r) = ls
                /\ Trims(Append(r, l)) = Append(ls, l)
<1>1. PICK r \in LineLists : Split[Ended(sep, ls)] = Append(r, <<>>) /\ Trims(r) = ls
  BY SplitEnded
<1>2. l \in Seq(Plain) /\ l \in Seq(Octets) /\ <<>> \in Seq(Plain) /\ Ended(sep, ls) \in Seq(Octets)
  BY CleanText, EndedIs, EmptySeq
<1>3. Front(Append(r, <<>>)) = r /\ Last(Append(r, <<>>)) = <<>>
  BY <1>2, FrontLast DEF LineLists
<1>4. Split[Ended(sep, ls) \o l] = Append(r, <<>> \o l)
  BY <1>1, <1>2, <1>3, SplitLine
<1>5. <<>> \o l = l
  BY <1>2, ConcatEmptySeq
<1>6. Trims(Append(r, l)) = Append(Trims(r), TrimSuffix(l, CR))
  BY <1>2, TrimsIs
<1> QED
  BY <1>1, <1>4, <1>5, <1>6, CleanTrim

\* The last octet of a text is that of its last piece, if this has one.
LEMMA LastOctet ==
    ASSUME NEW A, NEW s \in Seq(A), NEW l \in Seq(A), l # <<>>
    PROVE  /\ s \o Front(l) \in Seq(A) /\ Last(l) \in A
           /\ s \o l = Append(s \o Front(l), Last(l)) /\ s \o l # <<>>
<1>1. PICK f \in Seq(A), o \in A : l = Append(f, o) /\ f = Front(l) /\ o = Last(l)
  BY FrontOf
<1>2. s \o Append(f, o) = Append(s \o f, o)
  BY AppendLast
<1>3. s \o f \in Seq(A)
  BY ConcatProperties
<1>4. Append(s \o f, o) # <<>>
  BY <1>3, FrontLast
<1> QED
  BY <1>1, <1>2, <1>3, <1>4

\* The end of a line is a line feed, and a carriage return before it or not.
LEMMA TextAndEnd ==
    ASSUME NEW sep \in Seps, NEW u \in Seq(Octets)
    PROVE  \E w \in Seq(Octets) : /\ u \o sep = Append(w, LF)
                                  /\ TrimSuffix(u, CR) = u => TrimSuffix(w, CR) = u
<1>1. CR \in Octets /\ LF \in Octets /\ <<CR>> \in Seq(Octets) /\ <<LF>> \in Seq(Octets)
  BY Letters
<1>2. CASE sep = <<LF>>
  BY <1>1, <1>2, AppendIsConcat
<1>3. CASE sep = End
  <2> DEFINE w == Append(u, CR)
  <2>1. w \in Seq(Octets) /\ u \o <<CR>> = w /\ TrimSuffix(w, CR) = u
    BY <1>1, AppendProperties, AppendIsConcat, TrimIs
  <2>2. u \o (<<CR>> \o <<LF>>) = (u \o <<CR>>) \o <<LF>>
    BY <1>1, ConcatAssociative
  <2> HIDE DEF w
  <2>3. w \o <<LF>> = Append(w, LF)
    BY <1>1, <2>1, AppendIsConcat
  <2> QED
    BY <1>3, <2>1, <2>2, <2>3, EndIs
<1> QED
  BY <1>2, <1>3 DEF Seps

\* Texts one behind the other.
LEMMA TextBehind ==
    ASSUME NEW s \in Seq(Octets), NEW t \in Seq(Octets), NEW u \in Seq(Octets)
    PROVE  s \o t \in Seq(Octets) /\ s \o (t \o u) = (s \o t) \o u
BY ConcatProperties, ConcatAssociative, SMTT(60)

\* Texts one behind another, in whatever way they are put together.
Groups(s, t, u) == s \o (t \o u) = (s \o t) \o u

\* Three texts.
LEMMA Grouped ==
    ASSUME NEW s \in Seq(Octets), NEW t \in Seq(Octets), NEW u \in Seq(Octets)
    PROVE  Groups(s, t, u)
BY TextBehind, SMTT(60) DEF Groups

\* The text of lines is that of all but the last, and the last with its end.
LEMMA EndedLast ==
    ASSUME NEW sep \in Seps, NEW ls \in Seq(Seq(Clean)), ls # <<>>
    PROVE  \E q \in Seq(Seq(Clean)), m \in Seq(Clean) :
                /\ ls = Append(q, m)
                /\ Ended(sep, q) \o m \in Seq(Octets)
                /\ Ended(sep, ls) = (Ended(sep, q) \o m) \o sep
<1>1. PICK q \in Seq(Seq(Clean)), m \in Seq(Clean) : ls = Append(q, m)
  BY FrontOf
<1> DEFINE t == Ended(sep, q)
<1>2. t \in Seq(Octets) /\ m \in Seq(Octets) /\ sep \in Seq(Octets) /\ Ended(sep, ls) = t \o (m \o sep)
  BY <1>1, EndedIs, CleanText
<1> HIDE DEF t
<1>3. t \o m \in Seq(Octets) /\ t \o (m \o sep) = (t \o m) \o sep
  BY <1>2, TextBehind, SMTT(60)
<1> QED
  BY <1>1, <1>2, <1>3 DEF t

\* Behind the end of a line, or in a line, there is no carriage return.
LEMMA EndedTrim ==
    ASSUME NEW sep \in Seps, NEW ls \in Seq(Seq(Clean)), NEW l \in Seq(Clean)
    PROVE  /\ Ended(sep, ls) \o l \in Seq(Octets)
           /\ TrimSuffix(Ended(sep, ls) \o l, CR) = Ended(sep, ls) \o l
           /\ l # <<>> => TrimSuffix(Ended(sep, ls) \o l, LF) = Ended(sep, ls) \o l
<1> DEFINE t == Ended(sep, ls)
           s == t \o l
<1>1. t \in Seq(Octets) /\ l \in Seq(Octets) /\ CR \in Octets /\ LF \in Octets /\ LF # CR
  BY CleanText, EndedIs, Letters
<1> HIDE DEF t
<1>2. s \in Seq(Octets)
  BY <1>1, ConcatProperties
<1>3. CASE l # <<>>
  <2>1. Last(l) \in Clean
    BY <1>3, FrontOf
  <2>2. PICK u \in Seq(Octets), o \in Octets : o = Last(l) /\ s = Append(u, o)
    BY <1>1, <1>3, LastOctet
  <2>3. o # CR /\ o # LF
    BY <2>1, <2>2, CleanText
  <2>4. TrimSuffix(Append(u, o), CR) = Append(u, o) /\ TrimSuffix(Append(u, o), LF) = Append(u, o)
    BY <1>1, <2>3, TrimIs, ZenonT(60)
  <2> QED
    BY <1>2, <2>2, <2>4 DEF t
<1>4. CASE l = <<>> /\ ls = <<>>
  <2>1. t = <<>> /\ s = <<>>
    BY <1>4, EndedIs DEF t
  <2> QED
    BY <1>2, <1>4, <2>1, TrimIs, Letters DEF t
<1>5. CASE l = <<>> /\ ls # <<>>
  <2>1. PICK u \in Seq(Octets) : t = u \o sep
    BY <1>5, EndedLast DEF t
  <2>2. PICK w \in Seq(Octets) : u \o sep = Append(w, LF)
    BY TextAndEnd
  <2>3. s = t
    BY <1>1, <1>5, ConcatEmptySeq
  <2>4. TrimSuffix(Append(w, LF), CR) = Append(w, LF)
    BY <1>1, TrimIs
  <2> QED
    BY <1>2, <1>5, <2>1, <2>2, <2>3, <2>4 DEF t
<1> QED
  BY <1>3, <1>4, <1>5

\* The lines of POP3: what follows the last end is a line if there is anything.
LEMMA SplitLinesIs ==
    ASSUME NEW sep \in Seps, NEW ls \in Seq(Seq(Clean)), NEW l \in Seq(Clean)
    PROVE  SplitLines(Ended(sep, ls) \o l) = IF l = <<>> THEN ls ELSE Append(ls, l)
<1> DEFINE t == Ended(sep, ls)
           s == t \o l
           cut(x) == TrimSuffix(TrimSuffix(x, LF), CR)
<1>1. SplitLines(s) = IF s = <<>> THEN <<>> ELSE Trims(Split[cut(s)])
  BY DEF SplitLines, Trims
<1>2. t \in Seq(Octets) /\ l \in Seq(Octets) /\ LF \in Octets /\ CR \in Octets
  BY CleanText, EndedIs, Letters
<1>3. CASE l # <<>>
  <2>1. TrimSuffix(s, LF) = s /\ TrimSuffix(s, CR) = s
    BY <1>3, EndedTrim
  <2>2. Trims(Split[s]) = Append(ls, l)
    <3>1. PICK r \in LineLists :
            Split[Ended(sep, ls) \o l] = Append(r, l) /\ Trims(Append(r, l)) = Append(ls, l)
      BY SplitBoth
    <3> QED
      BY <3>1
  <2> HIDE DEF t
  <2>3. s # <<>>
    BY <1>2, <1>3, LastOctet
  <2> HIDE DEF s
  <2> QED
    BY <1>1, <1>3, <2>1, <2>2, <2>3 DEF s, t
<1>4. CASE l = <<>> /\ ls = <<>>
  <2>1. t = <<>> /\ s = <<>>
    BY <1>4, EndedIs
  <2> QED
    BY <1>1, <1>4, <2>1
<1>5. CASE l = <<>> /\ ls # <<>>
  <2>1. PICK q \in Seq(Seq(Clean)), m \in Seq(Clean) :
            /\ ls = Append(q, m)
            /\ Ended(sep, q) \o m \in Seq(Octets)
            /\ t = (Ended(sep, q) \o m) \o sep
    BY <1>5, EndedLast
  <2> DEFINE u == Ended(sep, q) \o m
  <2>2. u \in Seq(Octets) /\ TrimSuffix(u, CR) = u
    BY <2>1, EndedTrim
  <2>8. Trims(Split[u]) = ls
    <3>1. PICK r \in LineLists :
            Split[Ended(sep, q) \o m] = Append(r, m) /\ Trims(Append(r, m)) = Append(q, m)
      BY SplitBoth, ZenonT(60)
    <3> QED
      BY <2>1, <3>1
  <2>3. t = u \o sep
    BY <2>1
  <2> HIDE DEF u, t
  <2>4. PICK w \in Seq(Octets) : u \o sep = Append(w, LF) /\ TrimSuffix(w, CR) = u
    BY <2>2, TextAndEnd
  <2>5. s = t
    BY <1>2, <1>5, ConcatEmptySeq
  <2>6. TrimSuffix(Append(w, LF), LF) = w /\ Append(w, LF) # <<>>
    BY <1>2, TrimIs, FrontLast, ZenonT(60)
  <2> HIDE DEF s
  <2>7. SplitLines(s) = ls
    BY <1>1, <2>3, <2>4, <2>5, <2>6, <2>8
  <2> QED
    BY <1>5, <2>7 DEF s, t
<1> QED
  BY <1>3, <1>4, <1>5

\* The lines of a header that is made of lines.
LEMMA HeaderLinesIs ==
    ASSUME NEW raw, NEW sep \in Seps, NEW ls \in Seq(Seq(Clean)), NEW l \in Seq(Clean),
           SplitMessage(raw).header = Ended(sep, ls) \o l
    PROVE  HeaderLines(raw) = NonEmpty[Append(ls, l)]
<1>1. PICK r \in LineLists :
        /\ Split[Ended(sep, ls) \o l] = Append(r, l) /\ Trims(r) = ls
        /\ Trims(Append(r, l)) = Append(ls, l)
  BY SplitBoth
<1> DEFINE lines == Append(r, l)
           looked == [i \in DOMAIN lines |->
                         IF i = Len(lines) THEN lines[i] ELSE TrimSuffix(lines[i], CR)]
<1>2. HeaderLines(raw) = NonEmpty[looked]
  BY <1>1 DEF HeaderLines
<1>3. l \in Seq(Plain)
  BY CleanText
<1>4. Len(lines) = Len(r) + 1 /\ lines[Len(r) + 1] = l /\ Len(r) \in Nat
  BY <1>3, AppendProperties, LenProperties DEF LineLists
<1> HIDE DEF lines
<1>5. lines[Len(lines)] = l
  BY <1>4
<1>6. TrimSuffix(lines[Len(lines)], CR) = lines[Len(lines)]
  BY <1>5, CleanTrim
<1>7. looked = Trims(lines)
  BY <1>6 DEF Trims
<1> QED
  BY <1>1, <1>2, <1>7 DEF lines

\* The place that Index finds is the first where the text is found.
IsAt(s, sub, i) == IsPrefix(sub, SubSeq(s, i, Len(s)))
\* The first place where a text is found in another.
LEMMA IndexIs ==
    ASSUME NEW s \in Seq(Octets), NEW sub \in Seq(Octets)
    PROVE  /\ (\A i \in 1..Len(s) : ~IsAt(s, sub, i)) => Index(s, sub) = 0
           /\ \A n \in 1..Len(s) :
                IsAt(s, sub, n) /\ (\A i \in 1..Len(s) : IsAt(s, sub, i) => n <= i)
                    => Index(s, sub) = n
<1> DEFINE I == {i \in 1..Len(s) : IsAt(s, sub, i)}
           rests == [i \in DOMAIN s |-> SubSeq(s, i, Len(s))]
<1>1. Len(s) \in Nat /\ DOMAIN s = 1..Len(s)
  BY LenProperties
<1>2. Len(rests) = Len(s) /\ \A i \in 1..Len(s) : rests[i] = SubSeq(s, i, Len(s))
  BY <1>1
<1> HIDE DEF rests
<1>3. {i \in 1..Len(rests) : IsPrefix(sub, rests[i])} = I
  BY <1>2 DEF IsAt
<1>4. Index(s, sub) = IF I # {} THEN Min(I) ELSE 0
  BY <1>3 DEF Index, SelectInSeq, rests
<1>5. (\A i \in 1..Len(s) : ~IsAt(s, sub, i)) => I = {}
  OBVIOUS
<1>6. ASSUME NEW n \in 1..Len(s), IsAt(s, sub, n), \A i \in 1..Len(s) : IsAt(s, sub, i) => n <= i
      PROVE  I # {} /\ Min(I) = n
  <2>1. n \in I /\ \A i \in I : n <= i
    BY <1>6
  <2>2. I \subseteq Int
    BY <1>1
  <2> HIDE DEF I
  <2>3. \A m \in I : (\A i \in I : m <= i) => m = n
    BY <2>1, <2>2
  <2>4. Min(I) = n
    BY <2>1, <2>3 DEF Min
  <2> QED
    BY <2>1, <2>4
<1> HIDE DEF I
<1> QED
  BY <1>4, <1>5, <1>6

\* Where a text is found its octets are.
LEMMA OctetsAt ==
    ASSUME NEW s \in Seq(Octets), NEW sub \in Seq(Octets), NEW i \in 1..Len(s)
    PROVE  IsAt(s, sub, i) <=>
                i + Len(sub) - 1 <= Len(s) /\ \A j \in 1..Len(sub) : s[i + j - 1] = sub[j]
<1> DEFINE rest == SubSeq(s, i, Len(s))
           n == Len(s)
           m == Len(sub)
<1>1. n \in Nat /\ m \in Nat /\ i \in 1..n
  BY LenProperties
<1>2. \A j \in i..n : s[j] \in Octets
  <2>1. \A j \in i..n : j \in 1..Len(s)
    BY <1>1
  <2> QED
    BY <2>1, ElementOfSeq
<1>3. /\ rest \in Seq(Octets) /\ Len(rest) = n - i + 1
      /\ \A j \in 1..(n - i + 1) : rest[j] = s[i + j - 1]
  <2>1. Len(rest) = IF i <= n THEN n - i + 1 ELSE 0
    BY <1>1, <1>2, SubSeqProperties
  <2>2. /\ rest \in Seq(Octets)
        /\ \A j \in 1..(n - i + 1) : rest[j] = s[i + j - 1]
    BY <1>1, <1>2, SubSeqProperties
  <2> HIDE DEF rest, n
  <2> QED
    BY <1>1, <2>1, <2>2
<1> HIDE DEF rest
<1>4. IsPrefix(sub, rest) <=> m <= Len(rest) /\ \A j \in 1..m : sub[j] = rest[j]
  BY <1>3, PrefixIs
<1> HIDE DEF n, m
<1>5. m <= n - i + 1 => \A j \in 1..m : rest[j] = s[i + j - 1]
  BY <1>1, <1>3
<1>6. m <= n - i + 1 <=> i + m - 1 <= n
  BY <1>1
<1> QED
  BY <1>3, <1>4, <1>5, <1>6 DEF IsAt, rest, n, m

\* A line feed is the last octet of the end of a line, and no other.
LEMMA SepIs ==
    ASSUME NEW sep \in Seps
    PROVE  /\ sep \in Seq(Octets) /\ Len(sep) \in 1..2 /\ sep[Len(sep)] = LF
           /\ \A j \in 1..Len(sep) : sep[j] = LF => j = Len(sep)
<1>1. CASE sep = <<LF>>
  BY <1>1, CleanText, Letters
<1>2. CASE sep = End
  <2>1. End[1] = CR /\ End[2] = LF /\ Len(End) = 2
    BY DEF End
  <2>2. sep \in Seq(Octets)
    BY CleanText
  <2>3. \A j \in 1..2 : j = 1 \/ j = 2
    OBVIOUS
  <2> QED
    BY <1>2, <2>1, <2>2, <2>3, Letters
<1> QED
  BY <1>1, <1>2 DEF Seps

\* The line feeds of a text with one more line.
LEMMA FeedsOfLine ==
    ASSUME NEW sep \in Seps, NEW s \in Seq(Octets), NEW l \in Seq(Clean)
    PROVE  LET t == s \o (l \o sep)
           IN  /\ t \in Seq(Octets) /\ Len(t) = Len(s) + Len(l) + Len(sep)
               /\ \A i \in 1..Len(s) : t[i] = s[i]
               /\ \A i \in (Len(s) + 1)..Len(t) : t[i] = LF => i = Len(t)
<1> DEFINE u == l \o sep
           t == s \o u
           n == Len(s)
           m == Len(l)
           k == Len(sep)
<1>1. l \in Seq(Octets) /\ sep \in Seq(Octets) /\ k \in 1..2 /\ n \in Nat /\ m \in Nat
  BY CleanText, SepIs, LenProperties
<1>2. /\ u \in Seq(Octets) /\ Len(u) = m + k
      /\ \A i \in 1..(m + k) : u[i] = IF i <= m THEN l[i] ELSE sep[i - m]
  BY <1>1, ConcatProperties
<1> HIDE DEF u
<1>3. /\ t \in Seq(Octets) /\ Len(t) = n + (m + k)
      /\ \A i \in 1..(n + (m + k)) : t[i] = IF i <= n THEN s[i] ELSE u[i - n]
  <2>1. u \in Seq(Octets)
    BY <1>2
  <2>2. /\ t \in Seq(Octets) /\ Len(t) = Len(s) + Len(u)
        /\ \A i \in 1..(Len(s) + Len(u)) : t[i] = IF i <= Len(s) THEN s[i] ELSE u[i - Len(s)]
    BY <2>1, ConcatProperties
  <2> HIDE DEF t
  <2>3. Len(u) = m + k
    BY <1>2
  <2> QED
    BY <2>2, <2>3
<1>4. \A i \in 1..m : l[i] # LF
  BY ElementOfSeq, CleanText
<1>5. \A j \in 1..k : sep[j] = LF => j = k
  BY SepIs
<1> HIDE DEF t, n, m, k
<1>6. ASSUME NEW i \in (n + 1)..Len(t), t[i] = LF PROVE i = Len(t)
  <2>1. i - n \in 1..(m + k) /\ i \in 1..(n + (m + k)) /\ ~(i <= n)
    BY <1>1, <1>3
  <2>2. u[i - n] = LF
    BY <1>3, <1>6, <2>1
  <2>3. ~(i - n <= m)
    BY <1>2, <1>4, <2>1, <2>2
  <2>4. i - n - m \in 1..k /\ sep[i - n - m] = LF
    BY <1>1, <1>2, <2>1, <2>2, <2>3
  <2>5. i - n - m = k
    BY <1>5, <2>4
  <2> QED
    BY <1>1, <1>3, <2>5
<1>7. \A i \in 1..n : t[i] = s[i]
  BY <1>1, <1>3
<1>8. Len(t) = n + m + k
  BY <1>1, <1>3
<1> QED
  BY <1>3, <1>6, <1>7, <1>8 DEF t, u, n, m, k

\* Between two line feeds there is more than the end of a line.
Apart(sep, s) ==
    \A i, k \in 1..Len(s) : i < k /\ s[i] = LF /\ s[k] = LF => k - i > Len(sep)

\* That remains so with one more line, if it is not empty.
LEMMA ApartLine ==
    ASSUME NEW sep \in Seps, NEW s \in Seq(Octets), Apart(sep, s),
           NEW l \in Seq(Clean), l # <<>> \/ s = <<>>
    PROVE  Apart(sep, s \o (l \o sep))
<1> DEFINE t == s \o (l \o sep)
           n == Len(s)
           m == Len(l)
           c == Len(sep)
<1>1. n \in Nat /\ m \in Nat /\ c \in Nat
  BY LenProperties, SepIs
<1>2. /\ Len(t) = n + m + c
      /\ \A i \in 1..n : t[i] = s[i]
      /\ \A i \in (n + 1)..Len(t) : t[i] = LF => i = Len(t)
  BY FeedsOfLine
<1>3. m > 0 \/ n = 0
  <2>1. CASE l # <<>>
    BY <1>1, <2>1, EmptySeq
  <2>2. CASE s = <<>>
    BY <2>2
  <2> QED
    BY <2>1, <2>2
<1>4. \A i, k \in 1..n : i < k /\ s[i] = LF /\ s[k] = LF => k - i > c
  BY DEF Apart
<1> HIDE DEF t, n, m, c
<1>5. ASSUME NEW i \in 1..Len(t), NEW k \in 1..Len(t), i < k, t[i] = LF, t[k] = LF
      PROVE  k - i > c
  <2>1. CASE k <= n
    <3>1. i \in 1..n /\ k \in 1..n
      BY <1>1, <1>2, <1>5, <2>1
    <3> QED
      BY <1>2, <1>4, <1>5, <3>1
  <2>2. CASE ~(k <= n)
    <3>1. k \in (n + 1)..Len(t)
      BY <1>1, <1>2, <2>2
    <3>2. k = Len(t)
      BY <1>2, <1>5, <3>1
    <3>3. i <= n
      <4>1. i \notin (n + 1)..Len(t)
        BY <1>2, <1>5, <3>2
      <4> QED
        BY <1>1, <1>2, <4>1
    <3> QED
      BY <1>1, <1>2, <1>3, <3>2, <3>3
  <2> QED
    BY <2>1, <2>2
<1> QED
  BY <1>5 DEF Apart, t, c

\* So line feeds are apart in the text of lines that are not empty, but for the
\* first.
LEMMA EndedApart ==
    ASSUME NEW sep \in Seps, NEW ls \in Seq(Seq(Clean)), \A i \in 2..Len(ls) : ls[i] # <<>>
    PROVE  Apart(sep, Ended(sep, ls))
<1> DEFINE A == Seq(Clean)
           P == {ms \in Seq(A) : (\A i \in 2..Len(ms) : ms[i] # <<>>) => Apart(sep, Ended(sep, ms))}
<1>1. <<>> \in P
  <2>1. <<>> \in Seq(A) /\ Len(<<>>) = 0 /\ 1..0 = {}
    BY EmptySeq
  <2>2. Apart(sep, <<>>)
    BY <2>1 DEF Apart
  <2> QED
    BY <2>1, <2>2, EndedIs
<1>2. ASSUME NEW ms \in Seq(A), NEW l \in A, ms \in P PROVE Append(ms, l) \in P
  <2> DEFINE more == Append(ms, l)
             n == Len(ms)
  <2>1. /\ more \in Seq(A) /\ Len(more) = n + 1 /\ more[n + 1] = l /\ n \in Nat
        /\ \A i \in 1..n : more[i] = ms[i]
    BY AppendProperties, LenProperties
  <2>2. Ended(sep, more) = Ended(sep, ms) \o (l \o sep) /\ Ended(sep, ms) \in Seq(Octets)
    BY EndedIs
  <2> HIDE DEF more
  <2>3. ASSUME \A i \in 2..Len(more) : more[i] # <<>> PROVE Apart(sep, Ended(sep, more))
    <3>1. \A i \in 2..n : i \in 2..Len(more) /\ more[i] = ms[i]
      BY <2>1
    <3>2. Apart(sep, Ended(sep, ms))
      BY <1>2, <2>3, <3>1
    <3>3. l # <<>> \/ Ended(sep, ms) = <<>>
      <4>1. CASE n = 0
        <5>1. ms = <<>>
          BY <4>1, EmptySeq
        <5> QED
          BY <5>1, EndedIs
      <4>2. CASE n # 0
        <5>1. n + 1 \in 2..Len(more)
          BY <2>1, <4>2
        <5> QED
          BY <2>1, <2>3, <5>1
      <4> QED
        BY <4>1, <4>2
    <3> QED
      BY <2>2, <3>2, <3>3, ApartLine
  <2> QED
    BY <2>1, <2>3 DEF more
<1> HIDE DEF P
<1>3. Seq(A) \subseteq P
  BY <1>1, <1>2, SeqInduction
<1> QED
  BY <1>3 DEF P

\* Two line ends, one behind the other, are found where two line feeds are as
\* close as this.
LEMMA DoubleAt ==
    ASSUME NEW sep \in Seps, NEW s \in Seq(Octets), NEW i \in 1..Len(s), IsAt(s, sep \o sep, i)
    PROVE  LET c == Len(sep)
           IN  /\ i + 2 * c - 1 <= Len(s)
               /\ s[i + c - 1] = LF /\ s[i + 2 * c - 1] = LF
<1> DEFINE c == Len(sep)
           d == sep \o sep
<1>1. sep \in Seq(Octets) /\ c \in 1..2 /\ sep[c] = LF
  BY SepIs
<1>2. /\ d \in Seq(Octets) /\ Len(d) = c + c
      /\ \A j \in 1..(c + c) : d[j] = IF j <= c THEN sep[j] ELSE sep[j - c]
  BY <1>1, ConcatProperties
<1>3. i + Len(d) - 1 <= Len(s) /\ \A j \in 1..Len(d) : s[i + j - 1] = d[j]
  BY <1>2, OctetsAt
<1>4. Len(s) \in Nat /\ i \in Nat
  BY LenProperties
<1> HIDE DEF c, d
<1>5. c \in 1..(c + c) /\ c + c \in 1..(c + c) /\ c <= c /\ ~(c + c <= c) /\ c + c - c = c
  BY <1>1
<1>6. d[c] = LF /\ d[c + c] = LF
  BY <1>1, <1>2, <1>5
<1>7. s[i + c - 1] = LF /\ s[i + (c + c) - 1] = LF
  BY <1>2, <1>3, <1>5, <1>6
<1>8. c + c = 2 * c
  BY <1>1
<1> QED
  BY <1>2, <1>3, <1>7, <1>8 DEF c, d

\* The octets of two texts together.
LEMMA TextOctets ==
    ASSUME NEW s \in Seq(Octets), NEW t \in Seq(Octets)
    PROVE  /\ s \o t \in Seq(Octets) /\ Len(s \o t) = Len(s) + Len(t)
           /\ Len(s) \in Nat /\ Len(t) \in Nat
           /\ \A i \in 1..(Len(s) + Len(t)) :
                    (s \o t)[i] = IF i <= Len(s) THEN s[i] ELSE t[i - Len(s)]
BY ConcatProperties, LenProperties

\* In lines that are not empty, but for the first, no line end follows another,
\* and no two line feeds are side by side.
LEMMA NoneDouble ==
    ASSUME NEW sep \in Seps, NEW ls \in Seq(Seq(Clean)), NEW l \in Seq(Clean),
           \A i \in 2..Len(ls) : ls[i] # <<>>, NEW end \in Seps, Len(end) <= Len(sep)
    PROVE  Index(Ended(sep, ls) \o l, end \o end) = 0
<1> DEFINE t == Ended(sep, ls)
           s == t \o l
           n == Len(t)
           c == Len(sep)
           d == Len(end)
<1>1. t \in Seq(Octets) /\ l \in Seq(Octets) /\ Apart(sep, t)
  BY EndedIs, CleanText, EndedApart
<1>2. end \in Seq(Octets) /\ c \in 1..2 /\ d \in 1..2 /\ d <= c
  BY SepIs
<1> HIDE DEF t, c, d
<1>3. /\ s \in Seq(Octets) /\ Len(s) = n + Len(l) /\ n \in Nat /\ Len(l) \in Nat
      /\ \A i \in 1..(n + Len(l)) : s[i] = IF i <= n THEN t[i] ELSE l[i - n]
  BY <1>1, ConcatProperties, LenProperties
<1>4. \A i \in 1..Len(l) : l[i] # LF
  BY ElementOfSeq, CleanText
<1> HIDE DEF s
<1>5. ASSUME NEW i \in 1..Len(s), s[i] = LF PROVE i \in 1..n /\ t[i] = LF
  <2>1. CASE i <= n
    BY <1>3, <1>5, <2>1
  <2>2. CASE ~(i <= n)
    <3>1. i - n \in 1..Len(l)
      BY <1>3, <2>2
    <3>2. s[i] = l[i - n]
      BY <1>3, <2>2
    <3> QED
      BY <1>4, <1>5, <3>1, <3>2
  <2> QED
    BY <2>1, <2>2
<1>6. ASSUME NEW i \in 1..Len(s) PROVE ~IsAt(s, end \o end, i)
  <2> SUFFICES ASSUME IsAt(s, end \o end, i) PROVE FALSE
    OBVIOUS
  <2>1. i + 2 * d - 1 <= Len(s) /\ s[i + d - 1] = LF /\ s[i + 2 * d - 1] = LF
    BY <1>3, DoubleAt DEF d
  <2>2. i + d - 1 \in 1..Len(s) /\ i + 2 * d - 1 \in 1..Len(s)
    BY <1>2, <1>3, <2>1
  <2>3. /\ i + d - 1 \in 1..n /\ t[i + d - 1] = LF
        /\ i + 2 * d - 1 \in 1..n /\ t[i + 2 * d - 1] = LF
    BY <1>5, <2>1, <2>2
  <2> DEFINE j == i + d - 1
             k == i + 2 * d - 1
  <2>4. j \in 1..n /\ t[j] = LF /\ k \in 1..n /\ t[k] = LF /\ j < k /\ k - j = d
    BY <1>2, <2>3
  <2> HIDE DEF j, k
  <2>5. k - j > c
    BY <1>1, <2>4 DEF Apart, c
  <2> QED
    BY <1>2, <2>4, <2>5
<1>7. end \o end \in Seq(Octets)
  BY <1>2, ConcatProperties
<1>8. Index(s, end \o end) = 0
  BY <1>3, <1>6, <1>7, IndexIs
<1> QED
  BY <1>8 DEF s, t

\* Without a carriage return there is no such line end.
LEMMA NoReturns ==
    ASSUME NEW s \in Seq(Octets), \A i \in 1..Len(s) : s[i] # CR
    PROVE  Index(s, End \o End) = 0
<1> DEFINE d == End \o End
<1>1. d \in Seq(Octets) /\ Len(d) = 4 /\ d[1] = CR
  <2>1. End \in Seq(Octets) /\ Len(End) = 2 /\ End[1] = CR
    BY EndIs DEF End
  <2>2. /\ d \in Seq(Octets) /\ Len(d) = Len(End) + Len(End)
        /\ \A i \in 1..(Len(End) + Len(End)) : d[i] = IF i <= Len(End) THEN End[i] ELSE End[i - Len(End)]
    BY <2>1, TextOctets
  <2>3. 1 \in 1..(2 + 2) /\ 1 <= 2 /\ 2 + 2 = 4
    OBVIOUS
  <2> HIDE DEF d
  <2> QED
    BY <2>1, <2>2, <2>3
<1> HIDE DEF d
<1>2. ASSUME NEW i \in 1..Len(s) PROVE ~IsAt(s, d, i)
  <2> SUFFICES ASSUME IsAt(s, d, i) PROVE FALSE
    OBVIOUS
  <2>1. \A j \in 1..Len(d) : s[i + j - 1] = d[j]
    BY <1>1, OctetsAt
  <2>2. s[i + 1 - 1] = d[1] /\ i + 1 - 1 = i
    BY <1>1, <2>1, LenProperties
  <2> QED
    BY <1>1, <2>2
<1> QED
  BY <1>1, <1>2, IndexIs DEF d

\* The first place of a line end that follows another is behind the first line
\* before an empty one.
LEMMA FirstDouble ==
    ASSUME NEW sep \in Seps, NEW q \in Seq(Seq(Clean)), NEW m \in Seq(Clean),
           \A i \in 2..Len(q) : q[i] # <<>>, m # <<>> \/ q = <<>>, NEW b \in Seq(Octets)
    PROVE  LET h == Ended(sep, q) \o m
           IN  Index(h \o ((sep \o sep) \o b), sep \o sep) = Len(h) + 1
<1> DEFINE h == Ended(sep, q) \o m
           d == sep \o sep
           s == h \o (d \o b)
           ls == Append(q, m)
           t == Ended(sep, ls)
           n == Len(h)
           c == Len(sep)
<1>1. /\ h \in Seq(Octets) /\ sep \in Seq(Octets) /\ c \in 1..2 /\ n \in Nat /\ Len(b) \in Nat
      /\ \A j \in 1..c : sep[j] = LF => j = c
  BY EndedTrim, SepIs, LenProperties
<1>2. ls \in Seq(Seq(Clean)) /\ \A i \in 2..Len(ls) : ls[i] # <<>>
  <2>1. /\ ls \in Seq(Seq(Clean)) /\ Len(ls) = Len(q) + 1 /\ Len(q) \in Nat
        /\ ls[Len(q) + 1] = m /\ \A i \in 1..Len(q) : ls[i] = q[i]
    BY AppendProperties, LenProperties
  <2>2. q = <<>> => Len(q) = 0
    OBVIOUS
  <2> HIDE DEF ls
  <2>3. ASSUME NEW i \in 2..Len(ls) PROVE ls[i] # <<>>
    <3>1. CASE i = Len(q) + 1
      <4>1. ls[i] = m /\ Len(q) # 0
        BY <2>1, <3>1
      <4>2. q # <<>>
        BY <2>2, <4>1
      <4> QED
        BY <4>1, <4>2
    <3>2. CASE i # Len(q) + 1
      <4>1. i \in 2..Len(q) /\ i \in 1..Len(q)
        BY <2>1, <3>2
      <4> QED
        BY <2>1, <4>1
    <3> QED
      BY <3>1, <3>2
  <2> QED
    BY <2>1, <2>3
<1>3. t = h \o sep
  <2> DEFINE e == Ended(sep, q)
  <2>1. t = e \o (m \o sep) /\ e \in Seq(Octets) /\ m \in Seq(Octets)
    BY EndedIs, CleanText
  <2>3. sep \in Seq(Octets)
    BY <1>1
  <2> HIDE DEF e, t
  <2>2. e \o (m \o sep) = (e \o m) \o sep
    <3>1. e \in Seq(Octets) /\ m \in Seq(Octets) /\ sep \in Seq(Octets)
      BY <2>1, <2>3
    <3>2. Groups(e, m, sep)
      BY <3>1, Grouped, Zenon
    <3> QED
      BY <3>2 DEF Groups
  <2> QED
    BY <2>1, <2>2 DEF e
<1>4. Apart(sep, t)
  BY <1>2, EndedApart
<1> HIDE DEF h, t, ls
<1>5. /\ t \in Seq(Octets) /\ Len(t) = n + c
  BY <1>1, <1>3, TextOctets
<1>6. d \in Seq(Octets) /\ Len(d) = c + c
  BY <1>1, TextOctets
<1> DEFINE v == sep \o b
           w == d \o b
<1>7. w = sep \o v
  BY <1>1, TextBehind, ZenonT(60)
<1>8. /\ v \in Seq(Octets) /\ Len(v) = c + Len(b)
      /\ \A j \in 1..(c + Len(b)) : v[j] = IF j <= c THEN sep[j] ELSE b[j - c]
  BY <1>1, TextOctets
<1> HIDE DEF v
<1>9. s = t \o v
  <2>1. sep \in Seq(Octets) /\ h \in Seq(Octets)
    BY <1>1
  <2> HIDE DEF w
  <2>2. h \o (sep \o v) = (h \o sep) \o v
    <3>1. h \in Seq(Octets) /\ sep \in Seq(Octets) /\ v \in Seq(Octets)
      BY <1>8, <2>1
    <3>2. Groups(h, sep, v)
      BY <3>1, Grouped, Zenon
    <3> QED
      BY <3>2 DEF Groups
  <2>3. s = h \o w
    BY DEF w
  <2> QED
    BY <1>3, <1>7, <2>2, <2>3
<1>10. /\ w \in Seq(Octets) /\ Len(w) = Len(d) + Len(b)
       /\ \A j \in 1..(Len(d) + Len(b)) : w[j] = IF j <= Len(d) THEN d[j] ELSE b[j - Len(d)]
  <2>1. d \in Seq(Octets)
    BY <1>6
  <2> HIDE DEF d
  <2> QED
    BY <2>1, TextOctets
<1> HIDE DEF w
<1>11. w \in Seq(Octets) /\ Len(w) = c + c + Len(b) /\ \A j \in 1..(c + c) : w[j] = d[j]
  <2> HIDE DEF d, c
  <2>1. \A j \in 1..(c + c) : j \in 1..(Len(d) + Len(b)) /\ j <= Len(d)
    BY <1>1, <1>6
  <2> QED
    BY <1>6, <1>10, <2>1
<1>12. /\ s \in Seq(Octets) /\ Len(s) = n + Len(w)
       /\ \A i \in 1..(n + Len(w)) : s[i] = IF i <= n THEN h[i] ELSE w[i - n]
  <2>1. s = h \o w /\ h \in Seq(Octets) /\ w \in Seq(Octets)
    BY <1>1, <1>11 DEF w
  <2> HIDE DEF s
  <2> QED
    BY <2>1, TextOctets
<1>13. \A i \in 1..(Len(t) + Len(v)) : s[i] = IF i <= Len(t) THEN t[i] ELSE v[i - Len(t)]
  <2>1. t \in Seq(Octets) /\ v \in Seq(Octets)
    BY <1>5, <1>8
  <2> HIDE DEF s
  <2> QED
    BY <1>9, <2>1, TextOctets
<1> HIDE DEF s
<1>14. Len(s) = n + c + c + Len(b)
  <2> HIDE DEF n, c
  <2> QED
    BY <1>1, <1>11, <1>12
<1>15. IsAt(s, d, n + 1)
  <2>1. n + 1 \in 1..Len(s) /\ n + 1 + Len(d) - 1 <= Len(s)
    <3> HIDE DEF n, c, d
    <3> QED
      BY <1>1, <1>6, <1>14
  <2>2. \A j \in 1..Len(d) : s[n + 1 + j - 1] = d[j]
    <3> SUFFICES ASSUME NEW j \in 1..Len(d) PROVE s[n + 1 + j - 1] = d[j]
      OBVIOUS
    <3> HIDE DEF n, c, d
    <3> DEFINE k == n + j
    <3>1. Len(w) = c + c + Len(b) /\ Len(d) = c + c
      BY <1>6, <1>11
    <3>2. /\ j \in 1..(c + c) /\ k \in 1..(n + Len(w)) /\ ~(k <= n) /\ k - n = j
          /\ n + 1 + j - 1 = k
      BY <1>1, <3>1
    <3> HIDE DEF k
    <3>3. w[j] = d[j]
      BY <1>11, <3>2
    <3>4. s[k] = w[k - n]
      BY <1>12, <3>2
    <3> QED
      BY <3>2, <3>3, <3>4
  <2> QED
    BY <1>6, <1>12, <2>1, <2>2, OctetsAt
<1>16. ASSUME NEW i \in 1..Len(s), IsAt(s, d, i) PROVE n + 1 <= i
  <2> SUFFICES ASSUME i <= n PROVE FALSE
    BY <1>1
  <2>1. i + 2 * c - 1 <= Len(s) /\ s[i + c - 1] = LF /\ s[i + 2 * c - 1] = LF
    BY <1>12, <1>16, DoubleAt
  <2> DEFINE j == i + c - 1
             k == i + 2 * c - 1
  <2> HIDE DEF n, c, d
  <2>8. Len(v) = c + Len(b) /\ Len(t) = n + c
    BY <1>5, <1>8
  <2>2. j \in 1..Len(t) /\ j \in 1..(Len(t) + Len(v)) /\ j < k /\ k - j = c
    BY <1>1, <2>8
  <2>3. k \in 1..(Len(t) + Len(v)) /\ k - Len(t) <= c - 1
    BY <1>1, <1>14, <2>1, <2>8
  <2>4. s[j] = LF /\ s[k] = LF
    BY <2>1
  <2> HIDE DEF j, k
  <2>5. t[j] = LF
    BY <1>13, <2>2, <2>4
  <2>6. CASE k <= Len(t)
    <3>1. k \in 1..Len(t)
      BY <1>1, <1>5, <2>3, <2>6
    <3>2. t[k] = LF
      BY <1>13, <2>3, <2>4, <2>6
    <3> QED
      BY <1>1, <1>4, <2>2, <2>5, <3>1, <3>2 DEF Apart, c
  <2>7. CASE ~(k <= Len(t))
    <3>1. v[k - Len(t)] = LF
      BY <1>13, <2>3, <2>4, <2>7
    <3>2. k - Len(t) \in 1..c /\ k - Len(t) \in 1..(c + Len(b)) /\ k - Len(t) # c
      BY <1>1, <1>5, <2>3, <2>7
    <3>3. v[k - Len(t)] = sep[k - Len(t)]
      BY <1>1, <1>8, <3>2
    <3> QED
      BY <1>1, <3>1, <3>2, <3>3
  <2> QED
    BY <2>6, <2>7
<1>17. n + 1 \in 1..Len(s)
  <2> HIDE DEF n, c
  <2> QED
    BY <1>1, <1>14
<1>18. Index(s, d) = n + 1
  BY <1>6, <1>12, <1>15, <1>16, <1>17, IndexIs
<1> QED
  BY <1>18 DEF s, h

\* What two sequences together begin and end with.
LEMMA Halves ==
    ASSUME NEW A, NEW s \in Seq(A), NEW t \in Seq(A)
    PROVE  /\ SubSeq(s \o t, 1, Len(s)) = s
           /\ SubSeq(s \o t, Len(s) + 1, Len(s \o t)) = t
<1>1. Len(s) \in Nat /\ Len(t) \in Nat /\ Len(s \o t) = Len(s) + Len(t)
  BY LenProperties, ConcatProperties
<1>2. SubSeq(s \o t, 1, Len(s)) = s
  <2>1. CASE Len(s) = 0
    <3>1. s = <<>>
      BY <2>1, EmptySeq
    <3>2. SubSeq(s \o t, 1, 0) = <<>>
      BY SubSeqEmpty
    <3> QED
      BY <2>1, <3>1, <3>2
  <2>2. CASE Len(s) # 0
    <3>1. 1 \in 1..Len(s) /\ Len(s) \in 1..Len(s)
      BY <1>1, <2>2
    <3>2. SubSeq(s \o t, 1, Len(s)) = SubSeq(s, 1, Len(s))
      BY <3>1, SubSeqOfConcat1
    <3> QED
      BY <3>2, SubSeqFull
  <2> QED
    BY <2>1, <2>2
<1>3. SubSeq(s \o t, Len(s) + 1, Len(s \o t)) = t
  <2> DEFINE n == Len(s)
             m == Len(t)
  <2>1. CASE m = 0
    <3>1. t = <<>>
      BY <2>1, EmptySeq
    <3>2. n + 0 < n + 1 /\ n + 0 \in Int /\ n + 1 \in Int /\ n + 0 = n
      BY <1>1
    <3>3. SubSeq(s \o t, n + 1, n + 0) = <<>>
      BY <3>2, SubSeqEmpty
    <3> QED
      BY <1>1, <2>1, <3>1, <3>3
  <2>2. CASE m # 0
    <3>1. n + 1 \in (n + 1)..(n + m) /\ n + m \in (n + 1)..(n + m)
      BY <1>1, <2>2
    <3>2. SubSeq(s \o t, n + 1, n + m) = SubSeq(t, n + 1 - n, n + m - n)
      BY <3>1, SubSeqOfConcat2
    <3>3. n + 1 - n = 1 /\ n + m - n = m
      BY <1>1
    <3> QED
      BY <1>1, <3>2, <3>3, SubSeqFull
  <2> QED
    BY <2>1, <2>2
<1> QED
  BY <1>2, <1>3

\* Line ends of one octet or of two.
LEMMA TwoFeeds ==
    /\ <<LF>> \in Seps /\ End \in Seps /\ Len(<<LF>>) = 1 /\ Len(End) = 2
    /\ <<LF>> \o <<LF>> = <<LF, LF>>
<1>1. <<LF>> \in Seps /\ End \in Seps
  BY DEF Seps
<1>2. Len(<<LF>>) = 1 /\ Len(End) = 2
  BY EndIs
<1>3. <<LF>> \o <<LF>> = <<LF, LF>>
  <2>1. <<LF>> \in Seq(Octets) /\ LF \in Octets
    BY Letters
  <2>2. <<LF>> \o <<LF>> = Append(<<LF>>, LF)
    BY <2>1, AppendIsConcat
  <2> DEFINE u == Append(<<LF>>, LF)
             e == <<LF, LF>>
  <2>3. u \in Seq(Octets) /\ Len(u) = 2 /\ u[1] = LF /\ u[2] = LF
    BY <2>1, AppendProperties
  <2>4. e \in Seq(Octets) /\ Len(e) = 2 /\ e[1] = LF /\ e[2] = LF
    BY <2>1
  <2> HIDE DEF u, e
  <2>5. \A i \in 1..Len(u) : u[i] = e[i]
    BY <2>3, <2>4
  <2>6. u = e
    BY <2>3, <2>4, <2>5, SeqEqual
  <2> QED
    BY <2>2, <2>6 DEF u, e
<1> QED
  BY <1>1, <1>2, <1>3

\* Where splitMessage divides a text.
LEMMA SplitMessageIs ==
    ASSUME NEW raw, NEW crlf, crlf = Index(raw, End \o End), NEW lf, lf = Index(raw, <<LF, LF>>)
    PROVE  SplitMessage(raw) =
                IF crlf > 0 THEN [header |-> SubSeq(raw, 1, crlf - 1),
                                  body |-> SubSeq(raw, crlf + 4, Len(raw))]
                ELSE IF lf > 0 THEN [header |-> SubSeq(raw, 1, lf - 1),
                                     body |-> SubSeq(raw, lf + 2, Len(raw))]
                ELSE [header |-> raw, body |-> <<>>]
BY Zenon DEF SplitMessage

\* The numbers around a place.
LEMMA Around ==
    ASSUME NEW n \in Nat, NEW i, i = n + 1
    PROVE  /\ i > 0 /\ ~(0 > 0) /\ i - 1 = n /\ i + 4 = n + 4 + 1 /\ i + 2 = n + 2 + 1
OBVIOUS

\* Lines up to the first empty one but the very first: those before the last
\* one, and the last one.
Dividing(q, m) == (\A i \in 2..Len(q) : q[i] # <<>>) /\ (m # <<>> \/ q = <<>>)

\* A text that has these lines, an empty one and b behind them; how the page
\* divides it; and that it has line ends of one kind.
IsText(raw, sep, q, m, b) == raw = (Ended(sep, q) \o m) \o ((sep \o sep) \o b)
IsSplit(raw, sep, q, m, b) == SplitMessage(raw) = [header |-> Ended(sep, q) \o m, body |-> b]
OneKind(raw, sep) == sep = <<LF>> => \A i \in 1..Len(raw) : raw[i] # CR

\* A text that an empty line divides is divided there.
LEMMA SplitMessageAt ==
    ASSUME NEW sep \in Seps, NEW q \in Seq(Seq(Clean)), NEW m \in Seq(Clean), Dividing(q, m),
           NEW b \in Seq(Octets), NEW raw, IsText(raw, sep, q, m, b), OneKind(raw, sep)
    PROVE  IsSplit(raw, sep, q, m, b)
<1>11. /\ raw = (Ended(sep, q) \o m) \o ((sep \o sep) \o b)
       /\ sep = <<LF>> => \A i \in 1..Len(raw) : raw[i] # CR
       /\ \A i \in 2..Len(q) : q[i] # <<>>
       /\ m # <<>> \/ q = <<>>
  BY DEF IsText, OneKind, Dividing
<1> SUFFICES SplitMessage(raw) = [header |-> Ended(sep, q) \o m, body |-> b]
  BY DEF IsSplit
<1> DEFINE h == Ended(sep, q) \o m
           d == sep \o sep
           n == Len(h)
<1>1. h \in Seq(Octets) /\ sep \in Seq(Octets) /\ Len(sep) \in 1..2 /\ n \in Nat
  BY EndedTrim, SepIs, LenProperties
<1>2. Index(raw, d) = n + 1
  BY <1>11, FirstDouble
<1> HIDE DEF h
<1>3. d \in Seq(Octets) /\ Len(d) = Len(sep) + Len(sep)
  BY <1>1, TextOctets
<1>4. d \o b \in Seq(Octets) /\ (h \o d) \o b = raw /\ h \o d \in Seq(Octets)
      /\ Len(h \o d) = n + Len(d)
  <2>1. h \in Seq(Octets) /\ d \in Seq(Octets)
    BY <1>1, <1>3
  <2>2. raw = h \o (d \o b)
    BY <1>11 DEF h
  <2> HIDE DEF d
  <2>3. h \o (d \o b) = (h \o d) \o b
    <3>1. h \in Seq(Octets) /\ d \in Seq(Octets) /\ b \in Seq(Octets)
      BY <2>1
    <3>2. Groups(h, d, b)
      BY <3>1, Grouped, Zenon
    <3> QED
      BY <3>2 DEF Groups
  <2> QED
    BY <2>1, <2>2, <2>3, TextOctets
<1>5. SubSeq(raw, 1, n) = h
  <2>1. h \in Seq(Octets) /\ d \o b \in Seq(Octets)
    BY <1>1, <1>4
  <2>2. SubSeq(h \o (d \o b), 1, Len(h)) = h
    BY <2>1, Halves
  <2> QED
    BY <1>11, <2>2 DEF h
<1>6. SubSeq(raw, n + Len(d) + 1, Len(raw)) = b
  BY <1>4, Halves
<1>7. raw \in Seq(Octets)
  BY <1>4, TextOctets
<1> HIDE DEF d, n
<1>8. n \in Nat
  BY <1>1
<1>9. CASE sep = End
  <2>1. Len(d) = 4
    BY <1>3, <1>9, EndIs
  <2> DEFINE crlf == Index(raw, End \o End)
             lf == Index(raw, <<LF, LF>>)
  <2>2. crlf = n + 1
    BY <1>2, <1>9 DEF d
  <2>3. SplitMessage(raw) =
            IF crlf > 0 THEN [header |-> SubSeq(raw, 1, crlf - 1),
                              body |-> SubSeq(raw, crlf + 4, Len(raw))]
            ELSE IF lf > 0 THEN [header |-> SubSeq(raw, 1, lf - 1),
                                 body |-> SubSeq(raw, lf + 2, Len(raw))]
            ELSE [header |-> raw, body |-> <<>>]
    BY SplitMessageIs
  <2> HIDE DEF crlf, lf
  <2>5. crlf > 0 /\ crlf - 1 = n /\ crlf + 4 = n + 4 + 1
    BY <1>8, <2>2, Around
  <2>4. SplitMessage(raw) = [header |-> SubSeq(raw, 1, n), body |-> SubSeq(raw, n + 4 + 1, Len(raw))]
    BY <2>3, <2>5, Zenon
  <2> QED
    BY <1>5, <1>6, <2>1, <2>4 DEF h
<1>10. CASE sep = <<LF>>
  <2>1. Len(d) = 2
    BY <1>3, <1>10
  <2> DEFINE crlf == Index(raw, End \o End)
             lf == Index(raw, <<LF, LF>>)
  <2>2. lf = n + 1
    BY <1>2, <1>10, TwoFeeds DEF d
  <2>3. crlf = 0
    BY <1>7, <1>10, <1>11, NoReturns
  <2>4. SplitMessage(raw) =
            IF crlf > 0 THEN [header |-> SubSeq(raw, 1, crlf - 1),
                              body |-> SubSeq(raw, crlf + 4, Len(raw))]
            ELSE IF lf > 0 THEN [header |-> SubSeq(raw, 1, lf - 1),
                                 body |-> SubSeq(raw, lf + 2, Len(raw))]
            ELSE [header |-> raw, body |-> <<>>]
    BY SplitMessageIs
  <2> HIDE DEF crlf, lf
  <2>6. ~(crlf > 0) /\ lf > 0 /\ lf - 1 = n /\ lf + 2 = n + 2 + 1
    BY <1>8, <2>2, <2>3, Around
  <2>5. SplitMessage(raw) = [header |-> SubSeq(raw, 1, n), body |-> SubSeq(raw, n + 2 + 1, Len(raw))]
    BY <2>4, <2>6, Zenon
  <2> QED
    BY <1>5, <1>6, <2>1, <2>5 DEF h
<1> QED
  BY <1>9, <1>10 DEF Seps

\* And one without such a line is all header.
LEMMA SplitMessageNone ==
    ASSUME NEW sep \in Seps, NEW ls \in Seq(Seq(Clean)), NEW l \in Seq(Clean),
           \A i \in 2..Len(ls) : ls[i] # <<>>,
           NEW raw, raw = Ended(sep, ls) \o l,
           sep = <<LF>> => \A i \in 1..Len(raw) : raw[i] # CR
    PROVE  SplitMessage(raw) = [header |-> raw, body |-> <<>>]
<1> DEFINE one == <<LF>>
           crlf == Index(raw, End \o End)
           lf == Index(raw, <<LF, LF>>)
<1>1. one \in Seps /\ End \in Seps /\ Len(one) = 1 /\ Len(End) = 2 /\ one \o one = <<LF, LF>>
  BY TwoFeeds
<1>2. Len(sep) \in 1..2
  BY SepIs
<1>3. lf = 0
  <2> DEFINE k == Len(sep)
  <2> HIDE DEF one, k
  <2>3. k \in 1..2
    BY <1>2 DEF k
  <2>4. 1 <= k
    BY <2>3
  <2>1. Len(one) <= Len(sep)
    BY <1>1, <2>4 DEF k
  <2>2. Index(raw, one \o one) = 0
    BY <1>1, <2>1, NoneDouble
  <2> QED
    BY <1>1, <2>2
<1>4. crlf = 0
  <2>1. CASE sep = End
    <3>2. Len(sep) = 2
      BY <1>1, <2>1, Zenon
    <3>1. Len(End) <= Len(sep)
      BY <1>1, <3>2
    <3> QED
      BY <1>1, <3>1, NoneDouble
  <2>2. CASE sep = <<LF>>
    <3>1. raw \in Seq(Octets)
      BY EndedTrim
    <3> QED
      BY <2>2, <3>1, NoReturns
  <2> QED
    BY <2>1, <2>2 DEF Seps
<1>5. SplitMessage(raw) =
        IF crlf > 0 THEN [header |-> SubSeq(raw, 1, crlf - 1),
                          body |-> SubSeq(raw, crlf + 4, Len(raw))]
        ELSE IF lf > 0 THEN [header |-> SubSeq(raw, 1, lf - 1),
                             body |-> SubSeq(raw, lf + 2, Len(raw))]
        ELSE [header |-> raw, body |-> <<>>]
  BY SplitMessageIs
<1> HIDE DEF crlf, lf
<1>6. ~(crlf > 0) /\ ~(lf > 0)
  BY <1>3, <1>4
<1> QED
  BY <1>5, <1>6

\* The text of more lines is behind that of the first.
LEMMA EndedBoth ==
    ASSUME NEW sep \in Seps, NEW p \in Seq(Seq(Clean)), NEW r \in Seq(Seq(Clean))
    PROVE  /\ p \o r \in Seq(Seq(Clean))
           /\ Ended(sep, p \o r) = Ended(sep, p) \o Ended(sep, r)
<1> DEFINE A == Seq(Clean)
           e == Ended(sep, p)
           P == {t \in Seq(A) : p \o t \in Seq(A) /\ Ended(sep, p \o t) = e \o Ended(sep, t)}
<1>1. <<>> \in P
  <2>1. <<>> \in Seq(A) /\ p \o <<>> = p
    BY EmptySeq, ConcatEmptySeq
  <2>2. e \in Seq(Octets)
    BY EndedIs
  <2> HIDE DEF e
  <2>3. e \o <<>> = e
    BY <2>2, ConcatEmptySeq
  <2> QED
    BY <2>1, <2>3, EndedIs DEF e
<1>2. ASSUME NEW t \in Seq(A), NEW l \in A, t \in P PROVE Append(t, l) \in P
  <2> DEFINE u == p \o t
             f == Ended(sep, t)
             g == l \o sep
  <2>1. u \in Seq(A) /\ Ended(sep, u) = e \o f
    BY <1>2
  <2>2. p \o Append(t, l) = Append(u, l)
    BY AppendLast
  <2>3. Append(u, l) \in Seq(A) /\ Append(t, l) \in Seq(A)
    BY <2>1, AppendProperties
  <2>4. e \in Seq(Octets) /\ f \in Seq(Octets) /\ g \in Seq(Octets)
    <3>1. l \in Seq(Octets) /\ sep \in Seq(Octets)
      BY CleanText
    <3> QED
      BY <3>1, EndedIs, TextOctets
  <2>5. Ended(sep, Append(u, l)) = Ended(sep, u) \o g /\ Ended(sep, Append(t, l)) = f \o g
    BY <2>1, EndedIs
  <2> HIDE DEF u, e, f, g
  <2>6. e \o (f \o g) = (e \o f) \o g
    <3>1. e \in Seq(Octets) /\ f \in Seq(Octets) /\ g \in Seq(Octets)
      BY <2>4
    <3>2. Groups(e, f, g)
      BY <3>1, Grouped, Zenon
    <3> QED
      BY <3>2 DEF Groups
  <2>7. Ended(sep, Append(u, l)) = e \o Ended(sep, Append(t, l))
    BY <2>1, <2>5, <2>6
  <2> QED
    BY <2>2, <2>3, <2>7 DEF e, u
<1> HIDE DEF P
<1>3. Seq(A) \subseteq P
  BY <1>1, <1>2, SeqInduction
<1> QED
  BY <1>3 DEF P

\* The lines up to the first empty one but the very first, and those behind it.
Divided(p) ==
    \/ \A i \in 2..Len(p) : p[i] # <<>>
    \/ \E q \in Seq(Seq(Clean)), m \in Seq(Clean), r \in Seq(Seq(Clean)) :
            Dividing(q, m) /\ p = Append(Append(q, m), <<>>) \o r

\* All lines are such.
LEMMA LinesDivided ==
    ASSUME NEW p \in Seq(Seq(Clean))
    PROVE  Divided(p)
<1> DEFINE A == Seq(Clean)
           P == {t \in Seq(A) : Divided(t)}
<1>1. <<>> \in P
  <2>1. <<>> \in Seq(A) /\ Len(<<>>) = 0 /\ 2..0 = {}
    BY EmptySeq
  <2> QED
    BY <2>1 DEF Divided
<1>2. ASSUME NEW t \in Seq(A), NEW l \in A, t \in P PROVE Append(t, l) \in P
  <2> DEFINE u == Append(t, l)
             n == Len(t)
  <2>1. /\ u \in Seq(A) /\ Len(u) = n + 1 /\ u[n + 1] = l /\ n \in Nat
        /\ \A i \in 1..n : u[i] = t[i]
    BY AppendProperties, LenProperties
  <2> HIDE DEF u, n
  <2>6. SUFFICES Divided(u)
    BY <2>1 DEF u
  <2>2. CASE (\A i \in 2..n : t[i] # <<>>) /\ (l # <<>> \/ n = 0)
    <3>1. ASSUME NEW i \in 2..Len(u) PROVE u[i] # <<>>
      <4>1. CASE i \in 2..n
        <5>1. i \in 1..n
          BY <2>1, <4>1
        <5> QED
          BY <2>1, <2>2, <4>1, <5>1
      <4>2. CASE i \notin 2..n
        <5>1. i = n + 1 /\ n # 0
          BY <2>1, <4>2
        <5> QED
          BY <2>1, <2>2, <5>1
      <4> QED
        BY <4>1, <4>2
    <3> QED
      BY <3>1 DEF Divided
  <2>3. CASE (\A i \in 2..n : t[i] # <<>>) /\ l = <<>> /\ n # 0
    <3>1. t # <<>>
      BY <2>3 DEF n
    <3>2. PICK q \in Seq(A), m \in A : t = Append(q, m)
      BY <3>1, SequenceEmptyOrAppend
    <3> DEFINE k == Len(q)
    <3>3. n = k + 1 /\ k \in Nat /\ t[k + 1] = m /\ \A i \in 1..k : t[i] = q[i]
      BY <3>2, AppendProperties, LenProperties DEF n
    <3>8. q = <<>> \/ k # 0
      BY EmptySeq
    <3> HIDE DEF k
    <3>4. ASSUME NEW i \in 2..k PROVE q[i] # <<>>
      <4>1. i \in 2..n /\ i \in 1..k
        BY <3>3
      <4> QED
        BY <2>3, <3>3, <4>1
    <3>5. m # <<>> \/ q = <<>>
      <4>1. CASE k # 0
        <5>1. k + 1 \in 2..n
          BY <3>3, <4>1
        <5> QED
          BY <2>3, <3>3, <5>1
      <4> QED
        BY <3>8, <4>1
    <3>6. u = Append(Append(q, m), <<>>) \o <<>>
      <4>1. u = Append(Append(q, m), <<>>)
        BY <2>3, <3>2 DEF u
      <4>2. u \o <<>> = u
        BY <2>1, ConcatEmptySeq
      <4> QED
        BY <4>1, <4>2
    <3>7. Dividing(q, m) /\ <<>> \in Seq(A)
      BY <3>4, <3>5, EmptySeq DEF Dividing, k
    <3> QED
      BY <3>6, <3>7 DEF Divided
  <2>4. CASE ~\A i \in 2..n : t[i] # <<>>
    <3>1. PICK q \in Seq(A), m \in A, r \in Seq(A) :
            Dividing(q, m) /\ t = Append(Append(q, m), <<>>) \o r
      BY <1>2, <2>4 DEF Divided, n
    <3> DEFINE h == Append(Append(q, m), <<>>)
    <3>2. h \in Seq(A)
      <4>1. Append(q, m) \in Seq(A) /\ <<>> \in A
        BY AppendProperties, EmptySeq
      <4> QED
        BY <4>1, AppendProperties
    <3> HIDE DEF h
    <3>3. h \o Append(r, l) = Append(h \o r, l) /\ Append(r, l) \in Seq(A)
      BY <3>2, AppendLast, AppendProperties, SMTT(60)
    <3>4. u = h \o Append(r, l)
      BY <3>1, <3>3 DEF h, u
    <3> QED
      BY <3>1, <3>3, <3>4 DEF Divided, h
  <2> QED
    BY <2>2, <2>3, <2>4
<1> HIDE DEF P
<1>3. Seq(A) \subseteq P
  BY <1>1, <1>2, SeqInduction
<1> QED
  BY <1>3 DEF P

\* A text of lines of one kind.
IsEnded(sep, s) ==
    \E p \in Seq(Seq(Clean)), l \in Seq(Clean) : s = Ended(sep, p) \o l

\* It remains one with an octet of a line, or with the end of the last line.
LEMMA EndedMore ==
    ASSUME NEW sep \in Seps, NEW p \in Seq(Seq(Clean)), NEW l \in Seq(Clean)
    PROVE  /\ \A o \in Clean : IsEnded(sep, Append(Ended(sep, p) \o l, o))
           /\ IsEnded(sep, (Ended(sep, p) \o l) \o sep)
<1> DEFINE e == Ended(sep, p)
<1>1. e \in Seq(Octets) /\ l \in Seq(Octets) /\ sep \in Seq(Octets)
  BY EndedIs, CleanText
<1>2. ASSUME NEW o \in Clean PROVE IsEnded(sep, Append(e \o l, o))
  <2>1. Append(l, o) \in Seq(Clean) /\ o \in Octets
    BY AppendProperties, CleanText
  <2> HIDE DEF e
  <2>2. e \o Append(l, o) = Append(e \o l, o)
    BY <1>1, <2>1, AppendLast
  <2> QED
    BY <2>1, <2>2 DEF IsEnded, e
<1>3. IsEnded(sep, (e \o l) \o sep)
  <2> DEFINE f == Ended(sep, Append(p, l))
  <2>1. Append(p, l) \in Seq(Seq(Clean)) /\ <<>> \in Seq(Clean)
    BY AppendProperties, EmptySeq
  <2>2. f = e \o (l \o sep) /\ f \in Seq(Octets)
    BY <2>1, EndedIs
  <2> HIDE DEF e
  <2>3. e \o (l \o sep) = (e \o l) \o sep
    BY <1>1, TextBehind
  <2>4. f \o <<>> = f
    BY <2>2, ConcatEmptySeq
  <2>5. (e \o l) \o sep = f \o <<>>
    BY <2>2, <2>3, <2>4
  <2> QED
    BY <2>1, <2>5 DEF IsEnded
<1> QED
  BY <1>2, <1>3

\* The empty text has no lines.
LEMMA NoLines ==
    ASSUME NEW sep \in Seps
    PROVE  IsEnded(sep, <<>>)
<1>1. <<>> \in Seq(Seq(Clean)) /\ <<>> \in Seq(Clean) /\ <<>> \in Seq(Octets)
  BY EmptySeq
<1>2. Ended(sep, <<>>) = <<>> /\ <<>> \o <<>> = <<>>
  BY <1>1, EndedIs, ConcatEmptySeq
<1> QED
  BY <1>1, <1>2 DEF IsEnded

\* A text without carriage returns is one of lines that end with a line feed.
LEMMA FeedsOnly ==
    ASSUME NEW s \in Seq(Octets), \A i \in 1..Len(s) : s[i] # CR
    PROVE  IsEnded(<<LF>>, s)
<1> DEFINE one == <<LF>>
           P == {t \in Seq(Octets) : (\A i \in 1..Len(t) : t[i] # CR) => IsEnded(one, t)}
<1>1. one \in Seps
  BY TwoFeeds
<1>2. <<>> \in P
  BY <1>1, NoLines, EmptySeq
<1>3. ASSUME NEW t \in Seq(Octets), NEW o \in Octets, t \in P PROVE Append(t, o) \in P
  <2> DEFINE u == Append(t, o)
             n == Len(t)
  <2>1. /\ u \in Seq(Octets) /\ Len(u) = n + 1 /\ u[n + 1] = o /\ n \in Nat
        /\ \A i \in 1..n : u[i] = t[i]
    BY AppendProperties, LenProperties
  <2>2. u = t \o one
        \/ o # LF
    BY AppendIsConcat
  <2> HIDE DEF u, n, one
  <2>3. ASSUME \A i \in 1..Len(u) : u[i] # CR PROVE IsEnded(one, u)
    <3>1. \A i \in 1..n : i \in 1..Len(u)
      BY <2>1
    <3>2. \A i \in 1..n : t[i] # CR
      BY <2>1, <2>3, <3>1
    <3>3. IsEnded(one, t)
      BY <1>3, <3>2 DEF n
    <3>4. PICK p \in Seq(Seq(Clean)), l \in Seq(Clean) : t = Ended(one, p) \o l
      BY <3>3 DEF IsEnded
    <3>5. n + 1 \in 1..Len(u)
      BY <2>1
    <3>6. o # CR
      BY <2>1, <2>3, <3>5
    <3>7. CASE o = LF
      BY <1>1, <2>2, <3>4, <3>7, EndedMore
    <3>8. CASE o # LF
      <4>1. o \in Clean
        BY <3>6, <3>8 DEF Clean
      <4> QED
        BY <1>1, <3>4, <4>1, EndedMore DEF u
    <3> QED
      BY <3>7, <3>8
  <2> QED
    BY <2>1, <2>3 DEF u
<1> HIDE DEF P, one
<1>4. Seq(Octets) \subseteq P
  BY <1>2, <1>3, SeqInduction
<1> QED
  BY <1>4 DEF P, one

\* Carriage returns and line feeds come together, but perhaps for a carriage
\* return at the very end.
Paired(s) ==
    \A i \in 1..Len(s) :
        /\ s[i] = LF => i # 1 /\ s[i - 1] = CR
        /\ s[i] = CR => i = Len(s) \/ s[i + 1] = LF

\* The beginning of such a text is one.
LEMMA PairedFront ==
    ASSUME NEW t \in Seq(Octets), NEW o \in Octets, Paired(Append(t, o))
    PROVE  /\ Paired(t)
           /\ o = LF => t # <<>> /\ t[Len(t)] = CR
           /\ t # <<>> /\ t[Len(t)] = CR => o = LF
<1> DEFINE u == Append(t, o)
           n == Len(t)
<1>1. /\ u \in Seq(Octets) /\ Len(u) = n + 1 /\ u[n + 1] = o /\ n \in Nat
      /\ \A i \in 1..n : u[i] = t[i]
  BY AppendProperties, LenProperties
<1>2. t = <<>> <=> n = 0
  BY EmptySeq
<1>3. \A i \in 1..Len(u) :
        /\ u[i] = LF => i # 1 /\ u[i - 1] = CR
        /\ u[i] = CR => i = Len(u) \/ u[i + 1] = LF
  BY DEF Paired
<1> HIDE DEF u, n
<1>4. ASSUME NEW i \in 1..n
      PROVE  /\ t[i] = LF => i # 1 /\ t[i - 1] = CR
             /\ t[i] = CR => i = n \/ t[i + 1] = LF
  <2>1. i \in 1..Len(u) /\ i # Len(u)
    BY <1>1
  <2>2. u[i] = t[i]
    BY <1>1
  <2>3. ASSUME t[i] = LF PROVE i # 1 /\ t[i - 1] = CR
    <3>1. i # 1 /\ u[i - 1] = CR
      BY <1>3, <2>1, <2>2, <2>3
    <3>2. i - 1 \in 1..n
      BY <1>1, <3>1
    <3> QED
      BY <1>1, <3>1, <3>2
  <2>4. ASSUME t[i] = CR, i # n PROVE t[i + 1] = LF
    <3>1. u[i + 1] = LF
      BY <1>3, <2>1, <2>2, <2>4
    <3>2. i + 1 \in 1..n
      BY <1>1, <2>4
    <3> QED
      BY <1>1, <3>1, <3>2
  <2> QED
    BY <2>3, <2>4
<1>5. ASSUME o = LF PROVE n # 0 /\ t[n] = CR
  <2>1. n + 1 \in 1..Len(u)
    BY <1>1
  <2>2. n + 1 # 1 /\ u[n + 1 - 1] = CR
    BY <1>1, <1>3, <1>5, <2>1
  <2>3. n \in 1..n /\ n + 1 - 1 = n
    BY <1>1, <2>2
  <2> QED
    BY <1>1, <2>2, <2>3
<1>6. ASSUME n # 0, t[n] = CR PROVE o = LF
  <2>1. n \in 1..n /\ n \in 1..Len(u) /\ n # Len(u)
    BY <1>1, <1>6
  <2>2. u[n + 1] = LF
    BY <1>1, <1>3, <1>6, <2>1
  <2> QED
    BY <1>1, <2>2
<1> QED
  BY <1>2, <1>4, <1>5, <1>6 DEF Paired, n

\* Such a text is one of lines that end with both, but for a carriage return at
\* the very end.
LEMMA PairsOnly ==
    ASSUME NEW s \in Seq(Octets), Paired(s)
    PROVE  IsEnded(End, s) \/ (s # <<>> /\ s[Len(s)] = CR)
<1> DEFINE P == {t \in Seq(Octets) : Paired(t) =>
                    \/ IsEnded(End, t)
                    \/ \E v \in Seq(Octets) : IsEnded(End, v) /\ t = Append(v, CR)}
<1>1. End \in Seps
  BY TwoFeeds
<1>2. <<>> \in P
  BY <1>1, NoLines, EmptySeq
<1>3. ASSUME NEW t \in Seq(Octets), NEW o \in Octets, t \in P PROVE Append(t, o) \in P
  <2> SUFFICES ASSUME Paired(Append(t, o))
               PROVE  \/ IsEnded(End, Append(t, o))
                      \/ \E v \in Seq(Octets) : IsEnded(End, v) /\ Append(t, o) = Append(v, CR)
    BY AppendProperties
  <2>1. /\ Paired(t)
        /\ o = LF => t # <<>> /\ t[Len(t)] = CR
        /\ t # <<>> /\ t[Len(t)] = CR => o = LF
    BY PairedFront
  <2>2. CASE IsEnded(End, t)
    <3>1. PICK p \in Seq(Seq(Clean)), l \in Seq(Clean) : t = Ended(End, p) \o l
      BY <2>2 DEF IsEnded
    <3>2. TrimSuffix(t, CR) = t
      BY <1>1, <3>1, EndedTrim
    <3>3. CASE o = CR
      BY <2>2, <3>3
    <3>4. CASE o = LF
      <4>1. t # <<>> /\ Last(t) = CR
        BY <2>1, <3>4 DEF Last
      <4>2. Front(t) = t
        BY <3>2, <4>1 DEF TrimSuffix
      <4>3. Len(Front(t)) = Len(t) - 1 /\ Len(t) \in Nat
        BY <4>1, FrontOf
      <4> QED
        BY <4>2, <4>3
    <3>5. CASE o # CR /\ o # LF
      <4>1. o \in Clean
        BY <3>5 DEF Clean
      <4> QED
        BY <1>1, <3>1, <4>1, EndedMore
    <3> QED
      BY <3>3, <3>4, <3>5
  <2>3. CASE \E v \in Seq(Octets) : IsEnded(End, v) /\ t = Append(v, CR)
    <3>1. PICK v \in Seq(Octets) : IsEnded(End, v) /\ t = Append(v, CR)
      BY <2>3
    <3>2. t # <<>> /\ t[Len(t)] = CR
      <4>1. CR \in Octets
        BY Letters
      <4>2. Len(t) = Len(v) + 1 /\ t[Len(v) + 1] = CR /\ t # <<>>
        BY <3>1, <4>1, AppendProperties
      <4> QED
        BY <4>2
    <3>3. o = LF
      BY <2>1, <3>2
    <3>4. PICK p \in Seq(Seq(Clean)), l \in Seq(Clean) : v = Ended(End, p) \o l
      BY <3>1 DEF IsEnded
    <3>5. Append(t, o) = v \o End
      <4>1. << CR >> \in Seq(Octets) /\ CR \in Octets /\ LF \in Octets /\ << LF >> \in Seq(Octets)
        BY Letters
      <4>2. End = << CR >> \o << LF >>
        BY EndIs
      <4>3. t = v \o << CR >> /\ Append(t, LF) = t \o << LF >>
        BY <3>1, <4>1, AppendIsConcat
      <4> DEFINE c == << CR >>
                 f == << LF >>
      <4>4. c \in Seq(Octets) /\ f \in Seq(Octets)
        BY <4>1
      <4> HIDE DEF c, f
      <4>5. v \o (c \o f) = (v \o c) \o f
        <5>1. v \in Seq(Octets) /\ c \in Seq(Octets) /\ f \in Seq(Octets)
          BY <4>4
        <5>2. Groups(v, c, f)
          BY <5>1, Grouped, Zenon
        <5> QED
          BY <5>2 DEF Groups
      <4> QED
        BY <3>3, <4>2, <4>3, <4>5 DEF c, f
    <3> QED
      BY <1>1, <3>4, <3>5, EndedMore
  <2> QED
    BY <1>3, <2>1, <2>2, <2>3
<1> HIDE DEF P
<1>4. Seq(Octets) \subseteq P
  BY <1>2, <1>3, SeqInduction
<1>5. ASSUME NEW v \in Seq(Octets), s = Append(v, CR) PROVE s # <<>> /\ s[Len(s)] = CR
  <2>1. CR \in Octets
    BY Letters
  <2>2. Len(s) = Len(v) + 1 /\ s[Len(v) + 1] = CR /\ s # <<>>
    BY <1>5, <2>1, AppendProperties
  <2> QED
    BY <2>2
<1> QED
  BY <1>4, <1>5 DEF P

\* The texts that HeadersAgree is about, and their lines.
LEMMA PlainEnded ==
    ASSUME NEW raw \in Seq(Octets),
           LET before == {IF i = 1 THEN "start" ELSE raw[i - 1] :
                             i \in {j \in DOMAIN raw : raw[j] = LF}}
               crs == {i \in DOMAIN raw : raw[i] = CR}
           IN  \/ crs = {}
               \/ before \subseteq {CR}
                  /\ \A i \in crs : i < Len(raw) /\ raw[i + 1] = LF
    PROVE  \E sep \in Seps : /\ IsEnded(sep, raw)
                             /\ sep = <<LF>> => \A i \in 1..Len(raw) : raw[i] # CR
<1> DEFINE feeds == {j \in DOMAIN raw : raw[j] = LF}
           f(i) == IF i = 1 THEN "start" ELSE raw[i - 1]
           before == {f(i) : i \in feeds}
           crs == {i \in DOMAIN raw : raw[i] = CR}
<1>1. DOMAIN raw = 1..Len(raw) /\ Len(raw) \in Nat
  BY LenProperties
<1>2. CASE crs = {}
  <2>1. \A i \in 1..Len(raw) : raw[i] # CR
    BY <1>1, <1>2
  <2> QED
    BY <2>1, FeedsOnly, TwoFeeds
<1>3. CASE before \subseteq {CR} /\ \A i \in crs : i < Len(raw) /\ raw[i + 1] = LF
  <2>1. ASSUME NEW i \in 1..Len(raw), raw[i] = CR PROVE i # Len(raw) /\ raw[i + 1] = LF
    <3>1. i \in crs
      BY <1>1, <2>1
    <3> QED
      BY <1>1, <1>3, <3>1
  <2>2. ASSUME NEW i \in 1..Len(raw), raw[i] = LF PROVE i # 1 /\ raw[i - 1] = CR
    <3>1. i \in feeds
      BY <1>1, <2>2
    <3>2. f(i) \in before
      BY <3>1
    <3>3. f(i) = CR
      BY <1>3, <3>2
    <3> QED
      BY <3>3 DEF CR
  <2>3. Paired(raw)
    BY <2>1, <2>2 DEF Paired
  <2>4. ~(raw # <<>> /\ raw[Len(raw)] = CR)
    <3> SUFFICES ASSUME raw # <<>>, raw[Len(raw)] = CR PROVE FALSE
      OBVIOUS
    <3>1. Len(raw) # 0
      BY EmptySeq
    <3>2. Len(raw) \in 1..Len(raw)
      BY <1>1, <3>1
    <3> QED
      BY <2>1, <3>2
  <2>5. IsEnded(End, raw)
    BY <2>3, <2>4, PairsOnly
  <2>6. End # <<LF>>
    <3>1. Len(End) = 2 /\ Len(<<LF>>) = 1
      BY TwoFeeds
    <3> QED
      BY <3>1
  <2> QED
    BY <2>5, <2>6, TwoFeeds
<1> QED
  BY <1>2, <1>3

\* What TOP without a body sends.
LEMMA TopSends ==
    ASSUME NEW raw \in Seq(Octets)
    PROVE  LET ls == SplitLines(raw)
           IN  /\ (\A i \in 1..Len(ls) : ls[i] # <<>>) => Lines(raw, 0) = ls
               /\ \A e \in 1..Len(ls) : FirstEmpty(ls, e) => Lines(raw, 0) = SubSeq(ls, 1, e)
<1> DEFINE ls == SplitLines(raw)
           I == {i \in 1..Len(ls) : ls[i] = <<>>}
           empty == SelectInSeq(ls, LAMBDA line : line = <<>>)
<1>1. ls \in LineLists /\ Len(ls) \in Nat /\ ls = SubSeq(ls, 1, Len(ls))
  BY SplitLinesType, LenProperties, SubSeqFull DEF LineLists
<1>2. Lines(raw, 0) = IF empty = 0 \/ empty + 0 >= Len(ls) THEN ls
                      ELSE SubSeq(ls, 1, empty + 0)
  <2>1. TopIsPrefix(raw, 0)
    BY TopCorrect
  <2> QED
    BY <2>1 DEF TopIsPrefix
<1>3. empty = IF I # {} THEN Min(I) ELSE 0
  BY DEF SelectInSeq
<1>4. ASSUME NEW e \in 1..Len(ls), FirstEmpty(ls, e) PROVE I # {} /\ Min(I) = e
  BY <1>1, <1>4, FirstIs DEF FirstEmpty
<1>5. (\A i \in 1..Len(ls) : ls[i] # <<>>) => I = {}
  OBVIOUS
<1> HIDE DEF ls, empty, I
<1>6. ASSUME \A i \in 1..Len(ls) : ls[i] # <<>> PROVE Lines(raw, 0) = ls
  BY <1>2, <1>3, <1>5, <1>6
<1>7. ASSUME NEW e \in 1..Len(ls), FirstEmpty(ls, e) PROVE Lines(raw, 0) = SubSeq(ls, 1, e)
  <2>1. empty = e /\ e \in Nat /\ e # 0 /\ e <= Len(ls)
    BY <1>1, <1>3, <1>4, <1>7
  <2>2. e + 0 = e
    BY <2>1
  <2>3. CASE e >= Len(ls)
    <3>2. Len(ls) \in Nat /\ e \in Nat /\ e <= Len(ls)
      BY <1>1, <2>1
    <3>1. e = Len(ls)
      BY <2>3, <3>2
    <3> QED
      BY <1>1, <1>2, <2>1, <2>2, <3>1
  <2>4. CASE ~(e >= Len(ls))
    BY <1>2, <2>1, <2>2, <2>4
  <2> QED
    BY <2>3, <2>4
<1> QED
  BY <1>6, <1>7 DEF ls

\* What is promised of the text.
Agrees(raw) ==
    /\ HeaderLines(raw) = NonEmpty[Lines(raw, 0)]
    /\ SplitLines(SplitMessage(raw).body) =
            SubSeq(SplitLines(raw), Len(Lines(raw, 0)) + 1, Len(SplitLines(raw)))

\* A text without an empty line is all header.
LEMMA AllHeader ==
    ASSUME NEW raw \in Seq(Octets), NEW sep \in Seps,
           NEW p \in Seq(Seq(Clean)), NEW l \in Seq(Clean), raw = Ended(sep, p) \o l,
           sep = <<LF>> => \A i \in 1..Len(raw) : raw[i] # CR,
           \A i \in 2..Len(p) : p[i] # <<>>,
           SplitLines(raw) # <<>>, SplitLines(raw)[1] # <<>>
    PROVE  Agrees(raw)
<1> DEFINE ls == SplitLines(raw)
           n == Len(p)
<1>1. ls = IF l = <<>> THEN p ELSE Append(p, l)
  BY SplitLinesIs
<1>2. SplitMessage(raw) = [header |-> raw, body |-> <<>>]
  BY SplitMessageNone
<1>3. HeaderLines(raw) = NonEmpty[Append(p, l)]
  <2>1. SplitMessage(raw).header = Ended(sep, p) \o l
    BY <1>2
  <2> QED
    BY <2>1, HeaderLinesIs
<1>4. p \in Seq(Seq(Octets)) /\ l \in Seq(Octets)
  BY CleanText, PlainText
<1>5. NonEmpty[Append(p, l)] = NonEmpty[ls]
  BY <1>1, <1>4, NonEmptyIs
<1>6. /\ Append(p, l) \in Seq(Seq(Clean)) /\ Len(Append(p, l)) = n + 1 /\ n \in Nat
      /\ Append(p, l)[n + 1] = l /\ \A i \in 1..n : Append(p, l)[i] = p[i]
  BY AppendProperties, LenProperties
<1>7. ls[1] # <<>> /\ ls # <<>>
  OBVIOUS
<1>8. ls \in LineLists /\ Len(ls) \in Nat
  BY SplitLinesType, LenProperties DEF LineLists
<1> HIDE DEF ls, n
<1>9. ASSUME NEW i \in 1..Len(ls) PROVE ls[i] # <<>>
  <2>1. CASE i = 1
    BY <1>7, <2>1
  <2>2. CASE i # 1 /\ l = <<>>
    <3>1. i \in 2..Len(p)
      BY <1>1, <1>8, <2>2
    <3> QED
      BY <1>1, <2>2, <3>1
  <2>3. CASE i # 1 /\ l # <<>>
    <3>1. ls = Append(p, l) /\ Len(ls) = n + 1
      BY <1>1, <1>6, <2>3
    <3>2. CASE i = n + 1
      BY <1>6, <2>3, <3>1, <3>2
    <3>3. CASE i # n + 1
      <4>1. i \in 2..n /\ i \in 1..n
        BY <1>6, <2>3, <3>1, <3>3
      <4> QED
        BY <1>6, <3>1, <4>1 DEF n
    <3> QED
      BY <3>2, <3>3
  <2> QED
    BY <2>1, <2>2, <2>3
<1>10. Lines(raw, 0) = ls
  BY <1>9, TopSends DEF ls
<1>11. SplitLines(SplitMessage(raw).body) = <<>>
  BY <1>2 DEF SplitLines
<1>12. SubSeq(ls, Len(ls) + 1, Len(ls)) = <<>>
  <2>1. Len(ls) < Len(ls) + 1 /\ Len(ls) \in Int /\ Len(ls) + 1 \in Int
    BY <1>8
  <2> QED
    BY <2>1, SubSeqEmpty
<1> QED
  BY <1>3, <1>5, <1>10, <1>11, <1>12 DEF ls, Agrees

\* A header, an empty line and a body.
Regroups(s, m, d, t, l) ==
    (((s \o (m \o d)) \o d) \o t) \o l = (s \o m) \o ((d \o d) \o (t \o l))

\* The empty line is two line ends.
LEMMA Regrouped ==
    ASSUME NEW s \in Seq(Octets), NEW m \in Seq(Octets), NEW d \in Seq(Octets),
           NEW t \in Seq(Octets), NEW l \in Seq(Octets)
    PROVE  Regroups(s, m, d, t, l)
<1> DEFINE h == s \o m
           dd == d \o d
           b == t \o l
           x == h \o dd
<1>1. s \o (m \o d) = h \o d
  BY TextBehind, SMTT(60)
<1>2. h \in Seq(Octets)
  BY TextBehind
<1>3. dd \in Seq(Octets)
  BY TextBehind
<1>4. b \in Seq(Octets)
  BY TextBehind
<1> HIDE DEF h
<1>5. h \o (d \o d) = (h \o d) \o d
  <2>1. h \in Seq(Octets) /\ d \in Seq(Octets)
    BY <1>2
  <2>2. Groups(h, d, d)
    BY <2>1, Grouped, Zenon
  <2> QED
    BY <2>2 DEF Groups
<1> HIDE DEF dd
<1>6. x \in Seq(Octets)
  BY <1>2, <1>3, TextBehind
<1> HIDE DEF x
<1>7. x \o (t \o l) = (x \o t) \o l
  <2>1. x \in Seq(Octets) /\ t \in Seq(Octets) /\ l \in Seq(Octets)
    BY <1>6
  <2>2. Groups(x, t, l)
    BY <2>1, Grouped, Zenon
  <2> QED
    BY <2>2 DEF Groups
<1> HIDE DEF b
<1>8. h \o (dd \o b) = (h \o dd) \o b
  <2>1. Groups(h, dd, b)
    BY <1>2, <1>3, <1>4, Grouped, Zenon
  <2> QED
    BY <2>1 DEF Groups
<1>9. (s \o (m \o d)) \o d = x
  BY <1>1, <1>5, Zenon DEF dd, x
<1>10. x \o b = h \o (dd \o b)
  BY <1>8 DEF x
<1> QED
  BY <1>7, <1>9, <1>10, Zenon DEF h, dd, b, Regroups

\* The lines up to an empty one.
Upper(q, m) == Append(Append(q, m), <<>>)

\* What these are.
LEMMA UpperIs ==
    ASSUME NEW q \in Seq(Seq(Clean)), NEW m \in Seq(Clean)
    PROVE  LET u == Upper(q, m)
               k == Len(q)
           IN  /\ Append(q, m) \in Seq(Seq(Clean)) /\ u \in Seq(Seq(Clean))
               /\ k \in Nat /\ Len(u) = k + 2 /\ u[k + 2] = <<>> /\ u[k + 1] = m
               /\ \A i \in 1..k : u[i] = q[i]
               /\ NonEmpty[u] = NonEmpty[Append(q, m)]
<1> DEFINE A == Seq(Clean)
           g == Append(q, m)
           u == Append(g, <<>>)
           k == Len(q)
<1>1. g \in Seq(A) /\ Len(g) = k + 1 /\ k \in Nat /\ g[k + 1] = m /\ \A i \in 1..k : g[i] = q[i]
  BY AppendProperties, LenProperties
<1>2. <<>> \in A
  BY EmptySeq
<1> HIDE DEF g
<1>3. /\ u \in Seq(A) /\ Len(u) = k + 1 + 1 /\ u[k + 1 + 1] = <<>>
      /\ \A i \in 1..(k + 1) : u[i] = g[i]
  BY <1>1, <1>2, AppendProperties
<1>4. g \in Seq(Seq(Octets)) /\ <<>> \in Seq(Octets)
  <2>1. g \in LineLists
    BY <1>1, CleanText
  <2> QED
    BY <2>1, PlainText, EmptySeq
<1>5. NonEmpty[u] = NonEmpty[g]
  BY <1>4, NonEmptyIs
<1> HIDE DEF u, k
<1>6. k + 1 + 1 = k + 2 /\ k + 1 \in 1..(k + 1) /\ \A i \in 1..k : i \in 1..(k + 1)
  BY <1>1
<1>7. u[k + 1] = m /\ \A i \in 1..k : u[i] = q[i]
  BY <1>1, <1>3, <1>6
<1> QED
  BY <1>1, <1>3, <1>5, <1>6, <1>7 DEF Upper, u, g, k

\* All lines, if l is the rest behind the last line end; and a text of such.
WithRest(r, l) == IF l = <<>> THEN r ELSE Append(r, l)
HasLines(raw, sep, p, l) == raw = Ended(sep, p) \o l
LinesAre(raw, lines) == SplitLines(raw) = lines

\* Where an empty line divides a text, and its lines.
LEMMA DividedText ==
    ASSUME NEW sep \in Seps, NEW q \in Seq(Seq(Clean)), NEW m \in Seq(Clean),
           NEW r \in Seq(Seq(Clean)), NEW l \in Seq(Clean),
           NEW raw, HasLines(raw, sep, Upper(q, m) \o r, l)
    PROVE  /\ IsText(raw, sep, q, m, Ended(sep, r) \o l)
           /\ LinesAre(raw, Upper(q, m) \o WithRest(r, l))
<1> DEFINE A == Seq(Clean)
           g == Append(q, m)
           u == Upper(q, m)
           p == u \o r
           es == Ended(sep, q)
           et == Ended(sep, r)
           eu == Ended(sep, u)
           text == Ended(sep, p) \o l
<1>1. g \in Seq(A) /\ u \in Seq(A) /\ <<>> \in A /\ u = Append(g, <<>>)
  BY UpperIs, EmptySeq DEF Upper
<1>2. /\ es \in Seq(Octets) /\ et \in Seq(Octets) /\ m \in Seq(Octets) /\ l \in Seq(Octets)
      /\ sep \in Seq(Octets)
  BY EndedIs, CleanText
<1>3. Ended(sep, g) = es \o (m \o sep)
  BY EndedIs
<1> HIDE DEF u, g
<1>4. p \in Seq(A) /\ Ended(sep, p) = eu \o et
  BY <1>1, EndedBoth
<1>5. eu = Ended(sep, g) \o (<<>> \o sep)
  BY <1>1, EndedIs
<1>6. <<>> \o sep = sep
  BY <1>2, ConcatEmptySeq
<1>7. SplitLines(text) = IF l = <<>> THEN p ELSE Append(p, l)
  <2>1. p \in Seq(Seq(Clean))
    BY <1>4
  <2> HIDE DEF p
  <2>2. SplitLines(Ended(sep, p) \o l) = IF l = <<>> THEN p ELSE Append(p, l)
    BY <2>1, SplitLinesIs
  <2> QED
    BY <2>2
<1>8. Append(p, l) = u \o Append(r, l)
  <2> DEFINE Both(x, y, z) == x \o Append(y, z) = Append(x \o y, z)
  <2>1. ASSUME NEW x \in Seq(A), NEW y \in Seq(A), NEW z \in A PROVE Both(x, y, z)
    BY AppendLast, SMTT(60)
  <2> HIDE DEF Both
  <2>2. Both(u, r, l)
    BY <1>1, <2>1, Zenon
  <2> QED
    BY <2>2 DEF Both
<1> DEFINE v == IF l = <<>> THEN r ELSE Append(r, l)
<1>9. SplitLines(text) = u \o v
  <2>1. CASE l = <<>>
    BY <1>7, <2>1
  <2>2. CASE l # <<>>
    BY <1>7, <1>8, <2>2
  <2> QED
    BY <2>1, <2>2
<1> HIDE DEF p, es, et, eu
<1>10. text = (((es \o (m \o sep)) \o sep) \o et) \o l
  BY <1>3, <1>4, <1>5, <1>6
<1>12. (((es \o (m \o sep)) \o sep) \o et) \o l = (es \o m) \o ((sep \o sep) \o (et \o l))
  <2>1. Regroups(es, m, sep, et, l)
    BY <1>2, Regrouped, Zenon
  <2> QED
    BY <2>1 DEF Regroups
<1>11. text = (es \o m) \o ((sep \o sep) \o (et \o l))
  BY <1>10, <1>12, Zenon
<1>13. raw = text
  BY DEF HasLines, text, p, u
<1> QED
  BY <1>9, <1>11, <1>13 DEF u, p, es, et, IsText, LinesAre, WithRest

\* So the page divides it.
LEMMA DividedMessage ==
    ASSUME NEW sep \in Seps, NEW q \in Seq(Seq(Clean)), NEW m \in Seq(Clean),
           NEW r \in Seq(Seq(Clean)), NEW l \in Seq(Clean), Dividing(q, m),
           NEW raw, HasLines(raw, sep, Upper(q, m) \o r, l), OneKind(raw, sep)
    PROVE  /\ HeaderLines(raw) = NonEmpty[Upper(q, m)]
           /\ LinesAre(SplitMessage(raw).body, WithRest(r, l))
<1> DEFINE h == Ended(sep, q) \o m
           b == Ended(sep, r) \o l
<1>1. b \in Seq(Octets)
  BY EndedTrim
<1>2. IsText(raw, sep, q, m, b)
  BY DividedText, Zenon
<1> HIDE DEF b
<1>3. IsSplit(raw, sep, q, m, b)
  BY <1>1, <1>2, SplitMessageAt, Zenon
<1>4. SplitMessage(raw) = [header |-> h, body |-> b]
  BY <1>3 DEF IsSplit
<1> HIDE DEF h
<1>5. SplitMessage(raw).header = h /\ SplitMessage(raw).body = b
  BY <1>4
<1>6. HeaderLines(raw) = NonEmpty[Append(q, m)]
  BY <1>5, HeaderLinesIs, Zenon DEF h
<1>7. SplitLines(b) = WithRest(r, l)
  BY SplitLinesIs DEF b, WithRest
<1>8. NonEmpty[Upper(q, m)] = NonEmpty[Append(q, m)]
  BY UpperIs, Zenon
<1> QED
  BY <1>5, <1>6, <1>7, <1>8 DEF LinesAre

\* A text with an empty line: up to it both see the header, and behind it the
\* body.
LEMMA HeaderAndBody ==
    ASSUME NEW raw \in Seq(Octets), NEW sep \in Seps,
           NEW q \in Seq(Seq(Clean)), NEW m \in Seq(Clean), NEW r \in Seq(Seq(Clean)),
           NEW l \in Seq(Clean),
           Dividing(q, m), HasLines(raw, sep, Upper(q, m) \o r, l), OneKind(raw, sep),
           SplitLines(raw)[1] # <<>>
    PROVE  Agrees(raw)
<1> DEFINE A == Seq(Clean)
           u == Upper(q, m)
           v == WithRest(r, l)
           ls == SplitLines(raw)
           k == Len(q)
<1>1. /\ u \in Seq(A) /\ k \in Nat /\ Len(u) = k + 2 /\ u[k + 2] = <<>> /\ u[k + 1] = m
      /\ \A i \in 1..k : u[i] = q[i]
  BY UpperIs
<1>2. v \in Seq(A)
  BY AppendProperties DEF WithRest
<1>3. HeaderLines(raw) = NonEmpty[u] /\ SplitLines(SplitMessage(raw).body) = v
  <2>1. HeaderLines(raw) = NonEmpty[u] /\ LinesAre(SplitMessage(raw).body, v)
    BY DividedMessage, Zenon
  <2> QED
    BY <2>1 DEF LinesAre
<1>4. ls = u \o v
  <2>1. LinesAre(raw, u \o v)
    BY DividedText, Zenon
  <2> QED
    BY <2>1 DEF LinesAre
<1>5. ls[1] # <<>>
  OBVIOUS
<1>6. q = <<>> <=> k = 0
  BY EmptySeq
<1>7. (\A i \in 2..k : q[i] # <<>>) /\ (m # <<>> \/ q = <<>>)
  BY DEF Dividing
<1> SUFFICES /\ NonEmpty[u] = NonEmpty[Lines(raw, 0)]
             /\ v = SubSeq(ls, Len(Lines(raw, 0)) + 1, Len(ls))
  BY <1>3 DEF Agrees
<1> HIDE DEF u, v, ls, k
<1>8. SubSeq(ls, 1, Len(u)) = u /\ SubSeq(ls, Len(u) + 1, Len(ls)) = v
  <2> DEFINE Cut(x, y) == /\ SubSeq(x \o y, 1, Len(x)) = x
                          /\ SubSeq(x \o y, Len(x) + 1, Len(x \o y)) = y
  <2>1. ASSUME NEW x \in Seq(A), NEW y \in Seq(A) PROVE Cut(x, y)
    BY Halves
  <2> HIDE DEF Cut
  <2>2. Cut(u, v)
    BY <1>1, <1>2, <2>1, Zenon
  <2> QED
    BY <1>4, <2>2 DEF Cut
<1>9. /\ Len(ls) = Len(u) + Len(v) /\ Len(v) \in Nat
      /\ \A i \in 1..Len(u) : ls[i] = u[i]
  <2>1. Len(u) \in Nat /\ Len(v) \in Nat
    BY <1>1, <1>2, LenProperties
  <2> DEFINE w == u \o v
  <2>3. u \in Seq(A) /\ v \in Seq(A)
    BY <1>1, <1>2
  <2>4. /\ Len(w) = Len(u) + Len(v)
        /\ \A i \in 1..(Len(u) + Len(v)) : w[i] = IF i <= Len(u) THEN u[i] ELSE v[i - Len(u)]
    BY <2>3, ConcatProperties
  <2>5. ls = w
    BY <1>4
  <2> HIDE DEF w
  <2>2. /\ Len(ls) = Len(u) + Len(v)
        /\ \A i \in 1..(Len(u) + Len(v)) : ls[i] = IF i <= Len(u) THEN u[i] ELSE v[i - Len(u)]
    BY <2>4, <2>5
  <2> QED
    BY <2>1, <2>2
<1>10. FirstEmpty(ls, Len(u)) /\ Len(u) \in 1..Len(ls)
  <2>1. Len(u) \in 1..Len(u) /\ Len(u) \in 1..Len(ls)
    BY <1>1, <1>9
  <2>2. ls[Len(u)] = <<>>
    BY <1>1, <1>9, <2>1
  <2>3. ASSUME NEW j \in 1..Len(ls), ls[j] = <<>> PROVE Len(u) <= j
    <3> SUFFICES ASSUME j < Len(u) PROVE FALSE
      BY <1>1
    <3>1. j \in 1..(k + 1) /\ j \in 1..Len(u)
      BY <1>1
    <3>2. u[j] = <<>>
      BY <1>9, <2>3, <3>1
    <3>3. CASE j = 1
      BY <1>5, <2>3, <3>3
    <3>4. CASE j # 1 /\ j = k + 1
      <4>1. m = <<>> /\ k # 0
        BY <1>1, <3>2, <3>4
      <4> QED
        BY <1>6, <1>7, <4>1
    <3>5. CASE j # 1 /\ j # k + 1
      <4>1. j \in 2..k /\ j \in 1..k
        BY <1>1, <3>1, <3>5
      <4>2. q[j] = <<>>
        BY <1>1, <3>2, <4>1
      <4> QED
        BY <1>7, <4>1, <4>2
    <3> QED
      BY <3>3, <3>4, <3>5
  <2> QED
    BY <2>1, <2>2, <2>3 DEF FirstEmpty
<1>11. Lines(raw, 0) = u
  <2>1. Lines(raw, 0) = SubSeq(ls, 1, Len(u))
    BY <1>10, TopSends DEF ls
  <2> QED
    BY <1>8, <2>1
<1> QED
  BY <1>8, <1>11

\* splitMessage of the page and the loop of TOP find the same header, and leave
\* the same body, in every text whose line ends are of one kind.
THEOREM HeadersCorrect ==
    ASSUME NEW raw \in Seq(Octets)
    PROVE  HeadersAgree(raw)
<1> DEFINE before == {IF i = 1 THEN "start" ELSE raw[i - 1] :
                         i \in {j \in DOMAIN raw : raw[j] = LF}}
           crs == {i \in DOMAIN raw : raw[i] = CR}
           plain == \/ crs = {}
                    \/ before \subseteq {CR}
                       /\ \A i \in crs : i < Len(raw) /\ raw[i + 1] = LF
<1>1. SUFFICES ASSUME plain, SplitLines(raw) # <<>>, SplitLines(raw)[1] # <<>>
               PROVE  Agrees(raw)
  BY DEF HeadersAgree, Agrees
<1>2. PICK sep \in Seps : /\ IsEnded(sep, raw)
                          /\ sep = <<LF>> => \A i \in 1..Len(raw) : raw[i] # CR
  BY <1>1, PlainEnded
<1>3. PICK p \in Seq(Seq(Clean)), l \in Seq(Clean) : raw = Ended(sep, p) \o l
  BY <1>2 DEF IsEnded
<1> HIDE DEF plain
<1>4. CASE \A i \in 2..Len(p) : p[i] # <<>>
  BY <1>1, <1>2, <1>3, <1>4, AllHeader
<1>5. CASE ~\A i \in 2..Len(p) : p[i] # <<>>
  <2>1. PICK q \in Seq(Seq(Clean)), m \in Seq(Clean), r \in Seq(Seq(Clean)) :
            Dividing(q, m) /\ p = Upper(q, m) \o r
    BY <1>5, LinesDivided DEF Divided, Upper
  <2> QED
    <3>1. HasLines(raw, sep, Upper(q, m) \o r, l) /\ OneKind(raw, sep)
      BY <1>2, <1>3, <2>1 DEF HasLines, OneKind
    <3> QED
      BY <1>1, <2>1, <3>1, HeaderAndBody, Zenon
<1> QED
  BY <1>4, <1>5

-----------------------------------------------------------------------------
(* The parts of a message: walk, merge and the links                       *)

\* The way to a part of an entity, which exists.
IsWay(e, id, g) == g = [n \in 1..Len(id) |-> IF n = 1 THEN e ELSE g[n - 1].parts[id[n]]]

\* There is such a way for every part ID.
LEMMA PathExists ==
    ASSUME NEW e, NEW id \in Seq(Nat)
    PROVE  \E g : IsWay(e, id, g)
<1> DEFINE Rule(g, n) == IF n = 1 THEN e ELSE g[n - 1].parts[id[n]]
           P == {k \in 0..Len(id) : \E g : g = [n \in 1..k |-> Rule(g, n)]}
<1>1. Len(id) \in Nat
  BY LenProperties
<1>2. 0 \in P
  <2> DEFINE g == [n \in 1..0 |-> e]
  <2>1. g = [n \in 1..0 |-> Rule(g, n)]
    <3>1. 1..0 = {}
      OBVIOUS
    <3> QED
      BY <3>1
  <2> HIDE DEF g, Rule
  <2>2. \E f : f = [n \in 1..0 |-> Rule(f, n)]
    BY <2>1, Zenon
  <2>3. 0 \in 0..Len(id)
    BY <1>1
  <2> QED
    BY <2>2, <2>3
<1>3. ASSUME NEW k \in 1..Len(id), k - 1 \in P PROVE k \in P
  <2>1. PICK g : g = [n \in 1..(k - 1) |-> Rule(g, n)]
    BY <1>3
  <2> DEFINE h == [n \in 1..k |-> IF n = k THEN Rule(g, k) ELSE g[n]]
  <2>2. ASSUME NEW n \in 1..k PROVE h[n] = Rule(h, n)
    <3>1. CASE n = 1
      <4>1. CASE k = 1
        BY <3>1, <4>1
      <4>2. CASE k # 1
        <5>1. n \in 1..(k - 1) /\ n # k
          BY <1>1, <3>1, <4>2
        <5>2. g[n] = Rule(g, n)
          BY <2>1, <5>1
        <5> QED
          BY <3>1, <5>1, <5>2
      <4> QED
        BY <4>1, <4>2
    <3>2. CASE n # 1
      <4>1. n - 1 \in 1..k /\ n - 1 # k /\ n - 1 \in 1..(k - 1)
        BY <1>1, <3>2
      <4>2. h[n - 1] = g[n - 1]
        BY <4>1
      <4>3. h[n] = Rule(g, n)
        <5>1. CASE n = k
          BY <5>1
        <5>2. CASE n # k
          <6>1. n \in 1..(k - 1)
            BY <1>1, <5>2
          <6>2. g[n] = Rule(g, n)
            BY <2>1, <6>1
          <6> QED
            BY <5>2, <6>2
        <5> QED
          BY <5>1, <5>2
      <4> HIDE DEF h
      <4> QED
        BY <3>2, <4>2, <4>3
    <3> QED
      BY <3>1, <3>2
  <2>3. h = [n \in 1..k |-> Rule(h, n)]
    <3> HIDE DEF Rule
    <3>1. h = [n \in 1..k |-> h[n]]
      OBVIOUS
    <3> HIDE DEF h
    <3> QED
      BY <2>2, <3>1
  <2> HIDE DEF h, Rule
  <2>4. k \in 0..Len(id)
    BY <1>1
  <2> QED
    BY <2>3, <2>4
<1> HIDE DEF P
<1>4. 0..Len(id) \subseteq P
  BY <1>1, <1>2, <1>3, UpTo
<1>5. Len(id) \in P
  BY <1>1, <1>4
<1> QED
  BY <1>5 DEF P, IsWay

\* It goes part by part.
LEMMA PartAtIs ==
    ASSUME NEW e
    PROVE  /\ PartAt(e, << 1 >>) = e
           /\ \A id \in Seq(Nat), i \in Nat :
                id # <<>> => PartAt(e, Append(id, i)) = PartAt(e, id).parts[i]
<1> DEFINE Way(id) == CHOOSE g : IsWay(e, id, g)
<1>1. ASSUME NEW id
      PROVE  PartAt(e, id) = Way(id)[Len(id)]
  BY DEF PartAt, IsWay
<1>2. ASSUME NEW id \in Seq(Nat)
      PROVE  \A n \in 1..Len(id) : Way(id)[n] = IF n = 1 THEN e ELSE Way(id)[n - 1].parts[id[n]]
  <2>1. IsWay(e, id, Way(id))
    BY PathExists
  <2> HIDE DEF Way
  <2> QED
    BY <2>1 DEF IsWay
<1> HIDE DEF Way
<1>3. PartAt(e, << 1 >>) = e
  <2>1. << 1 >> \in Seq(Nat) /\ Len(<< 1 >>) = 1 /\ 1 \in 1..1
    OBVIOUS
  <2> QED
    BY <1>1, <1>2, <2>1
<1>4. ASSUME NEW id \in Seq(Nat), NEW i \in Nat, id # <<>>
      PROVE  PartAt(e, Append(id, i)) = PartAt(e, id).parts[i]
  <2> DEFINE t == Append(id, i)
             L == Len(id)
             f == Way(t)
             g == Way(id)
             P == {n \in 0..L : n = 0 \/ f[n] = g[n]}
  <2>1. L \in Nat \ {0} /\ t \in Seq(Nat) /\ Len(t) = L + 1 /\ t[L + 1] = i
        /\ \A n \in 1..L : t[n] = id[n]
    BY <1>4, AppendProperties, LenProperties, EmptySeq
  <2>2. \A n \in 1..L : g[n] = IF n = 1 THEN e ELSE g[n - 1].parts[id[n]]
    BY <1>2
  <2>3. \A n \in 1..(L + 1) : f[n] = IF n = 1 THEN e ELSE f[n - 1].parts[t[n]]
    BY <1>2, <2>1
  <2>4. PartAt(e, t) = f[L + 1] /\ PartAt(e, id) = g[L]
    BY <1>1, <2>1
  <2> HIDE DEF t, L, f, g
  <2>5. 0 \in P
    BY <2>1
  <2>6. ASSUME NEW n \in 1..L, n - 1 \in P PROVE n \in P
    <3>1. n \in 0..L /\ n \in 1..(L + 1)
      BY <2>1
    <3>2. CASE n = 1
      BY <2>2, <2>3, <3>1, <3>2
    <3>3. CASE n # 1
      <4>1. f[n - 1] = g[n - 1]
        BY <2>1, <2>6, <3>3
      <4>2. f[n] = f[n - 1].parts[t[n]] /\ g[n] = g[n - 1].parts[id[n]] /\ t[n] = id[n]
        BY <2>1, <2>2, <2>3, <3>1, <3>3
      <4> QED
        BY <3>1, <4>1, <4>2
    <3> QED
      BY <3>2, <3>3
  <2>7. 0..L \subseteq P
    <3> HIDE DEF P
    <3> QED
      BY <2>1, <2>5, <2>6, UpTo
  <2>8. f[L] = g[L]
    BY <2>1, <2>7
  <2>9. L + 1 \in 1..(L + 1) /\ L + 1 # 1 /\ (L + 1) - 1 = L
    BY <2>1
  <2>10. f[L + 1] = f[L].parts[i]
    BY <2>1, <2>3, <2>9
  <2> QED
    BY <2>4, <2>8, <2>10 DEF t
<1> QED
  BY <1>3, <1>4

\* The part IDs of an entity, depth by depth.
Inside(e, ids) == UNION {{PartID(id, i) : i \in DOMAIN PartAt(e, id).parts} : id \in ids}
IsLevels(e, at) ==
    at = [depth \in 0..(MaxDepth + 1) |-> IF depth = 0 THEN {<< 1 >>} ELSE Inside(e, at[depth - 1])]

\* There are such levels of every entity, as many as walk goes down.
LEMMA LevelsExist ==
    ASSUME NEW e
    PROVE  \E at : IsLevels(e, at)
<1> DEFINE N == MaxDepth + 1
           Rule(g, n) == IF n = 0 THEN {<< 1 >>} ELSE Inside(e, g[n - 1])
           P == {k \in 0..N : \E g : g = [n \in 0..k |-> Rule(g, n)]}
<1>1. N \in Nat
  BY MimeAssumption
<1> HIDE DEF N
<1>2. 0 \in P
  <2> DEFINE g == [n \in 0..0 |-> {<< 1 >>}]
  <2>1. g = [n \in 0..0 |-> Rule(g, n)]
    <3>1. \A n \in 0..0 : n = 0
      OBVIOUS
    <3> QED
      BY <3>1
  <2> HIDE DEF g, Rule
  <2>2. \E f : f = [n \in 0..0 |-> Rule(f, n)]
    BY <2>1, Zenon
  <2>3. 0 \in 0..N
    BY <1>1
  <2> QED
    BY <2>2, <2>3
<1>3. ASSUME NEW k \in 1..N, k - 1 \in P PROVE k \in P
  <2>1. PICK g : g = [n \in 0..(k - 1) |-> Rule(g, n)]
    BY <1>3
  <2> DEFINE h == [n \in 0..k |-> IF n = k THEN Rule(g, k) ELSE g[n]]
  <2>2. ASSUME NEW n \in 0..k PROVE h[n] = Rule(h, n)
    <3>1. h[n] = Rule(g, n)
      <4>1. CASE n = k
        BY <4>1
      <4>2. CASE n # k
        <5>1. n \in 0..(k - 1)
          BY <1>1, <4>2
        <5>2. g[n] = Rule(g, n)
          BY <2>1, <5>1
        <5> QED
          BY <4>2, <5>2
      <4> QED
        BY <4>1, <4>2
    <3>2. CASE n = 0
      <4> HIDE DEF h
      <4> QED
        BY <3>1, <3>2
    <3>3. CASE n # 0
      <4>1. n - 1 \in 0..k /\ n - 1 # k
        BY <1>1, <3>3
      <4>2. h[n - 1] = g[n - 1]
        BY <4>1
      <4> HIDE DEF h
      <4> QED
        BY <3>1, <3>3, <4>2
    <3> QED
      BY <3>2, <3>3
  <2>3. h = [n \in 0..k |-> Rule(h, n)]
    <3> HIDE DEF Rule
    <3>1. h = [n \in 0..k |-> h[n]]
      OBVIOUS
    <3> HIDE DEF h
    <3> QED
      BY <2>2, <3>1
  <2> HIDE DEF h, Rule
  <2>4. k \in 0..N
    BY <1>1
  <2>5. \E f : f = [n \in 0..k |-> Rule(f, n)]
    BY <2>3, Zenon
  <2> QED
    BY <2>4, <2>5
<1> HIDE DEF P
<1>4. 0..N \subseteq P
  BY <1>1, <1>2, <1>3, UpTo
<1>5. N \in P
  BY <1>1, <1>4
<1> QED
  BY <1>5 DEF P, N, IsLevels

\* Part IDs are those of the whole and of the parts of what has one.
LEMMA PartIDsAre ==
    ASSUME NEW e, \A id \in PartIDs(e) : DOMAIN PartAt(e, id).parts \subseteq Nat
    PROVE  /\ << 1 >> \in PartIDs(e)
           /\ \A id \in PartIDs(e) : id \in Seq(Nat) /\ Len(id) \in 1..(MaxDepth + 2)
           /\ \A id \in PartIDs(e) : \A i \in DOMAIN PartAt(e, id).parts :
                Depth(id) <= MaxDepth => PartID(id, i) \in PartIDs(e)
           /\ \A id \in PartIDs(e) :
                \/ id = << 1 >>
                \/ \E up \in PartIDs(e) : \E i \in DOMAIN PartAt(e, up).parts : id = PartID(up, i)
<1> DEFINE N == MaxDepth + 1
           at == CHOOSE at : IsLevels(e, at)
           ids == PartIDs(e)
<1>1. N \in Nat /\ MaxDepth \in Nat /\ MaxDepth + 2 = N + 1
  BY MimeAssumption
<1>2. ids = UNION {at[depth] : depth \in 0..N}
  BY DEF PartIDs, IsLevels, Inside
<1>3. IsLevels(e, at)
  BY LevelsExist
<1> HIDE DEF at, ids
<1>4. at[0] = {<< 1 >>} /\ \A d \in 1..N : at[d] = Inside(e, at[d - 1])
  <2>1. \A d \in 0..N : at[d] = IF d = 0 THEN {<< 1 >>} ELSE Inside(e, at[d - 1])
    BY <1>3 DEF IsLevels
  <2>2. 0 \in 0..N /\ \A d \in 1..N : d \in 0..N /\ d # 0
    BY <1>1
  <2> HIDE DEF N
  <2> QED
    BY <2>1, <2>2
<1> HIDE DEF N
<1>5. \A d \in 0..N : at[d] \subseteq ids
  BY <1>2
<1>6. \A id \in ids : \A i \in DOMAIN PartAt(e, id).parts : i \in Nat
  BY DEF ids
<1> DEFINE P == {d \in 0..N : \A id \in at[d] : id \in Seq(Nat) /\ Len(id) = d + 1}
<1>7. 0 \in P
  <2>1. << 1 >> \in Seq(Nat) /\ Len(<< 1 >>) = 0 + 1 /\ 0 \in 0..N
    BY <1>1
  <2> QED
    BY <1>4, <2>1
<1>8. ASSUME NEW d \in 1..N, d - 1 \in P PROVE d \in P
  <2>1. d \in 0..N /\ d - 1 \in 0..N
    BY <1>1
  <2>2. ASSUME NEW id \in at[d] PROVE id \in Seq(Nat) /\ Len(id) = d + 1
    <3>1. PICK up \in at[d - 1] : \E i \in DOMAIN PartAt(e, up).parts : id = PartID(up, i)
      BY <1>4, <2>2 DEF Inside
    <3>2. PICK i \in DOMAIN PartAt(e, up).parts : id = PartID(up, i)
      BY <3>1
    <3>3. i \in Nat /\ up \in Seq(Nat) /\ Len(up) = d
      BY <1>5, <1>6, <1>8, <2>1, <3>1, <3>2
    <3> QED
      BY <3>2, <3>3, AppendProperties DEF PartID
  <2> QED
    BY <2>1, <2>2
<1>9. 0..N \subseteq P
  <2> HIDE DEF P
  <2> QED
    BY <1>1, <1>7, <1>8, UpTo
<1>10. \A d \in 0..N : \A id \in at[d] : id \in Seq(Nat) /\ Len(id) = d + 1
  BY <1>9
<1> HIDE DEF P
<1>11. << 1 >> \in ids
  <2>1. 0 \in 0..N
    BY <1>1
  <2> QED
    BY <1>4, <1>5, <2>1
<1>12. ASSUME NEW id \in ids PROVE id \in Seq(Nat) /\ Len(id) \in 1..(MaxDepth + 2)
  <2>1. PICK d \in 0..N : id \in at[d]
    BY <1>2, <1>12
  <2> QED
    BY <1>1, <1>10, <2>1
<1>13. ASSUME NEW id \in ids, NEW i \in DOMAIN PartAt(e, id).parts, Depth(id) <= MaxDepth
       PROVE  PartID(id, i) \in ids
  <2>1. PICK d \in 0..N : id \in at[d]
    BY <1>2, <1>13
  <2>2. d + 1 \in 1..N /\ (d + 1) - 1 = d /\ d + 1 \in 0..N
    BY <1>1, <1>10, <1>13, <2>1 DEF Depth, N
  <2>3. PartID(id, i) \in at[d + 1]
    BY <1>4, <2>1, <2>2 DEF Inside
  <2> QED
    BY <1>5, <2>2, <2>3
<1>14. ASSUME NEW id \in ids, id # << 1 >>
       PROVE  \E up \in ids : \E i \in DOMAIN PartAt(e, up).parts : id = PartID(up, i)
  <2>1. PICK d \in 0..N : id \in at[d]
    BY <1>2, <1>14
  <2>2. d \in 1..N /\ d - 1 \in 0..N
    BY <1>1, <1>4, <1>14, <2>1
  <2>3. PICK up \in at[d - 1] : \E i \in DOMAIN PartAt(e, up).parts : id = PartID(up, i)
    BY <1>4, <2>1, <2>2 DEF Inside
  <2> QED
    BY <1>5, <2>2, <2>3
<1> QED
  BY <1>11, <1>12, <1>13, <1>14 DEF ids

\* An entity as it is read: only a multipart with a boundary has parts.
IsTree(e) ==
    \A id \in PartIDs(e) :
        /\ \E S : PartAt(e, id).parts \in Seq(S)
        /\ PartAt(e, id).parts # <<>> =>
                PartAt(e, id).type = "multipart" /\ PartAt(e, id).bounded

\* Each part has a content of its own.
OwnContents(e) ==
    \A id, other \in PartIDs(e) :
        PartAt(e, id).content = PartAt(e, other).content => id = other

\* The parts of a part that are to be seen, itself among them.
IsBelow(id, x) == Len(id) <= Len(x) /\ SubSeq(x, 1, Len(id)) = id
Below(e, id) ==
    {x \in PartIDs(e) : Depth(x) <= MaxDepth /\ ~Unseen(PartAt(e, x)) /\ IsBelow(id, x)}

\* What is known of the part IDs of such an entity.
LEMMA TreeIDs ==
    ASSUME NEW e, IsTree(e)
    PROVE  /\ << 1 >> \in PartIDs(e)
           /\ \A id \in PartIDs(e) :
                /\ id \in Seq(Nat) /\ Len(id) \in 1..(MaxDepth + 2)
                /\ Len(PartAt(e, id).parts) \in Nat
                /\ DOMAIN PartAt(e, id).parts = 1..Len(PartAt(e, id).parts)
                /\ PartAt(e, id).parts = <<>> <=> Len(PartAt(e, id).parts) = 0
           /\ \A id \in PartIDs(e) : \A i \in 1..Len(PartAt(e, id).parts) :
                /\ Depth(id) <= MaxDepth => PartID(id, i) \in PartIDs(e)
                /\ PartAt(e, PartID(id, i)) = PartAt(e, id).parts[i]
           /\ \A id \in PartIDs(e) :
                \/ id = << 1 >>
                \/ \E up \in PartIDs(e) : \E i \in 1..Len(PartAt(e, up).parts) : id = PartID(up, i)
<1>1. ASSUME NEW id \in PartIDs(e)
      PROVE  /\ Len(PartAt(e, id).parts) \in Nat
             /\ DOMAIN PartAt(e, id).parts = 1..Len(PartAt(e, id).parts)
             /\ PartAt(e, id).parts = <<>> <=> Len(PartAt(e, id).parts) = 0
  <2>1. PICK S : PartAt(e, id).parts \in Seq(S)
    BY DEF IsTree
  <2> QED
    BY <2>1, LenProperties, EmptySeq
<1>2. \A id \in PartIDs(e) : DOMAIN PartAt(e, id).parts \subseteq Nat
  BY <1>1
<1>3. /\ << 1 >> \in PartIDs(e)
      /\ \A id \in PartIDs(e) : id \in Seq(Nat) /\ Len(id) \in 1..(MaxDepth + 2)
      /\ \A id \in PartIDs(e) : \A i \in DOMAIN PartAt(e, id).parts :
           Depth(id) <= MaxDepth => PartID(id, i) \in PartIDs(e)
      /\ \A id \in PartIDs(e) :
           \/ id = << 1 >>
           \/ \E up \in PartIDs(e) : \E i \in DOMAIN PartAt(e, up).parts : id = PartID(up, i)
  BY <1>2, PartIDsAre
<1>4. ASSUME NEW id \in PartIDs(e), NEW i \in 1..Len(PartAt(e, id).parts)
      PROVE  /\ Depth(id) <= MaxDepth => PartID(id, i) \in PartIDs(e)
             /\ PartAt(e, PartID(id, i)) = PartAt(e, id).parts[i]
  <2>1. id \in Seq(Nat) /\ i \in Nat /\ id # <<>>
    BY <1>1, <1>3, EmptySeq, MimeAssumption
  <2>2. PartAt(e, Append(id, i)) = PartAt(e, id).parts[i]
    BY <2>1, PartAtIs
  <2> QED
    BY <1>1, <1>3, <2>2 DEF PartID
<1>5. ASSUME NEW id \in PartIDs(e), id # << 1 >>
      PROVE  \E up \in PartIDs(e) : \E i \in 1..Len(PartAt(e, up).parts) : id = PartID(up, i)
  BY <1>1, <1>3, <1>5
<1> QED
  BY <1>1, <1>3, <1>4, <1>5

\* Every part but the message itself is a part of another.
LEMMA ParentIDs ==
    ASSUME NEW e, IsTree(e)
    PROVE  \A id \in PartIDs(e) :
                \/ id = << 1 >>
                \/ \E up \in PartIDs(e) : \E i \in 1..Len(PartAt(e, up).parts) : id = PartID(up, i)
BY TreeIDs, SMTT(60)

\* On the way to a part there are parts.
LEMMA WayIDs ==
    ASSUME NEW e, IsTree(e)
    PROVE  \A x \in PartIDs(e), k \in 1..(MaxDepth + 2) :
                k <= Len(x) => SubSeq(x, 1, k) \in PartIDs(e)
<1> DEFINE ids == PartIDs(e)
           P == {n \in Nat : \A x \in ids, k \in 1..(MaxDepth + 2) :
                                Len(x) = n /\ k <= n => SubSeq(x, 1, k) \in ids}
<1>1. MaxDepth \in Nat
  BY MimeAssumption
<1>2. \A x \in ids : x \in Seq(Nat) /\ Len(x) \in 1..(MaxDepth + 2)
  BY TreeIDs
<1>3. \A x \in ids : x = << 1 >> \/ \E up \in ids, i \in Nat : x = Append(up, i)
  <2> SUFFICES ASSUME NEW x \in ids, x # << 1 >>
               PROVE  \E up \in ids, i \in Nat : x = Append(up, i)
    OBVIOUS
  <2>1. PICK up \in PartIDs(e) : \E i \in 1..Len(PartAt(e, up).parts) : x = PartID(up, i)
    BY ParentIDs, Zenon
  <2>2. PICK i \in 1..Len(PartAt(e, up).parts) : x = PartID(up, i)
    BY <2>1
  <2>3. i \in Nat
    BY TreeIDs
  <2> QED
    BY <2>2, <2>3 DEF PartID
<1> HIDE DEF ids
<1>4. 0 \in P
  BY <1>1
<1>5. ASSUME NEW n \in Nat, n \in P PROVE n + 1 \in P
  <2> SUFFICES ASSUME NEW x \in ids, NEW k \in 1..(MaxDepth + 2), Len(x) = n + 1, k <= n + 1
               PROVE  SubSeq(x, 1, k) \in ids
    OBVIOUS
  <2>1. x \in Seq(Nat)
    BY <1>2
  <2>2. CASE k = n + 1
    <3>1. SubSeq(x, 1, Len(x)) = x
      BY <2>1, SubSeqFull
    <3> QED
      BY <2>2, <3>1
  <2>3. CASE k # n + 1
    <3>1. x # << 1 >>
      <4>1. Len(<< 1 >>) = 1 /\ k >= 1 /\ k <= n
        BY <1>1, <2>3
      <4> QED
        BY <4>1
    <3>2. PICK up \in ids, i \in Nat : x = Append(up, i)
      BY <1>3, <3>1
    <3>3. up \in Seq(Nat) /\ Len(up) = n /\ k <= Len(up) /\ k \in Int
      BY <1>1, <1>2, <2>3, <3>2, AppendProperties
    <3>4. SubSeq(x, 1, k) = SubSeq(up, 1, k)
      BY <3>2, <3>3, PrefixGrows
    <3>5. SubSeq(up, 1, k) \in ids
      BY <1>5, <3>3
    <3> QED
      BY <3>4, <3>5
  <2> QED
    BY <2>2, <2>3
<1>6. Nat \subseteq P
  <2> HIDE DEF P
  <2> QED
    BY <1>4, <1>5, SetInduction
<1>7. ASSUME NEW x \in ids, NEW k \in 1..(MaxDepth + 2), k <= Len(x)
      PROVE  SubSeq(x, 1, k) \in ids
  <2>1. Len(x) \in P
    BY <1>1, <1>2, <1>6
  <2> QED
    BY <1>7, <2>1
<1>8. \A x \in ids, k \in 1..(MaxDepth + 2) : k <= Len(x) => SubSeq(x, 1, k) \in ids
  BY <1>7
<1> QED
  BY <1>8 DEF ids

\* Below a part are itself and what is below its parts.
LEMMA IsBelowIs ==
    ASSUME NEW e, IsTree(e), NEW id \in PartIDs(e), NEW x \in PartIDs(e)
    PROVE  /\ IsBelow(id, id)
           /\ IsBelow(id, x) => x = id \/ \E i \in 1..Len(PartAt(e, id).parts) : IsBelow(PartID(id, i), x)
           /\ \A i \in 1..Len(PartAt(e, id).parts) : IsBelow(PartID(id, i), x) =>
                    /\ IsBelow(id, x) /\ x # id /\ Len(x) > Len(id)
                    /\ x[Len(id) + 1] = i
<1> DEFINE L == Len(id)
<1>1. MaxDepth \in Nat
  BY MimeAssumption
<1>2. /\ id \in Seq(Nat) /\ L \in 1..(MaxDepth + 2) /\ x \in Seq(Nat) /\ Len(x) \in 1..(MaxDepth + 2)
      /\ Len(PartAt(e, id).parts) \in Nat
  BY TreeIDs
<1> HIDE DEF L
<1>3. IsBelow(id, id)
  <2>1. SubSeq(id, 1, Len(id)) = id
    BY <1>2, SubSeqFull
  <2> QED
    BY <1>2, <2>1 DEF IsBelow, L
<1>4. ASSUME NEW k \in 1..(L + 1), k <= Len(x)
      PROVE  /\ SubSeq(x, 1, k) \in Seq(Nat) /\ Len(SubSeq(x, 1, k)) = k
             /\ \A j \in 1..k : SubSeq(x, 1, k)[j] = x[j]
  <2>1. k \in Nat /\ k >= 1
    BY <1>2
  <2>2. \A j \in 1..k : x[j] \in Nat
    BY <1>2, <1>4, ElementOfSeq
  <2>3. /\ SubSeq(x, 1, k) \in Seq(Nat) /\ Len(SubSeq(x, 1, k)) = IF 1 <= k THEN k - 1 + 1 ELSE 0
        /\ \A j \in 1..(k - 1 + 1) : SubSeq(x, 1, k)[j] = x[1 + j - 1]
    BY <2>1, <2>2, SubSeqProperties
  <2>4. k - 1 + 1 = k /\ \A j \in 1..k : 1 + j - 1 = j
    BY <2>1
  <2> QED
    BY <2>1, <2>3, <2>4
<1>5. ASSUME IsBelow(id, x), x # id
      PROVE  \E i \in 1..Len(PartAt(e, id).parts) : IsBelow(PartID(id, i), x)
  <2> DEFINE y == SubSeq(x, 1, L + 1)
             z == SubSeq(x, 1, L)
  <2>1. L <= Len(x) /\ z = id
    BY <1>5 DEF IsBelow, L
  <2>2. L # Len(x)
    BY <1>2, <1>5, <2>1, SubSeqFull
  <2>3. L + 1 <= Len(x) /\ L + 1 \in 1..(MaxDepth + 2) /\ L \in 1..(L + 1) /\ L + 1 \in 1..(L + 1)
    BY <1>1, <1>2, <2>1, <2>2
  <2>4. y \in PartIDs(e)
    BY <2>3, WayIDs
  <2>5. y \in Seq(Nat) /\ Len(y) = L + 1 /\ \A j \in 1..(L + 1) : y[j] = x[j]
    BY <1>4, <2>3
  <2>6. z \in Seq(Nat) /\ Len(z) = L /\ \A j \in 1..L : z[j] = x[j]
    BY <1>4, <2>1, <2>3
  <2> HIDE DEF y
  <2>7. y # << 1 >>
    <3>1. Len(<< 1 >>) = 1 /\ L + 1 # 1
      BY <1>2
    <3> QED
      BY <2>5, <3>1
  <2>8. PICK up \in PartIDs(e) : \E i \in 1..Len(PartAt(e, up).parts) : y = PartID(up, i)
    BY <2>4, <2>7, ParentIDs, Zenon
  <2>9. PICK i \in 1..Len(PartAt(e, up).parts) : y = PartID(up, i)
    BY <2>8
  <2>10. up \in Seq(Nat) /\ i \in Nat /\ Len(up) \in Nat
    BY TreeIDs, LenProperties
  <2>11. Len(y) = Len(up) + 1 /\ \A j \in 1..Len(up) : y[j] = up[j]
    BY <2>9, <2>10, AppendProperties DEF PartID
  <2>12. Len(up) = L
    BY <1>2, <2>5, <2>10, <2>11
  <2>13. up = id
    <3>1. \A j \in 1..Len(up) : up[j] = z[j]
      BY <1>2, <2>5, <2>6, <2>11, <2>12, SMTT(60)
    <3>2. up = z
      BY <2>6, <2>10, <2>12, <3>1, SeqEqual
    <3> QED
      BY <2>1, <3>2
  <2>14. IsBelow(y, x)
    <3>1. SubSeq(x, 1, Len(y)) = y
      BY <2>5 DEF y
    <3> QED
      BY <2>3, <2>5, <3>1 DEF IsBelow
  <2> QED
    BY <2>9, <2>13, <2>14
<1>6. ASSUME NEW i \in 1..Len(PartAt(e, id).parts), IsBelow(PartID(id, i), x)
      PROVE  /\ IsBelow(id, x) /\ x # id /\ Len(x) > L
             /\ x[L + 1] = i
  <2> DEFINE y == Append(id, i)
             z == SubSeq(x, 1, L)
  <2>1. y \in Seq(Nat) /\ Len(y) = L + 1 /\ y[L + 1] = i /\ \A j \in 1..L : y[j] = id[j]
    BY <1>2, AppendProperties DEF L
  <2> HIDE DEF y
  <2>2. L + 1 <= Len(x) /\ SubSeq(x, 1, L + 1) = y
    BY <1>6, <2>1 DEF IsBelow, PartID, y
  <2>3. L \in 1..(L + 1) /\ L + 1 \in 1..(L + 1) /\ L <= Len(x) /\ L < Len(x)
    BY <1>2, <2>2
  <2>4. \A j \in 1..(L + 1) : y[j] = x[j]
    BY <1>4, <2>2, <2>3
  <2>5. z \in Seq(Nat) /\ Len(z) = L /\ \A j \in 1..L : z[j] = x[j]
    BY <1>4, <2>3
  <2>6. \A j \in 1..L : z[j] = id[j]
    <3>1. \A j \in 1..L : j \in 1..(L + 1)
      BY <1>2
    <3> QED
      BY <2>1, <2>4, <2>5, <3>1
  <2>7. z = id
    BY <1>2, <2>5, <2>6, SeqEqual DEF L
  <2>8. x[L + 1] = i
    BY <2>1, <2>3, <2>4
  <2>9. IsBelow(id, x)
    BY <2>3, <2>7 DEF IsBelow, L
  <2>10. x # id
    BY <2>3 DEF L
  <2> QED
    BY <2>3, <2>8, <2>9, <2>10
<1> QED
  BY <1>3, <1>5, <1>6 DEF L

\* What is below a part, by what walk finds there.
LEMMA BelowIs ==
    ASSUME NEW e, IsTree(e), NEW id \in PartIDs(e)
    PROVE  LET part == PartAt(e, id)
               ns == 1..Len(PartAt(e, id).parts)
           IN  /\ Depth(id) > MaxDepth => Below(e, id) = {}
               /\ Depth(id) <= MaxDepth /\ part.parts = <<>> =>
                        Below(e, id) = IF Unseen(part) THEN {} ELSE {id}
               /\ Depth(id) <= MaxDepth /\ part.parts # <<>> =>
                        Below(e, id) = UNION {Below(e, PartID(id, i)) : i \in ns}
               /\ \A i, j \in ns : i # j =>
                        Below(e, PartID(id, i)) \cap Below(e, PartID(id, j)) = {}
<1> DEFINE part == PartAt(e, id)
           ns == 1..Len(PartAt(e, id).parts)
<1>1. MaxDepth \in Nat
  BY MimeAssumption
<1>2. /\ Len(id) \in Nat /\ Len(part.parts) \in Nat
      /\ part.parts = <<>> <=> Len(part.parts) = 0
  BY TreeIDs, <1>1
<1>3. \A x \in PartIDs(e) : Len(x) \in Nat
  BY TreeIDs, <1>1
<1>4. \A x \in PartIDs(e) :
        /\ IsBelow(id, id)
        /\ IsBelow(id, x) => x = id \/ \E i \in ns : IsBelow(PartID(id, i), x)
        /\ \A i \in ns : IsBelow(PartID(id, i), x) =>
                IsBelow(id, x) /\ x # id /\ Len(x) > Len(id) /\ x[Len(id) + 1] = i
  BY IsBelowIs
<1>5. ASSUME Depth(id) > MaxDepth PROVE Below(e, id) = {}
  <2> SUFFICES ASSUME NEW x \in Below(e, id) PROVE FALSE
    OBVIOUS
  <2>1. x \in PartIDs(e) /\ Len(x) - 1 <= MaxDepth /\ Len(id) <= Len(x)
    BY DEF Below, Depth, IsBelow
  <2> QED
    BY <1>1, <1>2, <1>3, <1>5, <2>1 DEF Depth
<1>6. ASSUME Depth(id) <= MaxDepth, part.parts = <<>>
      PROVE  Below(e, id) = IF Unseen(part) THEN {} ELSE {id}
  <2>1. ns = {}
    BY <1>2, <1>6
  <2>2. \A x \in PartIDs(e) : IsBelow(id, x) <=> x = id
    BY <1>4, <2>1
  <2> QED
    BY <1>6, <2>2 DEF Below
<1>7. ASSUME Depth(id) <= MaxDepth, part.parts # <<>>
      PROVE  Below(e, id) = UNION {Below(e, PartID(id, i)) : i \in ns}
  <2>1. Unseen(part)
    BY <1>7 DEF IsTree, Unseen
  <2>2. ASSUME NEW x \in Below(e, id) PROVE \E i \in ns : x \in Below(e, PartID(id, i))
    <3>1. x \in PartIDs(e) /\ IsBelow(id, x) /\ x # id
      BY <2>1, <2>2 DEF Below
    <3>2. PICK i \in ns : IsBelow(PartID(id, i), x)
      BY <1>4, <3>1
    <3> QED
      BY <2>2, <3>2 DEF Below
  <2>3. ASSUME NEW i \in ns, NEW x \in Below(e, PartID(id, i)) PROVE x \in Below(e, id)
    <3>1. x \in PartIDs(e) /\ IsBelow(PartID(id, i), x)
      BY <2>3 DEF Below
    <3> QED
      BY <1>4, <2>3, <3>1 DEF Below
  <2> HIDE DEF ns
  <2> QED
    BY <2>2, <2>3
<1>8. ASSUME NEW i \in ns, NEW j \in ns, i # j
      PROVE  Below(e, PartID(id, i)) \cap Below(e, PartID(id, j)) = {}
  <2> SUFFICES ASSUME NEW x, x \in Below(e, PartID(id, i)), x \in Below(e, PartID(id, j)) PROVE FALSE
    OBVIOUS
  <2>1. x \in PartIDs(e) /\ IsBelow(PartID(id, i), x) /\ IsBelow(PartID(id, j), x)
    BY DEF Below
  <2>2. x[Len(id) + 1] = i /\ x[Len(id) + 1] = j
    BY <1>4, <2>1
  <2> QED
    BY <1>8, <2>2
<1> QED
  BY <1>5, <1>6, <1>7, <1>8

\* What is below the whole is all that is to be seen.
LEMMA AllBelow ==
    ASSUME NEW e, IsTree(e)
    PROVE  Below(e, << 1 >>) =
                {id \in PartIDs(e) : Depth(id) <= MaxDepth /\ ~Unseen(PartAt(e, id))}
<1>1. \A x \in PartIDs(e) : x = << 1 >> \/ \E up \in PartIDs(e) : \E i \in 1..Len(PartAt(e, up).parts) : x = PartID(up, i)
  BY ParentIDs, Zenon
<1>2. \A x \in PartIDs(e) : x \in Seq(Nat) /\ Len(x) \in Nat /\ Len(x) >= 1
  BY TreeIDs, MimeAssumption
<1> DEFINE P == {n \in Nat : \A x \in PartIDs(e) : Len(x) <= n => x[1] = 1}
<1>3. 0 \in P
  BY <1>2
<1>4. ASSUME NEW n \in Nat, n \in P PROVE n + 1 \in P
  <2> SUFFICES ASSUME NEW x \in PartIDs(e), Len(x) <= n + 1 PROVE x[1] = 1
    OBVIOUS
  <2>1. CASE x = << 1 >>
    BY <2>1
  <2>2. CASE x # << 1 >>
    <3>1. PICK up \in PartIDs(e) : \E i \in 1..Len(PartAt(e, up).parts) : x = PartID(up, i)
      BY <1>1, <2>2
    <3>2. PICK i \in 1..Len(PartAt(e, up).parts) : x = Append(up, i)
      BY <3>1 DEF PartID
    <3>3. i \in Nat /\ up \in Seq(Nat) /\ Len(up) \in Nat /\ Len(up) >= 1
      BY <1>2, TreeIDs
    <3>4. Len(x) = Len(up) + 1 /\ x[1] = up[1]
      BY <3>2, <3>3, AppendProperties
    <3> QED
      BY <1>4, <3>3, <3>4
  <2> QED
    BY <2>1, <2>2
<1>5. Nat \subseteq P
  <2> HIDE DEF P
  <2> QED
    BY <1>3, <1>4, SetInduction
<1>6. ASSUME NEW x \in PartIDs(e) PROVE IsBelow(<< 1 >>, x)
  <2>1. Len(x) \in P
    BY <1>2, <1>5
  <2>2. x[1] = 1
    BY <1>2, <2>1
  <2>3. \A j \in 1..1 : x[j] \in Nat
    BY <1>2, ElementOfSeq
  <2>4. /\ SubSeq(x, 1, 1) \in Seq(Nat) /\ Len(SubSeq(x, 1, 1)) = IF 1 <= 1 THEN 1 - 1 + 1 ELSE 0
        /\ \A j \in 1..(1 - 1 + 1) : SubSeq(x, 1, 1)[j] = x[1 + j - 1]
    BY <2>3, SubSeqProperties
  <2> DEFINE y == SubSeq(x, 1, 1)
  <2>5. y \in Seq(Nat) /\ Len(y) = 1 /\ y[1] = x[1]
    BY <2>4
  <2> DEFINE one == << 1 >>
  <2>6. one \in Seq(Nat) /\ Len(one) = 1 /\ one[1] = 1
    OBVIOUS
  <2> HIDE DEF y, one
  <2>7. \A j \in 1..Len(y) : y[j] = one[j]
    BY <2>2, <2>5, <2>6
  <2>8. y = one
    BY <2>5, <2>6, <2>7, SeqEqual
  <2> QED
    BY <1>2, <2>6, <2>8 DEF y, one, IsBelow
<1> QED
  BY <1>6 DEF Below

\* The messages the page can show of an entity: bodies that are contents of
\* its parts, and attachments that are its parts, with their own IDs.
ShownAs(part) == IF part.type = "multipart" THEN Raw(part) ELSE Decoded(part)
Bodies(e) == [of : {PartAt(e, id).content : id \in PartIDs(e)}, decoded : BOOLEAN]
AttachmentAt(e, id) ==
    [partID |-> id, inline |-> PartAt(e, id).disposition = "inline", shown |-> ShownAs(PartAt(e, id))]
Attachments(e) == {AttachmentAt(e, id) : id \in PartIDs(e)}
Msgs(e) == [text : Seq(Bodies(e)), html : Seq(Bodies(e)), attachments : Seq(Attachments(e))]

\* The contents that a message shows; it shows those of the parts ids, once.
Contents(m) ==
    {v.of : v \in ToSet(m.text)} \cup {v.of : v \in ToSet(m.html)}
        \cup {a.shown.of : a \in ToSet(m.attachments)}
Shows(e, m, ids) ==
    /\ m \in Msgs(e) /\ IsFiniteSet(ids)
    /\ Len(m.text) + Len(m.html) + Len(m.attachments) = Cardinality(ids)
    /\ Contents(m) = {PartAt(e, id).content : id \in ids}

\* The elements of two sequences together.
LEMMA ToSetConcat ==
    ASSUME NEW A, NEW s \in Seq(A), NEW t \in Seq(A)
    PROVE  /\ s \o t \in Seq(A) /\ Len(s \o t) = Len(s) + Len(t)
           /\ Len(s) \in Nat /\ Len(t) \in Nat
           /\ ToSet(s \o t) = ToSet(s) \cup ToSet(t)
<1> DEFINE u == s \o t
<1>1. u \in Seq(A) /\ Len(u) = Len(s) + Len(t)
  BY ConcatProperties
<1>2. /\ Len(s) \in Nat /\ Len(t) \in Nat
      /\ DOMAIN s = 1..Len(s) /\ DOMAIN t = 1..Len(t) /\ DOMAIN u = 1..(Len(s) + Len(t))
  BY <1>1, LenProperties
<1>3. \A i \in 1..(Len(s) + Len(t)) : u[i] = IF i <= Len(s) THEN s[i] ELSE t[i - Len(s)]
  BY ConcatProperties
<1> HIDE DEF u
<1>4. ASSUME NEW i \in DOMAIN s PROVE s[i] \in ToSet(u)
  <2>1. i \in DOMAIN u /\ u[i] = s[i]
    BY <1>2, <1>3
  <2> QED
    BY <2>1 DEF ToSet
<1>5. ASSUME NEW i \in DOMAIN t PROVE t[i] \in ToSet(u)
  <2>1. Len(s) + i \in DOMAIN u /\ u[Len(s) + i] = t[i]
    BY <1>2, <1>3
  <2> QED
    BY <2>1 DEF ToSet
<1>6. ASSUME NEW i \in DOMAIN u PROVE u[i] \in ToSet(s) \cup ToSet(t)
  <2>1. CASE i <= Len(s)
    <3>1. i \in DOMAIN s /\ u[i] = s[i]
      BY <1>2, <1>3, <2>1
    <3> QED
      BY <3>1 DEF ToSet
  <2>2. CASE i > Len(s)
    <3>1. i - Len(s) \in DOMAIN t /\ u[i] = t[i - Len(s)]
      BY <1>2, <1>3, <2>2
    <3> QED
      BY <3>1 DEF ToSet
  <2> QED
    BY <1>2, <2>1, <2>2
<1>7. ToSet(u) = ToSet(s) \cup ToSet(t)
  BY <1>4, <1>5, <1>6 DEF ToSet
<1> QED
  BY <1>1, <1>2, <1>7 DEF u

\* Two messages that show different parts show them all together.
LEMMA MergeShows ==
    ASSUME NEW e, NEW m, NEW n, NEW S, NEW T, Shows(e, m, S), Shows(e, n, T), S \cap T = {}
    PROVE  Shows(e, Merge(m, n), S \cup T)
<1> DEFINE B == Bodies(e)
           A == Attachments(e)
           u == Merge(m, n)
<1>1. /\ m.text \in Seq(B) /\ m.html \in Seq(B) /\ m.attachments \in Seq(A)
      /\ n.text \in Seq(B) /\ n.html \in Seq(B) /\ n.attachments \in Seq(A)
  BY DEF Shows, Msgs
<1>2. /\ u.text = m.text \o n.text /\ u.html = m.html \o n.html
      /\ u.attachments = m.attachments \o n.attachments
      /\ u = [text |-> u.text, html |-> u.html, attachments |-> u.attachments]
  BY DEF Merge
<1> HIDE DEF B, A, u
<1>3. /\ u.text \in Seq(B) /\ Len(u.text) = Len(m.text) + Len(n.text)
      /\ Len(m.text) \in Nat /\ Len(n.text) \in Nat
      /\ ToSet(u.text) = ToSet(m.text) \cup ToSet(n.text)
  BY <1>1, <1>2, ToSetConcat
<1>4. /\ u.html \in Seq(B) /\ Len(u.html) = Len(m.html) + Len(n.html)
      /\ Len(m.html) \in Nat /\ Len(n.html) \in Nat
      /\ ToSet(u.html) = ToSet(m.html) \cup ToSet(n.html)
  BY <1>1, <1>2, ToSetConcat
<1>5. /\ u.attachments \in Seq(A) /\ Len(u.attachments) = Len(m.attachments) + Len(n.attachments)
      /\ Len(m.attachments) \in Nat /\ Len(n.attachments) \in Nat
      /\ ToSet(u.attachments) = ToSet(m.attachments) \cup ToSet(n.attachments)
  BY <1>1, <1>2, ToSetConcat
<1>6. u \in Msgs(e)
  BY <1>2, <1>3, <1>4, <1>5 DEF Msgs, A, B
<1>7. /\ IsFiniteSet(S \cup T)
      /\ Cardinality(S \cup T) = Cardinality(S) + Cardinality(T) - Cardinality(S \cap T)
  BY FS_Union DEF Shows
<1>8. Cardinality(S \cap T) = 0 /\ Cardinality(S) \in Nat /\ Cardinality(T) \in Nat
  BY FS_EmptySet, FS_CardinalityType DEF Shows
<1>9. /\ Len(m.text) + Len(m.html) + Len(m.attachments) = Cardinality(S)
      /\ Len(n.text) + Len(n.html) + Len(n.attachments) = Cardinality(T)
      /\ Contents(m) = {PartAt(e, id).content : id \in S}
      /\ Contents(n) = {PartAt(e, id).content : id \in T}
  BY DEF Shows
<1>10. Len(u.text) + Len(u.html) + Len(u.attachments) = Cardinality(S \cup T)
  <2> DEFINE a == Len(m.text)
             b == Len(m.html)
             c == Len(m.attachments)
             x == Len(n.text)
             y == Len(n.html)
             z == Len(n.attachments)
  <2>1. a \in Nat /\ b \in Nat /\ c \in Nat /\ x \in Nat /\ y \in Nat /\ z \in Nat
    BY <1>3, <1>4, <1>5
  <2>2. Len(u.text) = a + x /\ Len(u.html) = b + y /\ Len(u.attachments) = c + z
    BY <1>3, <1>4, <1>5
  <2>3. Cardinality(S \cup T) = Cardinality(S) + Cardinality(T)
    BY <1>7, <1>8
  <2>4. a + b + c = Cardinality(S) /\ x + y + z = Cardinality(T)
    BY <1>9
  <2> HIDE DEF a, b, c, x, y, z
  <2> QED
    BY <2>1, <2>2, <2>3, <2>4
<1>11. Contents(u) = Contents(m) \cup Contents(n)
  BY <1>3, <1>4, <1>5 DEF Contents
<1>12. Contents(u) = {PartAt(e, id).content : id \in S \cup T}
  BY <1>9, <1>11
<1> QED
  BY <1>6, <1>7, <1>10, <1>12 DEF Shows, u

\* A message that shows nothing.
LEMMA NothingShows ==
    ASSUME NEW e
    PROVE  /\ Nothing \in Msgs(e) /\ Shows(e, Nothing, {})
           /\ \A m \in Msgs(e) : Shows(e, m, {}) => m = Nothing
<1>1. <<>> \in Seq(Bodies(e)) /\ <<>> \in Seq(Attachments(e)) /\ Len(<<>>) = 0 /\ DOMAIN <<>> = {}
  BY EmptySeq
<1>2. Nothing \in Msgs(e)
  BY <1>1 DEF Nothing, Msgs
<1>3. Nothing.text = <<>> /\ Nothing.html = <<>> /\ Nothing.attachments = <<>>
  BY DEF Nothing
<1>4. Contents(Nothing) = {}
  BY <1>1, <1>3 DEF Contents, ToSet
<1>5. IsFiniteSet({}) /\ Cardinality({}) = 0
  BY FS_EmptySet
<1>6. Shows(e, Nothing, {})
  BY <1>1, <1>2, <1>3, <1>4, <1>5 DEF Shows
<1>7. ASSUME NEW m \in Msgs(e), Shows(e, m, {}) PROVE m = Nothing
  <2>1. /\ m.text \in Seq(Bodies(e)) /\ m.html \in Seq(Bodies(e)) /\ m.attachments \in Seq(Attachments(e))
        /\ m = [text |-> m.text, html |-> m.html, attachments |-> m.attachments]
    BY DEF Msgs
  <2>2. Len(m.text) \in Nat /\ Len(m.html) \in Nat /\ Len(m.attachments) \in Nat
    BY <2>1, LenProperties
  <2>3. Len(m.text) + Len(m.html) + Len(m.attachments) = 0
    BY <1>5, <1>7 DEF Shows
  <2>4. Len(m.text) = 0 /\ Len(m.html) = 0 /\ Len(m.attachments) = 0
    <3> DEFINE a == Len(m.text)
               b == Len(m.html)
               c == Len(m.attachments)
    <3>1. a \in Nat /\ b \in Nat /\ c \in Nat /\ a + b + c = 0
      BY <2>2, <2>3
    <3> HIDE DEF a, b, c
    <3>2. a = 0 /\ b = 0 /\ c = 0
      BY <3>1
    <3> QED
      BY <3>2 DEF a, b, c
  <2>5. m.text = <<>> /\ m.html = <<>> /\ m.attachments = <<>>
    BY <2>1, <2>4, EmptySeq
  <2> QED
    BY <2>1, <2>5 DEF Nothing
<1> QED
  BY <1>2, <1>6, <1>7

\* The messages merged, one after the other.
IsMerged(msgs, merged) ==
    merged = [n \in 0..Len(msgs) |-> IF n = 0 THEN Nothing ELSE Merge(merged[n - 1], msgs[n])]

\* There is such a loop for the messages of any number of parts.
LEMMA MergedExists ==
    ASSUME NEW msgs, Len(msgs) \in Nat
    PROVE  \E merged : IsMerged(msgs, merged)
<1> DEFINE N == Len(msgs)
           Rule(g, n) == IF n = 0 THEN Nothing ELSE Merge(g[n - 1], msgs[n])
           P == {k \in 0..N : \E g : g = [n \in 0..k |-> Rule(g, n)]}
<1>1. N \in Nat
  OBVIOUS
<1> HIDE DEF N
<1>2. 0 \in P
  <2> DEFINE g == [n \in 0..0 |-> Nothing]
  <2>1. g = [n \in 0..0 |-> Rule(g, n)]
    <3>1. \A n \in 0..0 : n = 0
      OBVIOUS
    <3> QED
      BY <3>1
  <2> HIDE DEF g, Rule
  <2>2. \E f : f = [n \in 0..0 |-> Rule(f, n)]
    BY <2>1, Zenon
  <2>3. 0 \in 0..N
    BY <1>1
  <2> QED
    BY <2>2, <2>3
<1>3. ASSUME NEW k \in 1..N, k - 1 \in P PROVE k \in P
  <2>1. PICK g : g = [n \in 0..(k - 1) |-> Rule(g, n)]
    BY <1>3
  <2> DEFINE h == [n \in 0..k |-> IF n = k THEN Rule(g, k) ELSE g[n]]
  <2>2. ASSUME NEW n \in 0..k PROVE h[n] = Rule(h, n)
    <3>1. h[n] = Rule(g, n)
      <4>1. CASE n = k
        BY <4>1
      <4>2. CASE n # k
        <5>1. n \in 0..(k - 1)
          BY <1>1, <4>2
        <5>2. g[n] = Rule(g, n)
          BY <2>1, <5>1
        <5> QED
          BY <4>2, <5>2
      <4> QED
        BY <4>1, <4>2
    <3>2. CASE n = 0
      <4> HIDE DEF h
      <4> QED
        BY <3>1, <3>2
    <3>3. CASE n # 0
      <4>1. n - 1 \in 0..k /\ n - 1 # k
        BY <1>1, <3>3
      <4>2. h[n - 1] = g[n - 1]
        BY <4>1
      <4> HIDE DEF h
      <4> QED
        BY <3>1, <3>3, <4>2
    <3> QED
      BY <3>2, <3>3
  <2>3. h = [n \in 0..k |-> Rule(h, n)]
    <3> HIDE DEF Rule
    <3>1. h = [n \in 0..k |-> h[n]]
      OBVIOUS
    <3> HIDE DEF h
    <3> QED
      BY <2>2, <3>1
  <2> HIDE DEF h, Rule
  <2>4. k \in 0..N
    BY <1>1
  <2>5. \E f : f = [n \in 0..k |-> Rule(f, n)]
    BY <2>3, Zenon
  <2> QED
    BY <2>4, <2>5
<1> HIDE DEF P
<1>4. 0..N \subseteq P
  BY <1>1, <1>2, <1>3, UpTo
<1>5. N \in P
  BY <1>1, <1>4
<1> QED
  BY <1>5 DEF P, N, IsMerged


\* The first n of some sets of parts, together.
Together(ids, n) == UNION {ids[i] : i \in 1..n}

\* Messages that show different parts show them all when they are merged.
LEMMA MergeAllShows ==
    ASSUME NEW e, NEW msgs, Len(msgs) \in Nat, NEW ids,
           \A i \in 1..Len(msgs) : Shows(e, msgs[i], ids[i]),
           \A i, j \in 1..Len(msgs) : i # j => ids[i] \cap ids[j] = {}
    PROVE  Shows(e, MergeAll(msgs), Together(ids, Len(msgs)))
<1> DEFINE f == CHOOSE merged : IsMerged(msgs, merged)
           L == Len(msgs)
           P == {n \in 0..L : Shows(e, f[n], Together(ids, n))}
<1>1. MergeAll(msgs) = f[L]
  BY DEF MergeAll, IsMerged
<1>2. IsMerged(msgs, f)
  BY MergedExists
<1> HIDE DEF f
<1>3. f[0] = Nothing /\ \A n \in 1..L : f[n] = Merge(f[n - 1], msgs[n])
  <2>1. \A n \in 0..L : f[n] = IF n = 0 THEN Nothing ELSE Merge(f[n - 1], msgs[n])
    BY <1>2 DEF IsMerged
  <2>2. 0 \in 0..L /\ \A n \in 1..L : n \in 0..L /\ n # 0
    OBVIOUS
  <2> QED
    BY <2>1, <2>2
<1>4. L \in Nat /\ \A i \in 1..L : Shows(e, msgs[i], ids[i])
  OBVIOUS
<1>5. \A i, j \in 1..L : i # j => ids[i] \cap ids[j] = {}
  OBVIOUS
<1> HIDE DEF L
<1>6. 0 \in P
  <2>1. 0 \in 0..L /\ 1..0 = {}
    BY <1>4
  <2>2. Together(ids, 0) = {}
    BY <2>1 DEF Together
  <2> QED
    BY <1>3, <2>1, <2>2, NothingShows
<1>7. ASSUME NEW n \in 1..L, n - 1 \in P PROVE n \in P
  <2>1. n \in 0..L
    BY <1>4
  <2>2. Together(ids, n) = Together(ids, n - 1) \cup ids[n]
    <3>1. 1..n = 1..(n - 1) \cup {n}
      BY <1>4
    <3> QED
      BY <3>1 DEF Together
  <2>3. Together(ids, n - 1) \cap ids[n] = {}
    <3>1. \A i \in 1..(n - 1) : i \in 1..L /\ i # n
      BY <1>4
    <3> QED
      BY <1>5, <3>1 DEF Together
  <2>4. Shows(e, f[n - 1], Together(ids, n - 1)) /\ Shows(e, msgs[n], ids[n])
    BY <1>4, <1>7
  <2>5. Shows(e, Merge(f[n - 1], msgs[n]), Together(ids, n - 1) \cup ids[n])
    BY <2>3, <2>4, MergeShows
  <2> QED
    BY <1>3, <2>1, <2>2, <2>5
<1> HIDE DEF P
<1>8. 0..L \subseteq P
  BY <1>4, <1>6, <1>7, UpTo
<1>9. L \in P
  BY <1>4, <1>8
<1> QED
  BY <1>1, <1>9 DEF P, L

\* What a body, or an attachment, shows.
LEMMA ShowsOne ==
    ASSUME NEW e, NEW id \in PartIDs(e)
    PROVE  LET part == PartAt(e, id)
           IN  /\ \A d \in BOOLEAN :
                    LET shown == [of |-> part.content, decoded |-> d]
                    IN  /\ Shows(e, AppendText(part, shown), IF part.body = "empty" THEN {} ELSE {id})
                        /\ Shows(e, AppendHTML(part, shown), IF part.body = "empty" THEN {} ELSE {id})
               /\ Shows(e, AddAttachment(part, ShownAs(part), id), {id})
<1> DEFINE part == PartAt(e, id)
<1>1. /\ <<>> \in Seq(Bodies(e)) /\ <<>> \in Seq(Attachments(e)) /\ Len(<<>>) = 0 /\ DOMAIN <<>> = {}
      /\ ToSet(<<>>) = {}
  BY EmptySeq DEF ToSet
<1>2. /\ IsFiniteSet({}) /\ Cardinality({}) = 0 /\ IsFiniteSet({id}) /\ Cardinality({id}) = 1
  BY FS_EmptySet, FS_Singleton
<1>3. \A b : /\ Len(<<b>>) = 1 /\ ToSet(<<b>>) = {b}
  BY DEF ToSet
<1>4. ASSUME NEW d \in BOOLEAN
      PROVE  LET shown == [of |-> part.content, decoded |-> d]
                 S == IF part.body = "empty" THEN {} ELSE {id}
             IN  Shows(e, AppendText(part, shown), S) /\ Shows(e, AppendHTML(part, shown), S)
  <2> DEFINE shown == [of |-> part.content, decoded |-> d]
             S == IF part.body = "empty" THEN {} ELSE {id}
  <2>1. shown \in Bodies(e) /\ shown.of = part.content
    BY DEF Bodies
  <2> HIDE DEF shown
  <2>2. CASE part.body = "empty"
    <3>1. AppendText(part, shown) = Nothing /\ AppendHTML(part, shown) = Nothing /\ S = {}
      BY <2>2 DEF AppendText, AppendHTML, Body, Nothing
    <3> QED
      BY <3>1, NothingShows DEF shown
  <2>3. CASE part.body # "empty"
    <3>1. /\ AppendText(part, shown) = [text |-> <<shown>>, html |-> <<>>, attachments |-> <<>>]
          /\ AppendHTML(part, shown) = [text |-> <<>>, html |-> <<shown>>, attachments |-> <<>>]
          /\ S = {id}
      BY <2>3 DEF AppendText, AppendHTML, Body, Nothing
    <3>2. <<shown>> \in Seq(Bodies(e))
      BY <2>1
    <3>3. {v.of : v \in {shown}} = {part.content}
      BY <2>1
    <3>4. {PartAt(e, x).content : x \in {id}} = {part.content}
      OBVIOUS
    <3>5. Shows(e, AppendText(part, shown), {id})
      BY <1>1, <1>2, <1>3, <3>1, <3>2, <3>3, <3>4 DEF Shows, Msgs, Contents
    <3>6. Shows(e, AppendHTML(part, shown), {id})
      BY <1>1, <1>2, <1>3, <3>1, <3>2, <3>3, <3>4 DEF Shows, Msgs, Contents
    <3> QED
      BY <3>1, <3>5, <3>6 DEF shown
  <2> QED
    BY <2>2, <2>3
<1>5. Shows(e, AddAttachment(part, ShownAs(part), id), {id})
  <2> DEFINE a == AttachmentAt(e, id)
  <2>1. AddAttachment(part, ShownAs(part), id) = [text |-> <<>>, html |-> <<>>, attachments |-> <<a>>]
    BY DEF AddAttachment, Nothing, AttachmentAt
  <2>2. a \in Attachments(e)
    BY DEF Attachments
  <2>3. a.shown.of = part.content
    BY DEF AttachmentAt, ShownAs, Raw, Decoded
  <2> HIDE DEF a
  <2>4. <<a>> \in Seq(Attachments(e))
    BY <2>2
  <2>5. {v.shown.of : v \in {a}} = {part.content}
    BY <2>3
  <2>6. {PartAt(e, x).content : x \in {id}} = {part.content}
    OBVIOUS
  <2> QED
    BY <1>1, <1>2, <1>3, <2>1, <2>4, <2>5, <2>6 DEF Shows, Msgs, Contents
<1> QED
  BY <1>4, <1>5

\* A part that is not looked into shows itself, unless it is not to be seen.
LEMMA LeafShows ==
    ASSUME NEW e, IsTree(e), NEW id \in PartIDs(e), NEW walked,
           Depth(id) <= MaxDepth,
           PartAt(e, id).parts = <<>>
    PROVE  Shows(e, WalkPart(PartAt(e, id), id, walked), IF Unseen(PartAt(e, id)) THEN {} ELSE {id})
<1> DEFINE part == PartAt(e, id)
           m == WalkPart(part, id, walked)
           empty == part.body = "empty"
<1>1. /\ Shows(e, AppendText(part, Decoded(part)), IF empty THEN {} ELSE {id})
      /\ Shows(e, AppendHTML(part, Decoded(part)), IF empty THEN {} ELSE {id})
      /\ Shows(e, AppendText(part, Raw(part)), IF empty THEN {} ELSE {id})
  BY ShowsOne DEF Decoded, Raw
<1>2. Shows(e, AddAttachment(part, ShownAs(part), id), {id})
  BY ShowsOne
<1>3. Shows(e, Nothing, {})
  BY NothingShows
<1>4. ~ (Depth(id) > MaxDepth)
  <2>1. Len(id) \in Int /\ MaxDepth \in Int
    BY TreeIDs, MimeAssumption
  <2> QED
    BY <2>1 DEF Depth
<1>5. CASE part.type = "multipart" /\ part.bounded
  <2>1. m = IF part.ends = "broken" THEN AppendText(part, Raw(part)) ELSE Nothing
    BY <1>4, <1>5 DEF WalkPart
  <2>2. Unseen(part) <=> part.ends # "broken" \/ empty
    BY <1>5 DEF Unseen
  <2>3. AppendText(part, Raw(part)) = Nothing \/ ~empty
    BY DEF AppendText, Body, Nothing
  <2> QED
    BY <1>1, <1>3, <2>1, <2>2
<1>6. CASE part.type = "multipart" /\ ~part.bounded
  <2>1. m = AddAttachment(part, ShownAs(part), id)
    BY <1>4, <1>6 DEF WalkPart, WalkLeaf, ShownAs
  <2>2. ~Unseen(part)
    BY <1>6 DEF Unseen
  <2> QED
    BY <1>2, <2>1, <2>2
<1>7. CASE part.type # "multipart"
  <2>1. m = WalkLeaf(part, id) /\ ShownAs(part) = Decoded(part)
    BY <1>4, <1>7 DEF WalkPart, ShownAs
  <2>2. Unseen(part) <=> empty /\ ~IsAttachment(part) /\ part.type \in {"", "text/plain", "text/html"}
    BY <1>7 DEF Unseen
  <2>3. CASE ~IsAttachment(part) /\ part.type \in {"", "text/plain"}
    BY <1>1, <1>7, <2>1, <2>2, <2>3 DEF WalkLeaf
  <2>4. CASE ~IsAttachment(part) /\ part.type = "text/html"
    BY <1>1, <1>7, <2>1, <2>2, <2>4 DEF WalkLeaf
  <2>5. CASE IsAttachment(part) \/ part.type \notin {"", "text/plain", "text/html"}
    BY <1>2, <1>7, <2>1, <2>2, <2>5 DEF WalkLeaf
  <2> QED
    BY <2>3, <2>4, <2>5
<1> QED
  BY <1>5, <1>6, <1>7

\* The calls of walk for an entity, each with the results of those it makes.
Called(e, walk, id) ==
    WalkPart(PartAt(e, id), id, [i \in DOMAIN PartAt(e, id).parts |-> walk[PartID(id, i)]])
IsWalk(e, walk) == walk = [id \in PartIDs(e) |-> Called(e, walk, id)]

\* The parts of the k deepest levels.
Deep(e, k) == {id \in PartIDs(e) : Len(id) >= MaxDepth + 2 - k}

\* A call depends on no results but those for the parts of its part.
LEMMA CalledFor ==
    ASSUME NEW e, IsTree(e), NEW id \in PartIDs(e), NEW f, NEW g,
           Depth(id) <= MaxDepth =>
                \A i \in DOMAIN PartAt(e, id).parts : f[PartID(id, i)] = g[PartID(id, i)]
    PROVE  Called(e, f, id) = Called(e, g, id)
<1>1. CASE Depth(id) <= MaxDepth
  <2> DEFINE part == PartAt(e, id)
  <2>1. [i \in DOMAIN part.parts |-> f[PartID(id, i)]] = [i \in DOMAIN part.parts |-> g[PartID(id, i)]]
    BY <1>1
  <2> QED
    BY <2>1 DEF Called
<1>2. CASE Depth(id) > MaxDepth
  BY <1>2 DEF Called, WalkPart
<1>3. Depth(id) \in Int /\ MaxDepth \in Int
  BY TreeIDs, MimeAssumption DEF Depth
<1> QED
  BY <1>1, <1>2, <1>3

\* The calls end, as no part is deeper than the limit and one more.
LEMMA WalkExists ==
    ASSUME NEW e, IsTree(e)
    PROVE  \E walk : IsWalk(e, walk)
<1> DEFINE N == MaxDepth + 1
           P == {k \in 0..N : \E g : g = [id \in Deep(e, k) |-> Called(e, g, id)]}
<1>1. MaxDepth \in Nat /\ N \in Nat /\ MaxDepth + 2 = N + 1
  BY MimeAssumption
<1>2. \A id \in PartIDs(e) :
        /\ Len(id) \in Nat /\ Len(id) >= 1 /\ Len(id) <= N + 1
        /\ Depth(id) <= MaxDepth <=> Len(id) <= N
        /\ DOMAIN PartAt(e, id).parts = 1..Len(PartAt(e, id).parts)
  BY <1>1, TreeIDs DEF Depth
<1>3. \A id \in PartIDs(e) : \A i \in DOMAIN PartAt(e, id).parts :
        Len(id) <= N => PartID(id, i) \in PartIDs(e) /\ Len(PartID(id, i)) = Len(id) + 1
  <2>1. \A id \in PartIDs(e) : id \in Seq(Nat)
    BY TreeIDs
  <2>2. \A id \in PartIDs(e) : \A i \in Nat : Len(PartID(id, i)) = Len(id) + 1
    BY <2>1, AppendProperties DEF PartID
  <2>3. \A id \in PartIDs(e) : \A i \in DOMAIN PartAt(e, id).parts : i \in Nat
    BY <1>2, TreeIDs
  <2> QED
    BY <1>2, <2>2, <2>3, TreeIDs
<1> HIDE DEF N
<1>4. \A k \in 0..N : Deep(e, k) = {id \in PartIDs(e) : Len(id) + k >= N + 1}
  BY <1>1, <1>2 DEF Deep
<1>5. 0 \in P
  <2> DEFINE g == [id \in Deep(e, 0) |-> Nothing]
  <2>1. ASSUME NEW id \in Deep(e, 0) PROVE g[id] = Called(e, g, id)
    <3>1. id \in PartIDs(e) /\ Depth(id) > MaxDepth
      BY <1>1, <1>2, <1>4 DEF Depth
    <3>2. Called(e, g, id) = Nothing
      BY <3>1 DEF Called, WalkPart
    <3> QED
      BY <3>2
  <2>2. g = [id \in Deep(e, 0) |-> g[id]]
    OBVIOUS
  <2> HIDE DEF g
  <2>3. g = [id \in Deep(e, 0) |-> Called(e, g, id)]
    BY <2>1, <2>2
  <2>4. \E f : f = [id \in Deep(e, 0) |-> Called(e, f, id)]
    BY <2>3, Zenon
  <2>5. 0 \in 0..N
    BY <1>1
  <2> QED
    BY <2>4, <2>5
<1>6. ASSUME NEW k \in 1..N, k - 1 \in P PROVE k \in P
  <2>1. PICK g : g = [id \in Deep(e, k - 1) |-> Called(e, g, id)]
    BY <1>6
  <2> DEFINE h == [id \in Deep(e, k) |-> IF id \in Deep(e, k - 1) THEN g[id] ELSE Called(e, g, id)]
  <2>2. k \in 0..N /\ k - 1 \in 0..N
    BY <1>1
  <2>3. ASSUME NEW id \in Deep(e, k) PROVE h[id] = Called(e, g, id)
    <3>1. CASE id \in Deep(e, k - 1)
      BY <2>1, <3>1
    <3>2. CASE id \notin Deep(e, k - 1)
      BY <3>2
    <3> QED
      BY <3>1, <3>2
  <2>4. \A id \in Deep(e, k - 1) : id \in Deep(e, k) /\ h[id] = g[id]
    <3>1. Deep(e, k - 1) \subseteq Deep(e, k)
      BY <1>1, <1>2, <1>4, <2>2
    <3> QED
      BY <3>1
  <2>5. h = [id \in Deep(e, k) |-> h[id]]
    OBVIOUS
  <2> HIDE DEF h
  <2>6. ASSUME NEW id \in Deep(e, k) PROVE Called(e, g, id) = Called(e, h, id)
    <3>1. id \in PartIDs(e) /\ Len(id) + k >= N + 1
      BY <1>4, <2>2
    <3>2. ASSUME Depth(id) <= MaxDepth, NEW i \in DOMAIN PartAt(e, id).parts
          PROVE  g[PartID(id, i)] = h[PartID(id, i)]
      <4>1. PartID(id, i) \in PartIDs(e) /\ Len(PartID(id, i)) = Len(id) + 1
        BY <1>2, <1>3, <3>1, <3>2
      <4>2. Len(PartID(id, i)) + (k - 1) >= N + 1
        BY <1>1, <1>2, <3>1, <4>1
      <4>3. PartID(id, i) \in Deep(e, k - 1)
        BY <1>4, <2>2, <4>1, <4>2
      <4> QED
        BY <2>4, <4>3
    <3> QED
      BY <3>1, <3>2, CalledFor
  <2>7. h = [id \in Deep(e, k) |-> Called(e, h, id)]
    BY <2>3, <2>5, <2>6
  <2>8. \E f : f = [id \in Deep(e, k) |-> Called(e, f, id)]
    BY <2>7, Zenon
  <2> QED
    BY <2>2, <2>8
<1> HIDE DEF P
<1>7. 0..N \subseteq P
  BY <1>1, <1>5, <1>6, UpTo
<1>8. N \in P
  BY <1>1, <1>7
<1>9. Deep(e, N) = PartIDs(e)
  <2>1. N \in 0..N
    BY <1>1
  <2>2. \A id \in PartIDs(e) : Len(id) + N >= N + 1
    BY <1>1, <1>2
  <2> QED
    BY <1>4, <2>1, <2>2
<1> QED
  BY <1>8, <1>9 DEF P, IsWalk

\* What walk shows of a part: what there is to be seen below it, once.
LEMMA WalkShows ==
    ASSUME NEW e, IsTree(e)
    PROVE  Shows(e, Walk(e), Below(e, << 1 >>))
<1> DEFINE w == CHOOSE walk : IsWalk(e, walk)
           N == MaxDepth + 1
           P == {k \in 0..N : \A id \in Deep(e, k) : Shows(e, w[id], Below(e, id))}
<1>1. Walk(e) = w[<< 1 >>]
  BY DEF Walk, IsWalk, Called
<1>2. IsWalk(e, w)
  BY WalkExists
<1> HIDE DEF w
<1>3. \A id \in PartIDs(e) : w[id] = Called(e, w, id)
  BY <1>2 DEF IsWalk
<1>4. MaxDepth \in Nat /\ N \in Nat /\ MaxDepth + 2 = N + 1
  BY MimeAssumption
<1>5. \A id \in PartIDs(e) :
        /\ id \in Seq(Nat) /\ Len(id) \in Nat /\ Len(id) >= 1 /\ Len(id) <= N + 1
        /\ Depth(id) <= MaxDepth <=> Len(id) <= N
        /\ Depth(id) > MaxDepth <=> Len(id) > N
        /\ DOMAIN PartAt(e, id).parts = 1..Len(PartAt(e, id).parts)
        /\ Len(PartAt(e, id).parts) \in Nat
  BY <1>4, TreeIDs DEF Depth
<1> HIDE DEF N
<1>6. \A k \in 0..N : Deep(e, k) = {id \in PartIDs(e) : Len(id) + k >= N + 1}
  BY <1>4, <1>5 DEF Deep
<1>7. ASSUME NEW id \in PartIDs(e), Len(id) > N
      PROVE  Shows(e, w[id], Below(e, id))
  <2>1. w[id] = Nothing
    BY <1>3, <1>5, <1>7 DEF Called, WalkPart
  <2>2. Below(e, id) = {}
    BY <1>5, <1>7, BelowIs
  <2> QED
    BY <2>1, <2>2, NothingShows
<1>8. ASSUME NEW id \in PartIDs(e), Len(id) <= N, PartAt(e, id).parts = <<>>
      PROVE  Shows(e, w[id], Below(e, id))
  <2>1. Below(e, id) = IF Unseen(PartAt(e, id)) THEN {} ELSE {id}
    BY <1>5, <1>8, BelowIs
  <2>2. Shows(e, Called(e, w, id), IF Unseen(PartAt(e, id)) THEN {} ELSE {id})
    BY <1>5, <1>8, LeafShows DEF Called
  <2> QED
    BY <1>3, <2>1, <2>2
<1>9. ASSUME NEW id \in PartIDs(e), Len(id) <= N, PartAt(e, id).parts # <<>>,
             \A i \in DOMAIN PartAt(e, id).parts :
                Shows(e, w[PartID(id, i)], Below(e, PartID(id, i)))
      PROVE  Shows(e, w[id], Below(e, id))
  <2> DEFINE part == PartAt(e, id)
             K == Len(part.parts)
             msgs == [i \in DOMAIN part.parts |-> w[PartID(id, i)]]
             ids == [i \in 1..K |-> Below(e, PartID(id, i))]
  <2>1. K \in Nat /\ DOMAIN part.parts = 1..K
    BY <1>5
  <2>2. part.type = "multipart" /\ part.bounded
    BY <1>9 DEF IsTree
  <2>3. w[id] = MergeAll(msgs)
    <3>1. ~ (Depth(id) > MaxDepth)
      BY <1>4, <1>5, <1>9
    <3>2. w[id] = WalkPart(part, id, msgs)
      BY <1>3 DEF Called
    <3> HIDE DEF msgs
    <3> QED
      BY <1>9, <2>2, <3>1, <3>2 DEF WalkPart
  <2>4. Len(msgs) = K /\ \A i \in 1..K : msgs[i] = w[PartID(id, i)] /\ ids[i] = Below(e, PartID(id, i))
    BY <2>1
  <2>5. Below(e, id) = Together(ids, K)
    <3>1. Below(e, id) = UNION {Below(e, PartID(id, i)) : i \in 1..K}
      BY <1>5, <1>9, BelowIs
    <3> HIDE DEF msgs, ids, K
    <3>2. {ids[i] : i \in 1..K} = {Below(e, PartID(id, i)) : i \in 1..K}
      BY <2>4
    <3> QED
      BY <3>1, <3>2 DEF Together
  <2>6. \A i, j \in 1..K : i # j => ids[i] \cap ids[j] = {}
    BY <2>4, BelowIs
  <2>7. \A i \in 1..K : Shows(e, msgs[i], ids[i])
    BY <1>9, <2>1, <2>4
  <2> HIDE DEF msgs, ids, K
  <2>8. Shows(e, MergeAll(msgs), Together(ids, Len(msgs)))
    <3>1. /\ Len(msgs) \in Nat
          /\ \A i \in 1..Len(msgs) : Shows(e, msgs[i], ids[i])
          /\ \A i, j \in 1..Len(msgs) : i # j => ids[i] \cap ids[j] = {}
      BY <2>1, <2>4, <2>6, <2>7
    <3> QED
      BY <3>1, MergeAllShows
  <2> QED
    BY <2>3, <2>4, <2>5, <2>8
<1>10. 0 \in P
  <2>1. 0 \in 0..N /\ \A id \in Deep(e, 0) : id \in PartIDs(e) /\ Len(id) > N
    BY <1>4, <1>5, <1>6
  <2> QED
    BY <1>7, <2>1
<1>11. ASSUME NEW k \in 1..N, k - 1 \in P PROVE k \in P
  <2>1. k \in 0..N /\ k - 1 \in 0..N
    BY <1>4
  <2>2. ASSUME NEW id \in Deep(e, k) PROVE Shows(e, w[id], Below(e, id))
    <3>1. id \in PartIDs(e) /\ Len(id) + k >= N + 1
      BY <1>6, <2>1
    <3>2. CASE Len(id) > N
      BY <1>7, <3>1, <3>2
    <3>3. CASE Len(id) <= N /\ PartAt(e, id).parts = <<>>
      BY <1>8, <3>1, <3>3
    <3>4. CASE Len(id) <= N /\ PartAt(e, id).parts # <<>>
      <4>1. ASSUME NEW i \in DOMAIN PartAt(e, id).parts
            PROVE  Shows(e, w[PartID(id, i)], Below(e, PartID(id, i)))
        <5>1. i \in 1..Len(PartAt(e, id).parts) /\ i \in Nat
          BY <1>5, <3>1
        <5>2. PartID(id, i) \in PartIDs(e)
          BY <1>5, <3>1, <3>4, <5>1, TreeIDs
        <5>3. Len(PartID(id, i)) = Len(id) + 1
          BY <1>5, <3>1, <5>1, AppendProperties DEF PartID
        <5>4. Len(PartID(id, i)) + (k - 1) >= N + 1
          BY <1>4, <1>5, <3>1, <5>3
        <5>5. PartID(id, i) \in Deep(e, k - 1)
          BY <1>6, <2>1, <5>2, <5>4
        <5> QED
          BY <1>11, <5>5
      <4> QED
        BY <1>9, <3>1, <3>4, <4>1
    <3> QED
      BY <1>4, <1>5, <3>1, <3>2, <3>3, <3>4
  <2> QED
    BY <2>1, <2>2
<1> HIDE DEF P
<1>12. 0..N \subseteq P
  BY <1>4, <1>10, <1>11, UpTo
<1>13. N \in P
  BY <1>4, <1>12
<1>14. << 1 >> \in Deep(e, N)
  <2>1. << 1 >> \in PartIDs(e)
    BY TreeIDs
  <2>2. N \in 0..N
    BY <1>4
  <2> QED
    BY <1>4, <1>5, <1>6, <2>1, <2>2
<1> QED
  BY <1>1, <1>13, <1>14 DEF P

\* What a message shows, one after the other.
LEMMA ShownIs ==
    ASSUME NEW e, NEW m \in Msgs(e)
    PROVE  /\ Len(Shown(m)) = Len(m.text) + Len(m.html) + Len(m.attachments)
           /\ {Shown(m)[i].of : i \in DOMAIN Shown(m)} = Contents(m)
<1> DEFINE B == Bodies(e)
           s == m.text
           t == m.html
           a == m.attachments
           u == [i \in DOMAIN a |-> a[i].shown]
<1>1. s \in Seq(B) /\ t \in Seq(B) /\ a \in Seq(Attachments(e))
  BY DEF Msgs
<1>2. Len(a) \in Nat /\ DOMAIN a = 1..Len(a) /\ \A i \in 1..Len(a) : a[i] \in Attachments(e)
  BY <1>1, LenProperties, ElementOfSeq
<1>3. \A at \in Attachments(e) : at.shown \in B
  <2> SUFFICES ASSUME NEW id \in PartIDs(e) PROVE AttachmentAt(e, id).shown \in B
    BY DEF Attachments
  <2>1. AttachmentAt(e, id).shown \in [of : {PartAt(e, id).content}, decoded : BOOLEAN]
    BY DEF AttachmentAt, ShownAs, Raw, Decoded
  <2> QED
    BY <2>1 DEF Bodies
<1>4. /\ u \in Seq(B) /\ Len(u) = Len(a)
      /\ {v.of : v \in ToSet(u)} = {at.shown.of : at \in ToSet(a)}
  <2>1. DOMAIN u = 1..Len(a) /\ \A i \in 1..Len(a) : u[i] = a[i].shown
    BY <1>2
  <2>2. u = [i \in 1..Len(a) |-> a[i].shown]
    BY <1>2
  <2>3. \A i \in 1..Len(a) : a[i].shown \in B
    BY <1>2, <1>3
  <2>4. u \in Seq(B) /\ Len(u) = Len(a)
    BY <1>2, <2>2, <2>3
  <2> HIDE DEF u
  <2>5. {v.of : v \in ToSet(u)} = {at.shown.of : at \in ToSet(a)}
    BY <1>2, <2>1 DEF ToSet
  <2> QED
    BY <2>4, <2>5
<1> HIDE DEF B, s, t, u
<1>5. /\ s \o t \in Seq(B) /\ Len(s \o t) = Len(s) + Len(t)
      /\ ToSet(s \o t) = ToSet(s) \cup ToSet(t)
  BY <1>1, ToSetConcat
<1>6. /\ Len((s \o t) \o u) = Len(s \o t) + Len(u)
      /\ ToSet((s \o t) \o u) = ToSet(s \o t) \cup ToSet(u)
  <2> DEFINE both == s \o t
  <2>1. both \in Seq(B) /\ u \in Seq(B)
    BY <1>4, <1>5
  <2> HIDE DEF both
  <2>2. Len(both \o u) = Len(both) + Len(u) /\ ToSet(both \o u) = ToSet(both) \cup ToSet(u)
    BY <2>1, ToSetConcat
  <2> QED
    BY <2>2 DEF both
<1>7. Shown(m) = (s \o t) \o u
  BY DEF Shown, s, t, u
<1>8. Len(Shown(m)) = Len(s) + Len(t) + Len(a)
  BY <1>4, <1>5, <1>6, <1>7
<1>9. {v.of : v \in ToSet(Shown(m))} = {v.of : v \in ToSet(s)} \cup {v.of : v \in ToSet(t)} \cup {v.of : v \in ToSet(u)}
  BY <1>5, <1>6, <1>7
<1>10. {v.of : v \in ToSet(Shown(m))} = Contents(m)
  BY <1>4, <1>9 DEF Contents, s, t
<1>11. {v.of : v \in ToSet(Shown(m))} = {Shown(m)[i].of : i \in DOMAIN Shown(m)}
  BY DEF ToSet
<1> QED
  BY <1>8, <1>10, <1>11 DEF s, t

\* The parts to be seen have as many contents as they are.
LEMMA PiecesAre ==
    ASSUME NEW e, IsTree(e), OwnContents(e), IsFiniteSet(Below(e, << 1 >>))
    PROVE  /\ Pieces(e) = {PartAt(e, id).content : id \in Below(e, << 1 >>)}
           /\ Cardinality(Pieces(e)) = Cardinality(Below(e, << 1 >>))
<1> DEFINE S == Below(e, << 1 >>)
           T == {PartAt(e, id).content : id \in S}
           f == [id \in S |-> PartAt(e, id).content]
<1>1. Pieces(e) = T
  BY AllBelow DEF Pieces
<1>2. S \subseteq PartIDs(e)
  BY DEF Below
<1>3. \A id, other \in PartIDs(e) : PartAt(e, id).content = PartAt(e, other).content => id = other
  BY DEF OwnContents
<1> HIDE DEF S
<1>4. f \in Bijection(S, T)
  <2>1. f \in [S -> T] /\ \A x \in S : f[x] = PartAt(e, x).content
    OBVIOUS
  <2>2. \A x, y \in S : f[x] = f[y] => x = y
    BY <1>2, <1>3
  <2>3. \A y \in T : \E x \in S : f[x] = y
    OBVIOUS
  <2> HIDE DEF f, T
  <2>4. f \in Injection(S, T)
    BY <2>1, <2>2 DEF Injection, IsInjective
  <2>5. f \in Surjection(S, T)
    BY <2>1, <2>3 DEF Surjection
  <2> QED
    BY <2>4, <2>5 DEF Bijection
<1>5. ExistsBijection(S, T)
  BY <1>4 DEF ExistsBijection
<1>6. IsFiniteSet(S)
  BY DEF S
<1> HIDE DEF T
<1>7. Cardinality(T) = Cardinality(S)
  BY <1>5, <1>6, FS_Bijection
<1> QED
  BY <1>1, <1>7 DEF S, T

\* Every part that there is to be seen is shown, once; if there is none, the
\* message as it came.
THEOREM ShownCorrect ==
    ASSUME NEW e, IsTree(e), OwnContents(e)
    PROVE  PartsShownOnce(e)
<1> DEFINE m == Walk(e)
           S == Below(e, << 1 >>)
           plain == AppendText(e, Raw(e))
<1>1. Shows(e, m, S)
  BY WalkShows
<1>2. m \in Msgs(e) /\ IsFiniteSet(S)
  BY <1>1 DEF Shows
<1>3. /\ Pieces(e) = {PartAt(e, id).content : id \in S}
      /\ Cardinality(Pieces(e)) = Cardinality(S)
  BY <1>2, PiecesAre
<1>4. Parse(e) = IF m = Nothing THEN plain ELSE m
  BY DEF Parse
<1> HIDE DEF m, S
<1>5. CASE Pieces(e) = {}
  <2>1. S = {}
    BY <1>3, <1>5
  <2>2. m = Nothing
    BY <1>1, <1>2, <2>1, NothingShows
  <2>3. Shown(plain) = Body(e, Raw(e))
    <3>1. /\ plain.text = Body(e, Raw(e)) /\ plain.html = <<>> /\ plain.attachments = <<>>
      BY DEF AppendText, Nothing
    <3>2. Body(e, Raw(e)) = <<>> \/ Body(e, Raw(e)) = <<Raw(e)>>
      BY DEF Body
    <3>3. Body(e, Raw(e)) \in Seq({Raw(e)})
      <4> DEFINE r == Raw(e)
      <4> HIDE DEF r
      <4>1. <<r>> \in Seq({r}) /\ <<>> \in Seq({r})
        BY EmptySeq
      <4> QED
        BY <3>2, <4>1 DEF r
    <3>4. [i \in DOMAIN plain.attachments |-> plain.attachments[i].shown] = <<>>
      BY <3>1
    <3> HIDE DEF plain
    <3>5. Shown(plain) = (Body(e, Raw(e)) \o <<>>) \o <<>>
      BY <3>1, <3>4 DEF Shown
    <3> QED
      BY <3>3, <3>5, ConcatEmptySeq
  <2> QED
    BY <1>4, <1>5, <2>2, <2>3 DEF PartsShownOnce
<1>6. CASE Pieces(e) # {}
  <2>1. Contents(m) = Pieces(e)
    BY <1>1, <1>3 DEF Shows
  <2>2. Contents(Nothing) = {}
    BY NothingShows DEF Shows
  <2>3. Parse(e) = m
    BY <1>4, <1>6, <2>1, <2>2
  <2>4. Len(Shown(m)) = Cardinality(Pieces(e))
    BY <1>1, <1>2, <1>3, ShownIs DEF Shows
  <2>5. {Shown(m)[i].of : i \in DOMAIN Shown(m)} = Pieces(e)
    BY <1>2, <2>1, ShownIs
  <2> QED
    BY <1>6, <2>3, <2>4, <2>5 DEF PartsShownOnce
<1> QED
  BY <1>5, <1>6

\* Where AttachmentOf finds a part ID.
Leads(as, partID) ==
    LET I == {j \in 1..Len(as) : as[j].partID = partID}
    IN  IF I # {} THEN Min(I) ELSE 0

\* The link to an attachment leads to what is shown of it.
THEOREM LinksCorrect ==
    ASSUME NEW e, IsTree(e)
    PROVE  LinksLead(e)
<1> DEFINE msg == Parse(e)
           as == msg.attachments
<1>1. as \in Seq(Attachments(e))
  <2>1. Walk(e) \in Msgs(e)
    BY WalkShows DEF Shows
  <2>2. AppendText(e, Raw(e)).attachments = <<>>
    BY DEF AppendText, Nothing
  <2>3. <<>> \in Seq(Attachments(e))
    BY EmptySeq
  <2>4. Walk(e).attachments \in Seq(Attachments(e))
    BY <2>1 DEF Msgs
  <2> QED
    BY <2>2, <2>3, <2>4 DEF Parse
<1>2. LinksLead(e) <=> \A i \in DOMAIN as : AttachmentOf(msg, as[i].partID) = as[i].shown
  BY DEF LinksLead
<1>3. \A partID : AttachmentOf(msg, partID) = as[Leads(as, partID)].shown
  BY DEF AttachmentOf, SelectInSeq, Leads
<1> HIDE DEF msg, as
<1>4. Len(as) \in Nat /\ DOMAIN as = 1..Len(as) /\ \A i \in 1..Len(as) : as[i] \in Attachments(e)
  BY <1>1, LenProperties, ElementOfSeq
<1>5. \A a \in Attachments(e) : a.shown = ShownAs(PartAt(e, a.partID))
  BY DEF Attachments, AttachmentAt
<1> SUFFICES ASSUME NEW i \in DOMAIN as
             PROVE  AttachmentOf(msg, as[i].partID) = as[i].shown
  BY <1>2
<1> DEFINE I == {j \in 1..Len(as) : as[j].partID = as[i].partID}
           first == Leads(as, as[i].partID)
<1>6. i \in I /\ I \in SUBSET Nat
  <2>1. \A j \in 1..Len(as) : j \in Nat
    BY <1>4
  <2>2. i \in 1..Len(as)
    BY <1>4
  <2> QED
    BY <2>1, <2>2
<1>7. first = IF I # {} THEN Min(I) ELSE 0
  BY DEF Leads
<1>8. AttachmentOf(msg, as[i].partID) = as[first].shown
  BY <1>3
<1> HIDE DEF first
<1>9. first \in I
  <2> HIDE DEF I
  <2>1. \E j \in I : \A k \in I : j <= k
    BY <1>6, LeastNumber
  <2> QED
    BY <1>6, <1>7, <2>1 DEF Min
<1>10. as[first] \in Attachments(e) /\ as[i] \in Attachments(e) /\ as[first].partID = as[i].partID
  BY <1>4, <1>9
<1> QED
  BY <1>5, <1>8, <1>10

\* The parts of an entity are in every set that has their parts.
LEMMA PartsAreIn ==
    ASSUME NEW A, \A p \in A : p.parts \in Seq(A), NEW e \in A
    PROVE  \A id \in PartIDs(e) : PartAt(e, id) \in A
<1> DEFINE N == MaxDepth + 1
           at == CHOOSE at : IsLevels(e, at)
           P == {d \in 0..N : \A id \in at[d] :
                                id \in Seq(Nat) /\ id # <<>> /\ PartAt(e, id) \in A}
<1>1. N \in Nat
  BY MimeAssumption
<1>2. PartIDs(e) = UNION {at[depth] : depth \in 0..N}
  BY DEF PartIDs, IsLevels, Inside
<1>3. IsLevels(e, at)
  BY LevelsExist
<1> HIDE DEF at
<1>4. at[0] = {<< 1 >>} /\ \A d \in 1..N : at[d] = Inside(e, at[d - 1])
  <2>1. \A d \in 0..N : at[d] = IF d = 0 THEN {<< 1 >>} ELSE Inside(e, at[d - 1])
    BY <1>3 DEF IsLevels
  <2>2. 0 \in 0..N /\ \A d \in 1..N : d \in 0..N /\ d # 0
    BY <1>1
  <2> HIDE DEF N
  <2> QED
    BY <2>1, <2>2
<1> HIDE DEF N
<1>5. \A p \in A : /\ Len(p.parts) \in Nat /\ DOMAIN p.parts = 1..Len(p.parts)
                   /\ \A i \in 1..Len(p.parts) : p.parts[i] \in A
  <2> SUFFICES ASSUME NEW p \in A
               PROVE  /\ Len(p.parts) \in Nat /\ DOMAIN p.parts = 1..Len(p.parts)
                      /\ \A i \in 1..Len(p.parts) : p.parts[i] \in A
    OBVIOUS
  <2>1. p.parts \in Seq(A)
    OBVIOUS
  <2> QED
    BY <2>1, LenProperties, ElementOfSeq
<1>6. 0 \in P
  <2>1. << 1 >> \in Seq(Nat) /\ << 1 >> # <<>> /\ 0 \in 0..N
    BY <1>1
  <2>2. PartAt(e, << 1 >>) \in A
    BY PartAtIs
  <2> QED
    BY <1>4, <2>1, <2>2
<1>7. ASSUME NEW d \in 1..N, d - 1 \in P PROVE d \in P
  <2>1. d \in 0..N
    BY <1>1
  <2>2. ASSUME NEW id \in at[d]
        PROVE  id \in Seq(Nat) /\ id # <<>> /\ PartAt(e, id) \in A
    <3>1. PICK up \in at[d - 1] : \E i \in DOMAIN PartAt(e, up).parts : id = PartID(up, i)
      BY <1>4, <2>2 DEF Inside
    <3>2. PICK i \in DOMAIN PartAt(e, up).parts : id = PartID(up, i)
      BY <3>1
    <3>3. up \in Seq(Nat) /\ up # <<>> /\ PartAt(e, up) \in A
      BY <1>7, <3>1
    <3>4. i \in Nat /\ PartAt(e, up).parts[i] \in A
      BY <1>5, <3>2, <3>3
    <3>5. PartAt(e, id) = PartAt(e, up).parts[i]
      BY <3>2, <3>3, <3>4, PartAtIs DEF PartID
    <3>6. id \in Seq(Nat) /\ id # <<>>
      BY <3>2, <3>3, <3>4, AppendProperties DEF PartID
    <3> QED
      BY <3>4, <3>5, <3>6
  <2> QED
    BY <2>1, <2>2
<1> HIDE DEF P
<1>8. 0..N \subseteq P
  BY <1>1, <1>6, <1>7, UpTo
<1> QED
  BY <1>2, <1>8 DEF P
-----------------------------------------------------------------------------
(* References to Content-IDs                                               *)

\* A Content-ID of an attachment is shadowed by another one that it begins
\* with, if that one is listed before it.
Shadows(cids, j, i) ==
    /\ cids[j] # <<>> /\ cids[j] # cids[i] /\ IsPrefix(cids[j], cids[i])
    /\ \A k \in 1..j : cids[k] # cids[i]

\* The replacement that is taken for a Content-ID is the first that fits.
LEMMA ReplacementIs ==
    ASSUME NEW A, NEW cids \in Seq(Seq(A)), NEW i \in 1..Len(cids), cids[i] # <<>>
    PROVE  \E n \in 1..i :
                /\ cids[n] # <<>> /\ IsPrefix(cids[n], cids[i])
                /\ \A k \in 1..Len(cids) :
                        cids[k] # <<>> /\ IsPrefix(cids[k], cids[i]) => n <= k
                /\ RewriteCID(cids[i], cids) =
                        [attachment |-> n, rest |-> SubSeq(cids[i], Len(cids[n]) + 1, Len(cids[i]))]
<1> DEFINE ref == cids[i]
           I == {k \in 1..Len(cids) : cids[k] # <<>> /\ IsPrefix(cids[k], ref)}
<1>1. Len(cids) \in Nat /\ ref \in Seq(A)
  BY LenProperties, ElementOfSeq
<1>2. IsPrefix(ref, ref)
  BY <1>1, PrefixIs, LenProperties
<1>3. i \in I /\ I \in SUBSET Nat
  BY <1>1, <1>2
<1>4. RewriteCID(ref, cids) =
        IF (IF I # {} THEN Min(I) ELSE 0) = 0 THEN [attachment |-> 0, rest |-> ref]
        ELSE [attachment |-> Min(I), rest |-> SubSeq(ref, Len(cids[Min(I)]) + 1, Len(ref))]
  BY <1>3 DEF RewriteCID, SelectInSeq
<1>5. \A k \in I : k \in 1..Len(cids) /\ cids[k] # <<>> /\ IsPrefix(cids[k], ref)
  OBVIOUS
<1>6. \A k \in 1..Len(cids) : cids[k] # <<>> /\ IsPrefix(cids[k], ref) => k \in I
  OBVIOUS
<1> HIDE DEF I, ref
<1>7. PICK n \in I : \A k \in I : n <= k
  BY <1>3, LeastNumber
<1>8. Min(I) = n
  <2>1. \A m \in I : (\A k \in I : m <= k) => m = n
    BY <1>3, <1>7
  <2> QED
    BY <1>7, <2>1 DEF Min
<1>9. n \in 1..i
  BY <1>1, <1>3, <1>5, <1>7
<1>10. RewriteCID(ref, cids) = [attachment |-> n, rest |-> SubSeq(ref, Len(cids[n]) + 1, Len(ref))]
  BY <1>3, <1>4, <1>8, <1>9
<1> QED
  BY <1>5, <1>6, <1>7, <1>9, <1>10 DEF ref

\* What is left of a reference is empty just if it is the whole Content-ID.
LEMMA NothingLeft ==
    ASSUME NEW A, NEW s \in Seq(A), NEW t \in Seq(A), IsPrefix(s, t)
    PROVE  SubSeq(t, Len(s) + 1, Len(t)) = <<>> <=> s = t
<1>1. Len(s) \in Nat /\ Len(t) \in Nat /\ Len(s) <= Len(t) /\ \A i \in 1..Len(s) : s[i] = t[i]
  BY PrefixIs, LenProperties
<1>2. CASE Len(s) = Len(t)
  <2>1. s = t
    BY <1>1, <1>2, SeqEqual
  <2>2. SubSeq(t, Len(s) + 1, Len(t)) = <<>>
    BY <1>1, <1>2
  <2> QED
    BY <2>1, <2>2
<1>3. CASE Len(s) # Len(t)
  <2>1. Len(SubSeq(t, Len(s) + 1, Len(t))) = Len(t) - Len(s)
    BY <1>1, <1>3
  <2>2. Len(t) - Len(s) # 0
    BY <1>1, <1>3
  <2> QED
    BY <1>3, <2>1, <2>2
<1> QED
  BY <1>2, <1>3

\* InlineImagesRender fails for these messages and no others: the references
\* to all attachments resolve, with nothing left of them, exactly if no
\* Content-ID is shadowed.
THEOREM CidsCorrect ==
    ASSUME NEW A, NEW cids \in Seq(Seq(A))
    PROVE  CidsResolve(cids) <=>
                \A i \in DOMAIN cids : \A j \in 1..(i - 1) : ~ Shadows(cids, j, i)
<1>1. Len(cids) \in Nat /\ DOMAIN cids = 1..Len(cids) /\ \A i \in 1..Len(cids) : cids[i] \in Seq(A)
  BY LenProperties, ElementOfSeq
<1> DEFINE Resolves(i) == LET to == RewriteCID(cids[i], cids)
                          IN  to.attachment # 0 /\ cids[to.attachment] = cids[i] /\ to.rest = <<>>
<1>2. ASSUME NEW i \in 1..Len(cids), cids[i] # <<>>
      PROVE  Resolves(i) <=> \A j \in 1..(i - 1) : ~ Shadows(cids, j, i)
  <2>1. PICK n \in 1..i :
                /\ cids[n] # <<>> /\ IsPrefix(cids[n], cids[i])
                /\ \A k \in 1..Len(cids) :
                        cids[k] # <<>> /\ IsPrefix(cids[k], cids[i]) => n <= k
                /\ RewriteCID(cids[i], cids) =
                        [attachment |-> n, rest |-> SubSeq(cids[i], Len(cids[n]) + 1, Len(cids[i]))]
    BY <1>2, ReplacementIs
  <2>2. i \in Nat /\ n \in Nat /\ n # 0 /\ n \in 1..Len(cids)
    BY <1>1
  <2>3. Resolves(i) <=> cids[n] = cids[i]
    <3>1. SubSeq(cids[i], Len(cids[n]) + 1, Len(cids[i])) = <<>> <=> cids[n] = cids[i]
      <4> DEFINE s == cids[n]
                 t == cids[i]
      <4>1. s \in Seq(A) /\ t \in Seq(A)
        BY <1>1, <2>2
      <4>2. IsPrefix(s, t)
        BY <2>1, Zenon
      <4> HIDE DEF s, t
      <4>3. SubSeq(t, Len(s) + 1, Len(t)) = <<>> <=> s = t
        BY <4>1, <4>2, NothingLeft
      <4> QED
        BY <4>3, Zenon DEF s, t
    <3>2. RewriteCID(cids[i], cids).attachment = n
      BY <2>1
    <3>3. RewriteCID(cids[i], cids).rest = SubSeq(cids[i], Len(cids[n]) + 1, Len(cids[i]))
      BY <2>1
    <3> QED
      BY <2>2, <3>1, <3>2, <3>3, Zenon
  <2> HIDE DEF Resolves
  <2>4. ASSUME cids[n] # cids[i] PROVE n \in 1..(i - 1) /\ Shadows(cids, n, i)
    <3>1. n # i
      BY <2>4
    <3>2. \A k \in 1..n : cids[k] # cids[i]
      <4>1. ASSUME NEW k \in 1..n, cids[k] = cids[i] PROVE FALSE
        <5>1. k \in 1..Len(cids)
          BY <1>1, <2>2
        <5>2. IsPrefix(cids[k], cids[i])
          BY <1>1, <4>1, PrefixIs, LenProperties
        <5>3. n <= k
          BY <1>2, <2>1, <4>1, <5>1, <5>2
        <5>4. k = n
          BY <2>2, <5>3
        <5> QED
          BY <2>4, <4>1, <5>4
      <4> QED
        BY <4>1
    <3> QED
      BY <2>1, <2>2, <2>4, <3>1, <3>2 DEF Shadows
  <2>5. ASSUME cids[n] = cids[i], NEW j \in 1..(i - 1), Shadows(cids, j, i) PROVE FALSE
    <3>1. j \in 1..Len(cids) /\ cids[j] # <<>> /\ IsPrefix(cids[j], cids[i])
      BY <1>1, <2>5 DEF Shadows
    <3>2. n \in 1..j
      BY <2>1, <2>2, <3>1
    <3> QED
      BY <2>5, <3>2 DEF Shadows
  <2> QED
    BY <2>3, <2>4, <2>5
<1>3. ASSUME NEW i \in 1..Len(cids), cids[i] = <<>>, NEW j \in 1..(i - 1)
      PROVE  ~ Shadows(cids, j, i)
  <2> SUFFICES ASSUME Shadows(cids, j, i) PROVE FALSE
    OBVIOUS
  <2>1. cids[j] \in Seq(A) /\ cids[i] \in Seq(A) /\ IsPrefix(cids[j], cids[i]) /\ cids[j] # <<>>
    BY <1>1 DEF Shadows
  <2>2. Len(cids[j]) <= Len(cids[i])
    BY <2>1, PrefixIs
  <2>3. Len(cids[j]) = 0
    BY <1>3, <2>1, <2>2
  <2> QED
    BY <2>1, <2>3
<1>4. CidsResolve(cids) <=> \A i \in 1..Len(cids) : cids[i] # <<>> => Resolves(i)
  BY <1>1 DEF CidsResolve
<1> HIDE DEF Resolves
<1> QED
  BY <1>1, <1>2, <1>3, <1>4, Zenon
-----------------------------------------------------------------------------
(* The messages and the requests of the runs                               *)

\* Entities whose contents are numbered, the first and the second part of
\* number n with 10 n + 1 and 10 n + 2.
Number(p) == p.content[2]
Numbered(A) ==
    \A p \in A :
        /\ Number(p) \in Nat \ {0} /\ p.content = <<"part", Number(p)>>
        /\ p.parts \in Seq(A) /\ Len(p.parts) <= 2
        /\ p.parts # <<>> => p.type = "multipart" /\ p.bounded
        /\ \A i \in 1..Len(p.parts) : Number(p.parts[i]) = 10 * Number(p) + i

\* They have a content of their own each.
LEMMA NumberedTree ==
    ASSUME NEW A, Numbered(A), NEW e \in A, Number(e) = 1
    PROVE  IsTree(e) /\ OwnContents(e)
<1> DEFINE ids == PartIDs(e)
           num(id) == Number(PartAt(e, id))
           P == {n \in Nat : \A id \in ids, other \in ids :
                                Len(id) <= n /\ num(id) = num(other) => id = other}
<1>1. \A id \in ids : PartAt(e, id) \in A
  <2>1. \A p \in A : p.parts \in Seq(A)
    BY DEF Numbered
  <2> QED
    BY <2>1, PartsAreIn
<1>2. \A p \in A : /\ Len(p.parts) \in 0..2 /\ DOMAIN p.parts = 1..Len(p.parts)
                   /\ p.parts \in Seq(A)
                   /\ p.parts # <<>> => p.type = "multipart" /\ p.bounded
                   /\ Number(p) \in Nat /\ Number(p) >= 1
                   /\ p.content = <<"part", Number(p)>>
                   /\ \A i \in 1..Len(p.parts) : Number(p.parts[i]) = 10 * Number(p) + i
  <2> SUFFICES ASSUME NEW p \in A
               PROVE  Len(p.parts) \in 0..2 /\ DOMAIN p.parts = 1..Len(p.parts)
    BY DEF Numbered
  <2>1. p.parts \in Seq(A) /\ Len(p.parts) <= 2
    BY DEF Numbered
  <2>2. Len(p.parts) \in Nat /\ DOMAIN p.parts = 1..Len(p.parts)
    BY <2>1, LenProperties
  <2> DEFINE k == Len(p.parts)
  <2>3. k \in Nat /\ k <= 2
    BY <2>1, <2>2
  <2> HIDE DEF k
  <2>4. k \in 0..2
    BY <2>3
  <2> QED
    BY <2>2, <2>4 DEF k
<1>3. /\ \A id \in ids : id \in Seq(Nat) /\ Len(id) \in Nat /\ Len(id) >= 1
      /\ \A id \in ids :
            \/ id = << 1 >>
            \/ \E up \in ids : \E i \in DOMAIN PartAt(e, up).parts : id = PartID(up, i)
  <2>1. \A id \in ids : DOMAIN PartAt(e, id).parts \subseteq Nat
    BY <1>1, <1>2
  <2>2. \A id \in ids : id \in Seq(Nat) /\ Len(id) \in 1..(MaxDepth + 2)
    BY <2>1, PartIDsAre
  <2>3. \A id \in ids :
            \/ id = << 1 >>
            \/ \E up \in ids : \E i \in DOMAIN PartAt(e, up).parts : id = PartID(up, i)
    BY <2>1, PartIDsAre
  <2> QED
    BY <2>2, <2>3, MimeAssumption
<1>4. num(<< 1 >>) = 1
  BY PartAtIs
<1>5. ASSUME NEW up \in ids, NEW i \in DOMAIN PartAt(e, up).parts
      PROVE  /\ num(PartID(up, i)) = 10 * num(up) + i /\ i \in 1..2
             /\ Len(PartID(up, i)) = Len(up) + 1
  <2>1. i \in 1..Len(PartAt(e, up).parts) /\ i \in 1..2
    <3> DEFINE k == Len(PartAt(e, up).parts)
    <3>1. k \in 0..2 /\ i \in 1..k
      BY <1>1, <1>2
    <3> HIDE DEF k
    <3>2. i \in 1..2
      BY <3>1
    <3> QED
      BY <3>1, <3>2 DEF k
  <2>2. up \in Seq(Nat) /\ up # <<>> /\ i \in Nat
    BY <1>3, <2>1, EmptySeq
  <2>3. PartAt(e, PartID(up, i)) = PartAt(e, up).parts[i]
    BY <2>2, PartAtIs DEF PartID
  <2>4. Len(PartID(up, i)) = Len(up) + 1
    BY <2>2, AppendProperties DEF PartID
  <2> QED
    BY <1>1, <1>2, <2>1, <2>3, <2>4
<1>6. \A id \in ids : num(id) \in Nat /\ num(id) >= 1 /\ PartAt(e, id).content = <<"part", num(id)>>
  BY <1>1, <1>2
<1> HIDE DEF num, ids
<1>7. \A id \in ids : id # << 1 >> =>
        \E up \in ids : \E i \in 1..2 : /\ id = PartID(up, i) /\ num(id) = 10 * num(up) + i
                                         /\ Len(id) = Len(up) + 1
  <2> SUFFICES ASSUME NEW id \in ids, id # << 1 >>
               PROVE  \E up \in ids : \E i \in 1..2 : /\ id = PartID(up, i) /\ num(id) = 10 * num(up) + i
                                                       /\ Len(id) = Len(up) + 1
    OBVIOUS
  <2>1. PICK up \in ids : \E i \in DOMAIN PartAt(e, up).parts : id = PartID(up, i)
    BY <1>3
  <2>2. PICK i \in DOMAIN PartAt(e, up).parts : id = PartID(up, i)
    BY <2>1
  <2> QED
    BY <1>5, <2>2
<1>8. 0 \in P
  BY <1>3
<1>9. ASSUME NEW n \in Nat, n \in P PROVE n + 1 \in P
  <2> SUFFICES ASSUME NEW id \in ids, NEW other \in ids, Len(id) <= n + 1, num(id) = num(other)
               PROVE  id = other
    OBVIOUS
  <2>1. CASE id = << 1 >>
    <3> SUFFICES ASSUME other # << 1 >> PROVE FALSE
      BY <2>1
    <3>1. PICK up \in ids : \E i \in 1..2 : num(other) = 10 * num(up) + i
      BY <1>7
    <3>2. PICK i \in 1..2 : num(other) = 10 * num(up) + i
      BY <3>1
    <3> QED
      BY <1>4, <1>6, <2>1, <3>2
  <2>2. CASE other = << 1 >> /\ id # << 1 >>
    <3>1. PICK up \in ids : \E i \in 1..2 : num(id) = 10 * num(up) + i
      BY <1>7, <2>2
    <3>2. PICK i \in 1..2 : num(id) = 10 * num(up) + i
      BY <3>1
    <3> QED
      BY <1>4, <1>6, <2>2, <3>2
  <2>3. CASE id # << 1 >> /\ other # << 1 >>
    <3>1. PICK up \in ids : \E i \in 1..2 : /\ id = PartID(up, i) /\ num(id) = 10 * num(up) + i
                                             /\ Len(id) = Len(up) + 1
      BY <1>7, <2>3
    <3>2. PICK i \in 1..2 : /\ id = PartID(up, i) /\ num(id) = 10 * num(up) + i
                             /\ Len(id) = Len(up) + 1
      BY <3>1
    <3>3. PICK vp \in ids : \E j \in 1..2 : other = PartID(vp, j) /\ num(other) = 10 * num(vp) + j
      BY <1>7, <2>3
    <3>4. PICK j \in 1..2 : other = PartID(vp, j) /\ num(other) = 10 * num(vp) + j
      BY <3>3
    <3>5. num(up) \in Nat /\ num(vp) \in Nat /\ Len(up) \in Nat
      BY <1>3, <1>6
    <3>6. 10 * num(up) + i = 10 * num(vp) + j
      BY <3>2, <3>4
    <3> HIDE DEF P
    <3>7. num(up) = num(vp) /\ i = j
      BY <3>5, <3>6, SMTT(60)
    <3>8. Len(up) <= n
      BY <3>2, <3>5
    <3>9. up = vp
      BY <1>9, <3>7, <3>8 DEF P
    <3> QED
      BY <3>2, <3>4, <3>7, <3>9
  <2> QED
    BY <2>1, <2>2, <2>3
<1> HIDE DEF P
<1>10. Nat \subseteq P
  BY <1>8, <1>9, SetInduction
<1>11. \A id, other \in ids : num(id) = num(other) => id = other
  <2> SUFFICES ASSUME NEW id \in ids, NEW other \in ids, num(id) = num(other) PROVE id = other
    OBVIOUS
  <2>1. Len(id) \in P /\ Len(id) <= Len(id)
    BY <1>3, <1>10
  <2> QED
    BY <2>1 DEF P
<1>12. \A id, other \in ids : PartAt(e, id).content = PartAt(e, other).content => id = other
  <2> SUFFICES ASSUME NEW id \in ids, NEW other \in ids,
                      PartAt(e, id).content = PartAt(e, other).content
               PROVE  id = other
    OBVIOUS
  <2>1. num(id) = num(other)
    BY DEF num, Number
  <2> QED
    BY <1>11, <2>1
<1>13. \A id \in ids : /\ \E S : PartAt(e, id).parts \in Seq(S)
                       /\ PartAt(e, id).parts # <<>> =>
                            PartAt(e, id).type = "multipart" /\ PartAt(e, id).bounded
  BY <1>1, <1>2 DEF ids
<1> QED
  BY <1>12, <1>13 DEF IsTree, OwnContents, ids

\* Numbered entities, and multiparts of one or two of them with its numbers.
With(A, n) == {p \in A : Number(p) = n}
Grown(A) == A \cup UNION {Whole(n, With(A, 10 * n + 1), With(A, 10 * n + 2)) : n \in Nat \ {0}}
Simple == UNION {Leaves(n) \cup Empty(n) : n \in Nat \ {0}}

\* A multipart of Whole has one part, or two.
LEMMA WholeIs ==
    ASSUME NEW n, NEW first, NEW second, NEW p
    PROVE  p \in Whole(n, first, second) <=>
                \/ \E f \in first : p = Multipart(<<"part", n>>, <<f>>)
                \/ \E f \in first, s \in second : p = Multipart(<<"part", n>>, <<f, s>>)
BY DEF Whole

\* A multipart has its number as content, and the parts it is given.
LEMMA MultipartIs ==
    ASSUME NEW n, NEW ps, NEW p, p = Multipart(<<"part", n>>, ps)
    PROVE  /\ Number(p) = n /\ p.content = <<"part", n>> /\ p.parts = ps
           /\ p.type = "multipart" /\ p.bounded
BY DEF Multipart, Part, Number

\* Multiparts of numbered entities are numbered too.
LEMMA GrownNumbered ==
    ASSUME NEW A, Numbered(A)
    PROVE  Numbered(Grown(A)) /\ A \subseteq Grown(A)
<1> DEFINE G == Grown(A)
           Good(p) ==
             /\ Number(p) \in Nat \ {0} /\ p.content = <<"part", Number(p)>>
             /\ p.parts \in Seq(G) /\ Len(p.parts) <= 2
             /\ p.parts # <<>> => p.type = "multipart" /\ p.bounded
             /\ \A i \in 1..Len(p.parts) : Number(p.parts[i]) = 10 * Number(p) + i
<1>1. A \subseteq G
  BY DEF Grown
<1>2. Seq(A) \subseteq Seq(G)
  BY <1>1, SeqMonotonic
<1> HIDE DEF G
<1>3. ASSUME NEW p \in A
      PROVE  Good(p)
  BY <1>2 DEF Numbered
<1>4. ASSUME NEW n \in Nat \ {0}, NEW p \in Whole(n, With(A, 10 * n + 1), With(A, 10 * n + 2))
      PROVE  Good(p)
  <2>1. CASE \E f \in With(A, 10 * n + 1) : p = Multipart(<<"part", n>>, <<f>>)
    <3>1. PICK f \in With(A, 10 * n + 1) : p = Multipart(<<"part", n>>, <<f>>)
      BY <2>1
    <3>2. f \in G /\ Number(f) = 10 * n + 1
      BY <1>1, <3>1 DEF With
    <3>3. <<f>> \in Seq(G) /\ Len(<<f>>) = 1 /\ <<f>>[1] = f
      BY <3>2
    <3>4. /\ Number(p) = n /\ p.content = <<"part", n>> /\ p.parts = <<f>>
          /\ p.type = "multipart" /\ p.bounded
      BY <3>1, MultipartIs
    <3>5. \A i \in 1..1 : Number(<<f>>[i]) = 10 * n + i
      BY <3>2, <3>3
    <3> QED
      BY <3>3, <3>4, <3>5
  <2>2. CASE \E f \in With(A, 10 * n + 1), s \in With(A, 10 * n + 2) :
                p = Multipart(<<"part", n>>, <<f, s>>)
    <3>1. PICK f \in With(A, 10 * n + 1), s \in With(A, 10 * n + 2) :
                p = Multipart(<<"part", n>>, <<f, s>>)
      BY <2>2
    <3>2. f \in G /\ Number(f) = 10 * n + 1 /\ s \in G /\ Number(s) = 10 * n + 2
      BY <1>1, <3>1 DEF With
    <3>3. <<f, s>> \in Seq(G) /\ Len(<<f, s>>) = 2 /\ <<f, s>>[1] = f /\ <<f, s>>[2] = s
      BY <3>2
    <3>4. /\ Number(p) = n /\ p.content = <<"part", n>> /\ p.parts = <<f, s>>
          /\ p.type = "multipart" /\ p.bounded
      BY <3>1, MultipartIs
    <3>5. \A i \in 1..2 : Number(<<f, s>>[i]) = 10 * n + i
      <4>1. \A i \in 1..2 : i = 1 \/ i = 2
        OBVIOUS
      <4> QED
        BY <3>2, <3>3, <4>1
    <3> QED
      BY <3>3, <3>4, <3>5
  <2>3. \/ \E f \in With(A, 10 * n + 1) : p = Multipart(<<"part", n>>, <<f>>)
        \/ \E f \in With(A, 10 * n + 1), s \in With(A, 10 * n + 2) :
                p = Multipart(<<"part", n>>, <<f, s>>)
    BY <1>4 DEF Whole
  <2> HIDE DEF Good
  <2> QED
    BY <2>1, <2>2, <2>3
<1>5. \A p \in G : p \in A \/ \E n \in Nat \ {0} : p \in Whole(n, With(A, 10 * n + 1), With(A, 10 * n + 2))
  BY DEF G, Grown
<1>6. Numbered(G)
  BY <1>3, <1>4, <1>5 DEF Numbered
<1> QED
  BY <1>1, <1>6 DEF G

\* So are the entities without parts.
LEMMA SimpleNumbered ==
    /\ Numbered(Simple)
    /\ \A n \in Nat \ {0} : /\ Leaves(n) \subseteq With(Simple, n) /\ Empty(n) \subseteq With(Simple, n)
                            /\ Few(n) \subseteq With(Simple, n)
<1>1. ASSUME NEW n \in Nat \ {0}, NEW p \in Leaves(n) \cup Empty(n)
      PROVE  p.content = <<"part", n>> /\ p.parts = <<>>
  <2>1. CASE p \in Leaves(n)
    BY <2>1 DEF Leaves
  <2>2. CASE p \in Empty(n)
    BY <2>2 DEF Empty
  <2> QED
    BY <2>1, <2>2
<1>2. \A p \in Simple : \E n \in Nat \ {0} : p \in Leaves(n) \cup Empty(n)
  BY DEF Simple
<1>3. <<>> \in Seq(Simple) /\ Len(<<>>) = 0 /\ 1..0 = {}
  BY EmptySeq
<1>4. ASSUME NEW p \in Simple
      PROVE  Number(p) \in Nat \ {0} /\ p.content = <<"part", Number(p)>> /\ p.parts = <<>>
  <2>1. PICK n \in Nat \ {0} : p \in Leaves(n) \cup Empty(n)
    BY <1>2
  <2>2. p.content = <<"part", n>> /\ p.parts = <<>>
    BY <1>1, <2>1
  <2> QED
    BY <2>2 DEF Number
<1>5. Numbered(Simple)
  <2> SUFFICES ASSUME NEW p \in Simple
               PROVE  /\ Number(p) \in Nat \ {0} /\ p.content = <<"part", Number(p)>>
                      /\ p.parts \in Seq(Simple) /\ Len(p.parts) <= 2
                      /\ p.parts # <<>> => p.type = "multipart" /\ p.bounded
                      /\ \A i \in 1..Len(p.parts) : Number(p.parts[i]) = 10 * Number(p) + i
    BY DEF Numbered
  <2>1. p.parts = <<>> /\ Len(p.parts) = 0 /\ 1..Len(p.parts) = {}
    BY <1>3, <1>4
  <2> QED
    BY <1>3, <1>4, <2>1
<1>6. ASSUME NEW n \in Nat \ {0} PROVE Leaves(n) \cup Empty(n) \subseteq With(Simple, n)
  <2>1. Leaves(n) \cup Empty(n) \subseteq Simple
    BY DEF Simple
  <2> QED
    BY <1>1, <2>1 DEF With, Number
<1>7. ASSUME NEW n \in Nat \ {0} PROVE Few(n) \subseteq Leaves(n)
  <2>1. Part("text/plain", <<"part", n>>) \in Leaves(n)
    BY DEF Part, Leaves, Types
  <2>2. [Part("*/*", <<"part", n>>) EXCEPT !.disposition = "inline", !.named = TRUE, !.body = "bad"] \in Leaves(n)
    BY DEF Part, Leaves, Types
  <2> QED
    BY <2>1, <2>2 DEF Few
<1> QED
  BY <1>5, <1>6, <1>7

\* Every entity of MCFormats is such a tree.
LEMMA EntitiesAre ==
    ASSUME NEW e \in Leaves(1) \cup Empty(1) \cup Whole(1, Leaves(11), Leaves(12))
                         \cup Whole(1, Deeper(11), Shallow(12))
    PROVE  IsTree(e) /\ OwnContents(e)
<1> DEFINE A == Simple
           B == Grown(A)
           C == Grown(B)
           D == Grown(C)
<1>1. Numbered(A) /\ Numbered(B) /\ Numbered(C) /\ Numbered(D)
  BY SimpleNumbered, GrownNumbered
<1>2. A \subseteq B /\ B \subseteq C /\ C \subseteq D
  BY <1>1, GrownNumbered
<1>3. ASSUME NEW S, NEW n \in Nat \ {0}, NEW first, NEW second,
             first \subseteq With(S, 10 * n + 1), second \subseteq With(S, 10 * n + 2)
      PROVE  Whole(n, first, second) \subseteq With(Grown(S), n)
  <2>1. Whole(n, first, second) \subseteq Whole(n, With(S, 10 * n + 1), With(S, 10 * n + 2))
    <3> SUFFICES ASSUME NEW p \in Whole(n, first, second)
                 PROVE  p \in Whole(n, With(S, 10 * n + 1), With(S, 10 * n + 2))
      OBVIOUS
    <3>1. \/ \E f \in first : p = Multipart(<<"part", n>>, <<f>>)
          \/ \E f \in first, s \in second : p = Multipart(<<"part", n>>, <<f, s>>)
      BY DEF Whole
    <3>2. \/ \E f \in With(S, 10 * n + 1) : p = Multipart(<<"part", n>>, <<f>>)
          \/ \E f \in With(S, 10 * n + 1), s \in With(S, 10 * n + 2) :
                p = Multipart(<<"part", n>>, <<f, s>>)
      BY <1>3, <3>1
    <3> QED
      BY <3>2, WholeIs
  <2>2. \A p \in Whole(n, first, second) : Number(p) = n
    <3> SUFFICES ASSUME NEW p \in Whole(n, first, second) PROVE Number(p) = n
      OBVIOUS
    <3>1. \/ \E f \in first : p = Multipart(<<"part", n>>, <<f>>)
          \/ \E f \in first, s \in second : p = Multipart(<<"part", n>>, <<f, s>>)
      BY DEF Whole
    <3>2. \E ps : p = Multipart(<<"part", n>>, ps)
      BY <3>1
    <3> QED
      BY <3>2, MultipartIs
  <2> QED
    BY <2>1, <2>2 DEF Grown, With
<1>4. ASSUME NEW S, NEW T, NEW n, S \subseteq T
      PROVE  With(S, n) \subseteq With(T, n)
  BY <1>4 DEF With
<1>5. \A n \in Nat \ {0} : 10 * n + 1 \in Nat \ {0} /\ 10 * n + 2 \in Nat \ {0}
  OBVIOUS
<1>6. \A n \in Nat \ {0} : Leaves(n) \cup Empty(n) \cup Few(n) \subseteq With(A, n)
  BY SimpleNumbered
<1> HIDE DEF A, B, C, D
<1>7. ASSUME NEW n \in Nat \ {0} PROVE Shallow(n) \subseteq With(B, n)
  <2>1. Whole(n, Few(10 * n + 1), Few(10 * n + 2)) \subseteq With(B, n)
    BY <1>3, <1>5, <1>6 DEF B
  <2>2. Few(n) \cup Empty(n) \subseteq With(B, n)
    BY <1>2, <1>4, <1>6
  <2> QED
    BY <2>1, <2>2 DEF Shallow, Trees
<1>8. ASSUME NEW n \in Nat \ {0} PROVE Deeper(n) \subseteq With(C, n)
  <2>1. Whole(n, Shallow(10 * n + 1), Shallow(10 * n + 2)) \subseteq With(C, n)
    BY <1>3, <1>5, <1>7 DEF C
  <2>2. Few(n) \cup Empty(n) \subseteq With(C, n)
    BY <1>2, <1>4, <1>6
  <2> QED
    BY <2>1, <2>2 DEF Deeper, Trees
<1>9. e \in With(D, 1)
  <2>1. 1 \in Nat \ {0} /\ 11 \in Nat \ {0} /\ 12 \in Nat \ {0} /\ 10 * 1 + 1 = 11 /\ 10 * 1 + 2 = 12
    OBVIOUS
  <2>2. Leaves(1) \cup Empty(1) \subseteq With(D, 1)
    BY <1>2, <1>4, <1>6, <2>1
  <2>3. Leaves(11) \subseteq With(C, 11) /\ Leaves(12) \subseteq With(C, 12)
    BY <1>2, <1>4, <1>6, <2>1
  <2>4. Deeper(11) \subseteq With(C, 11) /\ Shallow(12) \subseteq With(C, 12)
    BY <1>2, <1>4, <1>7, <1>8, <2>1
  <2>5. Whole(1, Leaves(11), Leaves(12)) \subseteq With(D, 1)
    BY <1>3, <2>1, <2>3 DEF D
  <2>6. Whole(1, Deeper(11), Shallow(12)) \subseteq With(D, 1)
    BY <1>3, <2>1, <2>4 DEF D
  <2> QED
    BY <2>2, <2>5, <2>6
<1> QED
  BY <1>1, <1>9, NumberedTree DEF With

\* What walk returns for the parts of an entity.
LEMMA WalkIs ==
    ASSUME NEW e, IsTree(e)
    PROVE  \E w : /\ Walk(e) = w[<< 1 >>]
                  /\ \A id \in PartIDs(e) : w[id] = Called(e, w, id)
<1> DEFINE w == CHOOSE walk : IsWalk(e, walk)
<1>1. Walk(e) = w[<< 1 >>]
  BY DEF Walk, IsWalk, Called
<1>2. IsWalk(e, w)
  BY WalkExists
<1> HIDE DEF w
<1>3. \A id \in PartIDs(e) : w[id] = Called(e, w, id)
  BY <1>2 DEF IsWalk
<1> QED
  BY <1>1, <1>3

\* A composed message, and its texts as they are shown.
IsRequest(r) ==
    /\ r.text \in BOOLEAN /\ r.html \in BOOLEAN /\ (r.text \/ r.html)
    /\ r.files \in Seq([type : Types, valid : BOOLEAN])
TextOf(r) == IF r.text THEN << [of |-> Text, decoded |-> TRUE] >> ELSE <<>>
HTMLOf(r) == IF r.html THEN << [of |-> HTML, decoded |-> TRUE] >> ELSE <<>>
ContentOf(r) == [text |-> TextOf(r), html |-> HTMLOf(r), attachments |-> <<>>]

\* Two messages merged.
LEMMA MergeTwo ==
    ASSUME NEW m, NEW n, NEW B, NEW A,
           m \in [text : Seq(B), html : Seq(B), attachments : Seq(A)]
    PROVE  MergeAll(<<m, n>>) = Merge(m, n)
<1> DEFINE msgs == <<m, n>>
           f == CHOOSE merged : IsMerged(msgs, merged)
<1>1. MergeAll(msgs) = f[Len(msgs)]
  BY DEF MergeAll, IsMerged
<1>2. Len(msgs) = 2 /\ msgs[1] = m /\ msgs[2] = n
  OBVIOUS
<1>3. IsMerged(msgs, f)
  BY <1>2, MergedExists
<1> HIDE DEF f, msgs
<1>4. \A k \in 0..2 : f[k] = IF k = 0 THEN Nothing ELSE Merge(f[k - 1], msgs[k])
  BY <1>2, <1>3 DEF IsMerged
<1>5. f[0] = Nothing /\ f[1] = Merge(f[0], m) /\ f[2] = Merge(f[1], n)
  BY <1>2, <1>4
<1>6. Merge(Nothing, m) = m
  <2>1. \A s \in Seq(B) : <<>> \o s = s
    BY ConcatEmptySeq
  <2>2. \A s \in Seq(A) : <<>> \o s = s
    BY ConcatEmptySeq
  <2>3. m.text \in Seq(B) /\ m.html \in Seq(B) /\ m.attachments \in Seq(A)
    OBVIOUS
  <2>4. m = [text |-> m.text, html |-> m.html, attachments |-> m.attachments]
    OBVIOUS
  <2> QED
    BY <2>1, <2>2, <2>3, <2>4 DEF Merge, Nothing
<1> QED
  BY <1>1, <1>2, <1>5, <1>6 DEF msgs

\* A part that is no multipart and has no parts.
LEMMA LeafCalled ==
    ASSUME NEW e, NEW w, NEW id, ~ (Depth(id) > MaxDepth),
           PartAt(e, id).type # "multipart" \/ ~PartAt(e, id).bounded
    PROVE  Called(e, w, id) = WalkLeaf(PartAt(e, id), id)
BY DEF Called, WalkPart

\* A text and an HTML body.
LEMMA BodiesShown ==
    /\ \A id : WalkLeaf(Part("text/plain", Text), id) =
                    [text |-> << [of |-> Text, decoded |-> TRUE] >>, html |-> <<>>, attachments |-> <<>>]
    /\ \A id : WalkLeaf(Part("text/html", HTML), id) =
                    [text |-> <<>>, html |-> << [of |-> HTML, decoded |-> TRUE] >>, attachments |-> <<>>]
<1> DEFINE p == Part("text/plain", Text)
           q == Part("text/html", HTML)
<1>1. /\ p.type = "text/plain" /\ p.disposition = "" /\ p.named = FALSE /\ p.body = "good" /\ p.content = Text
      /\ q.type = "text/html" /\ q.disposition = "" /\ q.named = FALSE /\ q.body = "good" /\ q.content = HTML
  BY DEF Part
<1> HIDE DEF p, q
<1>2. ~IsAttachment(p) /\ ~IsAttachment(q)
  BY <1>1 DEF IsAttachment
<1>3. Decoded(p) = [of |-> Text, decoded |-> TRUE] /\ Decoded(q) = [of |-> HTML, decoded |-> TRUE]
  BY <1>1 DEF Decoded
<1>4. \A id : WalkLeaf(p, id) = AppendText(p, Decoded(p)) /\ WalkLeaf(q, id) = AppendHTML(q, Decoded(q))
  BY <1>1, <1>2 DEF WalkLeaf
<1>5. /\ AppendText(p, Decoded(p)) = [text |-> <<Decoded(p)>>, html |-> <<>>, attachments |-> <<>>]
      /\ AppendHTML(q, Decoded(q)) = [text |-> <<>>, html |-> <<Decoded(q)>>, attachments |-> <<>>]
  <2>1. p.body # "empty" /\ q.body # "empty"
    BY <1>1
  <2> QED
    BY <2>1 DEF AppendText, AppendHTML, Body, Nothing
<1> QED
  BY <1>3, <1>4, <1>5 DEF p, q

\* What BuildContent returns is shown as it was meant, wherever it is.
LEMMA ContentShown ==
    ASSUME NEW e, IsTree(e), NEW w, \A x \in PartIDs(e) : w[x] = Called(e, w, x),
           NEW id \in PartIDs(e), Depth(id) < MaxDepth,
           NEW r, IsRequest(r),
           PartAt(e, id) = BuildContent(r)
    PROVE  w[id] = ContentOf(r)
<1>1. Depth(id) \in Int /\ MaxDepth \in Int /\ id \in Seq(Nat) /\ Len(id) \in Nat
  BY TreeIDs, MimeAssumption DEF Depth
<1>2. ~ (Depth(id) > MaxDepth)
  BY <1>1
<1>3. CASE ~r.html
  <2>1. PartAt(e, id) = Part("text/plain", Text)
    BY <1>3 DEF BuildContent
  <2>2. Part("text/plain", Text).type # "multipart"
    BY DEF Part
  <2>3. w[id] = WalkLeaf(Part("text/plain", Text), id)
    BY <1>2, <2>1, <2>2, LeafCalled
  <2>4. r.text
    BY <1>3 DEF IsRequest
  <2> QED
    BY <1>3, <2>3, <2>4, BodiesShown DEF ContentOf, TextOf, HTMLOf
<1>4. CASE r.html /\ ~r.text
  <2>1. PartAt(e, id) = Part("text/html", HTML)
    BY <1>4 DEF BuildContent
  <2>2. Part("text/html", HTML).type # "multipart"
    BY DEF Part
  <2>3. w[id] = WalkLeaf(Part("text/html", HTML), id)
    BY <1>2, <2>1, <2>2, LeafCalled
  <2> QED
    BY <1>4, <2>3, BodiesShown DEF ContentOf, TextOf, HTMLOf
<1>5. CASE r.html /\ r.text
  <2> DEFINE p == Part("text/plain", Text)
             q == Part("text/html", HTML)
             part == PartAt(e, id)
  <2>1. /\ part.parts = <<p, q>> /\ part.type = "multipart" /\ part.bounded
    <3>1. part = Multipart(<<"alternative", 0>>, <<p, q>>)
      BY <1>5 DEF BuildContent
    <3> HIDE DEF p, q
    <3> QED
      BY <3>1 DEF Multipart, Part
  <2>2. DOMAIN part.parts = 1..2 /\ Len(part.parts) = 2 /\ part.parts # <<>>
    BY <2>1
  <2>3. \A i \in 1..2 : /\ PartID(id, i) \in PartIDs(e) /\ PartAt(e, PartID(id, i)) = part.parts[i]
                        /\ ~ (Depth(PartID(id, i)) > MaxDepth)
    <3>1. \A i \in 1..2 : PartID(id, i) \in PartIDs(e) /\ PartAt(e, PartID(id, i)) = part.parts[i]
      <4>1. Depth(id) <= MaxDepth
        BY <1>1
      <4>2. \A i \in 1..2 : i \in 1..Len(PartAt(e, id).parts)
        BY <2>2
      <4> QED
        BY <4>1, <4>2, TreeIDs
    <3>2. \A i \in 1..2 : Len(PartID(id, i)) = Len(id) + 1
      BY <1>1, AppendProperties DEF PartID
    <3> QED
      BY <1>1, <3>1, <3>2 DEF Depth
  <2> DEFINE a == [text |-> << [of |-> Text, decoded |-> TRUE] >>, html |-> <<>>, attachments |-> <<>>]
             b == [text |-> <<>>, html |-> << [of |-> HTML, decoded |-> TRUE] >>, attachments |-> <<>>]
             called == [i \in DOMAIN part.parts |-> w[PartID(id, i)]]
  <2>4. w[PartID(id, 1)] = a
    <3>1. PartAt(e, PartID(id, 1)) = p /\ PartID(id, 1) \in PartIDs(e) /\ ~ (Depth(PartID(id, 1)) > MaxDepth)
      BY <2>1, <2>3
    <3>2. p.type # "multipart"
      BY DEF Part
    <3>3. w[PartID(id, 1)] = WalkLeaf(p, PartID(id, 1))
      BY <3>1, <3>2, LeafCalled
    <3> QED
      BY <3>3, BodiesShown
  <2>5. w[PartID(id, 2)] = b
    <3>1. PartAt(e, PartID(id, 2)) = q /\ PartID(id, 2) \in PartIDs(e) /\ ~ (Depth(PartID(id, 2)) > MaxDepth)
      BY <2>1, <2>3
    <3>2. q.type # "multipart"
      BY DEF Part
    <3>3. w[PartID(id, 2)] = WalkLeaf(q, PartID(id, 2))
      BY <3>1, <3>2, LeafCalled
    <3> QED
      BY <3>3, BodiesShown
  <2>6. w[id] = MergeAll(called)
    <3>1. w[id] = WalkPart(part, id, called)
      BY DEF Called
    <3> HIDE DEF called
    <3> QED
      BY <1>2, <2>1, <2>2, <3>1 DEF WalkPart
  <2>7. called = <<w[PartID(id, 1)], w[PartID(id, 2)]>>
    <3> DEFINE g(i) == w[PartID(id, i)]
    <3> HIDE DEF g
    <3>1. [i \in 1..2 |-> g(i)] = <<g(1), g(2)>>
      OBVIOUS
    <3> QED
      BY <2>2, <3>1 DEF g
  <2>8. Merge(a, b) = ContentOf(r)
    BY <1>5, ConcatEmptySeq DEF Merge, ContentOf, TextOf, HTMLOf
  <2> DEFINE V == { [of |-> Text, decoded |-> TRUE] }
  <2>9. a \in [text : Seq(V), html : Seq(V), attachments : Seq({})]
    <3> DEFINE v == [of |-> Text, decoded |-> TRUE]
    <3> HIDE DEF v
    <3>1. <<v>> \in Seq({v}) /\ <<>> \in Seq({v}) /\ <<>> \in Seq({})
      BY EmptySeq
    <3>2. [text |-> <<v>>, html |-> <<>>, attachments |-> <<>>] \in
                [text : Seq({v}), html : Seq({v}), attachments : Seq({})]
      BY <3>1
    <3> QED
      BY <3>2 DEF v
  <2> HIDE DEF a, b, called, V
  <2>10. MergeAll(<<a, b>>) = Merge(a, b)
    BY <2>9, MergeTwo
  <2> QED
    BY <2>4, <2>5, <2>6, <2>7, <2>8, <2>10
<1> QED
  BY <1>3, <1>4, <1>5

\* File i of a composed message as it is shown.
FileShown(r, i) ==
    [partID |-> PartID(<< 1 >>, i + 1), inline |-> FALSE,
     shown |-> [of |-> File(i), decoded |-> r.files[i].type # "multipart"]]
FilesOf(r, n) == [i \in 1..n |-> FileShown(r, i)]
FileMsg(r, i) == [text |-> <<>>, html |-> <<>>, attachments |-> <<FileShown(r, i)>>]

\* A file as it is composed.
LEMMA FileIs ==
    ASSUME NEW r, NEW i \in DOMAIN r.files
    PROVE  LET p == DecodeAttachments(r)[i]
           IN  /\ p.disposition = "attachment" /\ p.body = "good" /\ ~p.bounded /\ p.parts = <<>>
               /\ p.content = File(i) /\ (p.type = "multipart" <=> r.files[i].type = "multipart")
               /\ IsAttachment(p)
<1> DEFINE p == DecodeAttachments(r)[i]
           t == IF r.files[i].type = "" THEN "*/*" ELSE r.files[i].type
<1>1. p = [Part(t, File(i)) EXCEPT !.disposition = "attachment", !.named = TRUE]
  BY DEF DecodeAttachments
<1> HIDE DEF p, t
<1>2. /\ p.disposition = "attachment" /\ p.body = "good" /\ ~p.bounded /\ p.parts = <<>>
      /\ p.content = File(i) /\ p.type = t
  BY <1>1 DEF Part
<1>3. t = "multipart" <=> r.files[i].type = "multipart"
  BY DEF t
<1>4. IsAttachment(p)
  BY <1>2 DEF IsAttachment
<1> QED
  BY <1>2, <1>3, <1>4 DEF p

\* It is shown behind a link of its own.
LEMMA FileWalked ==
    ASSUME NEW r, NEW i \in DOMAIN r.files
    PROVE  WalkLeaf(DecodeAttachments(r)[i], PartID(<< 1 >>, i + 1)) = FileMsg(r, i)
<1> DEFINE p == DecodeAttachments(r)[i]
           id == PartID(<< 1 >>, i + 1)
           shown == [of |-> File(i), decoded |-> r.files[i].type # "multipart"]
<1>1. /\ p.disposition = "attachment" /\ p.body = "good"
      /\ p.content = File(i) /\ (p.type = "multipart" <=> r.files[i].type = "multipart")
      /\ IsAttachment(p)
  BY FileIs
<1> HIDE DEF p, id
<1>2. AddAttachment(p, shown, id) = FileMsg(r, i)
  <2>1. (p.disposition = "inline") = FALSE
    BY <1>1
  <2> DEFINE a == [partID |-> id, inline |-> p.disposition = "inline", shown |-> shown]
  <2>2. a = FileShown(r, i)
    BY <2>1, Zenon DEF FileShown, id, shown
  <2>3. AddAttachment(p, shown, id) = [text |-> <<>>, html |-> <<>>, attachments |-> <<a>>]
    BY DEF AddAttachment, Nothing
  <2> QED
    BY <2>2, <2>3 DEF FileMsg
<1>3. CASE p.type = "multipart"
  <2>1. Raw(p) = shown
    BY <1>1, <1>3 DEF Raw
  <2> QED
    BY <1>2, <1>3, <2>1 DEF WalkLeaf, p, id
<1>4. CASE p.type # "multipart"
  <2>1. Decoded(p) = shown
    BY <1>1, <1>4 DEF Decoded
  <2> QED
    BY <1>1, <1>2, <1>4, <2>1 DEF WalkLeaf, p, id
<1> QED
  BY <1>3, <1>4

\* The texts merged with the files, one after the other.
LEMMA MergeFiles ==
    ASSUME NEW r, IsRequest(r), NEW msgs, Len(msgs) = Len(r.files) + 1,
           msgs[1] = ContentOf(r),
           \A i \in 1..Len(r.files) : msgs[i + 1] = FileMsg(r, i)
    PROVE  MergeAll(msgs) =
                [text |-> TextOf(r), html |-> HTMLOf(r), attachments |-> FilesOf(r, Len(r.files))]
<1> DEFINE f == CHOOSE merged : IsMerged(msgs, merged)
           L == Len(r.files)
           WithFiles(n) == [text |-> TextOf(r), html |-> HTMLOf(r), attachments |-> FilesOf(r, n)]
           P == {n \in 0..L : f[n + 1] = WithFiles(n)}
<1>1. MergeAll(msgs) = f[Len(msgs)]
  BY DEF MergeAll, IsMerged
<1>2. L \in Nat
  BY LenProperties DEF IsRequest
<1>3. IsMerged(msgs, f)
  BY <1>2, MergedExists
<1> HIDE DEF f
<1>4. f[0] = Nothing /\ \A n \in 0..L : f[n + 1] = Merge(f[n], msgs[n + 1])
  <2>1. \A n \in 0..(L + 1) : f[n] = IF n = 0 THEN Nothing ELSE Merge(f[n - 1], msgs[n])
    BY <1>3 DEF IsMerged
  <2>2. 0 \in 0..(L + 1) /\ \A n \in 0..L : n + 1 \in 0..(L + 1) /\ n + 1 # 0 /\ (n + 1) - 1 = n
    BY <1>2
  <2> HIDE DEF L
  <2> QED
    BY <2>1, <2>2
<1>5. /\ msgs[1] = ContentOf(r) /\ Len(msgs) = L + 1
      /\ \A i \in 1..L : msgs[i + 1] = FileMsg(r, i)
  OBVIOUS
<1> HIDE DEF L
<1>6. /\ TextOf(r) \o <<>> = TextOf(r) /\ <<>> \o TextOf(r) = TextOf(r)
      /\ HTMLOf(r) \o <<>> = HTMLOf(r) /\ <<>> \o HTMLOf(r) = HTMLOf(r)
  <2> DEFINE v == [of |-> Text, decoded |-> TRUE]
             x == [of |-> HTML, decoded |-> TRUE]
  <2>1. TextOf(r) = <<v>> \/ TextOf(r) = <<>>
    BY DEF TextOf
  <2>2. HTMLOf(r) = <<x>> \/ HTMLOf(r) = <<>>
    BY DEF HTMLOf
  <2> HIDE DEF v, x
  <2>3. TextOf(r) \in Seq({v}) /\ HTMLOf(r) \in Seq({x})
    <3>1. <<v>> \in Seq({v}) /\ <<x>> \in Seq({x}) /\ <<>> \in Seq({v}) /\ <<>> \in Seq({x})
      BY EmptySeq
    <3> QED
      BY <2>1, <2>2, <3>1
  <2> QED
    BY <2>3, ConcatEmptySeq
<1>7. 0 \in P
  <2>1. 0 \in 0..L /\ 0 + 1 = 1
    BY <1>2
  <2>2. FilesOf(r, 0) = <<>>
    <3>1. 1..0 = {}
      OBVIOUS
    <3> QED
      BY <3>1 DEF FilesOf
  <2>3. f[1] = Merge(Nothing, ContentOf(r))
    BY <1>4, <1>5, <2>1
  <2>4. <<>> \o <<>> = <<>>
    OBVIOUS
  <2>5. Merge(Nothing, ContentOf(r)) = WithFiles(0)
    BY <1>6, <2>2, <2>4 DEF Merge, Nothing, ContentOf
  <2> QED
    BY <2>1, <2>3, <2>5
<1>8. ASSUME NEW n \in 1..L, n - 1 \in P PROVE n \in P
  <2>1. n \in Nat /\ n \in 0..L /\ n - 1 \in 0..L /\ (n - 1) + 1 = n
    BY <1>2
  <2>2. f[n] = WithFiles(n - 1)
    BY <1>8, <2>1
  <2>3. f[n + 1] = Merge(WithFiles(n - 1), FileMsg(r, n))
    BY <1>4, <1>5, <2>1, <2>2
  <2>4. FilesOf(r, n - 1) \o <<FileShown(r, n)>> = FilesOf(r, n)
    <3> DEFINE g == [i \in Nat |-> FileShown(r, i)]
               A == {g[i] : i \in Nat}
    <3>1. \A i \in Nat : g[i] \in A /\ g[i] = FileShown(r, i)
      OBVIOUS
    <3>2. \A k \in Nat : FilesOf(r, k) = [i \in 1..k |-> g[i]]
      BY DEF FilesOf
    <3> HIDE DEF g, A
    <3>3. [i \in 1..(n - 1) |-> g[i]] \o <<g[n]>> = [i \in 1..n |-> g[i]]
      <4> DEFINE s == [i \in 1..(n - 1) |-> g[i]]
                 t == <<g[n]>>
                 u == [i \in 1..n |-> g[i]]
      <4>1. n - 1 \in Nat
        OBVIOUS
      <4>2. s \in Seq(A) /\ Len(s) = n - 1 /\ \A i \in 1..(n - 1) : s[i] = g[i]
        BY <2>1, <3>1, <4>1
      <4>3. t \in Seq(A) /\ Len(t) = 1 /\ t[1] = g[n]
        BY <2>1, <3>1
      <4>4. u \in Seq(A) /\ Len(u) = n /\ \A i \in 1..n : u[i] = g[i]
        BY <2>1, <3>1
      <4> HIDE DEF s, t, u
      <4>5. /\ s \o t \in Seq(A) /\ Len(s \o t) = n
            /\ \A i \in 1..n : (s \o t)[i] = IF i <= n - 1 THEN s[i] ELSE t[i - (n - 1)]
        <5>1. /\ s \o t \in Seq(A) /\ Len(s \o t) = Len(s) + Len(t)
              /\ \A i \in 1..(Len(s) + Len(t)) :
                    (s \o t)[i] = IF i <= Len(s) THEN s[i] ELSE t[i - Len(s)]
          BY <4>2, <4>3, ConcatProperties
        <5>2. Len(s) + Len(t) = n
          BY <2>1, <4>2, <4>3
        <5> QED
          BY <4>2, <5>1, <5>2
      <4>6. \A i \in 1..n : (s \o t)[i] = u[i]
        <5> SUFFICES ASSUME NEW i \in 1..n PROVE (s \o t)[i] = u[i]
          OBVIOUS
        <5>1. CASE i <= n - 1
          <6>1. i \in 1..(n - 1)
            BY <2>1, <5>1
          <6> QED
            BY <4>2, <4>4, <4>5, <5>1, <6>1
        <5>2. CASE i = n
          <6>1. ~ (i <= n - 1) /\ i - (n - 1) = 1
            BY <2>1, <5>2
          <6>2. (s \o t)[i] = t[i - (n - 1)]
            BY <4>5, <6>1
          <6>3. (s \o t)[i] = t[1]
            BY <6>1, <6>2
          <6> QED
            BY <4>3, <4>4, <5>2, <6>3
        <5>3. i <= n - 1 \/ i = n
          BY <2>1
        <5> QED
          BY <5>1, <5>2, <5>3
      <4>7. s \o t = u
        BY <4>4, <4>5, <4>6, SeqEqual
      <4> QED
        BY <4>7 DEF s, t, u
    <3>4. /\ FilesOf(r, n - 1) = [i \in 1..(n - 1) |-> g[i]]
          /\ FilesOf(r, n) = [i \in 1..n |-> g[i]]
      <4>1. n - 1 \in Nat
        BY <2>1
      <4> QED
        BY <2>1, <3>2, <4>1
    <3>5. FileShown(r, n) = g[n]
      BY <2>1, <3>1
    <3> QED
      BY <3>3, <3>4, <3>5
  <2>5. Merge(WithFiles(n - 1), FileMsg(r, n)) = WithFiles(n)
    BY <1>6, <2>4 DEF Merge, FileMsg
  <2> QED
    BY <2>1, <2>3, <2>5
<1> HIDE DEF P
<1>9. 0..L \subseteq P
  BY <1>2, <1>7, <1>8, UpTo
<1>10. L \in P
  BY <1>2, <1>9
<1> QED
  BY <1>1, <1>5, <1>10 DEF P, L

\* A composed message has its content and its files for parts.
LEMMA ComposedTree ==
    ASSUME NEW r, IsRequest(r)
    PROVE  LET e == BuildBody(r)
               k == Len(r.files)
           IN  /\ IsTree(e)
               /\ r.files = <<>> => e = BuildContent(r)
               /\ r.files # <<>> =>
                    /\ e.type = "multipart" /\ e.bounded /\ e.parts # <<>>
                    /\ DOMAIN e.parts = 1..(k + 1) /\ Len(e.parts) = k + 1
                    /\ e.parts[1] = BuildContent(r)
                    /\ \A i \in 1..k : e.parts[i + 1] = DecodeAttachments(r)[i]
<1> DEFINE e == BuildBody(r)
           c == BuildContent(r)
           fs == DecodeAttachments(r)
           p == Part("text/plain", Text)
           q == Part("text/html", HTML)
           k == Len(r.files)
           A == {e, c, p, q} \cup {fs[i] : i \in 1..k}
<1>1. k \in Nat /\ DOMAIN r.files = 1..k
  BY LenProperties, SMTT(60) DEF IsRequest
<1>2. DOMAIN fs = 1..k /\ fs = [i \in 1..k |-> fs[i]]
  BY <1>1 DEF DecodeAttachments
<1>3. p \in A /\ q \in A /\ c \in A /\ e \in A /\ \A i \in 1..k : fs[i] \in A
  OBVIOUS
<1>4. p.parts = <<>> /\ q.parts = <<>>
  BY DEF Part
<1>5. \A i \in 1..k : fs[i].parts = <<>>
  BY <1>1, FileIs
<1>6. \/ c = p \/ c = q
      \/ c.parts = <<p, q>> /\ c.type = "multipart" /\ c.bounded
  BY DEF BuildContent, Multipart, Part
<1>7. r.files = <<>> => e = c
  BY DEF BuildBody
<1>8. r.files # <<>> => e.parts = <<c>> \o fs /\ e.type = "multipart" /\ e.bounded
  <2> SUFFICES ASSUME r.files # <<>>
               PROVE  e.parts = <<c>> \o fs /\ e.type = "multipart" /\ e.bounded
    OBVIOUS
  <2>1. e = Multipart(<<"mixed", 0>>, <<c>> \o fs)
    BY DEF BuildBody
  <2> HIDE DEF e, c, fs
  <2> QED
    BY <2>1 DEF Multipart, Part
<1>9. \A x \in A : x = e \/ x = c \/ x = p \/ x = q \/ \E i \in 1..k : x = fs[i]
  OBVIOUS
<1> HIDE DEF e, c, fs, p, q, A, k
<1>10. <<c>> \in Seq(A) /\ fs \in Seq(A) /\ Len(fs) = k /\ <<p, q>> \in Seq(A) /\ <<>> \in Seq(A)
  BY <1>1, <1>2, <1>3
<1>11. /\ <<c>> \o fs \in Seq(A) /\ Len(<<c>> \o fs) = k + 1
       /\ (<<c>> \o fs)[1] = c /\ \A i \in 1..k : (<<c>> \o fs)[i + 1] = fs[i]
  <2> DEFINE s == <<c>>
  <2>1. s \in Seq(A) /\ Len(s) = 1 /\ s[1] = c
    BY <1>10
  <2> HIDE DEF s
  <2>2. /\ s \o fs \in Seq(A) /\ Len(s \o fs) = Len(s) + Len(fs)
        /\ \A i \in 1..(Len(s) + Len(fs)) : (s \o fs)[i] = IF i <= Len(s) THEN s[i] ELSE fs[i - Len(s)]
    BY <1>10, <2>1, ConcatProperties, ZenonT(60)
  <2>3. Len(s) + Len(fs) = k + 1
    BY <1>1, <1>10, <2>1
  <2>4. 1 \in 1..(k + 1) /\ \A i \in 1..k : i + 1 \in 1..(k + 1) /\ ~ (i + 1 <= 1) /\ (i + 1) - 1 = i
    BY <1>1
  <2>5. (s \o fs)[1] = c /\ \A i \in 1..k : (s \o fs)[i + 1] = fs[i]
    BY <2>1, <2>2, <2>3, <2>4
  <2> QED
    BY <2>2, <2>3, <2>5 DEF s
<1>12. c.parts \in Seq(A) /\ (c.parts # <<>> => c.type = "multipart" /\ c.bounded)
  BY <1>4, <1>6, <1>10
<1>13. e.parts \in Seq(A) /\ (e.parts # <<>> => e.type = "multipart" /\ e.bounded)
  BY <1>7, <1>8, <1>11, <1>12
<1>14. \A x \in A : x.parts \in Seq(A) /\ (x.parts # <<>> => x.type = "multipart" /\ x.bounded)
  BY <1>4, <1>5, <1>9, <1>10, <1>12, <1>13, ZenonT(60)
<1>15. IsTree(e)
  <2>1. \A x \in A : x.parts \in Seq(A)
    BY <1>14
  <2>2. \A id \in PartIDs(e) : PartAt(e, id) \in A
    BY <1>3, <2>1, PartsAreIn
  <2> QED
    BY <1>14, <2>2 DEF IsTree
<1>16. ASSUME r.files # <<>>
       PROVE  /\ e.parts # <<>> /\ DOMAIN e.parts = 1..(k + 1) /\ Len(e.parts) = k + 1
              /\ e.parts[1] = c /\ \A i \in 1..k : e.parts[i + 1] = fs[i]
  <2>1. e.parts = <<c>> \o fs
    BY <1>8, <1>16
  <2>2. e.parts \in Seq(A) /\ Len(e.parts) = k + 1
    BY <1>11, <2>1
  <2>3. DOMAIN e.parts = 1..(k + 1)
    BY <2>2, LenProperties
  <2>4. e.parts # <<>>
    BY <1>1, <2>2, EmptySeq
  <2> QED
    BY <1>11, <2>1, <2>2, <2>3, <2>4
<1> QED
  BY <1>7, <1>8, <1>15, <1>16 DEF e, c, fs, k

\* Walk returns the texts, and the files in their order.
LEMMA ComposedWalk ==
    ASSUME NEW r, IsRequest(r)
    PROVE  Walk(BuildBody(r)) =
                [text |-> TextOf(r), html |-> HTMLOf(r), attachments |-> FilesOf(r, Len(r.files))]
<1> DEFINE e == BuildBody(r)
           k == Len(r.files)
           c == BuildContent(r)
<1>1. /\ IsTree(e)
      /\ r.files = <<>> => e = c
      /\ r.files # <<>> =>
            /\ e.type = "multipart" /\ e.bounded /\ e.parts # <<>>
            /\ DOMAIN e.parts = 1..(k + 1) /\ Len(e.parts) = k + 1
            /\ e.parts[1] = c
            /\ \A i \in 1..k : e.parts[i + 1] = DecodeAttachments(r)[i]
  BY ComposedTree
<1>2. k \in Nat /\ DOMAIN r.files = 1..k /\ (r.files = <<>> <=> k = 0)
  BY LenProperties, EmptySeq DEF IsRequest
<1> HIDE DEF e, c, k
<1>3. PICK w : Walk(e) = w[<< 1 >>] /\ \A id \in PartIDs(e) : w[id] = Called(e, w, id)
  BY <1>1, WalkIs
<1>4. /\ << 1 >> \in PartIDs(e) /\ PartAt(e, << 1 >>) = e /\ Depth(<< 1 >>) = 0 /\ ~ (Depth(<< 1 >>) > MaxDepth)
      /\ Depth(<< 1 >>) < MaxDepth /\ Depth(<< 1 >>) <= MaxDepth
  <2>1. << 1 >> \in PartIDs(e) /\ PartAt(e, << 1 >>) = e
    BY <1>1, TreeIDs, PartAtIs
  <2>2. Depth(<< 1 >>) = 0
    BY DEF Depth
  <2> QED
    BY <2>1, <2>2, MimeAssumption
<1>5. CASE r.files = <<>>
  <2>1. PartAt(e, << 1 >>) = BuildContent(r)
    BY <1>1, <1>4, <1>5 DEF c
  <2>3. w[<< 1 >>] = ContentOf(r)
    BY <1>1, <1>3, <1>4, <2>1, ContentShown
  <2>4. FilesOf(r, k) = <<>>
    <3>1. 1..k = {}
      BY <1>2, <1>5
    <3> QED
      BY <3>1 DEF FilesOf
  <2> QED
    BY <1>3, <2>3, <2>4 DEF ContentOf, e, k
<1>6. CASE r.files # <<>>
  <2> DEFINE called == [i \in DOMAIN e.parts |-> w[PartID(<< 1 >>, i)]]
  <2>1. w[<< 1 >>] = MergeAll(called)
    <3>1. w[<< 1 >>] = WalkPart(e, << 1 >>, called)
      BY <1>3, <1>4 DEF Called
    <3> HIDE DEF called
    <3> QED
      BY <1>1, <1>4, <1>6, <3>1 DEF WalkPart
  <2>2. Len(called) = k + 1 /\ \A i \in 1..(k + 1) : called[i] = w[PartID(<< 1 >>, i)]
    BY <1>1, <1>2, <1>6
  <2> HIDE DEF called
  <2>3. \A i \in 1..(k + 1) : /\ PartID(<< 1 >>, i) \in PartIDs(e) /\ PartAt(e, PartID(<< 1 >>, i)) = e.parts[i]
                              /\ Depth(PartID(<< 1 >>, i)) = 1
    <3>1. \A i \in 1..(k + 1) : i \in 1..Len(PartAt(e, << 1 >>).parts)
      BY <1>1, <1>4, <1>6
    <3>2. \A i \in 1..(k + 1) : PartID(<< 1 >>, i) \in PartIDs(e) /\ PartAt(e, PartID(<< 1 >>, i)) = e.parts[i]
      BY <1>1, <1>4, <3>1, TreeIDs
    <3>3. \A i \in 1..(k + 1) : Depth(PartID(<< 1 >>, i)) = 1
      BY DEF Depth, PartID
    <3> QED
      BY <3>2, <3>3
  <2>4. called[1] = ContentOf(r)
    <3>1. 1 \in 1..(k + 1)
      BY <1>2
    <3> DEFINE id == PartID(<< 1 >>, 1)
    <3>2. id \in PartIDs(e) /\ PartAt(e, id) = BuildContent(r) /\ Depth(id) = 1 /\ called[1] = w[id]
      BY <1>1, <1>6, <2>2, <2>3, <3>1 DEF c
    <3> HIDE DEF id
    <3>4. Depth(id) < MaxDepth
      BY <3>2, MimeAssumption
    <3> QED
      BY <1>1, <1>3, <3>2, <3>4, ContentShown
  <2>5. ASSUME NEW i \in 1..k PROVE called[i + 1] = FileMsg(r, i)
    <3>1. i + 1 \in 1..(k + 1)
      BY <1>2
    <3> DEFINE id == PartID(<< 1 >>, i + 1)
               p == DecodeAttachments(r)[i]
    <3>2. id \in PartIDs(e) /\ PartAt(e, id) = p /\ Depth(id) = 1 /\ called[i + 1] = w[id]
      BY <1>1, <1>6, <2>2, <2>3, <3>1
    <3>3. ~p.bounded
      BY <1>2, FileIs
    <3>4. WalkLeaf(p, id) = FileMsg(r, i)
      BY <1>2, FileWalked
    <3> HIDE DEF id, p
    <3>5. ~ (Depth(id) > MaxDepth)
      BY <3>2, MimeAssumption
    <3>6. Called(e, w, id) = WalkLeaf(p, id)
      BY <3>2, <3>3, <3>5, LeafCalled
    <3> QED
      BY <1>3, <3>2, <3>4, <3>6
  <2>6. MergeAll(called) =
            [text |-> TextOf(r), html |-> HTMLOf(r), attachments |-> FilesOf(r, Len(r.files))]
    <3>1. Len(called) = Len(r.files) + 1 /\ \A i \in 1..Len(r.files) : called[i + 1] = FileMsg(r, i)
      BY <2>2, <2>5 DEF k
    <3> QED
      BY <2>4, <3>1, MergeFiles
  <2> QED
    BY <1>3, <2>1, <2>6 DEF e
<1> QED
  BY <1>5, <1>6

\* What is composed, with any number of files, is displayed as it was meant.
THEOREM ComposedCorrect ==
    ASSUME NEW r, r.text \in BOOLEAN, r.html \in BOOLEAN,
           r.files \in Seq([type : Types, valid : BOOLEAN])
    PROVE  ComposedIsShown(r)
<1> DEFINE e == BuildBody(r)
           msg == Parse(e)
           k == Len(r.files)
           as == FilesOf(r, k)
<1>1. SUFFICES ASSUME ~BuildFails(r)
               PROVE  /\ msg.text = TextOf(r) /\ msg.html = HTMLOf(r)
                      /\ Len(msg.attachments) = k
                      /\ \A i \in DOMAIN r.files :
                            AttachmentOf(msg, msg.attachments[i].partID) =
                                [of |-> File(i), decoded |-> r.files[i].type # "multipart"]
  BY DEF ComposedIsShown, TextOf, HTMLOf
<1>2. r.text \/ r.html
  BY <1>1 DEF BuildFails
<1>3. IsRequest(r)
  BY <1>2 DEF IsRequest
<1>4. k \in Nat /\ DOMAIN r.files = 1..k
  BY LenProperties
<1>5. Walk(e) = [text |-> TextOf(r), html |-> HTMLOf(r), attachments |-> as]
  BY <1>3, ComposedWalk
<1>6. LinksLead(e)
  BY <1>3, ComposedTree, LinksCorrect
<1>7. Walk(e) # Nothing
  <2>1. TextOf(r) # <<>> \/ HTMLOf(r) # <<>>
    BY <1>2 DEF TextOf, HTMLOf
  <2>2. Walk(e).text = TextOf(r) /\ Walk(e).html = HTMLOf(r)
    BY <1>5
  <2>3. Nothing.text = <<>> /\ Nothing.html = <<>>
    BY DEF Nothing
  <2> QED
    BY <2>1, <2>2, <2>3
<1>8. msg = Walk(e)
  BY <1>7 DEF Parse
<1> HIDE DEF msg, e, k
<1>9. Len(as) = k /\ DOMAIN as = 1..k /\ \A i \in 1..k : as[i] = FileShown(r, i)
  BY <1>4 DEF FilesOf
<1> HIDE DEF as
<1>10. msg.text = TextOf(r) /\ msg.html = HTMLOf(r) /\ msg.attachments = as
  BY <1>5, <1>8
<1>11. ASSUME NEW i \in DOMAIN r.files
       PROVE  AttachmentOf(msg, msg.attachments[i].partID) =
                    [of |-> File(i), decoded |-> r.files[i].type # "multipart"]
  <2>1. i \in DOMAIN msg.attachments /\ msg.attachments[i] = FileShown(r, i)
    BY <1>4, <1>9, <1>10
  <2>2. AttachmentOf(msg, msg.attachments[i].partID) = msg.attachments[i].shown
    BY <1>6, <2>1 DEF LinksLead, msg
  <2>3. FileShown(r, i).shown = [of |-> File(i), decoded |-> r.files[i].type # "multipart"]
    BY DEF FileShown
  <2> QED
    BY <2>1, <2>2, <2>3
<1> QED
  BY <1>9, <1>10, <1>11

-----------------------------------------------------------------------------
(* The properties of MCFormats                                             *)

\* Sequences of bounded length are sequences.
LEMMA UptoIs ==
    ASSUME NEW n \in Nat, NEW S, NEW A, S \subseteq A
    PROVE  Upto(n, S) \subseteq Seq(A)
<1> SUFFICES ASSUME NEW k \in 0..n, NEW s \in [1..k -> S] PROVE s \in Seq(A)
  BY DEF Upto
<1>1. k \in Nat /\ s \in [1..k -> A]
  OBVIOUS
<1> QED
  BY <1>1

\* A request with any number of files.
IsAsked(r) ==
    /\ r.text \in BOOLEAN /\ r.html \in BOOLEAN
    /\ r.files \in Seq([type : Types, valid : BOOLEAN])
\* The requests of Requests(2) are such requests.
LEMMA RequestsAre ==
    ASSUME NEW r \in Requests(2)
    PROVE  IsAsked(r)
<1> DEFINE F == [type : Types, valid : BOOLEAN]
           B == BOOLEAN
           U == UNION {[1..k -> F] : k \in 0..2}
<1>1. U \subseteq Seq(F)
  <2> SUFFICES ASSUME NEW k \in 0..2, NEW s \in [1..k -> F] PROVE s \in Seq(F)
    OBVIOUS
  <2>1. k \in Nat
    OBVIOUS
  <2> HIDE DEF F
  <2> QED
    BY <2>1
<1>2. r \in [from : B, to : B, text : B, html : B, files : U]
  BY DEF Requests
<1> HIDE DEF B, U, F
<1>3. r.text \in B /\ r.html \in B /\ r.files \in Seq(F)
  BY <1>1, <1>2
<1> QED
  BY <1>3, Zenon DEF IsAsked, B, F

\* What is asked is asked of texts, lines, mailboxes and patterns of any length.
Inputs ==
    /\ input.kind = "text" => input.raw \in Seq(Octets) /\ input.n \in Int
    /\ input.kind = "dialog" =>
            /\ input.lines \in LineLists /\ input.max \in Nat
            /\ input.received \in {<<>>, <<X>> \o End} /\ input.reader \in Readers
    /\ input.kind = "view" => input.view \in Seq(Seq(Octets))
    /\ input.kind = "page" => BoxesOf(3, input.boxes) /\ input.limit \in Int
    /\ input.kind = "pattern" =>
            input.pattern \in Seq({"a", AT, STAR}) /\ input.address \in Seq({"a", AT, STAR})
    /\ input.kind = "entity" => IsTree(input.entity) /\ OwnContents(input.entity)
    /\ input.kind = "request" => IsAsked(input.request)

\* The texts of the view are texts.
LEMMA TextsAre == Texts \subseteq Seq(Octets)
<1> DEFINE O == Octets
           x == <<X>>
           d == <<DOT>>
           t == <<X, LF, DOT, LF>>
           l == <<LF>>
           dd == <<DOT, DOT>>
           e == End
<1>1. x \in Seq(O) /\ d \in Seq(O) /\ t \in Seq(O) /\ l \in Seq(O) /\ dd \in Seq(O) /\ e \in Seq(O)
  BY Letters, EndIs
<1>2. Texts = {<<>>, x, d \o e, t, l \o e, x \o e \o dd}
  BY DEF Texts
<1> HIDE DEF O, x, d, t, l, dd, e
<1>3. d \o e \in Seq(O) /\ l \o e \in Seq(O) /\ x \o e \in Seq(O)
  BY <1>1, ConcatProperties
<1>4. (x \o e) \o dd \in Seq(O)
  BY <1>1, <1>3, ConcatProperties
<1>5. <<>> \in Seq(O)
  BY EmptySeq
<1> QED
  BY <1>1, <1>2, <1>3, <1>4, <1>5 DEF O

\* The limits that are asked for are numbers.
LEMMA LimitsAre == \A limit \in -1..(MaxLimit + 1) : limit \in Int
BY ListingAssumption

\* What is asked is asked of texts, lines, mailboxes and patterns.
LEMMA InputsType == Spec => []Inputs
<1>1. Init => Inputs
  BY DEF Init, Inputs
<1>2. ASSUME Inputs, [Next]_input PROVE Inputs'
  <2>1. CASE AskText
    <3>1. PICK raw \in Upto(MaxText, Octets), n \in -1..2 :
            input' = [kind |-> "text", raw |-> raw, n |-> n]
      BY <2>1 DEF AskText
    <3>2. raw \in Seq(Octets)
      BY UptoIs, FormatsAssumption
    <3> QED
      BY <3>1, <3>2 DEF Inputs
  <2>2. CASE AskDialog
    <3>1. PICK lines \in Upto(3, Upto(MaxLine, {DOT, CR, X})),
               received \in {<<>>, <<X>> \o End}, max \in 0..12, reader \in SomeReaders :
            input' = [kind |-> "dialog", lines |-> lines, received |-> received, max |-> max,
                      reader |-> reader]
      BY <2>2 DEF AskDialog
    <3>2. {DOT, CR, X} \subseteq Plain
      BY Letters
    <3>3. Upto(MaxLine, {DOT, CR, X}) \subseteq Seq(Plain)
      BY <3>2, UptoIs, FormatsAssumption
    <3>4. lines \in LineLists
      BY <3>3, UptoIs DEF LineLists
    <3>5. reader \in Readers
      BY <3>1, FormatsAssumption DEF SomeReaders, Readers
    <3> HIDE DEF LineLists
    <3> QED
      BY <3>1, <3>4, <3>5 DEF Inputs
  <2>3. CASE AskView
    <3>1. PICK view \in Upto(3, Texts) : \E marked \in SUBSET DOMAIN view :
            input' = [kind |-> "view", view |-> view, marked |-> marked]
      BY <2>3 DEF AskView
    <3>2. view \in Seq(Seq(Octets))
      BY UptoIs, TextsAre
    <3> QED
      BY <3>1, <3>2 DEF Inputs
  <2>4. CASE AskPage
    <3>1. PICK boxes \in Boxes, mb \in {"inbox", "outbox", ""},
               wanted \in SUBSET (1..3), limit \in -1..(MaxLimit + 1) :
            input' = [kind |-> "page", boxes |-> boxes, mb |-> mb, wanted |-> wanted,
                      limit |-> limit]
      BY <2>4 DEF AskPage
    <3>2. Upto(3, 1..3) \subseteq Seq(1..3)
      BY UptoIs
    <3>3. BoxesOf(3, boxes)
      <4>1. boxes \in [{"inbox", "outbox"} -> {s \in Upto(3, 1..3) : IsInjective(s)}]
        BY DEF Boxes
      <4>2. boxes \in [DOMAIN boxes -> Seq(1..3)]
        BY <3>2, <4>1
      <4> QED
        BY <4>2 DEF BoxesOf
    <3>4. limit \in Int
      BY LimitsAre
    <3> QED
      BY <3>1, <3>3, <3>4 DEF Inputs, BoxesOf
  <2>5. CASE AskEntity
    <3>1. PICK e \in Leaves(1) \cup Empty(1) \cup Whole(1, Leaves(11), Leaves(12))
                     \cup Whole(1, Deeper(11), Shallow(12)) :
            input' = [kind |-> "entity", entity |-> e]
      BY <2>5, Zenon DEF AskEntity
    <3>2. IsTree(e) /\ OwnContents(e)
      BY EntitiesAre
    <3> QED
      BY <3>1, <3>2 DEF Inputs
  <2>6. CASE AskRequest
    <3>1. PICK request \in Requests(2) : input' = [kind |-> "request", request |-> request]
      BY <2>6, Zenon DEF AskRequest
    <3>2. IsAsked(request)
      BY RequestsAre
    <3> QED
      BY <3>1, <3>2 DEF Inputs
  <2>7. CASE AskCids
    BY <2>7 DEF AskCids, Inputs
  <2>8. CASE AskPattern
    <3>1. PICK pattern \in Upto(MaxPattern, {"a", AT, STAR}), address \in Upto(MaxPattern, {"a", AT}) :
            input' = [kind |-> "pattern", pattern |-> pattern, address |-> address]
      BY <2>8 DEF AskPattern
    <3>2. pattern \in Seq({"a", AT, STAR}) /\ address \in Seq({"a", AT, STAR})
      BY UptoIs, FormatsAssumption
    <3> QED
      BY <3>1, <3>2 DEF Inputs
  <2>9. CASE UNCHANGED input
    BY <1>2, <2>9 DEF Inputs
  <2> QED
    BY <1>2, <2>1, <2>2, <2>3, <2>4, <2>5, <2>6, <2>7, <2>8, <2>9 DEF Next
<1> QED
  BY <1>1, <1>2, PTL DEF Spec

\* The Received header of the model is one line.
LEMMA HeaderLine ==
    ASSUME NEW received \in {<<>>, <<X>> \o End}
    PROVE  /\ received \in Seq(Octets)
           /\ \E rs \in LineLists : LastTrim(rs) = rs /\ received = Concat(rs)
<1>1. CASE received = <<>>
  <2>1. <<>> \in LineLists /\ <<>> \in Seq(Octets)
    BY EmptySeq DEF LineLists
  <2> QED
    BY <1>1, <2>1, LastTrimIs, ConcatIs
<1>2. CASE received = <<X>> \o End
  <2> DEFINE x == <<X>>
             rs == Append(<<>>, x)
  <2>1. x \in Seq(Plain) /\ X \in Octets /\ CR \in Octets /\ X # CR /\ x = Append(<<>>, X)
    BY Letters DEF X, CR
  <2>2. <<>> \in LineLists /\ <<>> \in Seq(Octets)
    BY EmptySeq DEF LineLists
  <2>3. TrimSuffix(Append(<<>>, X), CR) = Append(<<>>, X)
    BY <2>1, <2>2, TrimIs
  <2>4. x \in Seq(Octets)
    BY <2>1, PlainText
  <2>5. TrimSuffix(x, CR) = x
    BY <2>1, <2>3
  <2> HIDE DEF x
  <2>6. LastTrim(rs) = rs
    BY <2>1, <2>2, <2>5, LastTrimIs
  <2>7. Concat(rs) = <<>> \o (x \o End)
    BY <2>1, <2>2, ConcatIs
  <2>8. x \o End \in Seq(Octets)
    BY <2>4, EndIs, ConcatProperties
  <2>9. <<>> \o (x \o End) = x \o End
    BY <2>8, ConcatEmptySeq
  <2>10. rs \in LineLists
    BY <2>1, <2>2, AppendProperties DEF LineLists
  <2> QED
    BY <1>2, <2>6, <2>7, <2>8, <2>9, <2>10 DEF x
<1> QED
  BY <1>1, <1>2

\* LIST and STAT announce as many octets as RETR sends, for stored texts of
\* every length: crlfSize counts what writeDotStuffed writes.
THEOREM AnnouncedIsSent == Spec => []OctetsAnnounced
<1>1. Inputs => OctetsAnnounced
  BY SizeCorrect DEF Inputs, OctetsAnnounced
<1> QED
  BY <1>1, InputsType, PTL

\* A client that removes dots gets all lines that RETR and TOP send, and nothing
\* is left behind the terminator, for texts of every length: dot-stuffing works.
THEOREM NothingEndsEarly == Spec => []NoEarlyEnd
<1>1. Inputs => NoEarlyEnd
  BY NoLineEnds DEF Inputs, NoEarlyEnd
<1> QED
  BY <1>1, InputsType, PTL

\* TOP n sends the header, the empty line and n lines of the body, for texts of
\* every length: writeDotStuffed stops where it should.
THEOREM TopIsCorrect == Spec => []TopSendsPrefix
<1>1. Inputs => TopSendsPrefix
  BY TopCorrect DEF Inputs, TopSendsPrefix
<1> QED
  BY <1>1, InputsType, PTL

\* The page and TOP agree on the header and the body of every text with line
\* ends of one kind: splitMessage divides it where writeDotStuffed does.
THEOREM PageAgrees == Spec => []PageAndTopAgree
<1>1. Inputs => PageAndTopAgree
  BY HeadersCorrect DEF Inputs, PageAndTopAgree
<1> QED
  BY <1>1, InputsType, PTL

\* LIST, RETR and STAT agree on numbers and octets, for every view of a session
\* and whatever is marked by DELE.
THEOREM ListIsCorrect == Spec => []ListAgreesWithRetr
<1>1. Inputs => ListAgreesWithRetr
  BY ListsCorrect DEF Inputs, ListAgreesWithRetr
<1> QED
  BY <1>1, InputsType, PTL

\* Without too long lines readData refuses a message exactly if it is too large,
\* and reads all of it up to its end either way; at a line that is too long it
\* stops and leaves the rest, and the message is not accepted, whatever its lines
\* and wherever bufio divides them.
THEOREM RefusedIsTooLarge == Spec => []RefusedExactlyIfTooLarge
<1>1. Inputs => RefusedExactlyIfTooLarge
  BY RefusedCorrect, HeaderLine DEF Inputs, RefusedExactlyIfTooLarge
<1> QED
  BY <1>1, InputsType, PTL

\* What readData accepts comes out of RETR line for line, behind the Received
\* header, whatever its lines are.
THEOREM AcceptedComesOut == Spec => []RoundTrip
<1>1. Inputs => RoundTrip
  <2> SUFFICES ASSUME Inputs, input.kind = "dialog"
               PROVE  ComesOutAsSent(input.lines, input.received, input.max, input.reader)
    BY DEF RoundTrip
  <2>1. PICK rs \in LineLists : LastTrim(rs) = rs /\ input.received = Concat(rs)
    BY HeaderLine DEF Inputs
  <2> QED
    BY <2>1, RoundTripCorrect DEF Inputs
<1> QED
  BY <1>1, InputsType, PTL

\* Page after page of List shows every message that matches, once, newest
\* first, for every limit.
THEOREM PagesAreComplete == Spec => []PagesShowAll
<1>1. Inputs => PagesShowAll
  <2> SUFFICES ASSUME Inputs, input.kind = "page"
               PROVE  PagesCover(input.boxes, input.mb, input.wanted, input.limit)
    BY DEF PagesShowAll
  <2>1. BoxesOf(3, input.boxes) /\ input.limit \in Int /\ 3 \in Nat
    BY DEF Inputs
  <2> QED
    BY <2>1, PagesCorrect
<1> QED
  BY <1>1, InputsType, PTL

\* A route of a documented form matches just the addresses it stands for, for
\* patterns and addresses of every length.
THEOREM RoutesMean == Spec => []RoutesMatch
<1>1. Inputs => RoutesMatch
  <2> SUFFICES ASSUME Inputs, input.kind = "pattern"
               PROVE  PatternsMatch(input.pattern, input.address)
    BY DEF RoutesMatch
  <2> DEFINE C == {"a", AT, STAR}
  <2>1. STAR \in C /\ AT \in C /\ input.pattern \in Seq(C) /\ input.address \in Seq(C)
    BY DEF Inputs
  <2> HIDE DEF C
  <2> QED
    BY <2>1, PatternsCorrect
<1> QED
  BY <1>1, InputsType, PTL

\* Every part of an entity is shown once, and every link leads to its own
\* attachment, however multiparts are nested and whatever MaxDepth is: walk
\* hands out part IDs that are different, and leaves nothing out.
THEOREM EveryPartIsShown == Spec => []EveryPartShown
<1>1. Inputs => EveryPartShown
  BY ShownCorrect, LinksCorrect DEF Inputs, EveryPartShown
<1> QED
  BY <1>1, InputsType, PTL

\* What is composed is displayed as it was meant, with any files: the parts of
\* BuildBody are those that walk takes for the text, the HTML and the files.
THEOREM ComposedIsMeant == Spec => []ComposedAsMeant
<1>1. Inputs => ComposedAsMeant
  BY ComposedCorrect DEF Inputs, IsAsked, ComposedAsMeant
<1> QED
  BY <1>1, InputsType, PTL
=============================================================================
