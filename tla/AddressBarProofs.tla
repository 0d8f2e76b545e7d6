-------------------------- MODULE AddressBarProofs --------------------------
(***************************************************************************)
(* The proofs of the properties of AddressBar, for every set of texts, and *)
(* every bound and slack.  The words come first: how many letters a key    *)
(* adds, marks or takes.  Then the bar: what a deletion leaves of it, and  *)
(* what comes of a plan.  Then the plans: the Backspaces of each, and what *)
(* the engine remembers after it.  The properties follow from the          *)
(* invariant at one state; the last part is that every action keeps it.    *)
(***************************************************************************)
EXTENDS AddressBar, TLAPS, FiniteSetTheorems, SequenceTheorems

\* The sequences of keys, and of glyphs.
Words == Seq(Keys)
Texts == Seq(Glyphs)

-----------------------------------------------------------------------------
(***************************************************************************)
(* Words.                                                                  *)
(***************************************************************************)
\* The letters among the first keys are no more than those keys.
LEMMA LettersFinite ==
    ASSUME NEW w, NEW j \in Nat
    PROVE  /\ IsFiniteSet(LettersTo(w, j))
           /\ Cardinality(LettersTo(w, j)) \in Nat
           /\ Cardinality(LettersTo(w, j)) <= j
<1>1. IsFiniteSet(1..j) /\ Cardinality(1..j) = j
  BY FS_Interval
<1>2. LettersTo(w, j) \subseteq 1..j
  BY DEF LettersTo
<1>3. QED
  BY <1>1, <1>2, FS_Subset, FS_CardinalityType

\* A word has no more letters than keys.
LEMMA SizeOfWord ==
    ASSUME NEW w \in Words
    PROVE  Size(w) \in Nat /\ Size(w) <= Len(w)
  BY LettersFinite DEF Words, Size

\* What is composed has as many glyphs as the word has letters.
LEMMA ComposedOfWord ==
    ASSUME NEW w \in Words
    PROVE  Composed(w) \in Texts /\ Len(Composed(w)) = Size(w)
<1>1. Size(w) \in Nat
  BY SizeOfWord
<1>2. \A n \in 1..Size(w) : Composed(w)[n] \in Glyphs
  BY DEF Composed, Glyphs
<1>3. Composed(w) = [n \in 1..Size(w) |-> Composed(w)[n]]
  BY DEF Composed
<1>4. Composed(w) \in Texts
  BY <1>1, <1>2, <1>3, IsASeq DEF Texts
<1>5. DOMAIN Composed(w) = 1..Size(w)
  BY DEF Composed
<1>6. QED
  BY <1>1, <1>4, <1>5, LenProperties DEF Texts

\* A key more counts if it is a letter.
LEMMA SizeOfAppend ==
    ASSUME NEW w \in Words, NEW k \in Keys
    PROVE  /\ Append(w, k) \in Words
           /\ Len(Append(w, k)) = Len(w) + 1
           /\ Append(w, k)[1] = IF w = <<>> THEN k ELSE w[1]
           /\ Size(Append(w, k)) = Size(w) + (IF k \in {Letter, Marked} THEN 1 ELSE 0)
<1> DEFINE v == Append(w, k)
           n == Len(w)
<1>1. /\ v \in Words /\ Len(v) = n + 1 /\ n \in Nat /\ v[n + 1] = k
      /\ \A j \in 1..n : v[j] = w[j]
  BY AppendProperties DEF Words
<1>2. v[1] = IF w = <<>> THEN k ELSE w[1]
  BY <1>1 DEF Words
<1>3. LettersTo(v, n + 1) =
        LettersTo(w, n) \cup (IF k \in {Letter, Marked} THEN {n + 1} ELSE {})
  BY <1>1 DEF LettersTo
<1>4. IsFiniteSet(LettersTo(w, n)) /\ Cardinality(LettersTo(w, n)) \in Nat
  BY <1>1, LettersFinite
<1>5. n + 1 \notin LettersTo(w, n)
  BY <1>1 DEF LettersTo
<1>6. Cardinality(LettersTo(v, n + 1)) =
        Cardinality(LettersTo(w, n)) + (IF k \in {Letter, Marked} THEN 1 ELSE 0)
  <2>1. CASE k \in {Letter, Marked}
    BY <2>1, <1>3, <1>4, <1>5, FS_AddElement
  <2>2. CASE k \notin {Letter, Marked}
    <3>1. LettersTo(v, n + 1) = LettersTo(w, n)
      BY <2>2, <1>3
    <3>2. QED
      BY <2>2, <3>1, <1>4
  <2>3. QED
    BY <2>1, <2>2
<1>7. QED
  BY <1>1, <1>2, <1>6 DEF Size

\* The mark of a letter adds no glyph.
LEMMA SizeOfMark ==
    ASSUME NEW w \in Words, Len(w) <= MaxKeys, BarAssumption, NEW i \in 1..Size(w)
    PROVE  /\ Append(w, i) \in Words
           /\ Len(Append(w, i)) = Len(w) + 1
           /\ Append(w, i)[1] = w[1]
           /\ Size(Append(w, i)) = Size(w)
<1>1. Size(w) \in Nat /\ Size(w) <= Len(w) /\ Len(w) \in Nat
  BY SizeOfWord DEF Words
<1>2. i \in Keys /\ i \notin {Letter, Marked} /\ w # <<>>
  BY <1>1 DEF Keys, Letter, Marked, BarAssumption
<1>3. QED
  BY <1>1, <1>2, SizeOfAppend

\* A word that begins with a letter has one.
LEMMA SizePositive ==
    ASSUME NEW w \in Words, w # <<>>, w[1] \in {Letter, Marked}
    PROVE  Size(w) >= 1
<1>1. Len(w) \in Nat /\ Len(w) >= 1
  BY DEF Words
<1>2. 1 \in LettersTo(w, Len(w))
  BY <1>1 DEF LettersTo
<1>3. IsFiniteSet(LettersTo(w, Len(w))) /\ Cardinality(LettersTo(w, Len(w))) \in Nat
  BY <1>1, LettersFinite
<1>4. Cardinality(LettersTo(w, Len(w))) # 0
  BY <1>2, <1>3, FS_EmptySet
<1>5. QED
  BY <1>3, <1>4 DEF Size

\* The end of a sequence goes.
LEMMA DropFacts ==
    ASSUME NEW S, NEW s \in Seq(S), NEW n \in Nat
    PROVE  /\ Drop(s, n) \in Seq(S)
           /\ Len(Drop(s, n)) = IF n < Len(s) THEN Len(s) - n ELSE 0
           /\ \A j \in 1..Len(Drop(s, n)) : Drop(s, n)[j] = s[j]
<1>1. CASE n < Len(s)
  <2>1. Len(s) - n \in 0..Len(s)
    BY <1>1
  <2>2. QED
    BY <1>1, <2>1, SubSeqProperties DEF Drop
<1>2. CASE ~(n < Len(s))
  <2>1. Drop(s, n) = SubSeq(s, 1, 0)
    BY <1>2 DEF Drop
  <2>2. QED
    BY <1>2, <2>1, SubSeqProperties
<1>3. QED
  BY <1>1, <1>2

\* A word without its last key.
LEMMA PoppedWord ==
    ASSUME NEW w \in Words, w # <<>>
    PROVE  /\ Popped(w) \in Words /\ Len(Popped(w)) = Len(w) - 1
           /\ Popped(w) # <<>> => Popped(w)[1] = w[1]
           /\ Popped(w) = <<>> <=> Len(w) = 1
<1>1. Len(w) \in Nat /\ Len(w) >= 1
  BY DEF Words
<1>2. /\ Popped(w) \in Words /\ Len(Popped(w)) = Len(w) - 1
      /\ \A j \in 1..Len(Popped(w)) : Popped(w)[j] = w[j]
  BY <1>1, DropFacts DEF Popped, Words
<1>3. Popped(w) = <<>> <=> Len(Popped(w)) = 0
  BY <1>2 DEF Words
<1>4. Popped(w) # <<>> => Popped(w)[1] = w[1]
  BY <1>1, <1>2, <1>3
<1>5. QED
  BY <1>1, <1>2, <1>3, <1>4

\* One key has at most one letter; a word that a Backspace of the bar empties had just one.
LEMMA PoppedGlyphWord ==
    ASSUME NEW w \in Words, w # <<>>, w[1] \in {Letter, Marked}
    PROVE  /\ PoppedGlyph(w) \in Words /\ Len(PoppedGlyph(w)) <= Len(w)
           /\ PoppedGlyph(w) # <<>> => PoppedGlyph(w)[1] = w[1]
           /\ PoppedGlyph(w) = <<>> => Size(w) = 1
<1> DEFINE p == Popped(w)
<1>1. /\ p \in Words /\ Len(p) = Len(w) - 1 /\ (p # <<>> => p[1] = w[1])
      /\ (p = <<>> <=> Len(w) = 1) /\ Len(w) \in Nat /\ Len(p) \in Nat
  BY PoppedWord DEF Words
<1>2. Size(w) \in Nat /\ Size(w) >= 1 /\ Size(w) <= Len(w)
  BY SizePositive, SizeOfWord
<1>3. CASE p # <<>> /\ Size(p) = Size(w)
  <2>1. /\ Popped(p) \in Words /\ Len(Popped(p)) = Len(p) - 1
        /\ (Popped(p) # <<>> => Popped(p)[1] = p[1]) /\ (Popped(p) = <<>> <=> Len(p) = 1)
    BY <1>1, <1>3, PoppedWord
  <2>2. PoppedGlyph(w) = Popped(p)
    BY <1>3 DEF PoppedGlyph
  <2>3. Size(p) <= Len(p)
    BY <1>1, SizeOfWord
  <2>4. QED
    BY <1>1, <1>2, <1>3, <2>1, <2>2, <2>3
<1>4. CASE ~(p # <<>> /\ Size(p) = Size(w))
  <2>1. PoppedGlyph(w) = p
    BY <1>4 DEF PoppedGlyph
  <2>2. QED
    BY <1>1, <1>2, <2>1
<1>5. QED
  BY <1>3, <1>4

-----------------------------------------------------------------------------
(***************************************************************************)
(* The bar.                                                                *)
(***************************************************************************)
\* The length that n Backspaces leave of a text, one of them taken by a suggestion.
Left(length, n, hint) ==
    LET d == IF hint /\ n > 0 THEN n - 1 ELSE n
    IN  IF d < length THEN length - d ELSE 0

\* What is left is a number.
LEMMA LeftNat ==
    ASSUME NEW l \in Nat, NEW n \in Nat, NEW h \in BOOLEAN
    PROVE  Left(l, n, h) \in Nat
  BY DEF Left

\* What is left of a text of B characters and a word of z, when the word goes, or its end
\* from the i-th glyph on: a Backspace more makes up for a suggestion.
LEMMA LeftOfWord ==
    ASSUME NEW B \in Nat, NEW z \in Nat, NEW h \in BOOLEAN, NEW l, l = B + z, NEW n
    PROVE  /\ n = z + (IF h THEN 1 ELSE 0) => Left(l, n, h) = B
           /\ \A i \in 1..z :
                n = (z - i + 1) + (IF h THEN 1 ELSE 0) => Left(l, n, h) = B + i - 1
           /\ \A i \in 1..z : n = z - i + 1 => Left(l, n, h) >= B + i - 1
<1> DEFINE d == IF h /\ n > 0 THEN n - 1 ELSE n
<1>1. Left(l, n, h) = IF d < l THEN l - d ELSE 0
  BY Zenon DEF Left
<1>2. ASSUME n = z + (IF h THEN 1 ELSE 0)  PROVE  d = z
  BY <1>2
<1>3. ASSUME NEW i \in 1..z, n = (z - i + 1) + (IF h THEN 1 ELSE 0)
      PROVE  d = z - i + 1
  BY <1>3
<1>4. ASSUME NEW i \in 1..z, n = z - i + 1
      PROVE  d \in Int /\ d <= z - i + 1
  BY <1>4
<1> HIDE DEF d
<1>5. QED
  BY <1>1, <1>2, <1>3, <1>4

\* The fields of a bar.
LEMMA BarFields ==
    ASSUME NEW b \in Bars
    PROVE  /\ b.text \in Texts /\ b.all \in BOOLEAN /\ b.hint \in BOOLEAN /\ b.before \in Nat
           /\ Len(b.text) \in Nat
  BY DEF Bars, Texts

\* Backspaces in a bar.
LEMMA DeletedBar ==
    ASSUME NEW b \in Bars, NEW n \in Nat
    PROVE  /\ Deleted(b, n) \in Bars /\ Deleted(b, n).before = b.before
           /\ n > 0 => ~Deleted(b, n).all
           /\ Deleted(b, n).all => b.all
           /\ ~b.all => Len(Deleted(b, n).text) = Left(Len(b.text), n, b.hint)
           /\ b.all /\ n > 0 => Deleted(b, n).text = <<>>
<1>0. /\ b.text \in Texts /\ b.all \in BOOLEAN /\ b.hint \in BOOLEAN /\ b.before \in Nat
      /\ Len(b.text) \in Nat
  BY BarFields
<1>1. CASE n = 0
  BY <1>0, <1>1 DEF Deleted, Left
<1>2. CASE n # 0 /\ b.all
  <2>1. Deleted(b, n) = [b EXCEPT !.text = <<>>, !.all = FALSE]
    BY <1>2 DEF Deleted
  <2>2. <<>> \in Texts
    BY DEF Texts
  <2>3. QED
    BY <1>0, <1>2, <2>1, <2>2 DEF Bars, Texts
<1>3. CASE n # 0 /\ ~b.all
  <2> DEFINE d == IF b.hint THEN n - 1 ELSE n
             t == Drop(b.text, d)
  <2>1. d \in Nat
    BY <1>0, <1>3
  <2>2. t \in Texts /\ Len(t) = IF d < Len(b.text) THEN Len(b.text) - d ELSE 0
    BY <1>0, <2>1, DropFacts DEF Texts
  <2>3. Deleted(b, n) = [b EXCEPT !.text = t, !.hint = FALSE]
    BY <1>3 DEF Deleted
  <2>4. Left(Len(b.text), n, b.hint) = IF d < Len(b.text) THEN Len(b.text) - d ELSE 0
    <3>1. n > 0
      BY <1>3
    <3>2. QED
      BY <3>1, Zenon DEF Left
  <2> HIDE DEF t, d
  <2>5. QED
    BY <1>0, <1>3, <2>2, <2>3, <2>4 DEF Bars, Texts
<1>4. QED
  BY <1>1, <1>2, <1>3

\* Text in a bar.
LEMMA InsertedBar ==
    ASSUME NEW b \in Bars, NEW s \in Texts
    PROVE  /\ Inserted(b, s) \in Bars /\ Inserted(b, s).before = b.before
           /\ ~Inserted(b, s).all /\ ~Inserted(b, s).hint
           /\ Len(Inserted(b, s).text) = Len(s) + (IF b.all THEN 0 ELSE Len(b.text))
<1>0. /\ b.text \in Texts /\ b.all \in BOOLEAN /\ b.hint \in BOOLEAN /\ b.before \in Nat
      /\ Len(b.text) \in Nat /\ Len(s) \in Nat
  BY BarFields DEF Texts
<1> DEFINE t == IF b.all THEN s ELSE b.text \o s
<1>1. t \in Texts /\ Len(t) = Len(s) + (IF b.all THEN 0 ELSE Len(b.text))
  BY <1>0, ConcatProperties DEF Texts
<1>2. Inserted(b, s) = [b EXCEPT !.text = t, !.all = FALSE, !.hint = FALSE]
  BY DEF Inserted
<1> HIDE DEF t
<1>3. QED
  BY <1>0, <1>1, <1>2 DEF Bars, Texts

\* A suggestion changes nothing else.
LEMMA SuggestedBar ==
    ASSUME NEW b \in Bars, NEW may \in BOOLEAN, NEW c \in Suggested(b, may)
    PROVE  c \in Bars /\ c.text = b.text /\ c.all = b.all /\ c.before = b.before
<1>1. c = b \/ c = [b EXCEPT !.hint = TRUE]
  BY DEF Suggested
<1>2. QED
  BY <1>1 DEF Bars

\* A bar with the beginning of the word moved.
LEMMA BeforeBar ==
    ASSUME NEW b \in Bars, NEW n \in Nat
    PROVE  /\ [b EXCEPT !.before = n] \in Bars
           /\ [b EXCEPT !.before = n].text = b.text /\ [b EXCEPT !.before = n].all = b.all
           /\ [b EXCEPT !.before = n].hint = b.hint /\ [b EXCEPT !.before = n].before = n
  BY DEF Bars

\* Settling a bar says only where its word begins.
LEMMA SettledBar ==
    ASSUME NEW b \in Bars, NEW w
    PROVE  /\ Settled(b, w) \in Bars
           /\ Settled(b, w).text = b.text /\ Settled(b, w).all = b.all
           /\ Settled(b, w).before =
                IF w = <<>> THEN Len(b.text) ELSE Least(b.before, Len(b.text))
           /\ Settled(b, w).before <= Len(b.text)
<1> DEFINE n == IF w = <<>> THEN Len(b.text) ELSE Least(b.before, Len(b.text))
<1>1. n \in Nat /\ n <= Len(b.text)
  BY BarFields DEF Least
<1>2. Settled(b, w) = [b EXCEPT !.before = n]
  BY DEF Settled
<1> HIDE DEF n
<1>3. /\ [b EXCEPT !.before = n] \in Bars
      /\ [b EXCEPT !.before = n].text = b.text /\ [b EXCEPT !.before = n].all = b.all
      /\ [b EXCEPT !.before = n].hint = b.hint /\ [b EXCEPT !.before = n].before = n
  BY <1>1, BeforeBar
<1>4. QED
  BY <1>1, <1>2, <1>3 DEF n

-----------------------------------------------------------------------------
(***************************************************************************)
(* What a replacement leaves.                                              *)
(***************************************************************************)
Plans == [n : Nat, whole : BOOLEAN, escape : BOOLEAN, e : Engines]

\* How much a plan leaves before what it commits.
LeftBy(plan, hint) == Left(Len(bar.text), plan.n, hint)

\* The bar after a replacement, by the lengths that matter; an Escape may dismiss the
\* suggestion first.
LEMMA OutcomeOfPlan ==
    ASSUME bar \in Bars, ~bar.all, NEW plan \in Plans, NEW new \in Texts,
           NEW i \in 1..Len(new), NEW b \in Outcomes(plan, i, new)
    PROVE  /\ b \in Bars /\ ~b.all
           /\ \E h \in BOOLEAN :
                /\ h = bar.hint \/ (plan.escape /\ ~h)
                /\ b.before = Least(bar.before, LeftBy(plan, h))
                /\ Len(b.text) = LeftBy(plan, h)
                     + (IF plan.whole THEN Len(new) ELSE Len(new) - i + 1)
                /\ b.before <= Len(b.text)
<1>0. /\ bar.text \in Texts /\ bar.hint \in BOOLEAN /\ bar.before \in Nat
      /\ Len(bar.text) \in Nat /\ Len(new) \in Nat
      /\ plan.n \in Nat /\ plan.whole \in BOOLEAN /\ plan.escape \in BOOLEAN
  BY BarFields DEF Texts, Plans
<1> DEFINE s == IF plan.whole THEN new ELSE SubSeq(new, i, Len(new))
           After(c) == [Inserted(Deleted(c, plan.n), s) EXCEPT
                            !.before = Least(@, Len(Deleted(c, plan.n).text))]
<1>1. s \in Texts /\ Len(s) = IF plan.whole THEN Len(new) ELSE Len(new) - i + 1
  <2>1. i \in 1..(Len(new) + 1) /\ Len(new) \in (i - 1)..Len(new)
    BY <1>0
  <2>2. SubSeq(new, i, Len(new)) \in Texts /\ Len(SubSeq(new, i, Len(new))) = Len(new) - i + 1
    BY <1>0, <2>1, SubSeqProperties DEF Texts
  <2>3. QED
    BY <2>2
<1>2. PICK c \in Escaped(bar, plan.escape) : b = After(c)
  BY DEF Outcomes
<1>3. /\ c \in Bars /\ c.text = bar.text /\ ~c.all /\ c.before = bar.before
      /\ c.hint \in BOOLEAN /\ (c.hint = bar.hint \/ (plan.escape /\ ~c.hint))
  <2>1. c = bar \/ (plan.escape /\ c = [bar EXCEPT !.hint = FALSE])
    BY DEF Escaped
  <2>2. QED
    BY <1>0, <2>1 DEF Bars
<1> HIDE DEF s
<1> DEFINE d == Deleted(c, plan.n)
<1>4. /\ d \in Bars /\ d.before = bar.before /\ ~d.all
      /\ Len(d.text) = LeftBy(plan, c.hint)
  BY <1>0, <1>3, DeletedBar DEF LeftBy
<1> HIDE DEF d
<1> DEFINE g == Inserted(d, s)
<1>5. /\ g \in Bars /\ g.before = bar.before /\ ~g.all
      /\ Len(g.text) = Len(s) + Len(d.text)
  BY <1>1, <1>4, InsertedBar
<1> HIDE DEF g
<1>6. b = [g EXCEPT !.before = Least(g.before, Len(d.text))]
  BY <1>2 DEF d, g
<1> DEFINE m == Least(bar.before, Len(d.text))
<1>7. m \in Nat /\ m <= Len(d.text) /\ Len(d.text) \in Nat
  BY <1>0, <1>4, BarFields DEF Least
<1>8. /\ b \in Bars /\ b.text = g.text /\ b.all = g.all /\ b.before = m
  BY <1>5, <1>6, <1>7, BeforeBar
<1> HIDE DEF m
<1>9. Len(b.text) = LeftBy(plan, c.hint)
                     + (IF plan.whole THEN Len(new) ELSE Len(new) - i + 1)
  BY <1>0, <1>1, <1>4, <1>5, <1>7, <1>8
<1>10. b.before <= Len(b.text)
  BY <1>0, <1>4, <1>7, <1>8, <1>9
<1>11. QED
  BY <1>3, <1>4, <1>5, <1>8, <1>9, <1>10 DEF m

-----------------------------------------------------------------------------
(***************************************************************************)
(* Plans.                                                                  *)
(***************************************************************************)
\* What a plan leaves of the engine: all but the marks of the first word.
SameWord(e) ==
    /\ e \in Engines /\ e.word = eng.word /\ e.len = eng.len /\ e.prefix = eng.prefix
    /\ e.cleared => eng.cleared

\* The fields of an engine.
LEMMA EngineFields ==
    ASSUME NEW e \in Engines
    PROVE  /\ e.word \in Words /\ e.len \in Nat \cup {-1} /\ e.prev \in Nat \cup {-1}
           /\ e.had \in BOOLEAN /\ e.space \in BOOLEAN /\ e.unknown \in BOOLEAN
           /\ e.keep \in BOOLEAN /\ e.cleared \in BOOLEAN /\ e.sawBs \in BOOLEAN
           /\ e.prefix \in Nat \cup {-1}
           /\ e.start \in Nat \cup {-1} /\ e.edge \in Nat \cup {-1}
  BY DEF Engines, Words

\* What the engine sees is of one of these kinds.
LEMMA EvidenceFields ==
    ASSUME NEW ev \in Evidence
    PROVE  /\ ev.text \in {"none", "start", "end"} /\ ev.snap \in {"none", "text", "selection"}
           /\ ev.ui \in BOOLEAN /\ ev.caret \in BOOLEAN
           /\ ev.text = "end" => bar.hint
           /\ Wayland => ev.snap = "none"
  BY DEF Evidence

\* After the first word the engine has had one, and its word and count are the same.
LEMMA FirstWordDoneSame ==
    ASSUME NEW e, SameWord(e), NEW old \in Texts
    PROVE  SameWord(FirstWordDone(e, old)) /\ FirstWordDone(e, old).had
<1> DEFINE k == Ascii(old) /\ Len(old) = 1
<1>1. k \in BOOLEAN
  OBVIOUS
<1>2. FirstWordDone(e, old) = [e EXCEPT !.had = TRUE, !.keep = k]
  BY DEF FirstWordDone
<1> HIDE DEF k
<1>3. QED
  BY <1>1, <1>2 DEF SameWord, Engines

\* A plan for the beginning of the bar.
LEMMA PlanAtStartIs ==
    ASSUME eng \in Engines, NEW ev \in Evidence, NEW old \in Texts,
           NEW plan, plan = PlanAtStart(ev, old)
    PROVE  /\ plan \in Plans /\ SameWord(plan.e) /\ plan.whole /\ ~plan.escape
           /\ plan.n = Len(old) + (IF ev.snap = "selection" /\ ~bar.hint THEN 0 ELSE 1)
<1>1. SameWord(eng)
  BY DEF SameWord
<1> DEFINE f == FirstWordDone(eng, old)
           n == Len(old) + (IF ev.snap = "selection" /\ ~bar.hint THEN 0 ELSE 1)
<1>2. SameWord(f)
  BY <1>1, FirstWordDoneSame
<1>3. n \in Nat
  BY DEF Texts
<1>4. plan = [n |-> n, whole |-> TRUE, escape |-> FALSE, e |-> f]
  BY DEF PlanAtStart, Plan
<1> HIDE DEF f, n
<1>5. /\ plan \in Plans /\ SameWord(plan.e) /\ plan.whole /\ ~plan.escape /\ plan.n = n
  BY <1>2, <1>3, <1>4 DEF Plans, SameWord
<1>6. QED
  BY <1>5 DEF n

\* A plan on Wayland.
FirstOnWayland(ev, old) == ~eng.had /\ ~(Sees(ev) /\ Len(bar.text) > Len(old))

\* The plan on Wayland: all of the word goes when it may be the first.
LEMMA PlanWaylandIs ==
    ASSUME eng \in Engines, NEW ev \in Evidence, NEW old \in Texts, NEW bs \in Nat,
           NEW plan, plan = PlanWayland(ev, bs, old)
    PROVE  /\ plan \in Plans /\ SameWord(plan.e) /\ ~plan.escape
           /\ plan.whole <=> FirstOnWayland(ev, old)
           /\ plan.n = IF plan.whole THEN Len(old) + 1
                       ELSE bs + (IF Sees(ev) /\ bar.hint THEN 1 ELSE 0)
<1>1. SameWord(eng)
  BY DEF SameWord
<1> DEFINE f == FirstWordDone(eng, old)
           n == Len(old) + 1
           m == bs + (IF Sees(ev) /\ bar.hint THEN 1 ELSE 0)
<1>2. SameWord(f)
  BY <1>1, FirstWordDoneSame
<1>3. n \in Nat /\ m \in Nat
  BY DEF Texts
<1>4. plan = IF FirstOnWayland(ev, old)
             THEN [n |-> n, whole |-> TRUE, escape |-> FALSE, e |-> f]
             ELSE [n |-> m, whole |-> FALSE, escape |-> FALSE, e |-> eng]
  BY DEF PlanWayland, Plan, FirstOnWayland
<1>5. FirstOnWayland(ev, old) \in BOOLEAN
  BY DEF FirstOnWayland
<1> HIDE DEF f, n, m
<1>6. /\ plan \in Plans /\ SameWord(plan.e) /\ ~plan.escape
      /\ plan.whole <=> FirstOnWayland(ev, old)
      /\ plan.n = IF plan.whole THEN n ELSE m
  <2>1. CASE FirstOnWayland(ev, old)
    BY <1>2, <1>3, <1>4, <2>1 DEF Plans, SameWord
  <2>2. CASE ~FirstOnWayland(ev, old)
    BY <1>1, <1>3, <1>4, <1>5, <2>2 DEF Plans, SameWord
  <2>3. QED
    BY <2>1, <2>2
<1>7. QED
  BY <1>6 DEF n, m

\* A plan on X11: when the word is taken to stand alone, and what follows from it.
Trusted(ev, e, old) ==
    \/ Sees(ev) /\ ~CaretBeyond(ev, Len(old)) /\ bar.text = old
    \/ Recovered(ev, e) \/ e.cleared \/ ev.ui

\* Something seems to be before the word.
SeenBefore(ev, e, old) == IF Sees(ev) THEN CaretBeyond(ev, Len(old)) ELSE Remembered(ev, e)

\* The engine that looks at its earlier word first.
Looked == IF eng.prev < 0 THEN [eng EXCEPT !.had = FALSE] ELSE eng

\* The word is taken to stand alone.
Alone(ev, e, old) ==
    /\ Trusted(ev, e, old) /\ ~e.had
    /\ Proved(ev, e) \/ ~(CountedBefore(e) \/ SeenBefore(ev, e, old))

\* The look at an earlier word only forgets that there was a first one.
LEMMA LookedSame ==
    ASSUME eng \in Engines
    PROVE  /\ SameWord(Looked) /\ Looked.cleared = eng.cleared /\ Looked.sawBs = eng.sawBs
           /\ Looked.prev = eng.prev /\ Looked.space = eng.space
           /\ Looked.unknown = eng.unknown
           /\ Looked.start = eng.start /\ Looked.edge = eng.edge
           /\ Looked.had \in BOOLEAN /\ (~eng.had => ~Looked.had)
<1>1. CASE eng.prev < 0
  <2> DEFINE e == [eng EXCEPT !.had = FALSE]
  <2>1. Looked = e
    BY <1>1 DEF Looked
  <2>2. e \in Engines
    BY DEF Engines
  <2>3. QED
    BY <2>1, <2>2 DEF SameWord, Engines
<1>2. CASE ~(eng.prev < 0)
  <2>1. Looked = eng
    BY <1>2 DEF Looked
  <2>2. QED
    BY <2>1 DEF SameWord, Engines
<1>3. QED
  BY <1>1, <1>2

\* The plan on X11: all of the word goes when it stands alone, unless an Escape does.
LEMMA PlanX11Is ==
    ASSUME eng \in Engines, NEW ev \in Evidence, NEW old \in Texts, NEW bs \in Nat,
           NEW plan, plan = PlanX11(ev, bs, old)
    PROVE  /\ plan \in Plans /\ SameWord(plan.e)
           /\ plan.whole <=>
                Alone(ev, Looked, old) /\ ~(ev.snap # "none" /\ bar.text # <<>>)
           /\ plan.escape <=>
                Alone(ev, Looked, old) /\ ev.snap # "none" /\ bar.text # <<>>
           /\ plan.n = IF plan.whole THEN Len(old) + 1
                       ELSE bs + (IF ev.snap = "selection" /\ bar.hint THEN 1 ELSE 0)
<1> DEFINE e == Looked
           seen == IF ev.snap = "selection" /\ bar.hint THEN 1 ELSE 0
           c == IF (Trusted(ev, e, old) /\ ~e.had) /\ Proved(ev, e)
                THEN [e EXCEPT !.cleared = FALSE] ELSE e
           p == [c EXCEPT !.had = TRUE, !.keep = FALSE]
           f == FirstWordDone(c, old)
           n == Len(old) + 1
           m == bs + seen
           alone == Alone(ev, e, old)
           other == ev.snap # "none" /\ bar.text # <<>>
<1>1. SameWord(e)
  BY LookedSame
<1>2. SameWord(c)
  <2> DEFINE t == (Trusted(ev, e, old) /\ ~e.had) /\ Proved(ev, e)
  <2> HIDE DEF t, e
  <2>1. c = IF t THEN [e EXCEPT !.cleared = FALSE] ELSE e
    BY DEF t, e
  <2> HIDE DEF c
  <2>2. QED
    BY <1>1, <2>1 DEF SameWord, Engines
<1>3. SameWord(p)
  <2> HIDE DEF c
  <2>1. QED
    BY <1>2 DEF SameWord, Engines
<1>4. SameWord(f)
  BY <1>2, FirstWordDoneSame
<1>5. n \in Nat /\ m \in Nat
  BY DEF Texts
<1>6. plan = IF ~alone THEN [n |-> m, whole |-> FALSE, escape |-> FALSE, e |-> c]
             ELSE IF other THEN [n |-> m, whole |-> FALSE, escape |-> TRUE, e |-> p]
             ELSE [n |-> n, whole |-> TRUE, escape |-> FALSE, e |-> f]
  BY DEF PlanX11, Plan, Alone, Trusted, SeenBefore, Looked
<1>7. QED
  <2> HIDE DEF c, p, f, n, m, alone, other
  <2>1. /\ plan \in Plans /\ SameWord(plan.e)
        /\ plan.whole <=> alone /\ ~other
        /\ plan.escape <=> alone /\ other
        /\ plan.n = IF plan.whole THEN n ELSE m
    <3>1. CASE ~alone
      BY <1>2, <1>5, <1>6, <3>1 DEF Plans, SameWord
    <3>2. CASE alone /\ other
      BY <1>3, <1>5, <1>6, <3>2 DEF Plans, SameWord
    <3>3. CASE alone /\ ~other
      BY <1>4, <1>5, <1>6, <3>3 DEF Plans, SameWord
    <3>4. QED
      BY <3>1, <3>2, <3>3
  <2>2. QED
    BY <2>1 DEF n, m, alone, other

\* Whatever the plan, it says how much goes, and keeps the word.
LEMMA PlannedIs ==
    ASSUME eng \in Engines, NEW ev \in Evidence, NEW old \in Texts, NEW bs \in Nat,
           NEW plan, plan = Planned(ev, bs, old)
    PROVE  plan \in Plans /\ SameWord(plan.e)
<1>1. CASE Wayland
  BY <1>1, PlanWaylandIs DEF Planned
<1>2. CASE ~Wayland /\ ev.snap # "none" /\ ~eng.had /\ StartsWith(old)
  BY <1>2, PlanAtStartIs DEF Planned
<1>3. CASE ~Wayland /\ ~(ev.snap # "none" /\ ~eng.had /\ StartsWith(old))
  BY <1>3, PlanX11Is DEF Planned
<1>4. QED
  BY <1>1, <1>2, <1>3

-----------------------------------------------------------------------------
(***************************************************************************)
(* The replacement of a word that is in step with the screen.              *)
(***************************************************************************)
\* A letter i of the word to be marked, what is seen, and the plan.
Replacing(i, ev, plan) ==
    /\ eng.word # <<>> /\ i \in 1..Size(eng.word) /\ ev \in Evidence
    /\ LET old == Composed(eng.word) IN plan = Planned(ev, Len(old) - i + 1, old)

\* The numbers a replacement is about.
LEMMA ReplacingFacts ==
    ASSUME BarAssumption, TypeOK, WordInv, NEW i, NEW ev, NEW plan, Replacing(i, ev, plan)
    PROVE  LET old == Composed(eng.word)
               new == Composed(Append(eng.word, i))
           IN  /\ old \in Texts /\ new \in Texts
               /\ Len(old) = Size(eng.word) /\ Len(new) = Size(eng.word)
               /\ Len(old) \in Nat /\ i \in 1..Len(old) /\ Len(old) - i + 1 \in Nat
               /\ plan = Planned(ev, Len(old) - i + 1, old)
               /\ ev \in Evidence /\ plan \in Plans /\ SameWord(plan.e)
               /\ bar \in Bars /\ ~bar.all /\ eng \in Engines
               /\ bar.before \in Nat /\ Len(bar.text) \in Nat /\ bar.hint \in BOOLEAN
<1> DEFINE old == Composed(eng.word)
           new == Composed(Append(eng.word, i))
<1>1. eng \in Engines /\ bar \in Bars /\ eng.word \in Words /\ Len(eng.word) <= MaxKeys
  BY EngineFields DEF TypeOK
<1>2. Append(eng.word, i) \in Words /\ Size(Append(eng.word, i)) = Size(eng.word)
  BY <1>1, SizeOfMark DEF Replacing
<1>3. /\ old \in Texts /\ Len(old) = Size(eng.word)
      /\ new \in Texts /\ Len(new) = Size(eng.word) /\ Size(eng.word) \in Nat
  BY <1>1, <1>2, ComposedOfWord, SizeOfWord
<1>4. ~bar.all /\ bar.before \in Nat /\ Len(bar.text) \in Nat /\ bar.hint \in BOOLEAN
  BY <1>1, BarFields DEF WordInv, Replacing
<1>5. i \in 1..Len(old) /\ ev \in Evidence /\ plan = Planned(ev, Len(old) - i + 1, old)
  BY <1>3 DEF Replacing
<1> HIDE DEF old, new
<1>6. Len(old) - i + 1 \in Nat
  BY <1>3, <1>5
<1>7. plan \in Plans /\ SameWord(plan.e)
  BY <1>1, <1>3, <1>5, <1>6, PlannedIs
<1>8. QED
  BY <1>1, <1>3, <1>4, <1>5, <1>6, <1>7 DEF old, new

\* With the selection in sight a replacement takes the word and no more.
LEMMA ExactReplacement ==
    ASSUME BarAssumption, TypeOK, WordInv, InStep,
           NEW i, NEW ev \in TextSeen, NEW plan, Replacing(i, ev, plan),
           NEW new, new = Composed(Append(eng.word, i)),
           ~(plan.escape /\ bar.hint), NEW b \in Outcomes(plan, i, new)
    PROVE  b.before = bar.before /\ Len(b.text) = bar.before + Len(new)
<1> DEFINE old == Composed(eng.word)
           bs == Len(old) - i + 1
<1>1. /\ old \in Texts /\ new \in Texts /\ Len(new) = Len(old)
      /\ Len(old) \in Nat /\ i \in 1..Len(old) /\ bs \in Nat
      /\ plan = Planned(ev, bs, old) /\ ev \in Evidence /\ plan \in Plans
      /\ bar \in Bars /\ ~bar.all /\ eng \in Engines
      /\ bar.before \in Nat /\ Len(bar.text) \in Nat /\ bar.hint \in BOOLEAN
      /\ Len(old) = Size(eng.word)
  BY ReplacingFacts
<1>2. Len(bar.text) = bar.before + Len(old)
  BY <1>1 DEF InStep
<1>3. PICK h \in BOOLEAN :
        /\ h = bar.hint \/ (plan.escape /\ ~h)
        /\ b.before = Least(bar.before, LeftBy(plan, h))
        /\ Len(b.text) = LeftBy(plan, h)
             + (IF plan.whole THEN Len(new) ELSE Len(new) - i + 1)
  BY <1>1, OutcomeOfPlan
<1>4. h = bar.hint
  BY <1>1, <1>3
<1> HIDE DEF old, bs
<1>5. LeftBy(plan, h) = IF plan.whole THEN bar.before ELSE bar.before + i - 1
  <2>1. CASE Wayland
    <3>1. plan = PlanWayland(ev, bs, old) /\ Sees(ev)
      BY <1>1, <2>1, EvidenceFields DEF Planned, TextSeen
    <3>2. /\ plan.whole <=> FirstOnWayland(ev, old)
          /\ plan.n = IF plan.whole THEN Len(old) + 1 ELSE bs + (IF bar.hint THEN 1 ELSE 0)
      BY <1>1, <3>1, PlanWaylandIs
    <3>3. plan.whole => bar.before = 0
      BY <1>1, <1>2, <3>1, <3>2 DEF FirstOnWayland
    <3>4. QED
      BY <1>1, <1>2, <1>4, <3>2, <3>3 DEF LeftBy, Left, bs
  <2>2. CASE ~Wayland /\ ev.snap # "none" /\ ~eng.had /\ StartsWith(old)
    <3>1. plan = PlanAtStart(ev, old) /\ ev.snap = "selection"
      BY <1>1, <2>2 DEF Planned, TextSeen
    <3>2. plan.whole /\ plan.n = Len(old) + (IF ~bar.hint THEN 0 ELSE 1)
      BY <1>1, <3>1, PlanAtStartIs
    <3>3. QED
      BY <1>1, <1>2, <1>4, <3>2 DEF LeftBy, Left
  <2>3. CASE ~Wayland /\ ~(ev.snap # "none" /\ ~eng.had /\ StartsWith(old))
    <3>1. plan = PlanX11(ev, bs, old) /\ ev.snap = "selection"
      BY <1>1, <2>3 DEF Planned, TextSeen
    <3>2. bar.text # <<>>
      BY <1>1, <1>2
    <3>3. ~plan.whole /\ plan.n = bs + (IF bar.hint THEN 1 ELSE 0)
      <4>1. /\ eng \in Engines /\ ev \in Evidence /\ old \in Texts /\ bs \in Nat
            /\ plan = PlanX11(ev, bs, old)
        BY <1>1, <3>1
      <4>2. /\ plan.whole <=>
                 Alone(ev, Looked, old) /\ ~(ev.snap # "none" /\ bar.text # <<>>)
            /\ plan.n = IF plan.whole THEN Len(old) + 1
                        ELSE bs + (IF ev.snap = "selection" /\ bar.hint THEN 1 ELSE 0)
        BY ONLY <4>1, PlanX11Is
      <4>3. QED
        BY <3>1, <3>2, <4>2
    <3>4. plan.n = (Len(old) - i + 1) + (IF h THEN 1 ELSE 0)
      BY <1>4, <3>3 DEF bs
    <3>5. Left(Len(bar.text), plan.n, h) = bar.before + i - 1
      BY <1>1, <1>2, <3>4, LeftOfWord
    <3>6. QED
      BY <3>3, <3>5 DEF LeftBy
  <2>4. QED
    BY <2>1, <2>2, <2>3
<1>6. QED
  BY <1>1, <1>3, <1>5 DEF Least

\* On X11 a word that is taken to stand alone does.
LEMMA AloneIsAlone ==
    ASSUME BarAssumption, TypeOK, CountInv, InStep, ~lost, ~Wayland, ~bar.all,
           NEW ev \in Evidence, NEW old \in Texts, Len(old) = Size(eng.word),
           Alone(ev, Looked, old)
    PROVE  bar.before = 0
<1>1. /\ eng \in Engines /\ bar \in Bars /\ bar.before \in Nat
      /\ Len(bar.text) \in Nat /\ Len(old) \in Nat /\ Size(eng.word) \in Nat
  BY EngineFields, BarFields, SizeOfWord DEF TypeOK, Texts
<1>2. eng.prefix = bar.before /\ (eng.cleared => eng.prefix = 0)
  BY DEF CountInv
<1>3. Looked.cleared = eng.cleared /\ Looked.prefix = eng.prefix
  BY <1>1, LookedSame DEF SameWord
<1>4. CASE Proved(ev, Looked)
  BY <1>2, <1>3, <1>4 DEF Proved, Recovered
<1>5. CASE ~CountedBefore(Looked)
  BY <1>1, <1>2, <1>3, <1>5 DEF CountedBefore
<1>6. QED
  BY <1>4, <1>5 DEF Alone

\* On X11 a replacement keeps what is before the word, and takes all of a word only if it
\* stands alone.
LEMMA KeptOnX11 ==
    ASSUME BarAssumption, TypeOK, WordInv, CountInv, InStep, ~lost, ~Coincides, ~Wayland,
           NEW i, NEW ev, NEW plan, Replacing(i, ev, plan),
           NEW new, new = Composed(Append(eng.word, i)), NEW b \in Outcomes(plan, i, new)
    PROVE  b.before = bar.before /\ (plan.whole => bar.before = 0)
<1> DEFINE old == Composed(eng.word)
           bs == Len(old) - i + 1
<1>1. /\ old \in Texts /\ new \in Texts /\ Len(new) = Len(old)
      /\ Len(old) \in Nat /\ i \in 1..Len(old) /\ bs \in Nat
      /\ plan = Planned(ev, bs, old) /\ ev \in Evidence /\ plan \in Plans
      /\ bar \in Bars /\ ~bar.all /\ eng \in Engines
      /\ bar.before \in Nat /\ Len(bar.text) \in Nat /\ bar.hint \in BOOLEAN
      /\ Len(old) = Size(eng.word)
  BY ReplacingFacts
<1>2. Len(bar.text) = bar.before + Len(old)
  BY <1>1 DEF InStep
<1>3. PICK h \in BOOLEAN :
        /\ h = bar.hint \/ (plan.escape /\ ~h)
        /\ b.before = Least(bar.before, LeftBy(plan, h))
  BY <1>1, OutcomeOfPlan
<1>4. StartsWith(old) => bar.before = 0
  BY <1>1 DEF Coincides
<1>5. Alone(ev, Looked, old) => bar.before = 0
  BY <1>1, AloneIsAlone
<1>6. LeftBy(plan, h) \in Nat
  BY <1>1, <1>3, LeftNat DEF LeftBy, Plans
<1>7. CASE bar.before = 0
  BY <1>3, <1>6, <1>7 DEF Least
<1>8. CASE bar.before # 0
  <2>1. plan = PlanX11(ev, bs, old)
    BY <1>1, <1>4, <1>8 DEF Planned
  <2> HIDE DEF old, bs
  <2>2. ~plan.whole /\ ~plan.escape
        /\ plan.n = bs + (IF ev.snap = "selection" /\ bar.hint THEN 1 ELSE 0)
    BY <1>1, <1>5, <1>8, <2>1, PlanX11Is
  <2>3. h = bar.hint
    BY <1>3, <2>2
  <2>4. LeftBy(plan, h) >= bar.before
    <3>1. CASE ev.snap = "selection"
      <4>1. plan.n = (Len(old) - i + 1) + (IF h THEN 1 ELSE 0)
        BY <2>2, <2>3, <3>1 DEF bs
      <4>2. Left(Len(bar.text), plan.n, h) = bar.before + i - 1
        BY <1>1, <1>2, <4>1, LeftOfWord
      <4>3. QED
        BY <1>1, <4>2 DEF LeftBy
    <3>2. CASE ev.snap # "selection"
      <4>1. plan.n = Len(old) - i + 1
        BY <1>1, <2>2, <3>2 DEF bs
      <4>2. Left(Len(bar.text), plan.n, h) >= bar.before + i - 1
        BY <1>1, <1>2, <4>1, LeftOfWord
      <4>3. QED
        BY <1>1, <1>6, <4>2 DEF LeftBy
    <3>3. QED
      BY <3>1, <3>2
  <2>5. QED
    BY <1>1, <1>3, <1>6, <2>2, <2>4 DEF Least
<1>9. QED
  BY <1>7, <1>8

\* Nothing but what is remembered could speak against a first word.
LEMMA FirstStandsAlone ==
    ASSUME BarAssumption, IInv, ~lost, ~Wayland, ~eng.had, eng.word # <<>>, InStep,
           bar.text = Composed(eng.word), Size(eng.word) = Len(eng.word),
           NEW ev \in Evidence, ev.text # "end", ev.ui
    PROVE  Alone(ev, Looked, Composed(eng.word)) /\ bar.before = 0
<1> DEFINE old == Composed(eng.word)
<1>1. /\ eng \in Engines /\ bar \in Bars /\ bar.before \in Nat /\ ~bar.all
      /\ Len(bar.text) \in Nat
  BY BarFields DEF IInv, TypeOK, WordInv
<1>2. old \in Texts /\ Len(old) = Size(eng.word) /\ Size(eng.word) \in Nat
  BY <1>1, EngineFields, ComposedOfWord, SizeOfWord
<1>3. bar.before = 0
  BY <1>1, <1>2 DEF InStep
<1>4. eng.prefix = 0
  BY <1>1, <1>3 DEF IInv, CountInv
<1>5. eng.cleared \/ eng.sawBs \/ Quiet
  BY <1>4 DEF IInv, FirstInv
<1>6. /\ Looked.cleared = eng.cleared /\ Looked.sawBs = eng.sawBs /\ Looked.prefix = 0
      /\ Looked.prev = eng.prev /\ Looked.space = eng.space /\ Looked.unknown = eng.unknown
      /\ Looked.start = eng.start /\ Looked.edge = eng.edge /\ ~Looked.had
  BY <1>1, <1>4, LookedSame DEF SameWord
<1>7. Trusted(ev, Looked, old)
  BY DEF Trusted
<1>8. ~CountedBefore(Looked)
  BY <1>6 DEF CountedBefore
<1>9. Proved(ev, Looked) \/ ~SeenBefore(ev, Looked, old)
  <2>1. CASE Sees(ev)
    BY <1>1, <2>1 DEF SeenBefore, CaretBeyond
  <2>2. CASE ~Sees(ev) /\ (eng.cleared \/ eng.sawBs)
    BY <1>6, <2>2 DEF Proved, Recovered
  <2>3. CASE ~Sees(ev) /\ Quiet
    <3>1. /\ eng.prev <= 0 /\ eng.start <= eng.edge /\ ~eng.space /\ ~eng.unknown
          /\ eng.prev \in Nat \cup {-1} /\ eng.start \in Nat \cup {-1}
          /\ eng.edge \in Nat \cup {-1} /\ EdgeSlack \in Nat
      BY <1>1, <2>3, EngineFields DEF Quiet, BarAssumption
    <3>2. ~Remembered(ev, Looked)
      BY <1>6, <3>1 DEF Remembered
    <3>3. QED
      BY <2>3, <3>2 DEF SeenBefore
  <2>4. QED
    BY <1>5, <2>1, <2>2, <2>3
<1>10. QED
  BY <1>3, <1>6, <1>7, <1>8, <1>9 DEF Alone

\* A first word that is all of the bar goes with its suggestion.
LEMMA WholeReplacement ==
    ASSUME BarAssumption, IInv, ~lost, ~eng.had, InStep,
           bar.text = Composed(eng.word), Size(eng.word) = Len(eng.word),
           NEW i, NEW ev \in Dependable, ev.text # "end", Wayland \/ ev.ui,
           NEW plan, Replacing(i, ev, plan),
           NEW new, new = Composed(Append(eng.word, i)), NEW b \in Outcomes(plan, i, new)
    PROVE  Len(b.text) = Len(new)
<1> PICK old : old = Composed(eng.word)
  OBVIOUS
<1> PICK bs : bs = Len(old) - i + 1
  OBVIOUS
<1>1. /\ old \in Texts /\ new \in Texts /\ Len(new) = Len(old)
      /\ Len(old) \in Nat /\ i \in 1..Len(old) /\ bs \in Nat
      /\ plan = Planned(ev, bs, old) /\ ev \in Evidence /\ plan \in Plans
      /\ bar \in Bars /\ ~bar.all /\ eng \in Engines
      /\ bar.before \in Nat /\ Len(bar.text) \in Nat /\ bar.hint \in BOOLEAN
      /\ Len(old) = Size(eng.word)
  BY ReplacingFacts DEF IInv
<1>2. bar.before = 0 /\ Len(bar.text) = Len(old) /\ bar.text = old
  BY <1>1 DEF InStep
<1>3. eng.word # <<>>
  BY DEF Replacing
<1>4. PICK h \in BOOLEAN :
        /\ h = bar.hint \/ (plan.escape /\ ~h)
        /\ Len(b.text) = LeftBy(plan, h)
             + (IF plan.whole THEN Len(new) ELSE Len(new) - i + 1)
  BY <1>1, OutcomeOfPlan
<1>5. /\ plan.whole /\ ~plan.escape
      /\ plan.n = Len(old) + 1 \/ (plan.n = Len(old) /\ ~bar.hint)
  <2>1. CASE Wayland
    <3>1. plan = PlanWayland(ev, bs, old)
      BY <1>1, <2>1 DEF Planned
    <3>2. FirstOnWayland(ev, old)
      BY <1>1, <1>2 DEF FirstOnWayland
    <3>3. QED
      BY <1>1, <3>1, <3>2, PlanWaylandIs
  <2>2. CASE ~Wayland /\ ev.snap # "none"
    <3>1. IsPrefix(old, old)
      BY <1>1 DEF IsPrefix, Texts
    <3>2. StartsWith(old)
      BY <1>2, <3>1 DEF StartsWith
    <3>3. plan = PlanAtStart(ev, old)
      BY <1>1, <2>2, <3>2 DEF Planned
    <3>4. QED
      BY <1>1, <3>3, PlanAtStartIs
  <2>3. CASE ~Wayland /\ ev.snap = "none"
    <3>1. plan = PlanX11(ev, bs, old)
      BY <1>1, <2>3 DEF Planned
    <3>2. Alone(ev, Looked, old)
      BY <1>1, <1>2, <1>3, <2>3, FirstStandsAlone
    <3>3. QED
      BY <1>1, <2>3, <3>1, <3>2, PlanX11Is
  <2>4. QED
    BY <2>1, <2>2, <2>3
<1>6. LeftBy(plan, h) = 0
  BY <1>1, <1>2, <1>4, <1>5 DEF LeftBy, Left
<1>7. Len(b.text) = 0 + Len(new)
  BY <1>4, <1>5, <1>6, Zenon
<1>8. QED
  BY <1>1, <1>7

-----------------------------------------------------------------------------
(***************************************************************************)
(* The properties, from the invariant.                                     *)
(***************************************************************************)
\* A replacement takes its word and nothing else, with the text in sight.
LEMMA ExactHolds == ASSUME BarAssumption, IInv PROVE ExactWithText
<1> SUFFICES ASSUME eng.word # <<>>, InStep, NEW i \in 1..Size(eng.word), NEW ev \in TextSeen,
                    NEW old, old = Composed(eng.word),
                    NEW new, new = Composed(Append(eng.word, i)),
                    NEW plan, plan = Planned(ev, Len(old) - i + 1, old),
                    ~(plan.escape /\ bar.hint), NEW b \in Outcomes(plan, i, new)
             PROVE  b.before = bar.before /\ Len(b.text) = bar.before + Len(new)
  BY DEF ExactWithText, WhateverNext
<1>1. Replacing(i, ev, plan)
  BY DEF Replacing, TextSeen
<1>2. QED
  BY <1>1, ExactReplacement DEF IInv

\* No replacement takes what is before its word.
LEMMA KeptHolds == ASSUME BarAssumption, IInv PROVE PrefixKept
<1> SUFFICES ASSUME ~lost, ~Coincides,
                    eng.word # <<>>, InStep, NEW i \in 1..Size(eng.word),
                    NEW ev \in Dependable,
                    NEW old, old = Composed(eng.word),
                    NEW new, new = Composed(Append(eng.word, i)),
                    NEW plan, plan = Planned(ev, Len(old) - i + 1, old),
                    NEW b \in Outcomes(plan, i, new)
             PROVE  b.before = bar.before
  BY DEF PrefixKept, WhateverNext
<1>1. Replacing(i, ev, plan)
  BY DEF Replacing, Dependable
<1>2. CASE Wayland
  <2>1. ev \in TextSeen
    BY <1>2 DEF TextSeen, Dependable
  <2>2. ~plan.escape
    <3> DEFINE bs == Len(old) - i + 1
    <3>1. /\ old \in Texts /\ bs \in Nat /\ ev \in Evidence /\ eng \in Engines
          /\ plan = Planned(ev, bs, old)
      BY <1>1, ReplacingFacts DEF IInv
    <3> HIDE DEF bs
    <3>2. plan = PlanWayland(ev, bs, old)
      BY <1>2, <3>1 DEF Planned
    <3>3. QED
      BY <3>1, <3>2, PlanWaylandIs
  <2>3. QED
    BY <1>1, <2>1, <2>2, ExactReplacement DEF IInv
<1>3. CASE ~Wayland
  BY <1>1, <1>3, KeptOnX11 DEF IInv
<1>4. QED
  BY <1>2, <1>3

\* The first replacement of a word that stands alone takes all of it.
LEMMA WholeHolds == ASSUME BarAssumption, IInv PROVE FirstWordWhole
<1> SUFFICES ASSUME ~lost, ~eng.had, bar.text = Composed(eng.word),
                    Size(eng.word) = Len(eng.word),
                    eng.word # <<>>, InStep, NEW i \in 1..Size(eng.word),
                    NEW ev \in Dependable, ev.text # "end", Wayland \/ ev.ui,
                    NEW old, old = Composed(eng.word),
                    NEW new, new = Composed(Append(eng.word, i)),
                    NEW plan, plan = Planned(ev, Len(old) - i + 1, old),
                    NEW b \in Outcomes(plan, i, new)
             PROVE  Len(b.text) = Len(new)
  BY DEF FirstWordWhole, WhateverNext
<1>1. Replacing(i, ev, plan)
  BY DEF Replacing, Dependable
<1>2. QED
  BY <1>1, WholeReplacement, SMTT(60)

\* The count is the number of characters before the word.
LEMMA CountedHolds == ASSUME IInv PROVE PrefixCounted
  BY DEF IInv, CountInv, PrefixCounted

-----------------------------------------------------------------------------
(***************************************************************************)
(* The invariant of a bar b, an engine e and whether the count is lost.    *)
(***************************************************************************)
BeginsWell(b, e) ==
    IF e.word = <<>> THEN b.before = Len(b.text) /\ e.len <= 0
    ELSE e.word[1] \in {Letter, Marked} /\ ~b.all

\* What is true of a bar and an engine whether or not the count is known.
Sound(b, e) ==
    /\ b \in Bars /\ e \in Engines
    /\ b.before <= Len(b.text) /\ Len(e.word) <= MaxKeys
    /\ BeginsWell(b, e)
    /\ Wayland => e.prefix = -1

\* The word is in step with the bar, and the count is right.
Counts(b, e) ==
    /\ e.word # <<>> => Len(b.text) - b.before = Size(e.word)
    /\ ~Wayland =>
        /\ e.prefix = IF b.all THEN 0 ELSE b.before
        /\ e.cleared => e.prefix = 0
        /\ b.all => e.cleared

\* Nothing makes the engine believe that there is text before the word.
Silent(e) ==
    /\ ~e.space /\ ~e.unknown
    /\ IF e.word = <<>> THEN e.edge = -1 ELSE e.prev <= 0 /\ e.start <= e.edge

\* The word may be the first, and has no mark.
MayBeFirst(e) == ~e.had /\ e.prefix = 0 /\ Size(e.word) = Len(e.word)

\* It is known to be the first, or nothing says otherwise.
TellsFirst(e) == ~Wayland /\ MayBeFirst(e) => e.cleared \/ e.sawBs \/ Silent(e)

\* All of the invariant.
Good(b, e, l) ==
    /\ Sound(b, e) /\ l \in BOOLEAN
    /\ ~l => Counts(b, e) /\ TellsFirst(e)

\* The invariant, of the state.
LEMMA GoodHere ==
    ASSUME IInv
    PROVE  platform \in Platforms /\ Good(bar, eng, lost)
  BY DEF IInv, TypeOK, WordInv, CountInv, FirstInv, InStep, Quiet,
         Good, Sound, BeginsWell, Counts, Silent, MayBeFirst, TellsFirst

\* And of the next one.
LEMMA GoodThere ==
    ASSUME platform \in Platforms, UNCHANGED platform, Good(bar', eng', lost')
    PROVE  IInv'
<1>1. Wayland' <=> Wayland
  BY DEF Wayland
<1>2. Sound(bar', eng') /\ lost' \in BOOLEAN /\ (~lost' => Counts(bar', eng') /\ TellsFirst(eng'))
  BY DEF Good
<1>3. TypeOK'
  BY <1>2 DEF TypeOK, Sound
<1>4. WordInv'
  BY <1>2 DEF WordInv, Sound, BeginsWell
<1>5. CountInv'
  BY <1>1, <1>2 DEF CountInv, Sound, Counts, InStep
<1>6. FirstInv'
  BY <1>1, <1>2 DEF FirstInv, Quiet, TellsFirst, MayBeFirst, Silent
<1>7. QED
  BY <1>3, <1>4, <1>5, <1>6 DEF IInv

\* Without a word the bar is all before the next one.
LEMMA SoundWithout ==
    ASSUME NEW b \in Bars, NEW e \in Engines, e.word = <<>>, e.len <= 0,
           Wayland => e.prefix = -1, BarAssumption
    PROVE  Sound(Settled(b, <<>>), e)
<1>1. /\ Settled(b, <<>>) \in Bars /\ Settled(b, <<>>).before = Len(Settled(b, <<>>).text)
      /\ Len(Settled(b, <<>>).text) \in Nat
  BY SettledBar, BarFields
<1>2. Len(e.word) <= MaxKeys
  BY DEF BarAssumption
<1>3. QED
  BY <1>1, <1>2 DEF Sound, BeginsWell

\* A step to a state without a word.
LEMMA DoneStep ==
    ASSUME BarAssumption, IInv, NEW b \in Bars, NEW e \in Engines, Done(e, b),
           e.word = <<>>, e.len <= 0, Wayland => e.prefix = -1,
           lost' \in BOOLEAN,
           ~lost' => /\ ~Wayland =>
                         /\ e.prefix = IF b.all THEN 0 ELSE Len(b.text)
                         /\ e.cleared => e.prefix = 0
                         /\ b.all => e.cleared
                     /\ TellsFirst(e)
    PROVE  IInv'
<1> DEFINE s == Settled(b, <<>>)
<1>1. bar' = s /\ eng' = e /\ UNCHANGED platform
  BY DEF Done
<1>2. Sound(s, e)
  BY SoundWithout
<1>3. s.all = b.all /\ s.before = Len(b.text) /\ s.text = b.text
  BY SettledBar
<1> HIDE DEF s
<1>4. ~lost' => Counts(s, e)
  BY <1>3 DEF Counts
<1>5. platform \in Platforms
  BY GoodHere
<1>6. Good(s, e, lost')
  BY <1>2, <1>4 DEF Good
<1>7. QED
  BY <1>1, <1>5, <1>6, GoodThere

\* What is known at a state that satisfies the invariant.
LEMMA Here ==
    ASSUME IInv, BarAssumption
    PROVE  /\ platform \in Platforms /\ Sound(bar, eng) /\ lost \in BOOLEAN
           /\ ~lost => Counts(bar, eng) /\ TellsFirst(eng)
           /\ bar \in Bars /\ eng \in Engines
           /\ bar.before <= Len(bar.text) /\ Len(eng.word) <= MaxKeys
           /\ BeginsWell(bar, eng) /\ (Wayland => eng.prefix = -1)
           /\ bar.text \in Texts /\ bar.all \in BOOLEAN /\ bar.hint \in BOOLEAN
           /\ bar.before \in Nat /\ Len(bar.text) \in Nat
           /\ eng.word \in Words /\ eng.len \in Nat \cup {-1} /\ eng.prefix \in Nat \cup {-1}
           /\ eng.had \in BOOLEAN /\ eng.cleared \in BOOLEAN /\ eng.sawBs \in BOOLEAN
           /\ Size(<<>>) = 0 /\ Len(eng.word) \in Nat
<1>1. platform \in Platforms /\ Good(bar, eng, lost)
  BY GoodHere
<1>2. bar \in Bars /\ eng \in Engines
  BY <1>1 DEF Good, Sound
<1>3. Size(<<>>) = 0
  <2>1. <<>> \in Words /\ Len(<<>>) = 0
    BY DEF Words
  <2>2. QED
    BY <2>1, SizeOfWord
<1>4. Len(eng.word) \in Nat
  BY <1>2, EngineFields DEF Words
<1>5. QED
  BY <1>1, <1>2, <1>3, <1>4, BarFields, EngineFields DEF Good, Sound

-----------------------------------------------------------------------------
(***************************************************************************)
(* The focus.                                                              *)
(***************************************************************************)
\* Without its word the engine keeps the count.
LEMMA NoWordIs ==
    ASSUME NEW e \in Engines
    PROVE  /\ NoWord(e) \in Engines /\ NoWord(e).word = <<>> /\ NoWord(e).len = 0
           /\ NoWord(e).prefix = e.prefix /\ NoWord(e).cleared = e.cleared
           /\ NoWord(e).sawBs = e.sawBs
<1>1. <<>> \in Seq(Keys)
  OBVIOUS
<1>2. QED
  BY <1>1 DEF NoWord, Engines

\* A fresh start of the tracking keeps the word and its count.
LEMMA FreshTrackingIs ==
    ASSUME NEW e \in Engines
    PROVE  LET f == FreshTracking(e) IN
           /\ f \in Engines /\ f.word = e.word /\ f.len = e.len /\ f.prefix = e.prefix
           /\ f.cleared = e.cleared /\ f.sawBs = e.sawBs /\ ~f.space /\ f.edge = -1
  BY DEF FreshTracking, Engines

\* The focus comes to a bar the engine knows nothing of.
LEMMA FocusKeeps == ASSUME BarAssumption, IInv, Focus PROVE IInv'
<1>1. PICK s \in Existing, all \in BOOLEAN :
        bar' = [text |-> s, all |-> all, hint |-> FALSE, before |-> Len(s)]
  BY DEF Focus
<1> DEFINE b == [text |-> s, all |-> all, hint |-> FALSE, before |-> Len(s)]
           e == Activated(Deactivated(eng))
<1>2. b \in Bars /\ b.before = Len(b.text) /\ Len(b.text) \in Nat
  <2>1. s \in Seq(Glyphs) /\ Len(s) \in Nat
    BY DEF BarAssumption
  <2>2. QED
    BY <2>1 DEF Bars
<1>3. e \in Engines /\ e.word = <<>> /\ e.len = 0 /\ e.prefix = -1
  <2> DEFINE d == Deactivated(eng)
             n == NoWord(d)
             f == FreshTracking(n)
  <2>1. d \in Engines /\ d.len = 0
    BY Here, NoWordIs DEF Deactivated
  <2>2. n \in Engines /\ n.word = <<>> /\ n.len = 0
    BY <2>1, NoWordIs
  <2>3. f \in Engines /\ f.word = <<>> /\ f.len = 0
    BY <2>2, FreshTrackingIs
  <2>4. e = [f EXCEPT !.unknown = d.len > 0, !.prefix = -1, !.cleared = FALSE]
    BY DEF Activated
  <2> HIDE DEF f, d, n
  <2>5. (d.len > 0) \in BOOLEAN
    OBVIOUS
  <2> HIDE DEF e
  <2>6. QED
    BY <2>1, <2>3, <2>4, <2>5 DEF Engines
<1>4. bar' = b /\ eng' = e /\ lost' = TRUE /\ UNCHANGED platform
  BY <1>1 DEF Focus
<1> HIDE DEF b, e
<1>5. Len(e.word) <= MaxKeys
  BY <1>3 DEF BarAssumption
<1>6. Good(b, e, TRUE)
  BY <1>2, <1>3, <1>5 DEF Good, Sound, BeginsWell
<1>7. platform \in Platforms
  BY Here
<1>8. QED
  BY <1>4, <1>6, <1>7, GoodThere

\* A cycle of the focus leaves the word, and is silent without one.
LEMMA ReactivatedIs ==
    ASSUME NEW e \in Engines
    PROVE  LET f == Reactivated(e) IN
           /\ f \in Engines /\ f.word = e.word /\ f.len = e.len /\ f.prefix = e.prefix
           /\ f.cleared = e.cleared
           /\ e.word # <<>> => f = e
           /\ e.word = <<>> /\ ~Wayland => Silent(f)
<1>1. CASE ~Wayland /\ e.word = <<>>
  <2> DEFINE g == FreshTracking(e)
  <2>1. /\ g \in Engines /\ g.word = e.word /\ g.len = e.len /\ g.prefix = e.prefix
        /\ g.cleared = e.cleared /\ ~g.space /\ g.edge = -1
    BY FreshTrackingIs
  <2> HIDE DEF g
  <2>2. Reactivated(e) = [g EXCEPT !.unknown = FALSE]
    BY <1>1 DEF Reactivated, g
  <2>3. QED
    BY <1>1, <2>1, <2>2 DEF Engines, Silent
<1>2. CASE ~(~Wayland /\ e.word = <<>>)
  BY <1>2 DEF Reactivated
<1>3. QED
  BY <1>1, <1>2

\* A cycle of the focus keeps the invariant, though the word may be lost in it.
LEMMA CycleKeeps == ASSUME BarAssumption, IInv, Cycle PROVE IInv'
<1>1. PICK d \in {eng, Deactivated(eng)} : eng' = Reactivated(d)
  BY DEF Cycle
<1>2. /\ d \in Engines /\ d.prefix = eng.prefix /\ d.cleared = eng.cleared
      /\ d = eng \/ (d.word = <<>> /\ d.len = 0)
  BY Here, NoWordIs DEF Deactivated
<1> DEFINE e == Reactivated(d)
           b == Settled(bar, e.word)
<1>3. /\ e \in Engines /\ e.word = d.word /\ e.len = d.len /\ e.prefix = eng.prefix
      /\ e.cleared = eng.cleared
      /\ d.word # <<>> => e = eng
      /\ d.word = <<>> /\ ~Wayland => Silent(e)
  BY <1>2, ReactivatedIs
<1>4. /\ eng' = e /\ bar' = b /\ UNCHANGED platform
      /\ lost' = (lost \/ e.word # eng.word)
  BY <1>1 DEF Cycle
<1> HIDE DEF e
<1>5. /\ b \in Bars /\ b.text = bar.text /\ b.all = bar.all /\ b.before <= Len(b.text)
      /\ b.before = IF e.word = <<>> THEN Len(bar.text) ELSE Least(bar.before, Len(bar.text))
  BY Here, SettledBar
<1> HIDE DEF b
<1>6. Sound(b, e)
  <2>1. Len(e.word) <= MaxKeys /\ (Wayland => e.prefix = -1)
    BY <1>2, <1>3, Here DEF BarAssumption
  <2>2. BeginsWell(b, e)
    <3>1. CASE e.word = <<>>
      <4>1. d.len <= 0
        <5>1. eng.word = <<>> => eng.len <= 0
          BY Here DEF BeginsWell
        <5>2. CASE d = eng
          BY <1>3, <3>1, <5>1, <5>2
        <5>3. CASE d.len = 0
          BY <5>3
        <5>4. QED
          BY <1>2, <5>2, <5>3
      <4>2. e.len <= 0 /\ b.before = Len(b.text)
        BY <1>3, <1>5, <3>1, <4>1
      <4>3. QED
        BY <3>1, <4>2 DEF BeginsWell
    <3>2. CASE e.word # <<>>
      BY <1>2, <1>3, <1>5, <3>2, Here DEF BeginsWell
    <3>3. QED
      BY <3>1, <3>2
  <2>3. QED
    BY <1>3, <1>5, <2>1, <2>2 DEF Sound
<1>7. ASSUME ~lost'  PROVE  Counts(b, e) /\ TellsFirst(e)
  <2>1. ~lost /\ e.word = eng.word
    BY <1>4, <1>7
  <2>2. b.before = bar.before
    BY <1>5, <2>1, Here DEF BeginsWell, Least
  <2>3. Counts(b, e)
    BY <1>3, <1>5, <2>1, <2>2, Here DEF Counts
  <2>4. TellsFirst(e)
    BY <1>3, <2>1, Here DEF TellsFirst, MayBeFirst
  <2>5. QED
    BY <2>3, <2>4
<1>8. Good(b, e, lost')
  BY <1>4, <1>6, <1>7, Here DEF Good
<1>9. QED
  BY <1>4, <1>8, Here, GoodThere

-----------------------------------------------------------------------------
(***************************************************************************)
(* Letters.                                                                *)
(***************************************************************************)
\* The first letter of a word keeps the count, and is silent on a fresh start.
LEMMA StartedIs ==
    ASSUME NEW e \in Engines, bar \in Bars, e.len <= 0
    PROVE  LET s == Started(e) IN
           /\ s \in Engines /\ s.word = e.word /\ s.prefix = e.prefix
           /\ s.cleared = e.cleared /\ s.had = e.had /\ s.sawBs = e.sawBs
           /\ s.space = e.space /\ s.unknown = e.unknown /\ s.prev <= 0
           /\ ~Wayland /\ e.edge = -1 => s.start <= s.edge
<1> DEFINE caret == Len(bar.text)
           p == [e EXCEPT !.prev = e.len]
           m == IF e.edge < 0 \/ caret < e.edge THEN caret ELSE e.edge
<1>1. caret \in Nat
  BY BarFields
<1>2. /\ e.len \in Nat \cup {-1} /\ e.edge \in Nat \cup {-1} /\ m \in Nat \cup {-1}
      /\ e.edge = -1 => m = caret
  BY <1>1, EngineFields
<1>3. /\ p \in Engines /\ p.word = e.word /\ p.prefix = e.prefix
      /\ p.cleared = e.cleared /\ p.had = e.had /\ p.sawBs = e.sawBs
      /\ p.space = e.space /\ p.unknown = e.unknown /\ p.prev <= 0 /\ p.edge = e.edge
  BY <1>2 DEF Engines
<1>4. Started(e) = IF Wayland THEN p ELSE [p EXCEPT !.start = caret, !.edge = m]
  BY <1>3 DEF Started
<1> HIDE DEF caret, p, m
<1>5. CASE Wayland
  BY <1>3, <1>4, <1>5
<1>6. CASE ~Wayland
  <2> DEFINE s == [p EXCEPT !.start = caret, !.edge = m]
  <2>1. /\ s \in Engines /\ s.word = p.word /\ s.prefix = p.prefix
        /\ s.cleared = p.cleared /\ s.had = p.had /\ s.sawBs = p.sawBs
        /\ s.space = p.space /\ s.unknown = p.unknown /\ s.prev = p.prev
        /\ s.start = caret /\ s.edge = m
    BY <1>1, <1>2, <1>3 DEF Engines
  <2>2. Started(e) = s
    BY <1>4, <1>6
  <2> HIDE DEF s
  <2>3. QED
    BY <1>1, <1>2, <1>3, <2>1, <2>2
<1>7. QED
  BY <1>5, <1>6

\* A letter makes the word longer, and keeps the count.
LEMMA AppendedIs ==
    ASSUME BarAssumption, NEW e \in Engines, bar \in Bars, e.word = <<>> => e.len <= 0
    PROVE  LET a == Appended(e) IN
           /\ a \in Engines /\ a.word = Append(e.word, Letter) /\ a.prefix = e.prefix
           /\ a.cleared = e.cleared /\ a.had = e.had /\ a.sawBs = e.sawBs
           /\ Silent(e) /\ ~Wayland => Silent(a)
<1> DEFINE s == IF e.word = <<>> THEN Started(e) ELSE e
           w == Append(s.word, Letter)
           n == Size(w)
<1>1. /\ s \in Engines /\ s.word = e.word /\ s.prefix = e.prefix
      /\ s.cleared = e.cleared /\ s.had = e.had /\ s.sawBs = e.sawBs
      /\ Silent(e) /\ ~Wayland =>
            ~s.space /\ ~s.unknown /\ s.prev <= 0 /\ s.start <= s.edge
  BY StartedIs DEF Silent
<1>2. w = Append(e.word, Letter)
  BY <1>1
<1> HIDE DEF s, w
<1>3. w \in Words /\ w # <<>> /\ n \in Nat
  <2>1. Letter \in Keys
    BY DEF Keys, Letter, BarAssumption
  <2>2. w \in Words /\ Len(w) = Len(e.word) + 1 /\ Len(e.word) \in Nat
    BY <1>2, <2>1, EngineFields, SizeOfAppend DEF Words
  <2>3. QED
    BY <2>2, SizeOfWord DEF Words
<1>4. Appended(e) = [s EXCEPT !.word = w, !.len = n]
  BY DEF Appended, s, w
<1> HIDE DEF n
<1> DEFINE a == [s EXCEPT !.word = w, !.len = n]
<1>5. /\ a \in Engines /\ a.word = w /\ a.prefix = s.prefix
      /\ a.cleared = s.cleared /\ a.had = s.had /\ a.sawBs = s.sawBs
      /\ a.space = s.space /\ a.unknown = s.unknown /\ a.prev = s.prev
      /\ a.start = s.start /\ a.edge = s.edge
  BY <1>1, <1>3 DEF Engines, Words
<1> HIDE DEF a
<1>6. Silent(e) /\ ~Wayland => Silent(a)
  BY <1>1, <1>3, <1>5 DEF Silent
<1>7. Appended(e) = a
  BY <1>4 DEF a
<1>8. QED
  BY <1>1, <1>2, <1>5, <1>6, <1>7

\* The bar when a letter was typed after a word.
Shown(b, w) == [b EXCEPT !.before = IF w # <<>> THEN @ ELSE Len(b.text) - 1]

\* The bar is a letter longer, and a word that begins has the rest before it.
LEMMA TypedBar ==
    ASSUME bar \in Bars, NEW w, NEW b \in Suggested(Inserted(bar, <<"a">>), FirstOrAny),
           NEW c, c = Shown(b, w)
    PROVE  /\ c \in Bars /\ ~c.all
           /\ Len(c.text) = 1 + (IF bar.all THEN 0 ELSE Len(bar.text))
           /\ c.before = IF w # <<>> THEN bar.before ELSE Len(c.text) - 1
<1>1. bar.before \in Nat /\ Len(bar.text) \in Nat
  BY BarFields
<1>2. <<"a">> \in Texts /\ Len(<<"a">>) = 1
  BY DEF Texts, Glyphs
<1> DEFINE g == Inserted(bar, <<"a">>)
<1>3. /\ g \in Bars /\ g.before = bar.before /\ ~g.all
      /\ Len(g.text) = 1 + (IF bar.all THEN 0 ELSE Len(bar.text))
  BY <1>2, InsertedBar
<1> HIDE DEF g
<1>4. FirstOrAny \in BOOLEAN
  BY DEF FirstOrAny
<1>5. b \in Bars /\ b.text = g.text /\ b.all = g.all /\ b.before = g.before
  BY <1>3, <1>4, SuggestedBar DEF g
<1> PICK n : n = IF w # <<>> THEN b.before ELSE Len(b.text) - 1
  OBVIOUS
<1>6. n \in Nat
  BY <1>1, <1>3, <1>5
<1>7. c = [b EXCEPT !.before = n]
  BY DEF Shown
<1>8. c \in Bars /\ c.text = b.text /\ c.all = b.all /\ c.before = n
  BY <1>5, <1>6, <1>7 DEF Bars
<1>9. QED
  BY <1>3, <1>5, <1>8

\* A letter may come to any word that begins well.
LEMMA TypeSound ==
    ASSUME BarAssumption, bar \in Bars, NEW e \in Engines, Len(e.word) < MaxKeys,
           IF e.word = <<>> THEN e.len <= 0
           ELSE e.word[1] \in {Letter, Marked} /\ ~bar.all /\ bar.before <= Len(bar.text),
           Wayland => e.prefix = -1,
           NEW b \in Suggested(Inserted(bar, <<"a">>), FirstOrAny),
           NEW c, c = Shown(b, e.word)
    PROVE  Sound(c, Appended(e))
<1> DEFINE a == Appended(e)
<1>1. a \in Engines /\ a.word = Append(e.word, Letter) /\ a.prefix = e.prefix
  BY AppendedIs
<1> HIDE DEF a
<1>2. e.word \in Words /\ Len(e.word) \in Nat /\ Letter \in Keys
  BY EngineFields DEF Words, Keys, Letter, BarAssumption
<1>3. /\ a.word \in Words /\ Len(a.word) = Len(e.word) + 1
      /\ a.word[1] = IF e.word = <<>> THEN Letter ELSE e.word[1]
  BY <1>1, <1>2, SizeOfAppend
<1>4. a.word # <<>> /\ a.word[1] \in {Letter, Marked}
  BY <1>2, <1>3 DEF Words
<1>5. /\ c \in Bars /\ ~c.all
      /\ Len(c.text) = 1 + (IF bar.all THEN 0 ELSE Len(bar.text))
      /\ c.before = IF e.word # <<>> THEN bar.before ELSE Len(c.text) - 1
  BY TypedBar
<1>6. c.before <= Len(c.text)
  BY <1>5, BarFields
<1>7. Len(a.word) <= MaxKeys
  BY <1>2, <1>3 DEF BarAssumption
<1>8. Sound(c, a)
  BY <1>1, <1>4, <1>5, <1>6, <1>7 DEF Sound, BeginsWell
<1>9. QED
  BY <1>8 DEF a

\* A letter keeps the word in step.
LEMMA TypeLetterKeeps == ASSUME BarAssumption, IInv, TypeLetter PROVE IInv'
<1>1. PICK b \in Suggested(Inserted(bar, <<"a">>), FirstOrAny) :
        bar' = Shown(b, eng.word)
  BY DEF Shown, TypeLetter, Type
<1>2. eng' = Appended(eng) /\ UNCHANGED <<platform, lost>> /\ Len(eng.word) < MaxKeys
  BY DEF TypeLetter, Type
<1>3. /\ eng \in Engines /\ bar \in Bars /\ BeginsWell(bar, eng) /\ lost \in BOOLEAN
      /\ (Wayland => eng.prefix = -1) /\ bar.before <= Len(bar.text)
      /\ (~lost => Counts(bar, eng) /\ TellsFirst(eng)) /\ platform \in Platforms
      /\ bar.before \in Nat /\ Len(bar.text) \in Nat /\ Len(eng.word) \in Nat
      /\ eng.word \in Words /\ Size(<<>>) = 0
  BY Here
<1>4. Sound(bar', eng')
  BY <1>1, <1>2, <1>3, TypeSound DEF BeginsWell
<1>5. /\ eng'.word = Append(eng.word, Letter) /\ eng'.prefix = eng.prefix
      /\ eng'.cleared = eng.cleared /\ eng'.had = eng.had /\ eng'.sawBs = eng.sawBs
      /\ Silent(eng) /\ ~Wayland => Silent(eng')
  BY <1>2, <1>3, AppendedIs DEF BeginsWell
<1>6. /\ ~bar'.all
      /\ Len(bar'.text) = 1 + (IF bar.all THEN 0 ELSE Len(bar.text))
      /\ bar'.before = IF eng.word # <<>> THEN bar.before ELSE Len(bar'.text) - 1
  BY <1>1, <1>3, TypedBar
<1>7. /\ Len(eng'.word) = Len(eng.word) + 1 /\ Size(eng'.word) = Size(eng.word) + 1
      /\ Size(eng.word) \in Nat
  <2>1. Letter \in Keys
    BY DEF Keys, Letter, BarAssumption
  <2>2. QED
    BY <1>3, <1>5, <2>1, SizeOfAppend, SizeOfWord
<1>8. ASSUME ~lost  PROVE  Counts(bar', eng') /\ TellsFirst(eng')
  <2>1. Counts(bar, eng) /\ TellsFirst(eng)
    BY <1>3, <1>8
  <2>2. Len(bar'.text) - bar'.before = Size(eng'.word)
    <3>1. CASE eng.word = <<>>
      BY <1>3, <1>6, <1>7, <3>1
    <3>2. CASE eng.word # <<>>
      BY <1>3, <1>6, <1>7, <2>1, <3>2 DEF Counts, BeginsWell
    <3>3. QED
      BY <3>1, <3>2
  <2>3. ~Wayland => eng.prefix = bar'.before /\ (eng.cleared => eng.prefix = 0)
    <3>1. CASE eng.word = <<>>
      BY <1>3, <1>6, <2>1, <3>1 DEF Counts, BeginsWell
    <3>2. CASE eng.word # <<>>
      BY <1>3, <1>6, <2>1, <3>2 DEF Counts, BeginsWell
    <3>3. QED
      BY <3>1, <3>2
  <2>4. Counts(bar', eng')
    BY <1>5, <1>6, <2>2, <2>3 DEF Counts
  <2>5. TellsFirst(eng')
    BY <1>3, <1>5, <1>7, <2>1 DEF TellsFirst, MayBeFirst
  <2>6. QED
    BY <2>4, <2>5
<1>9. Good(bar', eng', lost')
  BY <1>2, <1>3, <1>4, <1>8 DEF Good
<1>10. QED
  BY <1>2, <1>3, <1>9, GoodThere

\* After the desync guard nothing is known.
LEMMA TypeDesyncedKeeps == ASSUME BarAssumption, IInv, TypeDesynced PROVE IInv'
<1> DEFINE e == Forgotten(eng)
<1>1. e \in Engines /\ e.word = <<>> /\ e.len = -1 /\ e.prefix = eng.prefix
  <2> DEFINE n == NoWord(eng)
  <2>1. n \in Engines /\ n.word = <<>> /\ n.prefix = eng.prefix
    BY Here, NoWordIs
  <2>2. e = [n EXCEPT !.len = -1, !.unknown = TRUE, !.sawBs = FALSE]
    BY DEF Forgotten
  <2> HIDE DEF n, e
  <2>3. QED
    BY <2>1, <2>2 DEF Engines
<1>2. PICK b \in Suggested(Inserted(bar, <<"a">>), FirstOrAny) :
        bar' = Shown(b, e.word)
  BY DEF Shown, TypeDesynced, Type
<1>3. eng' = Appended(e) /\ UNCHANGED platform /\ Len(e.word) < MaxKeys /\ lost' = TRUE
  BY DEF TypeDesynced, Type
<1> HIDE DEF e
<1>4. bar \in Bars /\ (Wayland => eng.prefix = -1) /\ platform \in Platforms
  BY Here
<1>5. Sound(bar', eng')
  BY <1>1, <1>2, <1>3, <1>4, TypeSound
<1>6. QED
  BY <1>3, <1>4, <1>5, GoodThere DEF Good

-----------------------------------------------------------------------------
(***************************************************************************)
(* Replacements.                                                           *)
(***************************************************************************)
\* The engine after a replacement.
Advanced(e, w, n, p) == [e EXCEPT !.word = w, !.len = n, !.sawBs = FALSE, !.prefix = p]

\* It has the word and the count given to it.
LEMMA AdvancedEngine ==
    ASSUME NEW e \in Engines, NEW w \in Words, NEW n \in Nat, NEW p \in Nat \cup {-1},
           NEW f, f = Advanced(e, w, n, p)
    PROVE  f \in Engines /\ f.word = w /\ f.prefix = p /\ f.cleared = e.cleared
  BY DEF Advanced, Engines, Words

\* A replacement takes nothing before the word while that can be known.
LEMMA TransformKeeps == ASSUME BarAssumption, IInv, Transform PROVE IInv'
<1>1. PICK i \in 1..Size(eng.word), ev \in Evidence : Replaced(i, ev)
  BY DEF Transform
<1>2. /\ eng.word # <<>> /\ Len(eng.word) < MaxKeys /\ UNCHANGED platform
      /\ lost' = (lost \/ Coincides \/ ~InStep')
  BY DEF Transform
<1> PICK old : old = Composed(eng.word)
  OBVIOUS
<1> PICK word : word = Append(eng.word, i)
  OBVIOUS
<1> PICK new : new = Composed(word)
  OBVIOUS
<1> PICK plan : plan = Planned(ev, Len(old) - i + 1, old)
  OBVIOUS
<1>3. /\ eng' = [plan.e EXCEPT
                    !.word = word, !.len = Len(new), !.sawBs = FALSE,
                    !.prefix = IF plan.whole /\ Forwarded THEN 0 ELSE @]
      /\ \E b \in Outcomes(plan, i, new) : bar' \in Suggested(b, FirstOrAny)
  BY <1>1 DEF Replaced
<1>4. PICK b \in Outcomes(plan, i, new) : bar' \in Suggested(b, FirstOrAny)
  BY <1>3
<1>5. /\ eng \in Engines /\ bar \in Bars /\ BeginsWell(bar, eng) /\ lost \in BOOLEAN
      /\ (Wayland => eng.prefix = -1)
      /\ (~lost => Counts(bar, eng) /\ TellsFirst(eng)) /\ platform \in Platforms
      /\ Len(eng.word) \in Nat /\ eng.word \in Words
  BY Here
<1>6. TypeOK /\ WordInv /\ CountInv
  BY DEF IInv
<1>7. Replacing(i, ev, plan)
  BY <1>1, <1>2 DEF Replacing
<1>8. /\ plan \in Plans /\ SameWord(plan.e) /\ new \in Texts /\ i \in 1..Len(new)
      /\ ~bar.all
  BY <1>6, <1>7, ReplacingFacts
<1>9. b \in Bars /\ ~b.all /\ b.before <= Len(b.text)
  BY <1>5, <1>8, OutcomeOfPlan
<1>10. FirstOrAny \in BOOLEAN
  BY DEF FirstOrAny
<1>11. bar' \in Bars /\ bar'.text = b.text /\ bar'.all = b.all /\ bar'.before = b.before
  BY <1>4, <1>9, <1>10, SuggestedBar
<1>12. /\ word \in Words /\ Len(word) = Len(eng.word) + 1 /\ word[1] = eng.word[1]
       /\ Size(word) = Size(eng.word) /\ Size(word) \in Nat /\ Size(word) <= Len(eng.word)
  BY <1>1, <1>2, <1>5, SizeOfMark, SizeOfWord
<1>13. word # <<>> /\ word[1] \in {Letter, Marked} /\ Len(word) <= MaxKeys
  BY <1>2, <1>5, <1>12 DEF BeginsWell, Words, BarAssumption
<1>24. PICK prefix : prefix = IF plan.whole /\ Forwarded THEN 0 ELSE plan.e.prefix
  OBVIOUS
<1>14. prefix \in Nat \cup {-1} /\ Len(new) \in Nat /\ plan.e \in Engines
       /\ plan.e.prefix = eng.prefix /\ (plan.e.cleared => eng.cleared)
  BY <1>8, <1>24, EngineFields DEF SameWord, Texts
<1>15. eng' = Advanced(plan.e, word, Len(new), prefix)
  BY <1>3, <1>24 DEF Advanced
<1>16. /\ eng' \in Engines /\ eng'.word = word /\ eng'.prefix = prefix
       /\ (eng'.cleared => eng.cleared)
  <2>1. Len(new) \in Nat
    BY <1>14
  <2>2. /\ eng' \in Engines /\ eng'.word = word /\ eng'.prefix = prefix
        /\ eng'.cleared = plan.e.cleared
    BY ONLY <1>12, <1>14, <1>15, <2>1 DEF Advanced, Engines, Words
  <2>3. QED
    BY <1>14, <2>2
<1>17. Wayland => prefix = -1
  BY <1>5, <1>14, <1>24 DEF Wayland, Forwarded
<1>18. Sound(bar', eng')
  BY <1>9, <1>11, <1>13, <1>16, <1>17 DEF Sound, BeginsWell
<1>19. ASSUME ~lost'  PROVE  Counts(bar', eng')
  <2>1. ~lost /\ ~Coincides /\ InStep' /\ Counts(bar, eng)
    BY <1>2, <1>5, <1>19
  <2>2. InStep
    BY <1>2, <2>1 DEF Counts, InStep
  <2>3. Len(bar'.text) - bar'.before = Size(eng'.word)
    BY <2>1 DEF InStep
  <2>4. ASSUME ~Wayland
        PROVE  prefix = bar'.before /\ (eng'.cleared => prefix = 0)
    <3>1. b.before = bar.before /\ (plan.whole => bar.before = 0)
      BY <1>6, <1>7, <2>1, <2>2, <2>4, KeptOnX11
    <3>2. eng.prefix = bar.before /\ (eng.cleared => eng.prefix = 0)
      BY <1>8, <2>1, <2>4 DEF Counts
    <3>3. prefix = bar.before
      BY <1>14, <1>24, <3>1, <3>2
    <3>4. QED
      BY <1>11, <1>16, <3>1, <3>2, <3>3
  <2>5. QED
    BY <1>9, <1>11, <1>16, <2>3, <2>4 DEF Counts
<1>20. TellsFirst(eng')
  BY <1>5, <1>12, <1>16 DEF TellsFirst, MayBeFirst
<1>21. lost' \in BOOLEAN
  BY <1>2
<1>22. Good(bar', eng', lost')
  BY <1>18, <1>19, <1>20, <1>21 DEF Good
<1>23. QED
  BY <1>2, <1>5, <1>22, GoodThere

\* A word whose glyphs are typed anew, each with its mark.
LEMMA RefusedWord ==
    ASSUME BarAssumption, NEW old \in Texts, old # <<>>,
           NEW r, r = [j \in DOMAIN old |-> IF old[j] = "A" THEN Marked ELSE Letter]
    PROVE  r \in Words /\ Len(r) = Len(old) /\ r # <<>> /\ r[1] \in {Letter, Marked}
<1>1. Len(old) \in Nat /\ Len(old) >= 1 /\ DOMAIN old = 1..Len(old)
  BY DEF Texts
<1>2. Letter \in Keys /\ Marked \in Keys
  BY DEF Keys, Letter, Marked, BarAssumption
<1>3. r = [j \in 1..Len(old) |-> IF old[j] = "A" THEN Marked ELSE Letter]
  BY <1>1
<1>4. r \in Seq(Keys) /\ Len(r) = Len(old)
  BY <1>1, <1>2, <1>3
<1>5. r[1] \in {Letter, Marked}
  BY <1>1, <1>3
<1>6. QED
  BY <1>1, <1>4, <1>5 DEF Words

\* The engine after a replacement that was refused.
Refused(e, w, n, h, k) ==
    [e EXCEPT !.word = w, !.len = n, !.prefix = -1, !.had = h, !.keep = k]

\* It has the word given to it, and no count.
LEMMA RefusedEngine ==
    ASSUME NEW e \in Engines, NEW w \in Words, NEW n \in Nat,
           NEW h \in BOOLEAN, NEW k \in BOOLEAN, NEW f, f = Refused(e, w, n, h, k)
    PROVE  f \in Engines /\ f.word = w /\ f.prefix = -1
  BY DEF Refused, Engines, Words

\* A replacement that was refused leaves the bar as it was.
LEMMA RefusedKeeps == ASSUME BarAssumption, IInv, TransformRefused PROVE IInv'
<1>1. PICK i \in 1..Size(eng.word), ev \in Evidence :
        LET old == Composed(eng.word)
            plan == Planned(ev, Len(old) - i + 1, old)
        IN  eng' = [plan.e EXCEPT
                    !.word = [j \in DOMAIN old |-> IF old[j] = "A" THEN Marked ELSE Letter],
                    !.len = Len(old), !.prefix = -1, !.had = eng.had, !.keep = eng.keep]
  BY DEF TransformRefused
<1>2. eng.word # <<>> /\ UNCHANGED <<platform, bar>> /\ lost' = TRUE
  BY DEF TransformRefused
<1> PICK old : old = Composed(eng.word)
  OBVIOUS
<1> PICK plan : plan = Planned(ev, Len(old) - i + 1, old)
  OBVIOUS
<1> PICK r : r = [j \in DOMAIN old |-> IF old[j] = "A" THEN Marked ELSE Letter]
  OBVIOUS
<1>3. eng' = Refused(plan.e, r, Len(old), eng.had, eng.keep)
  BY <1>1 DEF Refused
<1>4. /\ eng \in Engines /\ bar \in Bars /\ BeginsWell(bar, eng)
      /\ platform \in Platforms /\ bar.before <= Len(bar.text)
      /\ Len(eng.word) \in Nat /\ eng.word \in Words /\ Len(eng.word) <= MaxKeys
  BY Here
<1>5. Replacing(i, ev, plan) /\ TypeOK /\ WordInv
  BY <1>1, <1>2 DEF Replacing, IInv
<1>6. /\ old \in Texts /\ Len(old) = Size(eng.word) /\ Len(old) \in Nat
      /\ i \in 1..Len(old) /\ SameWord(plan.e)
  BY <1>5, ReplacingFacts
<1>7. old # <<>> /\ Len(old) <= MaxKeys
  BY <1>4, <1>6, SizeOfWord DEF Texts, BarAssumption
<1>8. r \in Words /\ Len(r) = Len(old) /\ r # <<>> /\ r[1] \in {Letter, Marked}
  BY <1>6, <1>7, RefusedWord
<1>9. plan.e \in Engines /\ eng.had \in BOOLEAN /\ eng.keep \in BOOLEAN
  BY <1>4, <1>6, EngineFields DEF SameWord
<1>10. eng' \in Engines /\ eng'.word = r /\ eng'.prefix = -1
  BY <1>3, <1>6, <1>8, <1>9, RefusedEngine
<1>11. Sound(bar', eng')
  BY <1>2, <1>4, <1>7, <1>8, <1>10 DEF Sound, BeginsWell
<1>12. QED
  BY <1>2, <1>4, <1>11, GoodThere DEF Good

-----------------------------------------------------------------------------
(***************************************************************************)
(* The keys that end a word.                                               *)
(***************************************************************************)
\* The keys with Ctrl leave no word.
LEMMA CtrlTrackingIs ==
    ASSUME NEW e \in Engines
    PROVE  /\ CtrlTracking(e) \in Engines /\ CtrlTracking(e).word = <<>>
           /\ CtrlTracking(e).len = 0
<1> DEFINE n == NoWord(e)
<1>1. n \in Engines /\ n.word = <<>> /\ n.len = 0
  BY NoWordIs
<1>2. CtrlTracking(e) = [n EXCEPT !.had = FALSE, !.keep = FALSE]
  BY DEF CtrlTracking
<1> HIDE DEF n
<1>3. QED
  BY <1>1, <1>2 DEF Engines

\* x in the bar.
LEMMA XTyped ==
    ASSUME NEW b \in Bars
    PROVE  /\ Inserted(b, <<"x">>) \in Bars /\ ~Inserted(b, <<"x">>).all
           /\ Len(Inserted(b, <<"x">>).text) = 1 + (IF b.all THEN 0 ELSE Len(b.text))
<1>1. <<"x">> \in Texts /\ Len(<<"x">>) = 1
  BY DEF Texts, Glyphs
<1>2. QED
  BY <1>1, InsertedBar

\* A step to a state without a word in which nothing is known.
LEMMA DoneLost ==
    ASSUME BarAssumption, IInv, NEW b \in Bars, NEW e \in Engines, Done(e, b),
           e.word = <<>>, e.len <= 0, Wayland => e.prefix = -1, lost' = TRUE
    PROVE  IInv'
  BY DoneStep

\* The engine after a space, by the count it keeps.
Spaced(e, n) ==
    [NoWord(e) EXCEPT
        !.prefix = n,
        !.had = @ \/ e.word # <<>>, !.space = @ \/ e.word # <<>>,
        !.len = IF e.word = <<>> THEN e.len ELSE 0,
        !.sawBs = @ /\ e.word = <<>>, !.cleared = @ /\ e.word = <<>>]

Ended(e, n) == [e EXCEPT !.prefix = n, !.had = TRUE, !.space = TRUE, !.len = 0,
                         !.sawBs = FALSE, !.cleared = FALSE]

\* It has no word, and the count given to it.
LEMMA EndedBySpace ==
    ASSUME NEW e, e \in Engines, NEW n, n \in Nat \cup {-1},
           NEW f, f = Ended(e, n)
    PROVE  f \in Engines /\ f.word = e.word /\ f.len = 0 /\ f.prefix = n /\ ~f.cleared
  BY DEF Ended, Engines

\* After a space there is no word, and a key that cleared the bar is forgotten with it.
LEMMA SpacedIs ==
    ASSUME NEW e, e \in Engines, NEW n, n \in Nat \cup {-1}, e.word = <<>> => e.len <= 0,
           NEW f, f = Spaced(e, n)
    PROVE  /\ f \in Engines /\ f.word = <<>> /\ f.len <= 0 /\ f.prefix = n
           /\ (f.cleared => e.cleared /\ e.word = <<>>)
<1> DEFINE w == NoWord(e)
<1>1. w \in Engines /\ w.word = <<>>
  BY NoWordIs
<1>2. CASE e.word # <<>>
  <2>1. f = Ended(w, n)
    BY <1>2 DEF Spaced, NoWord, Engines, Ended
  <2> HIDE DEF w
  <2>2. QED
    BY <1>1, <2>1, EndedBySpace
<1>3. CASE e.word = <<>>
  <2>1. f = [e EXCEPT !.prefix = n]
    BY <1>3 DEF Spaced, NoWord, Engines
  <2>2. QED
    BY <1>3, <2>1 DEF Engines
<1>4. QED
  BY <1>2, <1>3

\* A space counts the word and itself.
LEMMA SpaceKeeps == ASSUME BarAssumption, IInv, Space PROVE IInv'
<1>1. /\ eng \in Engines /\ bar \in Bars /\ BeginsWell(bar, eng) /\ lost \in BOOLEAN
      /\ (Wayland => eng.prefix = -1) /\ bar.before <= Len(bar.text)
      /\ (~lost => Counts(bar, eng) /\ TellsFirst(eng)) /\ platform \in Platforms
      /\ bar.before \in Nat /\ Len(bar.text) \in Nat
      /\ eng.word \in Words /\ Size(<<>>) = 0 /\ eng.prefix \in Nat \cup {-1}
      /\ eng.had \in BOOLEAN /\ eng.cleared \in BOOLEAN /\ eng.sawBs \in BOOLEAN
      /\ eng.len \in Nat \cup {-1} /\ bar.all \in BOOLEAN
  BY Here
<1>2. eng.space \in BOOLEAN /\ Size(eng.word) \in Nat /\ MaxText \in Nat
  BY <1>1, EngineFields, SizeOfWord DEF BarAssumption
<1>13. PICK n : n = Least(Counted(eng), MaxText)
  OBVIOUS
<1> PICK e : e = Spaced(eng, n)
  OBVIOUS
<1> DEFINE b == Inserted(bar, <<"x">>)
<1>3. Done(e, b) /\ lost' = (lost \/ (eng.word = <<>> /\ eng.cleared)) /\ Room(1)
  BY <1>13 DEF Space, Spaced
<1>4. b \in Bars /\ ~b.all /\ Len(b.text) = 1 + (IF bar.all THEN 0 ELSE Len(bar.text))
  BY <1>1, XTyped
<1> HIDE DEF b
<1>5. n \in Nat \cup {-1} /\ (Wayland => n = -1)
  BY <1>1, <1>2, <1>13 DEF Least, Counted
<1>7. /\ e \in Engines /\ e.word = <<>> /\ e.len <= 0 /\ e.prefix = n
      /\ (e.cleared => eng.cleared /\ eng.word = <<>>)
  <2>1. eng \in Engines /\ (eng.word = <<>> => eng.len <= 0)
    BY <1>1 DEF BeginsWell
  <2>2. n \in Nat \cup {-1}
    BY <1>5
  <2>3. QED
    BY ONLY <2>1, <2>2, e = Spaced(eng, n), SpacedIs
<1>8. ASSUME ~lost', ~Wayland
      PROVE  n = Len(b.text) /\ ~e.cleared
  <2>1. ~lost /\ Counts(bar, eng) /\ ~e.cleared
    BY <1>1, <1>3, <1>7, <1>8
  <2>2. ~bar.all
    BY <1>1, <1>3, <1>8, <2>1 DEF Counts, BeginsWell
  <2>3. eng.prefix = bar.before /\ Len(b.text) = Len(bar.text) + 1
    BY <1>4, <1>8, <2>1, <2>2 DEF Counts
  <2>4. Len(bar.text) = bar.before + Size(eng.word)
    <3>1. CASE eng.word = <<>>
      BY <1>1, <3>1 DEF BeginsWell
    <3>2. CASE eng.word # <<>>
      BY <1>1, <1>2, <2>1, <3>2 DEF Counts
    <3>3. QED
      BY <3>1, <3>2
  <2>5. Len(b.text) <= MaxText
    BY <1>3, <2>2, <2>3 DEF Room
  <2>6. Counted(eng) = Len(b.text)
    BY <1>1, <1>2, <2>3, <2>4 DEF Counted
  <2>7. QED
    BY <1>1, <1>2, <1>13, <2>1, <2>3, <2>5, <2>6 DEF Least
<1>9. ASSUME ~lost'  PROVE  TellsFirst(e)
  <2>1. ~Wayland => n = Len(b.text) /\ n # 0
    <3>1. Len(b.text) # 0
      BY <1>1, <1>4
    <3>2. QED
      BY <1>8, <1>9, <3>1
  <2>2. QED
    BY <1>7, <2>1 DEF TellsFirst, MayBeFirst
<1>10. lost' \in BOOLEAN
  BY <1>3
<1>11. QED
  BY <1>3, <1>4, <1>5, <1>7, <1>8, <1>9, <1>10, DoneStep

\* The engine after the keys that leave it without a count, or with a count of nothing.
Broken(e) == [e EXCEPT !.prefix = -1, !.had = TRUE, !.sawBs = FALSE, !.cleared = FALSE]
Unsure(e) == [e EXCEPT !.unknown = TRUE, !.prefix = -1, !.cleared = FALSE]
Cleared(e) == [e EXCEPT !.unknown = FALSE, !.prefix = 0, !.cleared = TRUE, !.space = FALSE,
                        !.len = -1]
Passed(e) == [e EXCEPT !.cleared = FALSE, !.prefix = -1]

\* The character keeps the rest.
LEMMA BrokenIs ==
    ASSUME NEW e, e \in Engines, NEW f, f = Broken(e)
    PROVE  f \in Engines /\ f.word = e.word /\ f.len = e.len /\ f.prefix = -1
  BY DEF Broken, Engines

\* So does a key that may have changed anything.
LEMMA UnsureIs ==
    ASSUME NEW e, e \in Engines, NEW f, f = Unsure(e)
    PROVE  f \in Engines /\ f.word = e.word /\ f.len = e.len /\ f.prefix = -1
  BY DEF Unsure, Engines

\* A key that clears the bar leaves a count of nothing.
LEMMA ClearedIs ==
    ASSUME NEW e, e \in Engines, NEW f, f = Cleared(e)
    PROVE  /\ f \in Engines /\ f.word = e.word /\ f.len = -1 /\ f.prefix = 0
           /\ f.cleared
  BY DEF Cleared, Engines

\* A key the engine does not know leaves no count.
LEMMA PassedIs ==
    ASSUME NEW e, e \in Engines, NEW f, f = Passed(e)
    PROVE  f \in Engines /\ f.word = e.word /\ f.len = e.len /\ f.prefix = -1
  BY DEF Passed, Engines

\* Another character ends the word, and leaves an engine that knows nothing.
LEMMA NonLetterKeeps == ASSUME BarAssumption, IInv, NonLetter PROVE IInv'
<1>6. PICK w : w = NoWord(eng)
  OBVIOUS
<1>7. PICK e : e = IF eng.word = <<>> THEN [eng EXCEPT !.prefix = -1]
                 ELSE [w EXCEPT !.prefix = -1, !.had = TRUE, !.sawBs = FALSE, !.cleared = FALSE]
  OBVIOUS
<1>1. Done(e, Inserted(bar, <<"x">>)) /\ lost' = TRUE
  BY <1>6, <1>7 DEF NonLetter
<1>2. /\ eng \in Engines /\ bar \in Bars /\ BeginsWell(bar, eng)
      /\ w \in Engines /\ w.word = <<>> /\ w.len = 0
  BY <1>6, Here, NoWordIs
<1>3. e \in Engines /\ e.word = <<>> /\ e.len <= 0 /\ e.prefix = -1
  <2>1. CASE eng.word = <<>>
    <3>1. e = [eng EXCEPT !.prefix = -1]
      BY <1>7, <2>1
    <3>2. eng.len <= 0
      BY <1>2, <2>1 DEF BeginsWell
    <3>3. QED
      BY <1>2, <2>1, <3>1, <3>2 DEF Engines
  <2>2. CASE eng.word # <<>>
    <3>1. e = Broken(w)
      BY <1>7, <2>2 DEF Broken
    <3>2. QED
      BY <1>2, <3>1, BrokenIs
  <2>3. QED
    BY <2>1, <2>2
<1>4. Inserted(bar, <<"x">>) \in Bars
  BY <1>2, XTyped
<1>5. QED
  BY <1>1, <1>3, <1>4, DoneLost

\* The bar of a key that clears it.
LEMMA ClearedBar ==
    ASSUME NEW c \in Bars,
           NEW b \in {[c EXCEPT !.all = c.text # <<>>, !.hint = FALSE],
                      [c EXCEPT !.text = <<>>, !.all = FALSE, !.hint = FALSE]}
    PROVE  b \in Bars /\ b.all \in BOOLEAN /\ (~b.all => Len(b.text) = 0)
<1>1. (c.text # <<>>) \in BOOLEAN /\ <<>> \in Seq(Glyphs)
  OBVIOUS
<1>2. CASE b = [c EXCEPT !.all = c.text # <<>>, !.hint = FALSE]
  <2>1. CASE c.text = <<>>
    <3>1. b = [c EXCEPT !.all = FALSE, !.hint = FALSE]
      BY <1>2, <2>1
    <3>2. QED
      BY <2>1, <3>1 DEF Bars
  <2>2. CASE c.text # <<>>
    <3>1. b = [c EXCEPT !.all = TRUE, !.hint = FALSE]
      BY <1>2, <2>2
    <3>2. QED
      BY <3>1 DEF Bars
  <2>3. QED
    BY <2>1, <2>2
<1>3. CASE b = [c EXCEPT !.text = <<>>, !.all = FALSE, !.hint = FALSE]
  BY <1>1, <1>3 DEF Bars
<1>4. QED
  BY <1>2, <1>3

\* A key that clears the bar leaves nothing, or all of it selected.
LEMMA CtrlClearsKeeps == ASSUME BarAssumption, IInv, CtrlClears PROVE IInv'
<1> PICK c : c = CtrlTracking(eng)
  OBVIOUS
<1>1. PICK e : e = IF Wayland THEN Unsure(c) ELSE Cleared(c)
  OBVIOUS
<1>2. PICK b \in {[bar EXCEPT !.all = bar.text # <<>>, !.hint = FALSE],
                  [bar EXCEPT !.text = <<>>, !.all = FALSE, !.hint = FALSE]} : Done(e, b)
  BY <1>1 DEF CtrlClears, Unsure, Cleared
<1>3. lost' = FALSE
  BY DEF CtrlClears
<1>4. c \in Engines /\ c.word = <<>> /\ c.len = 0
  BY Here, CtrlTrackingIs
<1>5. /\ e \in Engines /\ e.word = <<>> /\ e.len <= 0
      /\ Wayland => e.prefix = -1
      /\ ~Wayland => e.prefix = 0 /\ e.cleared
  <2>1. CASE Wayland
    <3>1. e = Unsure(c)
      BY <1>1, <2>1
    <3>2. QED
      BY <1>4, <2>1, <3>1, UnsureIs
  <2>2. CASE ~Wayland
    <3>1. e = Cleared(c)
      BY <1>1, <2>2
    <3>2. QED
      BY <1>4, <2>2, <3>1, ClearedIs
  <2>3. QED
    BY <2>1, <2>2
<1>6. b \in Bars /\ b.all \in BOOLEAN /\ (~b.all => Len(b.text) = 0)
  BY Here, <1>2, ClearedBar
<1>7. TellsFirst(e)
  BY <1>5 DEF TellsFirst
<1>8. ~Wayland => e.prefix = IF b.all THEN 0 ELSE Len(b.text)
  BY <1>5, <1>6
<1>9. Done(e, b)
  BY <1>2
<1>10. QED
  BY <1>3, <1>5, <1>6, <1>7, <1>8, <1>9, DoneStep

\* Another key with Ctrl leaves nothing known.
LEMMA CtrlOtherKeeps == ASSUME BarAssumption, IInv, CtrlOther PROVE IInv'
<1> PICK c : c = CtrlTracking(eng)
  OBVIOUS
<1>1. PICK e : e = Unsure(c)
  OBVIOUS
<1>2. PICK b \in {bar, Inserted(bar, <<"x">>)} : Done(e, b)
  BY <1>1 DEF CtrlOther, Unsure
<1>3. lost' = TRUE
  BY DEF CtrlOther
<1>4. c \in Engines /\ c.word = <<>> /\ c.len = 0
  BY Here, CtrlTrackingIs
<1>5. e \in Engines /\ e.word = <<>> /\ e.len <= 0 /\ e.prefix = -1
  BY <1>1, <1>4, UnsureIs
<1>6. b \in Bars
  BY Here, <1>2, XTyped
<1>7. Done(e, b)
  BY <1>2
<1>8. QED
  BY <1>3, <1>5, <1>6, <1>7, DoneLost

\* The engine after a key it knows nothing of.
LEMMA OtherKeyIs ==
    ASSUME NEW e \in Engines, e.word = <<>> => e.len <= 0
    PROVE  /\ OtherKey(e) \in Engines /\ OtherKey(e).word = <<>>
           /\ OtherKey(e).len <= 0 /\ OtherKey(e).prefix = -1
<1>5. PICK w : w = NoWord(e)
  OBVIOUS
<1>1. w \in Engines /\ w.word = <<>> /\ w.len = 0
  BY <1>5, NoWordIs
<1>2. CASE e.word = <<>>
  <2>1. OtherKey(e) = [e EXCEPT !.cleared = FALSE, !.prefix = -1]
    BY <1>2 DEF OtherKey
  <2>2. QED
    BY <1>2, <2>1 DEF Engines
<1>3. CASE e.word # <<>>
  <2>4. PICK s : s = [w EXCEPT !.sawBs = FALSE]
    OBVIOUS
  <2>1. OtherKey(e) = Passed(s)
    BY <1>3, <1>5, <2>4 DEF OtherKey, Passed
  <2>2. s \in Engines /\ s.word = <<>> /\ s.len = 0
    BY <1>1, <2>4 DEF Engines
  <2>3. QED
    BY <2>1, <2>2, PassedIs
<1>4. QED
  BY <1>2, <1>3

\* Bars with the selection dropped.
LEMMA Unselected ==
    ASSUME NEW b \in Bars
    PROVE  /\ [b EXCEPT !.hint = FALSE] \in Bars /\ [b EXCEPT !.all = FALSE] \in Bars
           /\ [b EXCEPT !.hint = FALSE].text = b.text /\ [b EXCEPT !.hint = FALSE].all = b.all
  BY DEF Bars

\* Neither does End.
LEMMA EndKeyKeeps == ASSUME BarAssumption, IInv, EndKey PROVE IInv'
<1> PICK e : e = OtherKey(eng)
  OBVIOUS
<1>1. PICK b : b = IF bar.hint THEN Inserted([bar EXCEPT !.hint = FALSE], <<"x">>)
                   ELSE [bar EXCEPT !.all = FALSE]
  OBVIOUS
<1>2. Done(e, b) /\ lost' = TRUE
  BY <1>1 DEF EndKey
<1>3. e \in Engines /\ e.word = <<>> /\ e.len <= 0 /\ e.prefix = -1
  BY Here, OtherKeyIs DEF BeginsWell
<1>4. b \in Bars
  BY Here, <1>1, Unselected, XTyped
<1>5. QED
  BY <1>2, <1>3, <1>4, DoneLost

\* Nor Delete.
LEMMA DeleteKeeps == ASSUME BarAssumption, IInv, Delete PROVE IInv'
<1> PICK o : o = OtherKey(eng)
  OBVIOUS
<1>1. PICK e : e = [o EXCEPT !.had = FALSE, !.keep = FALSE]
  OBVIOUS
<1>2. PICK b : b = IF bar.all THEN Deleted(bar, 1) ELSE [bar EXCEPT !.hint = FALSE]
  OBVIOUS
<1>3. Done(e, b) /\ lost' = TRUE
  BY <1>1, <1>2 DEF Delete
<1>4. o \in Engines /\ o.word = <<>> /\ o.len <= 0 /\ o.prefix = -1
  BY Here, OtherKeyIs DEF BeginsWell
<1>5. e \in Engines /\ e.word = <<>> /\ e.len <= 0 /\ e.prefix = -1
  BY <1>1, <1>4 DEF Engines
<1>6. b \in Bars
  BY Here, <1>2, Unselected, DeletedBar
<1>7. QED
  BY <1>3, <1>5, <1>6, DoneLost

\* Escape forgets the word, or drops the suggestion.
LEMMA EscapeKeeps == ASSUME BarAssumption, IInv, Escape PROVE IInv'
<1>1. /\ eng \in Engines /\ bar \in Bars /\ BeginsWell(bar, eng) /\ lost \in BOOLEAN
      /\ (Wayland => eng.prefix = -1) /\ (~lost => Counts(bar, eng) /\ TellsFirst(eng))
  BY Here
<1>2. CASE eng.word # <<>>
  <2>1. Done(NoWord(eng), bar) /\ lost' = TRUE
    BY <1>1, <1>2 DEF Escape
  <2>2. /\ NoWord(eng) \in Engines /\ NoWord(eng).word = <<>> /\ NoWord(eng).len <= 0
        /\ NoWord(eng).prefix = eng.prefix
    BY <1>1, NoWordIs
  <2>3. QED
    BY <1>1, <2>1, <2>2, DoneLost
<1>3. CASE eng.word = <<>>
  <2> PICK b : b = [bar EXCEPT !.hint = FALSE]
    OBVIOUS
  <2>1. Done(eng, b) /\ lost' = lost
    BY <1>1, <1>3 DEF Escape
  <2>2. b \in Bars /\ b.text = bar.text /\ b.all = bar.all
    BY <1>1, Unselected
  <2>3. eng.len <= 0 /\ bar.before = Len(bar.text)
    BY <1>1, <1>3 DEF BeginsWell
  <2>4. ~lost => /\ ~Wayland =>
                     /\ eng.prefix = IF b.all THEN 0 ELSE Len(b.text)
                     /\ eng.cleared => eng.prefix = 0
                     /\ b.all => eng.cleared
                 /\ TellsFirst(eng)
    BY <1>1, <2>2, <2>3 DEF Counts
  <2>5. QED
    BY <1>1, <1>3, <2>1, <2>2, <2>3, <2>4, DoneStep
<1>4. QED
  BY <1>2, <1>3

-----------------------------------------------------------------------------
(***************************************************************************)
(* Backspaces.                                                             *)
(***************************************************************************)
\* The engine after a Backspace, by the count it keeps, and without its history.
Noticed(e, p) == [e EXCEPT !.sawBs = TRUE, !.prefix = p]
Blank(e) ==
    [e EXCEPT !.len = -1, !.space = FALSE, !.had = FALSE, !.keep = FALSE, !.unknown = TRUE]

\* It has seen a Backspace, and has the count given to it.
LEMMA NoticedIs ==
    ASSUME NEW e, e \in Engines, NEW p, p \in Nat \cup {-1}, NEW f, f = Noticed(e, p)
    PROVE  /\ f \in Engines /\ f.word = e.word /\ f.len = e.len /\ f.prefix = p
           /\ f.cleared = e.cleared /\ f.sawBs
  BY DEF Noticed, Engines

\* Without its history it has the same word and count.
LEMMA BlankIs ==
    ASSUME NEW e, e \in Engines, NEW f, f = Blank(e)
    PROVE  /\ f \in Engines /\ f.word = e.word /\ f.len = -1 /\ f.prefix = e.prefix
           /\ f.cleared = e.cleared /\ f.sawBs = e.sawBs
  BY DEF Blank, Engines

\* A word that is gone leaves the count.
LEMMA EmptiedIs ==
    ASSUME NEW e, e \in Engines, NEW f, f = Emptied(e)
    PROVE  /\ f \in Engines /\ f.word = <<>> /\ f.len = -1 /\ f.prefix = e.prefix
           /\ f.cleared = e.cleared /\ f.sawBs = e.sawBs
<1>1. PICK w : w = NoWord(e)
  OBVIOUS
<1>2. /\ w \in Engines /\ w.word = <<>> /\ w.prefix = e.prefix
      /\ w.cleared = e.cleared /\ w.sawBs = e.sawBs
  BY <1>1, NoWordIs
<1>3. f = Blank(w)
  BY <1>1 DEF Emptied, Blank
<1>4. QED
  BY <1>2, <1>3, BlankIs

\* One less, down to nothing.
Decremented(n) == IF n > 0 THEN n - 1 ELSE n

\* A Backspace without a word counts one less.
LEMMA ErasedIs ==
    ASSUME NEW e, e \in Engines, e.word = <<>>, e.len <= 0, NEW f, f = Erased(e)
    PROVE  /\ f \in Engines /\ f.word = <<>> /\ f.len <= 0
           /\ f.prefix = Decremented(e.prefix) /\ f.cleared = e.cleared /\ f.sawBs
<1>1. PICK p : p = Decremented(e.prefix)
  OBVIOUS
<1>2. p \in Nat \cup {-1}
  BY <1>1, EngineFields DEF Decremented
<1>3. PICK s : s = Noticed(e, p)
  OBVIOUS
<1>4. /\ s \in Engines /\ s.word = e.word /\ s.len = e.len /\ s.prefix = p
      /\ s.cleared = e.cleared /\ s.sawBs
  BY <1>2, <1>3, NoticedIs
<1>5. f = IF ~Wayland \/ (s.space /\ s.len <= 0) THEN Emptied(s)
          ELSE IF s.len = 0 THEN [s EXCEPT !.len = -1]
          ELSE [s EXCEPT !.unknown = TRUE]
  BY <1>1, <1>3 DEF Erased, Noticed, Decremented
<1>6. CASE f = Emptied(s)
  BY <1>1, <1>4, <1>6, EmptiedIs
<1>7. CASE f = [s EXCEPT !.len = -1]
  BY <1>1, <1>4, <1>7 DEF Engines
<1>8. CASE f = [s EXCEPT !.unknown = TRUE]
  BY <1>1, <1>4, <1>8 DEF Engines
<1>9. QED
  BY <1>5, <1>6, <1>7, <1>8

\* The bar has one less, unless a suggestion was selected.
LEMMA IdleBackspaceKeeps == ASSUME BarAssumption, IInv, IdleBackspace PROVE IInv'
<1>1. PICK e : e = Erased(eng)
  OBVIOUS
<1>2. PICK b : b = Deleted(bar, 1)
  OBVIOUS
<1>3. Done(e, b) /\ lost' = (lost \/ bar.hint) /\ eng.word = <<>>
  BY <1>1, <1>2 DEF IdleBackspace
<1>4. /\ eng \in Engines /\ bar \in Bars /\ BeginsWell(bar, eng) /\ lost \in BOOLEAN
      /\ (Wayland => eng.prefix = -1) /\ (~lost => Counts(bar, eng))
      /\ bar.all \in BOOLEAN /\ bar.hint \in BOOLEAN /\ Len(bar.text) \in Nat
  BY Here
<1>5. eng.len <= 0 /\ bar.before = Len(bar.text)
  BY <1>3, <1>4 DEF BeginsWell
<1>6. /\ e \in Engines /\ e.word = <<>> /\ e.len <= 0 /\ e.prefix = Decremented(eng.prefix)
      /\ e.cleared = eng.cleared /\ e.sawBs
  BY <1>1, <1>3, <1>4, <1>5, ErasedIs
<1>7. /\ b \in Bars /\ ~b.all
      /\ ~bar.all => Len(b.text) = Left(Len(bar.text), 1, bar.hint)
      /\ bar.all => Len(b.text) = 0
  <2>1. 1 \in Nat /\ 1 > 0
    OBVIOUS
  <2>2. QED
    BY <1>2, <1>4, <2>1, DeletedBar
<1>8. Wayland => e.prefix = -1
  BY <1>4, <1>6 DEF Decremented
<1>9. TellsFirst(e)
  BY <1>6 DEF TellsFirst
<1>10. ASSUME ~lost', ~Wayland
       PROVE  /\ e.prefix = IF b.all THEN 0 ELSE Len(b.text)
              /\ e.cleared => e.prefix = 0
              /\ b.all => e.cleared
  <2>1. ~lost /\ ~bar.hint
    BY <1>3, <1>4, <1>10
  <2>2. /\ eng.prefix = IF bar.all THEN 0 ELSE Len(bar.text)
        /\ eng.cleared => eng.prefix = 0
    BY <1>4, <1>5, <1>10, <2>1 DEF Counts
  <2>3. Len(b.text) = IF bar.all THEN 0 ELSE Decremented(Len(bar.text))
    BY <1>4, <1>7, <2>1 DEF Left, Decremented
  <2>4. Decremented(0) = 0
    BY DEF Decremented
  <2>5. QED
    BY <1>6, <1>7, <2>2, <2>3, <2>4
<1>11. lost' \in BOOLEAN
  BY <1>3, <1>4
<1>12. QED
  BY <1>3, <1>6, <1>7, <1>8, <1>9, <1>10, <1>11, DoneStep

\* The engine with another word, and when the first tone key of a bar is undone.
Reworded(e, w, n) == [e EXCEPT !.word = w, !.len = n]
Undone(e, w, n) == [e EXCEPT !.keep = FALSE, !.word = w, !.len = n]
Dropped(e) == [e EXCEPT !.keep = FALSE, !.had = FALSE]

\* Another word leaves the count.
LEMMA RewordedIs ==
    ASSUME NEW e, e \in Engines, NEW w, w \in Words, NEW n, n \in Nat,
           NEW f, f = Reworded(e, w, n)
    PROVE  /\ f \in Engines /\ f.word = w /\ f.prefix = e.prefix
           /\ f.cleared = e.cleared /\ f.sawBs = e.sawBs
  BY DEF Reworded, Engines, Words

\* So does a word undone.
LEMMA UndoneIs ==
    ASSUME NEW e, e \in Engines, NEW w, w \in Words, NEW n, n \in Nat,
           NEW f, f = Undone(e, w, n)
    PROVE  /\ f \in Engines /\ f.word = w /\ f.prefix = e.prefix
           /\ f.cleared = e.cleared /\ f.sawBs = e.sawBs
  BY DEF Undone, Engines, Words

\* So does a first word that is gone.
LEMMA DroppedIs ==
    ASSUME NEW e, e \in Engines, NEW f, f = Dropped(e)
    PROVE  /\ f \in Engines /\ f.word = e.word /\ f.len = e.len /\ f.prefix = e.prefix
           /\ f.cleared = e.cleared /\ f.sawBs = e.sawBs
  BY DEF Dropped, Engines

\* What a Backspace in a word makes of the engine.
LEMMA ShortenedIs ==
    ASSUME BarAssumption, NEW e, e \in Engines, e.word # <<>>, e.word[1] \in {Letter, Marked},
           NEW f, f = Shortened(e)
    PROVE  /\ f \in Engines /\ f.prefix = e.prefix /\ f.cleared = e.cleared /\ f.sawBs
           /\ Len(f.word) <= Len(e.word)
           /\ f.word = <<>> => f.len <= 0 /\ Size(e.word) = 1
           /\ f.word # <<>> => f.word[1] = e.word[1]
<1>1. PICK s : s = [e EXCEPT !.sawBs = TRUE]
  OBVIOUS
<1>2. /\ s \in Engines /\ s.word = e.word /\ s.prefix = e.prefix /\ s.cleared = e.cleared
      /\ s.sawBs
  BY <1>1 DEF Engines
<1>3. PICK kept : kept = Popped(e.word)
  OBVIOUS
<1>4. PICK w : w = PoppedGlyph(e.word)
  OBVIOUS
<1>5. f = IF s.keep
          THEN IF Size(s.word) <= 1 THEN [NoWord(s) EXCEPT !.keep = FALSE, !.had = FALSE]
               ELSE [s EXCEPT !.keep = FALSE, !.word = kept, !.len = Size(s.word) - 1]
          ELSE IF w # <<>> THEN [s EXCEPT !.word = w, !.len = Size(w)]
          ELSE IF Wayland THEN NoWord(s) ELSE Emptied(s)
  BY <1>1, <1>3, <1>4, <1>2 DEF Shortened
<1>6. /\ e.word \in Words /\ Size(e.word) \in Nat /\ Size(e.word) >= 1
      /\ Size(e.word) <= Len(e.word) /\ Len(e.word) \in Nat
  BY EngineFields, SizeOfWord, SizePositive DEF Words
<1>7. /\ kept \in Words /\ Len(kept) = Len(e.word) - 1
      /\ kept # <<>> => kept[1] = e.word[1]
      /\ kept = <<>> <=> Len(e.word) = 1
  BY <1>3, <1>6, PoppedWord
<1>8. /\ w \in Words /\ Len(w) <= Len(e.word) /\ Size(w) \in Nat
      /\ w # <<>> => w[1] = e.word[1]
      /\ w = <<>> => Size(e.word) = 1
  BY <1>4, <1>6, PoppedGlyphWord, SizeOfWord
<1>9. PICK n : n = NoWord(s)
  OBVIOUS
<1>10. /\ n \in Engines /\ n.word = <<>> /\ n.len = 0 /\ n.prefix = e.prefix
       /\ n.cleared = e.cleared /\ n.sawBs
  BY <1>2, <1>9, NoWordIs
<1>11. Len(<<>>) <= Len(e.word)
  BY <1>6
<1>12. CASE s.keep /\ Size(e.word) <= 1
  <2>1. f = Dropped(n)
    BY <1>2, <1>5, <1>9, <1>12 DEF Dropped
  <2>2. QED
    BY <1>6, <1>10, <1>11, <1>12, <2>1, DroppedIs
<1>13. CASE s.keep /\ ~(Size(e.word) <= 1)
  <2>1. PICK m : m = Size(e.word) - 1
    OBVIOUS
  <2>2. f = Undone(s, kept, m) /\ m \in Nat /\ s \in Engines /\ kept \in Words
    BY <1>2, <1>5, <1>6, <1>7, <1>13, <2>1 DEF Undone
  <2>3. /\ f \in Engines /\ f.word = kept /\ f.prefix = s.prefix
        /\ f.cleared = s.cleared /\ f.sawBs = s.sawBs
    BY ONLY <2>2, UndoneIs
  <2>4. kept # <<>>
    BY <1>6, <1>7, <1>13
  <2>5. QED
    BY <1>2, <1>6, <1>7, <2>3, <2>4
<1>14. CASE ~s.keep /\ w # <<>>
  <2>1. PICK m : m = Size(w)
    OBVIOUS
  <2>2. f = Reworded(s, w, m) /\ m \in Nat /\ s \in Engines /\ w \in Words
    BY <1>2, <1>5, <1>8, <1>14, <2>1 DEF Reworded
  <2>3. /\ f \in Engines /\ f.word = w /\ f.prefix = s.prefix
        /\ f.cleared = s.cleared /\ f.sawBs = s.sawBs
    BY ONLY <2>2, RewordedIs
  <2>4. QED
    BY <1>2, <1>8, <1>14, <2>3
<1>15. CASE ~s.keep /\ w = <<>> /\ Wayland
  BY <1>5, <1>8, <1>9, <1>10, <1>11, <1>15
<1>16. CASE ~s.keep /\ w = <<>> /\ ~Wayland
  <2>1. f = Emptied(s)
    BY <1>5, <1>16
  <2>2. /\ f \in Engines /\ f.word = <<>> /\ f.len = -1 /\ f.prefix = s.prefix
        /\ f.cleared = s.cleared /\ f.sawBs = s.sawBs
    BY <1>2, <2>1, EmptiedIs
  <2>3. QED
    BY <1>2, <1>8, <1>11, <1>16, <2>2
<1>17. s.keep \in BOOLEAN
  BY <1>2, EngineFields
<1>18. QED
  BY <1>12, <1>13, <1>14, <1>15, <1>16, <1>17

\* A Backspace in a word keeps it in step, and leaves what is before it.
LEMMA BackspaceKeeps == ASSUME BarAssumption, IInv, Backspace PROVE IInv'
<1>1. PICK d : d = Deleted(bar, 1)
  OBVIOUS
<1>2. /\ eng.word # <<>> /\ eng' = Shortened(eng) /\ bar' = Settled(d, eng'.word)
      /\ lost' = (lost \/ (IF eng'.word = <<>> THEN bar.hint ELSE ~InStep'))
      /\ UNCHANGED platform
  BY <1>1 DEF Backspace
<1>3. /\ eng \in Engines /\ bar \in Bars /\ BeginsWell(bar, eng) /\ lost \in BOOLEAN
      /\ (Wayland => eng.prefix = -1) /\ (~lost => Counts(bar, eng))
      /\ bar.hint \in BOOLEAN /\ Len(bar.text) \in Nat /\ bar.before \in Nat
      /\ Len(eng.word) \in Nat /\ Len(eng.word) <= MaxKeys /\ platform \in Platforms
      /\ MaxKeys \in Nat
  BY Here DEF BarAssumption
<1>4. ~bar.all /\ eng.word[1] \in {Letter, Marked}
  BY <1>2, <1>3 DEF BeginsWell
<1>5. /\ eng' \in Engines /\ eng'.prefix = eng.prefix /\ eng'.cleared = eng.cleared
      /\ eng'.sawBs /\ Len(eng'.word) <= Len(eng.word)
      /\ eng'.word = <<>> => eng'.len <= 0 /\ Size(eng.word) = 1
      /\ eng'.word # <<>> => eng'.word[1] = eng.word[1]
  BY <1>2, <1>3, <1>4, ShortenedIs
<1>6. /\ d \in Bars /\ ~d.all /\ d.before = bar.before
      /\ Len(d.text) = Left(Len(bar.text), 1, bar.hint)
  <2>1. 1 \in Nat /\ 1 > 0
    OBVIOUS
  <2>2. QED
    BY <1>1, <1>3, <1>4, <2>1, DeletedBar
<1>7. /\ bar' \in Bars /\ bar'.text = d.text /\ bar'.all = d.all
      /\ bar'.before = IF eng'.word = <<>> THEN Len(d.text) ELSE Least(d.before, Len(d.text))
      /\ bar'.before <= Len(d.text)
  BY <1>2, <1>6, SettledBar
<1>8. eng'.word \in Words /\ Len(eng'.word) \in Nat /\ Len(d.text) \in Nat
  BY <1>5, <1>6, EngineFields, BarFields DEF Words
<1>9. Sound(bar', eng')
  <2>1. BeginsWell(bar', eng')
    BY <1>4, <1>5, <1>6, <1>7 DEF BeginsWell
  <2>2. Len(eng'.word) <= MaxKeys
    BY <1>3, <1>5, <1>8
  <2>3. QED
    BY <1>3, <1>5, <1>7, <2>1, <2>2 DEF Sound
<1>10. TellsFirst(eng')
  BY <1>5 DEF TellsFirst
<1>11. ASSUME ~lost'  PROVE  Counts(bar', eng')
  <2>1. ~lost /\ Counts(bar, eng) /\ (IF eng'.word = <<>> THEN ~bar.hint ELSE InStep')
    BY <1>2, <1>3, <1>11
  <2>2. Len(bar.text) - bar.before = Size(eng.word)
    BY <1>2, <2>1 DEF Counts
  <2>3. bar'.before = bar.before
    <3>1. CASE eng'.word = <<>>
      <4>1. ~bar.hint /\ Len(bar.text) - bar.before = 1
        BY <1>5, <2>1, <2>2, <3>1
      <4>3. Len(d.text) = Len(bar.text) - 1
        BY <1>3, <1>6, <4>1 DEF Left
      <4>2. QED
        BY <1>3, <1>7, <3>1, <4>1, <4>3
    <3>2. CASE eng'.word # <<>>
      <4>1. Size(eng'.word) >= 1 /\ Size(eng'.word) \in Nat
        BY <1>4, <1>5, <1>8, <3>2, SizePositive, SizeOfWord
      <4>2. Len(d.text) - bar'.before = Size(eng'.word)
        BY <1>7, <2>1, <3>2 DEF InStep
      <4>3. QED
        BY <1>3, <1>6, <1>7, <1>8, <3>2, <4>1, <4>2 DEF Least
    <3>3. QED
      BY <3>1, <3>2
  <2>4. eng'.word # <<>> => Len(bar'.text) - bar'.before = Size(eng'.word)
    BY <2>1 DEF InStep
  <2>5. ~Wayland => eng.prefix = bar.before /\ (eng.cleared => eng.prefix = 0)
    BY <1>4, <2>1 DEF Counts
  <2>6. QED
    BY <1>5, <1>6, <1>7, <2>3, <2>4, <2>5 DEF Counts
<1>12. lost' \in BOOLEAN
  BY <1>2
<1>13. Good(bar', eng', lost')
  BY <1>9, <1>10, <1>11, <1>12 DEF Good
<1>14. QED
  BY <1>2, <1>3, <1>13, GoodThere

-----------------------------------------------------------------------------
(***************************************************************************)
(* The theorems.                                                           *)
(***************************************************************************)
\* The invariant holds of the initial states.
LEMMA InitGood == ASSUME BarAssumption, Init PROVE IInv
<1>1. /\ platform \in Platforms
      /\ bar = [text |-> <<>>, all |-> FALSE, hint |-> FALSE, before |-> 0]
      /\ eng = [word |-> <<>>, len |-> 0, prev |-> 0, had |-> FALSE, space |-> FALSE,
                unknown |-> FALSE, keep |-> FALSE, cleared |-> FALSE, prefix |-> -1,
                sawBs |-> FALSE, start |-> -1, edge |-> -1]
      /\ lost = TRUE
  BY DEF Init
<1>2. <<>> \in Seq(Glyphs) /\ <<>> \in Seq(Keys) /\ Len(<<>>) = 0
  OBVIOUS
<1>3. bar \in Bars /\ bar.before = 0 /\ bar.text = <<>>
  BY <1>1, <1>2 DEF Bars
<1>4. eng \in Engines /\ eng.word = <<>> /\ eng.len = 0 /\ eng.prefix = -1
  BY <1>1, <1>2 DEF Engines
<1>5. TypeOK
  BY <1>1, <1>2, <1>3, <1>4 DEF TypeOK, BarAssumption
<1>6. WordInv
  BY <1>2, <1>3, <1>4 DEF WordInv
<1>7. CountInv /\ FirstInv
  BY <1>1, <1>4 DEF CountInv, FirstInv
<1>8. QED
  BY <1>5, <1>6, <1>7 DEF IInv

\* Every step keeps the invariant.
LEMMA StepGood == ASSUME BarAssumption, IInv, [Next]_vars PROVE IInv'
<1>1. CASE Focus
  BY <1>1, FocusKeeps
<1>2. CASE Cycle
  BY <1>2, CycleKeeps
<1>3. CASE TypeLetter
  BY <1>3, TypeLetterKeeps
<1>4. CASE TypeDesynced
  BY <1>4, TypeDesyncedKeeps
<1>5. CASE Transform
  BY <1>5, TransformKeeps
<1>6. CASE TransformRefused
  BY <1>6, RefusedKeeps
<1>7. CASE Space
  BY <1>7, SpaceKeeps
<1>8. CASE NonLetter
  BY <1>8, NonLetterKeeps
<1>9. CASE Backspace
  BY <1>9, BackspaceKeeps
<1>10. CASE IdleBackspace
  BY <1>10, IdleBackspaceKeeps
<1>11. CASE CtrlClears
  BY <1>11, CtrlClearsKeeps
<1>12. CASE CtrlOther
  BY <1>12, CtrlOtherKeeps
<1>13. CASE EndKey
  BY <1>13, EndKeyKeeps
<1>14. CASE Delete
  BY <1>14, DeleteKeeps
<1>15. CASE Escape
  BY <1>15, EscapeKeeps
<1>16. CASE UNCHANGED vars
  <2>1. platform \in Platforms /\ Good(bar, eng, lost)
    BY GoodHere
  <2>2. bar' = bar /\ eng' = eng /\ lost' = lost /\ UNCHANGED platform
    BY <1>16 DEF vars
  <2>3. QED
    BY <2>1, <2>2, GoodThere
<1>17. QED
  BY <1>1, <1>2, <1>3, <1>4, <1>5, <1>6, <1>7, <1>8, <1>9, <1>10, <1>11, <1>12, <1>13,
     <1>14, <1>15, <1>16 DEF Next

\* The invariant of the module, for every text, every bound and every slack: the words,
\* the counts and the first words are what the engine believes.
THEOREM Invariance == Spec => []IInv
<1>1. Init => IInv
  BY BarAssumption, InitGood
<1>2. IInv /\ [Next]_vars => IInv'
  BY BarAssumption, StepGood
<1>3. QED
  BY <1>1, <1>2, PTL DEF Spec

\* The state keeps its shape: what is before a word is in the bar.
THEOREM TypeCorrect == Spec => []TypeOK
<1>1. IInv => TypeOK
  BY DEF IInv
<1>2. QED
  BY <1>1, Invariance, PTL

\* With the text of the bar in sight a replacement takes the word and nothing else
\* (engine.cpp:7592), whatever the engine remembers.
THEOREM WordTakenInSight == Spec => []ExactWithText
<1>1. IInv => ExactWithText
  BY BarAssumption, ExactHolds
<1>2. QED
  BY <1>1, Invariance, PTL

\* While it can be known what is before the word, no replacement takes of it, whatever
\* the engine sees of the bar (engine.cpp:7692).
THEOREM NothingBeforeTaken == Spec => []PrefixKept
<1>1. IInv => PrefixKept
  BY BarAssumption, KeptHolds
<1>2. QED
  BY <1>1, Invariance, PTL

\* The first replacement of a word that stands alone takes all of it, with a suggestion or
\* without (engine.cpp:7779).
THEOREM FirstWordTaken == Spec => []FirstWordWhole
<1>1. IInv => FirstWordWhole
  BY BarAssumption, WholeHolds
<1>2. QED
  BY <1>1, Invariance, PTL

\* The count of the characters before the word is right while there is one
\* (engine.cpp:7707).
THEOREM CountRight == Spec => []PrefixCounted
<1>1. IInv => PrefixCounted
  BY CountedHolds
<1>2. QED
  BY <1>1, Invariance, PTL
=============================================================================
