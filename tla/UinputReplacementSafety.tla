---------------------- MODULE UinputReplacementSafety ----------------------
(***************************************************************************)
(* The context of UinputReplacement stays in order, for every number of    *)
(* keys, every depth of a deletion and every capacity of the buffer.       *)
(*                                                                         *)
(* A context is "in order" (Fine) when it has its types, its batch belongs *)
(* to its replacement, and the Backspaces that have come pay for the       *)
(* glyphs that were deleted and may still be.  Every handler of the        *)
(* context is shown to keep it in order, one lemma for each; the steps of  *)
(* the system then follow, and the theorems from those.                    *)
(***************************************************************************)
EXTENDS UinputReplacement, TLAPS, FiniteSetTheorems, SequenceTheorems, WellFoundedInduction

---------------------------------------------------------------------------
(* Counting the keys of a queue.                                           *)

\* How many keys of a kind a queue holds is a number ...
LEMMA CountNat ==
    ASSUME NEW S, NEW q \in Seq(S), NEW A
    PROVE  /\ IsFiniteSet({n \in DOMAIN q : q[n] \in A})
           /\ Count(q, A) \in Nat
<1>1. IsFiniteSet(1..Len(q))
  BY FS_Interval
<1>2. {n \in DOMAIN q : q[n] \in A} \in SUBSET (1..Len(q))
  OBVIOUS
<1>3. IsFiniteSet({n \in DOMAIN q : q[n] \in A})
  BY <1>1, <1>2, FS_Subset
<1> QED
  BY <1>3, FS_CardinalityType DEF Count

\* ... none where it is empty, ...
LEMMA CountEmpty ==
    ASSUME NEW A
    PROVE  Count(<<>>, A) = 0
<1>1. {n \in DOMAIN <<>> : <<>>[n] \in A} = {}
  OBVIOUS
<1> QED
  BY <1>1, FS_EmptySet DEF Count

\* ... one more where a key of the kind joins it, ...
LEMMA CountAppend ==
    ASSUME NEW S, NEW q \in Seq(S), NEW x \in S, NEW A
    PROVE  Count(Append(q, x), A) = Count(q, A) + (IF x \in A THEN 1 ELSE 0)
<1> DEFINE P == {n \in DOMAIN q : q[n] \in A}
           R == {n \in DOMAIN Append(q, x) : Append(q, x)[n] \in A}
           e == Len(q) + 1
<1>1. IsFiniteSet(P) /\ e \notin P
  <2>1. IsFiniteSet(P)
    BY CountNat
  <2>2. e \notin P
    OBVIOUS
  <2> QED
    BY <2>1, <2>2
<1>2. R = IF x \in A THEN P \cup {e} ELSE P
  OBVIOUS
<1>3. Cardinality(P \cup {e}) = Cardinality(P) + 1
  BY <1>1, FS_AddElement
<1>4. Cardinality(P) \in Nat
  BY <1>1, FS_CardinalityType
<1>5. Count(q, A) = Cardinality(P) /\ Count(Append(q, x), A) = Cardinality(R)
  BY DEF Count
<1> HIDE DEF P, R, e
<1> QED
  BY <1>2, <1>3, <1>4, <1>5

\* ... one less where one leaves it, ...
LEMMA CountTail ==
    ASSUME NEW S, NEW q \in Seq(S), q # <<>>, NEW A
    PROVE  Count(q, A) = Count(Tail(q), A) + (IF Head(q) \in A THEN 1 ELSE 0)
<1> DEFINE P == {n \in DOMAIN q : q[n] \in A}
           R == {n \in DOMAIN Tail(q) : Tail(q)[n] \in A}
           f == [n \in R |-> n + 1]
<1>0. Tail(q) \in Seq(S) /\ Len(Tail(q)) = Len(q) - 1 /\ Len(q) \in Nat \ {0}
      /\ DOMAIN q = 1..Len(q) /\ DOMAIN Tail(q) = 1..(Len(q) - 1)
      /\ (\A n \in 1..(Len(q) - 1) : Tail(q)[n] = q[n + 1]) /\ Head(q) = q[1]
  OBVIOUS
<1>1. IsFiniteSet(P) /\ IsFiniteSet(R)
  BY <1>0, CountNat
<1>2. f \in Bijection(R, P \ {1})
  <2>1. \A n \in R : n + 1 \in P \ {1}
    BY <1>0
  <2>2. \A m \in P \ {1} : m - 1 \in R /\ (m - 1) + 1 = m
    BY <1>0
  <2>3. \A m, n \in R : m + 1 = n + 1 => m = n
    BY <1>0
  <2> HIDE DEF P, R
  <2> QED
    BY <2>1, <2>2, <2>3 DEF Bijection, Injection, Surjection, IsInjective, Inverse
<1>3. ExistsBijection(R, P \ {1})
  BY <1>2 DEF ExistsBijection
<1>4. IsFiniteSet(P \ {1})
  BY <1>1, FS_Subset
<1>5. Cardinality(R) = Cardinality(P \ {1})
  BY <1>1, <1>3, <1>4, FS_Bijection
<1>6. 1 \in P <=> Head(q) \in A
  BY <1>0
<1>7. Cardinality(P \ {1}) = IF 1 \in P THEN Cardinality(P) - 1 ELSE Cardinality(P)
  BY <1>1, FS_RemoveElement
<1>8. Cardinality(P) \in Nat
  BY <1>1, FS_CardinalityType
<1>9. Count(q, A) = Cardinality(P) /\ Count(Tail(q), A) = Cardinality(R)
  BY DEF Count
<1> HIDE DEF P, R
<1> QED
  BY <1>5, <1>6, <1>7, <1>8, <1>9

\* ... and no fewer of a wider kind.
LEMMA CountMore ==
    ASSUME NEW S, NEW q \in Seq(S), NEW A, NEW B, A \subseteq B
    PROVE  Count(q, A) <= Count(q, B)
<1> DEFINE P == {n \in DOMAIN q : q[n] \in A}
           R == {n \in DOMAIN q : q[n] \in B}
<1>1. P \in SUBSET R
  OBVIOUS
<1>2. IsFiniteSet(R)
  BY CountNat
<1>3. Count(q, A) = Cardinality(P) /\ Count(q, B) = Cardinality(R)
  BY DEF Count
<1> HIDE DEF P, R
<1> QED
  BY <1>1, <1>2, <1>3, FS_Subset

---------------------------------------------------------------------------
(* A context in order.  Ending its replacement.                            *)

\* What is assumed of the constants.
Numbers == {MaxKeys, MaxDelete, BufferCap} \subseteq Nat \ {0}

\* The contexts that have seen the keys K, of a replacement in order, for which
\* b and w of the user's Backspaces have come.
Fine(K, b, w) ==
    {s \in Context(K) : s.seen <= s.expected /\ BatchInv(s) /\ Solvent(s, b, w)}

\* The empty queues have their types.
LEMMA NoKeys ==
    ASSUME NEW K
    PROVE  /\ <<>> \in Seq(K) /\ <<>> \in Seq(Glyphs(K))
           /\ <<>> \in Seq(K \cup {Loopback, Backspace})
BY EmptySeq

\* The fields of a context.
LEMMA Typed ==
    ASSUME NEW K, NEW s \in Context(K)
    PROVE  /\ s.text \in Seq(Glyphs(K)) /\ s.viet \in Seq(Glyphs(K))
           /\ s.pending \in Seq(Glyphs(K)) /\ s.oldWord \in Seq(Glyphs(K))
           /\ s.deleting \in BOOLEAN /\ s.settling \in BOOLEAN
           /\ s.expected \in 0..MaxDelete /\ s.seen \in 0..MaxDelete
           /\ s.outstanding \in Nat /\ s.repairs \in 0..3
           /\ s.buffered \in Seq(K) /\ s.settled \in Seq(K \cup {Loopback, Backspace})
           /\ s.replayTimer \in BOOLEAN /\ s.grace \in BOOLEAN /\ s.safety \in BOOLEAN
           /\ s.retried \in BOOLEAN /\ s.ticket \in Tickets /\ s.left \in Nat
           /\ s.tail \in BOOLEAN /\ s.cycle \in BOOLEAN /\ s.disabled \in BOOLEAN
           /\ s.armed \in BOOLEAN /\ s.dropped \in SUBSET K
           /\ s.erased \in SUBSET K /\ s.removed \in Nat
BY DEF Context

\* What a cancellation leaves of the context s.
Cancelled(s, c) ==
    /\ c.ticket = "none" /\ c.left = 0 /\ c.outstanding = 0
    /\ c.text = s.text /\ c.removed = s.removed
    /\ (c.disabled <=> s.disabled) /\ (c.cycle <=> s.cycle)
    /\ s.grace => c.grace
    /\ s.outstanding = 0 => (c.grace <=> s.grace)
    /\ ~c.grace => ~s.grace /\ s.outstanding = 0
    /\ (IF c.tail THEN 1 ELSE 0) <= s.left + (IF s.tail THEN 1 ELSE 0)

\* A cancelled batch may type one more key, and the keys on their way have the grace.
LEMMA CancelGood ==
    ASSUME NEW K, NEW s \in Context(K), s.ticket = "none" => s.outstanding = 0
    PROVE  Cancel(s) \in Context(K) /\ Cancelled(s, Cancel(s))
<1> DEFINE g == s.grace \/ (s.ticket # "none" /\ s.outstanding > 0)
           o == IF s.ticket = "none" THEN s.outstanding ELSE 0
           x == s.tail \/ (s.ticket = "Running" /\ s.left > 0)
           c == [s EXCEPT !.grace = g, !.outstanding = o, !.tail = x, !.left = 0,
                          !.ticket = "none"]
<1>1. c = Cancel(s)
  BY DEF Cancel
<1>2. /\ s.outstanding \in Nat /\ s.grace \in BOOLEAN /\ s.left \in Nat
      /\ s.tail \in BOOLEAN
  BY Typed
<1>3. g \in BOOLEAN /\ o \in Nat /\ x \in BOOLEAN
  BY <1>2
<1>4. /\ o = 0
      /\ ~g => ~s.grace /\ s.outstanding = 0
      /\ s.outstanding = 0 => (g <=> s.grace)
      /\ s.grace => g
  BY <1>2
<1>5. (IF x THEN 1 ELSE 0) <= s.left + (IF s.tail THEN 1 ELSE 0)
  BY <1>2
<1> HIDE DEF g, o, x
<1>6. /\ c \in Context(K)
      /\ c.ticket = "none" /\ c.left = 0 /\ c.outstanding = o /\ c.text = s.text
      /\ c.removed = s.removed /\ c.disabled = s.disabled /\ c.cycle = s.cycle
      /\ c.grace = g /\ c.tail = x
  BY ZenonT(60), <1>3 DEF Context, Tickets
<1> HIDE DEF c
<1>7. Cancelled(s, c)
  BY <1>4, <1>5, <1>6 DEF Cancelled
<1> QED
  BY <1>1, <1>6, <1>7

\* What is owed stays paid for: nothing waits any more.
LEMMA CancelSolvent ==
    ASSUME NEW K, NEW b \in Int, NEW w \in Int, NEW s \in Context(K), NEW c, NEW t,
           Solvent(s, b, w), Cancelled(s, c),
           t.settled = <<>>, t.removed = c.removed, t.left = 0, t.tail <=> c.tail,
           t.outstanding = 0, t.grace <=> c.grace
    PROVE  Solvent(t, b, w)
<1> DEFINE p == Count(s.settled, {Backspace})
           a == Count(s.settled, {Loopback, Backspace})
           x == IF s.tail THEN 1 ELSE 0
           y == IF t.tail THEN 1 ELSE 0
<1>1. s.settled \in Seq(K \cup {Loopback, Backspace}) /\ s.removed \in Nat /\ s.left \in Nat
  BY Typed
<1>2. p \in Nat /\ a \in Nat
  BY <1>1, CountNat
<1>3. Count(t.settled, {Backspace}) = 0 /\ Count(t.settled, {Loopback, Backspace}) = 0
  BY CountEmpty
<1>4. x \in Nat /\ y \in Nat /\ y <= s.left + x
  BY DEF Cancelled
<1>5. /\ Spent(s) = s.removed + p /\ Spent(t) = s.removed + 0
      /\ Owed(s) = s.removed + a + s.left + x /\ Owed(t) = s.removed + 0 + 0 + y
  BY <1>3 DEF Spent, Owed, Cancelled
<1> HIDE DEF p, a, x, y
<1>6. Spent(t) <= Spent(s) /\ Spent(s) \in Nat /\ Spent(t) \in Nat
  BY <1>1, <1>2, <1>5
<1>7. Owed(t) <= Owed(s) /\ Owed(s) \in Nat /\ Owed(t) \in Nat
  <2> DEFINE r == s.removed
             l == s.left
  <2>1. Owed(s) = r + a + l + x /\ Owed(t) = r + 0 + 0 + y /\ y <= l + x
    BY <1>4, <1>5
  <2>2. r \in Nat /\ l \in Nat
    BY <1>1
  <2> HIDE DEF r, l
  <2>3. Owed(t) <= Owed(s) /\ Owed(s) \in Nat /\ Owed(t) \in Nat
    BY <1>2, <1>4, <2>1, <2>2
  <2> QED
    BY <2>3
<1>8. Spent(t) <= b
  BY <1>6 DEF Solvent
<1>9. ASSUME ~t.grace PROVE Owed(t) <= w + t.outstanding
  <2>1. ~s.grace /\ s.outstanding = 0
    BY <1>9 DEF Cancelled
  <2>2. Owed(s) <= w
    BY <2>1 DEF Solvent
  <2> QED
    BY <1>7, <2>2
<1> QED
  BY <1>8, <1>9 DEF Solvent

\* What a reset leaves of the context s.
Cleared(s, r) ==
    /\ Quiet(r) /\ ~r.cycle /\ ~r.replayTimer
    /\ r.text = s.text /\ (r.disabled <=> s.disabled)
    /\ s.grace => r.grace
    /\ s.outstanding = 0 => (r.grace <=> s.grace)

\* reset() puts any context that can pay in order, and leaves nothing under way.
LEMMA ResetAny ==
    ASSUME Numbers, NEW K, NEW b \in Int, NEW w \in Int, NEW s \in Context(K),
           s.ticket = "none" => s.outstanding = 0, Solvent(s, b, w)
    PROVE  Reset(s) \in Fine(K, b, w) /\ Cleared(s, Reset(s))
<1> DEFINE c == Cancel(s)
           r == Reset(s)
<1>1. c \in Context(K) /\ Cancelled(s, c)
  BY CancelGood
<1>2. 0 \in 0..MaxDelete /\ 0 \in 0..3
  BY DEF Numbers
<1>10. /\ <<>> \in Seq(K) /\ <<>> \in Seq(Glyphs(K))
       /\ <<>> \in Seq(K \cup {Loopback, Backspace})
  BY NoKeys
<1> HIDE DEF c
<1>3. r = [c EXCEPT !.viet = <<>>, !.buffered = <<>>, !.settled = <<>>,
                    !.replayTimer = FALSE, !.settling = FALSE, !.safety = FALSE,
                    !.deleting = FALSE, !.pending = <<>>, !.expected = 0, !.seen = 0,
                    !.oldWord = <<>>, !.repairs = 0, !.cycle = FALSE, !.armed = FALSE]
  BY DEF Reset, c
<1> HIDE DEF r
<1> DEFINE e == <<>>
<1>11. /\ e \in Seq(K) /\ e \in Seq(Glyphs(K)) /\ e \in Seq(K \cup {Loopback, Backspace})
  BY <1>10
<1>12. r = [c EXCEPT !.viet = e, !.buffered = e, !.settled = e,
                    !.replayTimer = FALSE, !.settling = FALSE, !.safety = FALSE,
                    !.deleting = FALSE, !.pending = e, !.expected = 0, !.seen = 0,
                    !.oldWord = e, !.repairs = 0, !.cycle = FALSE, !.armed = FALSE]
  BY <1>3
<1>13. e = <<>>
  OBVIOUS
<1> HIDE DEF e
<1>14. r \in Context(K)
  <2> DEFINE d == [c EXCEPT !.viet = e, !.buffered = e, !.settled = e,
                    !.replayTimer = FALSE, !.settling = FALSE, !.safety = FALSE,
                    !.deleting = FALSE]
  <2>1. d \in Context(K)
    BY ZenonT(60), <1>1, <1>2, <1>11 DEF Context
  <2>2. r = [d EXCEPT !.pending = e, !.expected = 0, !.seen = 0,
                    !.oldWord = e, !.repairs = 0, !.cycle = FALSE, !.armed = FALSE]
    BY <1>1, <1>12 DEF Context
  <2> HIDE DEF d
  <2> QED
    BY ZenonT(60), <1>2, <1>11, <2>1, <2>2 DEF Context
<1>15. /\ r.settled = e /\ r.buffered = e /\ r.pending = e
       /\ ~r.deleting /\ ~r.settling /\ ~r.safety /\ ~r.replayTimer /\ ~r.cycle
       /\ r.expected = 0 /\ r.seen = 0 /\ r.ticket = c.ticket /\ r.left = c.left
       /\ r.outstanding = c.outstanding /\ r.text = c.text /\ r.removed = c.removed
       /\ r.disabled = c.disabled /\ r.grace = c.grace /\ r.tail = c.tail
  BY <1>1, <1>12 DEF Context
<1>4. /\ r \in Context(K)
      /\ r.settled = <<>> /\ r.buffered = <<>> /\ r.pending = <<>>
      /\ ~r.deleting /\ ~r.settling /\ ~r.safety /\ ~r.replayTimer /\ ~r.cycle
      /\ r.expected = 0 /\ r.seen = 0 /\ r.ticket = c.ticket /\ r.left = c.left
      /\ r.outstanding = c.outstanding /\ r.text = c.text /\ r.removed = c.removed
      /\ (r.disabled <=> c.disabled) /\ (r.grace <=> c.grace) /\ (r.tail <=> c.tail)
  BY <1>13, <1>14, <1>15
<1>5. BatchInv(r)
  BY <1>1, <1>4 DEF BatchInv, Cancelled
<1>6. Solvent(r, b, w)
  <2>1. r.left = 0 /\ r.outstanding = 0
    BY <1>1, <1>4 DEF Cancelled
  <2> QED
    BY <1>1, <1>4, <2>1, CancelSolvent
<1>7. r.seen <= r.expected
  BY <1>4
<1>8. r \in Fine(K, b, w)
  BY <1>4, <1>5, <1>6, <1>7 DEF Fine
<1>9. Cleared(s, r)
  BY <1>1, <1>4 DEF Cleared, Cancelled, Quiet
<1> QED
  BY <1>8, <1>9 DEF r

\* No injected key is awaited without a batch, or outside a replacement.
LEMMA BatchOwed ==
    ASSUME NEW K, NEW b, NEW w, NEW s \in Fine(K, b, w)
    PROVE  /\ s.ticket = "none" => s.outstanding = 0
           /\ ~s.deleting => s.outstanding = 0
<1>1. BatchInv(s)
  BY DEF Fine
<1>2. /\ IF s.deleting THEN s.ticket # "none" ELSE s.ticket \in {"none", "Complete"}
      /\ s.outstanding = IF s.deleting /\ ~s.settling THEN s.expected - s.seen + 1 ELSE 0
  BY <1>1 DEF BatchInv
<1> QED
  BY <1>2

\* reset() keeps the order, ends the replacement and the cycle, and shows the same text.
LEMMA ResetFine ==
    ASSUME Numbers, NEW K, NEW b \in Int, NEW w \in Int, NEW s \in Fine(K, b, w)
    PROVE  /\ Reset(s) \in Fine(K, b, w) /\ Quiet(Reset(s)) /\ ~Reset(s).cycle
           /\ ~Reset(s).replayTimer
           /\ Reset(s).text = s.text /\ (Reset(s).disabled <=> s.disabled)
           /\ s.grace => Reset(s).grace
           /\ ~s.deleting => (Reset(s).grace <=> s.grace)
<1>1. s \in Context(K) /\ Solvent(s, b, w)
  BY DEF Fine
<1>2. /\ s.ticket = "none" => s.outstanding = 0
      /\ ~s.deleting => s.outstanding = 0
  BY BatchOwed
<1>3. Reset(s) \in Fine(K, b, w) /\ Cleared(s, Reset(s))
  BY <1>1, <1>2, ResetAny
<1> QED
  BY <1>2, <1>3 DEF Cleared

\* What giving the context up leaves of it: the word and the cycle stay as they were.
LEMMA AbandonFine ==
    ASSUME Numbers, NEW K, NEW b \in Int, NEW w \in Int, NEW s \in Fine(K, b, w)
    PROVE  LET r == Abandon(s)
           IN  /\ r \in Fine(K, b, w) /\ Quiet(r) /\ ~r.replayTimer /\ r.text = s.text
               /\ (r.disabled <=> s.disabled) /\ (r.cycle <=> s.cycle)
<1> DEFINE c == Cancel(s)
           r == Abandon(s)
<1>0. s \in Context(K) /\ Solvent(s, b, w)
  BY DEF Fine
<1>1. c \in Context(K) /\ Cancelled(s, c)
  BY <1>0, CancelGood, BatchOwed
<1>2. 0 \in 0..MaxDelete
  BY DEF Numbers
<1> HIDE DEF c
<1>3. r = [c EXCEPT !.viet = <<>>, !.buffered = <<>>, !.settled = <<>>,
                    !.replayTimer = FALSE, !.settling = FALSE, !.safety = FALSE,
                    !.deleting = FALSE, !.pending = <<>>, !.expected = 0, !.seen = 0]
  BY DEF Abandon, c
<1> HIDE DEF r
<1>4. /\ r \in Context(K)
      /\ r.settled = <<>> /\ r.buffered = <<>> /\ r.pending = <<>>
      /\ ~r.deleting /\ ~r.settling /\ ~r.safety /\ ~r.replayTimer
      /\ r.expected = 0 /\ r.seen = 0 /\ r.ticket = c.ticket /\ r.left = c.left
      /\ r.outstanding = c.outstanding /\ r.text = c.text /\ r.removed = c.removed
      /\ (r.disabled <=> c.disabled) /\ (r.grace <=> c.grace) /\ (r.tail <=> c.tail)
      /\ (r.cycle <=> c.cycle)
  BY ZenonT(60), <1>1, <1>2, <1>3, NoKeys DEF Context
<1>5. BatchInv(r)
  BY <1>1, <1>4 DEF BatchInv, Cancelled
<1>6. Solvent(r, b, w)
  <2>1. r.left = 0 /\ r.outstanding = 0
    BY <1>1, <1>4 DEF Cancelled
  <2> QED
    BY <1>0, <1>1, <1>4, <2>1, CancelSolvent
<1>7. r.seen <= r.expected
  BY <1>4
<1>8. r \in Fine(K, b, w)
  BY <1>4, <1>5, <1>6, <1>7 DEF Fine
<1>9. /\ Quiet(r) /\ ~r.replayTimer /\ r.text = s.text
      /\ (r.disabled <=> s.disabled) /\ (r.cycle <=> s.cycle)
  BY <1>1, <1>4 DEF Cancelled, Quiet
<1> QED
  BY <1>8, <1>9 DEF r

---------------------------------------------------------------------------
(* Letting keys through, and composing.                                    *)

Env == Numbers /\ effect \in [Keys -> Effects]

\* What the keys held during a settle may delete, and what they may have been injected for.
LEMMA Counts ==
    ASSUME NEW K, NEW s \in Context(K)
    PROVE  /\ Count(s.settled, {Backspace}) \in Nat
           /\ Count(s.settled, {Loopback, Backspace}) \in Nat
           /\ Count(s.settled, {Backspace}) <= Count(s.settled, {Loopback, Backspace})
<1>1. s.settled \in Seq(K \cup {Loopback, Backspace})
  BY Typed
<1>2. {Backspace} \subseteq {Loopback, Backspace}
  OBVIOUS
<1> QED
  BY <1>1, <1>2, CountNat, CountMore

\* What a key may cost: of the user's Backspaces, and of any.
Pays(i) == IF i = Backspace THEN 1 ELSE 0
Weighs(i) == IF IsBack(i) THEN 1 ELSE 0

\* A letter is no Backspace.
LEMMA Letter ==
    ASSUME Numbers
    PROVE  \A k \in Keys : ~IsBack(k) /\ Pays(k) = 0 /\ Weighs(k) = 0
BY DEF Numbers, Keys, IsBack, Pays, Weighs, Loopback, Backspace

\* A sequence without its last element, and the last element.
LEMMA Fronts ==
    ASSUME NEW S, NEW q \in Seq(S), q # <<>>
    PROVE  Front1(q) \in Seq(S) /\ Last(q) \in S
BY DEF Front1, Last

\* The end of a sequence.
LEMMA Lasts ==
    ASSUME NEW S, NEW q \in Seq(S), NEW n \in 0..Len(q)
    PROVE  LastN(q, n) \in Seq(S)
BY DEF LastN

\* A composition deletes no more glyphs than the word has, nor than MaxDelete.
LEMMA Depths ==
    ASSUME Env, NEW S, NEW q \in Seq(S), NEW k \in Keys
    PROVE  /\ Depth(q, k) \in 0..Len(q)
           /\ effect[k] # Separator => Depth(q, k) \in 0..MaxDelete
<1>1. effect[k] \in 0..(MaxDelete + 1) /\ MaxDelete \in Nat /\ Len(q) \in Nat
  BY DEF Env, Numbers, Effects, Separator
<1> QED
  BY <1>1 DEF Depth, AtMost, Separator

\* A composed word is made of its letters and the key; a deletion keeps its length.
LEMMA Composed ==
    ASSUME Env, NEW K, K \subseteq Keys, NEW q \in Seq(Glyphs(K)), NEW k \in K
    PROVE  /\ Compose(q, k) \in Seq(Glyphs(K))
           /\ Depth(q, k) # 0 => Len(Compose(q, k)) = Len(q)
<1> DEFINE d == Depth(q, k)
           n == Len(q) - d + 1
           g == q[n] \cup {k}
<1>1. d \in 0..Len(q) /\ Len(q) \in Nat
  BY Depths
<1>2. {k} \in Glyphs(K)
  <2>1. {k} \in SUBSET K /\ {k} # {}
    OBVIOUS
  <2> QED
    BY <2>1 DEF Glyphs
<1>3. CASE d = 0
  <2>1. Compose(q, k) = Append(q, {k})
    BY <1>3 DEF Compose
  <2> QED
    BY <1>2, <1>3, <2>1
<1>4. CASE d # 0
  <2>1. Compose(q, k) = [q EXCEPT ![n] = g]
    BY <1>4 DEF Compose
  <2> HIDE DEF d
  <2>2. n \in 1..Len(q)
    BY <1>1, <1>4
  <2>3. q[n] \in Glyphs(K)
    BY <2>2, ElementOfSeq
  <2>4. g \in Glyphs(K)
    <3>1. q[n] \in SUBSET K
      BY <2>3 DEF Glyphs
    <3>2. g \in SUBSET K /\ g # {}
      BY <3>1
    <3> HIDE DEF g
    <3> QED
      BY <3>2 DEF Glyphs
  <2> HIDE DEF n, g
  <2> QED
    BY <2>1, <2>2, <2>4, ExceptSeq
<1> QED
  BY <1>3, <1>4

\* A Backspace that has been paid for may delete a glyph.
LEMMA EraseFine ==
    ASSUME NEW K, NEW b \in Int, NEW w \in Int, w <= b, NEW i \in {Loopback, Backspace},
           NEW s \in Fine(K, b - Pays(i), w - 1), ~s.deleting, ~s.grace
    PROVE  Erase(s) \in Fine(K, b, w)
<1>1. s \in Context(K) /\ s.seen <= s.expected /\ BatchInv(s)
      /\ Solvent(s, b - Pays(i), w - 1)
  BY DEF Fine
<1>2. Pays(i) \in {0, 1}
  BY DEF Pays
<1>3. s.removed \in Nat /\ s.left \in Nat /\ s.text \in Seq(Glyphs(K)) /\ s.erased \in SUBSET K
  BY <1>1, Typed
<1>4. s.outstanding = 0
  BY <1>1 DEF BatchInv
<1> DEFINE p == Count(s.settled, {Backspace})
           a == Count(s.settled, {Loopback, Backspace})
<1>8. p \in Nat /\ a \in Nat /\ p <= a
  BY <1>1, Counts
<1>9. /\ Spent(s) = s.removed + p
      /\ Owed(s) = s.removed + a + s.left + (IF s.tail THEN 1 ELSE 0)
  BY DEF Spent, Owed
<1> HIDE DEF p, a
<1>5. Spent(s) + 1 <= b /\ Owed(s) + 1 <= w
  <2>1. Owed(s) <= (w - 1) + s.outstanding /\ Owed(s) \in Nat
    BY SMTT(60), <1>1, <1>3, <1>8, <1>9 DEF Solvent
  <2>2. Owed(s) + 1 <= w
    BY <1>4, <2>1
  <2>3. Spent(s) <= Owed(s) /\ Spent(s) \in Nat
    BY SMTT(60), <1>3, <1>8, <1>9
  <2> QED
    BY <2>1, <2>2, <2>3
<1>6. CASE s.text = <<>>
  <2>1. Solvent(s, b, w)
    BY SMTT(60), <1>1, <1>2, <1>3, <1>4, <1>5, <1>8, <1>9 DEF Solvent
  <2>2. Erase(s) = s
    BY <1>6 DEF Erase
  <2> QED
    BY <1>1, <2>1, <2>2 DEF Fine
<1>7. CASE s.text # <<>>
  <2> DEFINE f == Front1(s.text)
             e == s.erased \cup Last(s.text)
             r == s.removed + 1
             t == [s EXCEPT !.text = f, !.erased = e, !.removed = r]
  <2>1. f \in Seq(Glyphs(K)) /\ e \in SUBSET K /\ r \in Nat
    <3>1. f \in Seq(Glyphs(K)) /\ Last(s.text) \in Glyphs(K)
      BY <1>3, <1>7, Fronts
    <3>2. Last(s.text) \in SUBSET K
      BY <3>1 DEF Glyphs
    <3> QED
      BY <1>3, <3>1, <3>2
  <2>2. t = Erase(s)
    BY <1>7 DEF Erase
  <2>3. r = s.removed + 1
    OBVIOUS
  <2> HIDE DEF f, e, r
  <2>4. /\ t \in Context(K) /\ t.seen <= t.expected
        /\ t.removed = r /\ t.settled = s.settled /\ t.left = s.left /\ t.tail = s.tail
        /\ t.grace = s.grace /\ t.outstanding = s.outstanding
    BY <1>1, <2>1 DEF Context
  <2>5. BatchInv(t)
    BY <1>1 DEF BatchInv, Context
  <2> HIDE DEF t
  <2>7. /\ Spent(t) = t.removed + p
        /\ Owed(t) = t.removed + a + t.left + (IF t.tail THEN 1 ELSE 0)
    BY <2>4 DEF Spent, Owed, p, a
  <2>6. Solvent(t, b, w)
    <3> DEFINE x == IF s.tail THEN 1 ELSE 0
               l == s.left
               m == s.removed
    <3>3. /\ Spent(s) = m + p /\ Owed(s) = m + a + l + x
          /\ Spent(t) = (m + 1) + p /\ Owed(t) = (m + 1) + a + l + x
      BY <1>9, <2>3, <2>4, <2>7
    <3>4. x \in Nat /\ l \in Nat /\ m \in Nat
      BY <1>3
    <3> HIDE DEF x, l, m
    <3>1. Spent(t) = Spent(s) + 1 /\ Owed(t) = Owed(s) + 1
      BY <1>8, <3>3, <3>4
    <3>2. t.outstanding = 0
      BY <1>4, <2>4
    <3> QED
      BY <1>5, <3>1, <3>2 DEF Solvent
  <2> QED
    BY <2>2, <2>4, <2>5, <2>6 DEF Fine
<1> QED
  BY <1>6, <1>7

---------------------------------------------------------------------------
(* Starting a replacement.                                                 *)

\* Whether a context can pay depends on six of its fields.
LEMMA SolventKept ==
    ASSUME NEW s, NEW t, NEW b, NEW w, Solvent(s, b, w),
           t.removed = s.removed, t.settled = s.settled, t.left = s.left, t.tail = s.tail,
           t.grace = s.grace, t.outstanding = s.outstanding
    PROVE  Solvent(t, b, w)
BY DEF Solvent, Spent, Owed

\* It can pay the better, the more Backspaces have come.
LEMMA Richer ==
    ASSUME NEW K, NEW b \in Int, NEW w \in Int, NEW c \in Int, NEW v \in Int, c <= b, v <= w,
           NEW s \in Fine(K, c, v)
    PROVE  s \in Fine(K, b, w)
<1>1. s \in Context(K) /\ s.seen <= s.expected /\ BatchInv(s) /\ Solvent(s, c, v)
  BY DEF Fine
<1>2. s.removed \in Nat /\ s.left \in Nat /\ s.outstanding \in Nat
  BY <1>1, Typed
<1>3. Spent(s) \in Nat /\ Owed(s) \in Nat
  BY SMTT(60), <1>1, <1>2, Counts DEF Spent, Owed
<1>4. Solvent(s, b, w)
  BY <1>1, <1>2, <1>3 DEF Solvent
<1> QED
  BY <1>1, <1>4 DEF Fine

\* The text on the screen is free to change.
LEMMA TypedOn ==
    ASSUME NEW K, NEW b, NEW w, NEW s \in Fine(K, b, w), NEW x \in Seq(Glyphs(K))
    PROVE  LET t == [s EXCEPT !.text = x]
           IN  /\ t \in Fine(K, b, w)
               /\ t.text = x /\ t.viet = s.viet /\ t.settled = s.settled
               /\ t.buffered = s.buffered /\ (t.deleting <=> s.deleting)
               /\ (t.replayTimer <=> s.replayTimer) /\ (t.grace <=> s.grace)
               /\ t.outstanding = s.outstanding /\ (t.cycle <=> s.cycle)
               /\ (t.disabled <=> s.disabled) /\ (t.settling <=> s.settling)
               /\ (t.safety <=> s.safety)
<1> DEFINE t == [s EXCEPT !.text = x]
<1>1. s \in Context(K) /\ s.seen <= s.expected /\ BatchInv(s) /\ Solvent(s, b, w)
  BY DEF Fine
<1>2. /\ t \in Context(K) /\ t.seen <= t.expected
      /\ t.removed = s.removed /\ t.settled = s.settled /\ t.left = s.left
      /\ t.tail = s.tail /\ t.grace = s.grace /\ t.outstanding = s.outstanding
      /\ t.text = x /\ t.viet = s.viet /\ t.buffered = s.buffered
      /\ t.deleting = s.deleting /\ t.replayTimer = s.replayTimer
      /\ t.cycle = s.cycle /\ t.disabled = s.disabled /\ t.settling = s.settling
      /\ t.safety = s.safety
  BY <1>1 DEF Context
<1>3. BatchInv(t)
  BY <1>1 DEF BatchInv, Context
<1>4. Solvent(t, b, w)
  BY <1>1, <1>2, SolventKept
<1> QED
  BY <1>1, <1>2, <1>3, <1>4 DEF Fine

\* The word may be anything.
LEMMA WordFine ==
    ASSUME NEW K, NEW b, NEW w, NEW s \in Fine(K, b, w), NEW x \in Seq(Glyphs(K))
    PROVE  [s EXCEPT !.viet = x] \in Fine(K, b, w)
<1> DEFINE t == [s EXCEPT !.viet = x]
<1>1. s \in Context(K) /\ s.seen <= s.expected /\ BatchInv(s) /\ Solvent(s, b, w)
  BY DEF Fine
<1>2. /\ t \in Context(K) /\ t.seen <= t.expected
      /\ t.removed = s.removed /\ t.settled = s.settled /\ t.left = s.left
      /\ t.tail = s.tail /\ t.grace = s.grace /\ t.outstanding = s.outstanding
  BY <1>1 DEF Context
<1>3. BatchInv(t)
  BY <1>1 DEF BatchInv, Context
<1>4. Solvent(t, b, w)
  BY <1>1, <1>2, SolventKept
<1> QED
  BY <1>1, <1>2, <1>3, <1>4 DEF Fine

\* The guard may be armed or not.
LEMMA ArmedFine ==
    ASSUME NEW K, NEW b, NEW w, NEW s \in Fine(K, b, w), NEW g \in BOOLEAN
    PROVE  [s EXCEPT !.armed = g] \in Fine(K, b, w)
<1> DEFINE t == [s EXCEPT !.armed = g]
<1>1. s \in Context(K) /\ s.seen <= s.expected /\ BatchInv(s) /\ Solvent(s, b, w)
  BY DEF Fine
<1>2. /\ t \in Context(K) /\ t.seen <= t.expected
      /\ t.removed = s.removed /\ t.settled = s.settled /\ t.left = s.left
      /\ t.tail = s.tail /\ t.grace = s.grace /\ t.outstanding = s.outstanding
  BY <1>1 DEF Context
<1>3. BatchInv(t)
  BY <1>1 DEF BatchInv, Context
<1>4. Solvent(t, b, w)
  BY <1>1, <1>2, SolventKept
<1> QED
  BY <1>1, <1>2, <1>3, <1>4 DEF Fine

\* It is a fact of the application whether it can be.
LEMMA GuardedBool == Guarded \in BOOLEAN
BY DEF Guarded

\* What the guard drops changes nothing but the history.
LEMMA DropSame ==
    ASSUME NEW K, NEW s \in Context(K), NEW i \in K
    PROVE  LET t == Drop(s, i)
           IN  /\ t \in Context(K)
               /\ t.text = s.text /\ t.viet = s.viet /\ t.pending = s.pending
               /\ t.oldWord = s.oldWord /\ (t.deleting <=> s.deleting)
               /\ (t.settling <=> s.settling) /\ t.expected = s.expected /\ t.seen = s.seen
               /\ t.outstanding = s.outstanding /\ t.repairs = s.repairs
               /\ t.buffered = s.buffered /\ t.settled = s.settled
               /\ (t.replayTimer <=> s.replayTimer) /\ (t.grace <=> s.grace)
               /\ (t.safety <=> s.safety) /\ (t.retried <=> s.retried)
               /\ t.ticket = s.ticket /\ t.left = s.left /\ (t.tail <=> s.tail)
               /\ (t.cycle <=> s.cycle) /\ (t.disabled <=> s.disabled)
               /\ (t.armed <=> s.armed) /\ t.dropped = s.dropped \cup {i}
               /\ t.erased = s.erased /\ t.removed = s.removed
<1> DEFINE e == s.dropped \cup {i}
<1>1. e \in SUBSET K
  BY Typed
<1>2. Drop(s, i) = [s EXCEPT !.dropped = e]
  BY DEF Drop
<1> HIDE DEF e
<1>3. PICK t : t = [s EXCEPT !.dropped = e]
  OBVIOUS
<1>4. t \in Context(K)
  BY ZenonT(60), <1>1, <1>3 DEF Context
<1>5. /\ t.text = s.text /\ t.viet = s.viet /\ t.pending = s.pending
      /\ t.oldWord = s.oldWord /\ t.deleting = s.deleting
      /\ t.settling = s.settling /\ t.expected = s.expected /\ t.seen = s.seen
      /\ t.outstanding = s.outstanding /\ t.repairs = s.repairs
      /\ t.buffered = s.buffered /\ t.settled = s.settled
      /\ t.replayTimer = s.replayTimer /\ t.grace = s.grace
      /\ t.safety = s.safety /\ t.retried = s.retried
      /\ t.ticket = s.ticket /\ t.left = s.left /\ t.tail = s.tail
      /\ t.cycle = s.cycle /\ t.disabled = s.disabled
      /\ t.armed = s.armed /\ t.dropped = e
      /\ t.erased = s.erased /\ t.removed = s.removed
  BY ZenonT(60), <1>3 DEF Context
<1> QED
  BY <1>2, <1>3, <1>4, <1>5 DEF e

LEMMA DropFine ==
    ASSUME NEW K, NEW b, NEW w, NEW s \in Fine(K, b, w), NEW i \in K
    PROVE  Drop(s, i) \in Fine(K, b, w)
<1>1. s \in Context(K) /\ s.seen <= s.expected /\ BatchInv(s) /\ Solvent(s, b, w)
  BY DEF Fine
<1>2. PICK t : t = Drop(s, i)
  OBVIOUS
<1>3. /\ t \in Context(K) /\ t.seen <= t.expected
      /\ t.removed = s.removed /\ t.settled = s.settled /\ t.left = s.left
      /\ (t.tail <=> s.tail) /\ (t.grace <=> s.grace) /\ t.outstanding = s.outstanding
      /\ (t.deleting <=> s.deleting) /\ t.ticket = s.ticket
      /\ (t.settling <=> s.settling) /\ t.expected = s.expected /\ t.seen = s.seen
      /\ (t.safety <=> s.safety) /\ (t.replayTimer <=> s.replayTimer)
      /\ t.pending = s.pending
  BY <1>1, <1>2, DropSame
<1>4. BatchInv(t)
  BY <1>1, <1>3 DEF BatchInv
<1>5. Solvent(t, b, w)
  BY <1>1, <1>3 DEF Solvent, Spent, Owed
<1> QED
  BY <1>2, <1>3, <1>4, <1>5 DEF Fine

\* The guard takes letters only.
LEMMA RepeatsKey ==
    ASSUME NEW K, NEW s, NEW i \in K \cup {Loopback, Backspace}, Repeats(s, i)
    PROVE  i \in K /\ ~IsBack(i) /\ Pays(i) = 0 /\ Weighs(i) = 0
BY DEF Repeats, IsBack, Pays, Weighs

\* A key that is let through: a Backspace has been paid for, and none is swallowed.
LEMMA RawFine ==
    ASSUME Numbers, NEW K, K \subseteq Keys, NEW b \in Int, NEW w \in Int, w <= b,
           NEW i \in K \cup {Loopback, Backspace},
           NEW s \in Fine(K, b - Pays(i), w - Weighs(i)), ~s.deleting, IsBack(i) => ~s.grace
    PROVE  Raw(s, i) \in Fine(K, b, w)
<1>1. CASE IsBack(i)
  <2>1. i \in {Loopback, Backspace} /\ Weighs(i) = 1 /\ Raw(s, i) = Erase(s) /\ ~s.grace
    BY <1>1 DEF IsBack, Weighs, Raw
  <2> QED
    BY <2>1, EraseFine
<1>2. CASE ~IsBack(i)
  <2>1. i \in K /\ i \in Keys /\ Pays(i) = 0 /\ Weighs(i) = 0
    BY <1>2 DEF IsBack, Pays, Weighs
  <2>2. s \in Fine(K, b, w)
    BY <2>1
  <2> DEFINE x == Append(s.text, {i})
  <2>3. x \in Seq(Glyphs(K))
    <3>1. {i} \in SUBSET K /\ {i} # {}
      BY <2>1
    <3>2. {i} \in Glyphs(K)
      BY <3>1 DEF Glyphs
    <3>3. s.text \in Seq(Glyphs(K))
      BY <2>2, Typed DEF Fine
    <3> QED
      BY <3>2, <3>3, AppendProperties
  <2>4. Raw(s, i) = [s EXCEPT !.text = x]
    BY <1>2 DEF Raw
  <2> HIDE DEF x
  <2> QED
    BY <2>2, <2>3, <2>4, TypedOn
<1> QED
  BY <1>1, <1>2

\* A replacement starts in order: nothing else may be under way.
LEMMA ReplaceFine ==
    ASSUME Env, NEW K, K \subseteq Keys, NEW b \in Int, NEW w \in Int,
           NEW k \in K, NEW s \in Fine(K, b, w), ~s.deleting, ~s.grace, ~s.replayTimer,
           effect[k] # Separator, Depth(s.viet, k) # 0
    PROVE  LET t == Replace(s, k)
           IN  /\ t \in Fine(K, b, w) /\ t.deleting /\ t.text = s.text
               /\ t.settled = s.settled /\ (t.cycle <=> s.cycle)
               /\ (t.disabled <=> s.disabled)
               /\ ~t.grace /\ ~t.replayTimer
<1> DEFINE d == Depth(s.viet, k)
           n == Compose(s.viet, k)
           p == LastN(n, d)
           o == s.outstanding + (d + 1)
           t == [s EXCEPT !.ticket = "Queued", !.left = d + 1, !.outstanding = o,
                          !.viet = n, !.expected = d, !.seen = 0, !.pending = p,
                          !.deleting = TRUE, !.safety = TRUE]
<1>1. s \in Context(K) /\ s.seen <= s.expected /\ BatchInv(s) /\ Solvent(s, b, w)
  BY DEF Fine
<1>2. s.viet \in Seq(Glyphs(K)) /\ k \in Keys /\ s.left \in Nat /\ s.outstanding \in Nat
      /\ s.removed \in Nat
  BY <1>1, Typed
<1>3. d \in 0..Len(s.viet) /\ d \in 0..MaxDelete /\ d # 0 /\ MaxDelete \in Nat
  BY <1>2, Depths DEF Env, Numbers
<1>4. n \in Seq(Glyphs(K)) /\ Len(n) = Len(s.viet)
  BY <1>2, Composed
<1> HIDE DEF d, n
<1>5. p \in Seq(Glyphs(K))
  BY <1>3, <1>4, Lasts
<1>6. o \in Nat /\ d + 1 \in Nat /\ 0 \in 0..MaxDelete
  BY <1>2, <1>3
<1>7. t = Replace(s, k)
  BY <1>1 DEF Replace, Send, d, n, Context
<1>8. ~s.settling /\ s.outstanding = 0 /\ s.left = 0
  BY <1>1 DEF BatchInv
<1> DEFINE l == d + 1
<1>9. l = d + 1 /\ o = l
  BY <1>3, <1>8
<1> HIDE DEF p, o, l
<1>10. t = [s EXCEPT !.ticket = "Queued", !.left = l, !.outstanding = o,
                          !.viet = n, !.expected = d, !.seen = 0, !.pending = p,
                          !.deleting = TRUE, !.safety = TRUE]
  BY <1>9
<1> HIDE DEF t
<1>11. /\ t \in Context(K) /\ t.ticket = "Queued" /\ t.left = l /\ t.outstanding = o
       /\ t.expected = d /\ t.seen = 0 /\ t.deleting = TRUE /\ t.safety = TRUE
       /\ t.settling = s.settling /\ t.grace = s.grace /\ t.replayTimer = s.replayTimer
       /\ t.text = s.text /\ t.settled = s.settled /\ t.cycle = s.cycle
       /\ t.disabled = s.disabled /\ t.removed = s.removed /\ t.tail = s.tail
  BY ZenonT(60), <1>1, <1>3, <1>4, <1>5, <1>6, <1>9, <1>10 DEF Context, Tickets
<1>12. BatchInv(t)
  BY <1>3, <1>8, <1>9, <1>11 DEF BatchInv
<1>13. Solvent(t, b, w)
  <2>1. Count(s.settled, {Loopback, Backspace}) \in Nat
    BY <1>1, Counts
  <2>2. Owed(t) = Owed(s) + l /\ Owed(s) \in Nat /\ l \in Nat
    BY <1>2, <1>6, <1>8, <1>9, <1>11, <2>1 DEF Owed
  <2>3. Owed(s) <= w + s.outstanding
    BY <1>1 DEF Solvent
  <2>4. Owed(t) <= w + t.outstanding
    BY <1>8, <1>9, <1>11, <2>2, <2>3
  <2>5. Spent(t) = Spent(s)
    BY <1>11 DEF Spent
  <2> QED
    BY <1>1, <2>4, <2>5 DEF Solvent
<1>14. t.seen <= t.expected
  BY <1>3, <1>11
<1>15. t \in Fine(K, b, w)
  BY <1>11, <1>12, <1>13, <1>14 DEF Fine
<1>16. /\ t.deleting /\ t.text = s.text /\ t.settled = s.settled /\ (t.cycle <=> s.cycle)
       /\ (t.disabled <=> s.disabled) /\ ~t.grace /\ ~t.replayTimer
  BY <1>11
<1> QED
  BY <1>7, <1>15, <1>16

---------------------------------------------------------------------------
(* A key during a replacement.                                             *)

\* A key that finds no replacement under way.
LEMMA TypeFine ==
    ASSUME Env, NEW K, K \subseteq Keys, NEW b \in Int, NEW w \in Int, w <= b,
           NEW i \in K \cup {Loopback, Backspace},
           NEW s \in Fine(K, b - Pays(i), w - Weighs(i)), ~s.deleting, ~s.grace,
           ~s.replayTimer
    PROVE  Type(s, i) \in Fine(K, b, w)
<1>1. s \in Context(K) /\ s.viet \in Seq(Glyphs(K))
  BY Typed DEF Fine
<1>2. Raw(s, i) \in Fine(K, b, w)
  BY RawFine DEF Env
<1>3. Raw(s, i) \in Context(K)
  BY <1>2 DEF Fine
<1>4. CASE IsBack(i)
  <2> DEFINE r == Raw(s, i)
             x == IF r.viet = <<>> THEN r.viet ELSE Front1(r.viet)
  <2>1. r = Erase(s)
    BY <1>4 DEF Raw
  <2>2. x \in Seq(Glyphs(K))
    BY <1>3, Typed, Fronts
  <2>3. Type(s, i) = [r EXCEPT !.viet = x]
    <3>1. Type(s, i) = [Erase(s) EXCEPT !.viet = IF @ = <<>> THEN @ ELSE Front1(@)]
      BY <1>4 DEF Type
    <3> QED
      BY <2>1, <3>1
  <2> HIDE DEF r, x
  <2>4. r \in Fine(K, b, w)
    BY <1>2 DEF r
  <2> QED
    BY <2>2, <2>3, <2>4, WordFine
<1>5. CASE ~IsBack(i)
  <2>1. i \in K /\ i \in Keys /\ Pays(i) = 0 /\ Weighs(i) = 0
    BY <1>5 DEF IsBack, Pays, Weighs
  <2>2. s \in Fine(K, b, w)
    BY <2>1
  <2>3. CASE effect[i] = Separator
    <3> DEFINE r == Raw(s, i)
    <3>1. Type(s, i) = [r EXCEPT !.viet = <<>>]
      BY <1>5, <2>3 DEF Type
    <3> HIDE DEF r
    <3>2. r \in Fine(K, b, w)
      BY <1>2 DEF r
    <3> DEFINE x == <<>>
    <3>3. x \in Seq(Glyphs(K))
      BY NoKeys
    <3>4. Type(s, i) = [r EXCEPT !.viet = x]
      BY <3>1
    <3> HIDE DEF x
    <3> QED
      BY <3>2, <3>3, <3>4, WordFine
  <2>4. CASE effect[i] # Separator /\ Depth(s.viet, i) = 0
    <3> DEFINE r == Raw(s, i)
               x == Compose(r.viet, i)
    <3>1. Type(s, i) = [[r EXCEPT !.viet = x] EXCEPT !.armed = Guarded]
      <4>1. Type(s, i) = [Raw(s, i) EXCEPT !.viet = Compose(@, i), !.armed = Guarded]
        BY <1>5, <2>4 DEF Type
      <4> QED
        BY <4>1
    <3>2. x \in Seq(Glyphs(K))
      BY <1>3, <2>1, Typed, Composed
    <3> HIDE DEF r, x
    <3>3. r \in Fine(K, b, w)
      BY <1>2 DEF r
    <3>4. [r EXCEPT !.viet = x] \in Fine(K, b, w)
      BY <3>2, <3>3, WordFine
    <3> DEFINE u == [r EXCEPT !.viet = x]
    <3>5. u \in Fine(K, b, w)
      BY <3>4
    <3>6. Type(s, i) = [u EXCEPT !.armed = Guarded]
      BY <3>1
    <3> HIDE DEF u
    <3> QED
      BY <3>5, <3>6, ArmedFine, GuardedBool
  <2>5. CASE effect[i] # Separator /\ Depth(s.viet, i) # 0 /\ Refused(s)
    <3> DEFINE r == Reset(s)
    <3>1. Type(s, i) = Raw(r, i)
      BY <1>5, <2>5 DEF Type
    <3>2. r \in Fine(K, b, w) /\ ~r.deleting /\ ~r.grace
      BY <2>2, ResetFine DEF Env, Quiet
    <3> HIDE DEF r
    <3>3. Raw(r, i) \in Fine(K, b, w)
      <4>1. r \in Fine(K, b - Pays(i), w - Weighs(i))
        BY <2>1, <3>2
      <4> QED
        BY <3>2, <4>1, RawFine DEF Env
    <3> QED
      BY <3>1, <3>3
  <2>6. CASE effect[i] # Separator /\ Depth(s.viet, i) # 0 /\ ~Refused(s)
    <3> DEFINE r == Replace(s, i)
    <3>1. Type(s, i) = [r EXCEPT !.oldWord = s.viet, !.repairs = 0, !.armed = Guarded]
      BY <1>5, <2>6 DEF Type
    <3>2. r \in Fine(K, b, w)
      BY <2>1, <2>2, <2>6, ReplaceFine
    <3> HIDE DEF r
    <3> DEFINE x == s.viet
               g == Guarded
               t == [r EXCEPT !.oldWord = x, !.repairs = 0, !.armed = g]
    <3> HIDE DEF x, g
    <3>3. x \in Seq(Glyphs(K)) /\ 0 \in 0..3 /\ g \in BOOLEAN
      BY <1>1, GuardedBool DEF x, g
    <3>4. /\ r \in Context(K) /\ r.seen <= r.expected /\ BatchInv(r) /\ Solvent(r, b, w)
      BY <3>2 DEF Fine
    <3>5. /\ t \in Context(K) /\ t.seen <= t.expected
          /\ t.removed = r.removed /\ t.settled = r.settled /\ t.left = r.left
          /\ t.tail = r.tail /\ t.grace = r.grace /\ t.outstanding = r.outstanding
      BY <3>3, <3>4 DEF Context
    <3>6. BatchInv(t)
      BY <3>4 DEF BatchInv, Context
    <3>7. Solvent(t, b, w)
      BY <3>4, <3>5, SolventKept
    <3>8. t \in Fine(K, b, w)
      BY <3>5, <3>6, <3>7 DEF Fine
    <3> QED
      BY <3>1, <3>8 DEF x, g
  <2> QED
    BY <2>3, <2>4, <2>5, <2>6
<1> QED
  BY <1>4, <1>5

\* A key during a replacement: a letter waits, an injected Backspace is counted.
LEMMA WhileDeletingFine ==
    ASSUME Numbers, NEW K, K \subseteq Keys, NEW b \in Int, NEW w \in Int, w <= b,
           NEW i \in K \cup {Loopback, Backspace}, NEW eaten \in BOOLEAN,
           NEW s \in Fine(K, b - Pays(i), w - Weighs(i)), s.deleting
    PROVE  WhileDeleting(s, i, eaten) \in Fine(K, b, w)
<1>1. s \in Context(K) /\ s.seen <= s.expected /\ BatchInv(s)
      /\ Solvent(s, b - Pays(i), w - Weighs(i))
  BY DEF Fine
<1>2. /\ s.seen \in 0..MaxDelete /\ s.expected \in 0..MaxDelete /\ MaxDelete \in Nat
      /\ s.outstanding \in Nat /\ s.text \in Seq(Glyphs(K)) /\ s.buffered \in Seq(K)
      /\ s.removed \in Nat /\ s.left \in Nat
  BY <1>1, Typed DEF Numbers
<1>5. CASE Repeats(s, i)
  <2>1. i \in K /\ Pays(i) = 0 /\ Weighs(i) = 0
    BY <1>5, RepeatsKey
  <2>2. s \in Fine(K, b, w)
    BY <2>1
  <2>3. WhileDeleting(s, i, eaten) = Drop(s, i)
    BY <1>5 DEF WhileDeleting
  <2> QED
    BY <2>1, <2>2, <2>3, DropFine
<1>3. CASE ~IsBack(i) /\ ~Repeats(s, i)
  <2>1. i \in K /\ Pays(i) = 0 /\ Weighs(i) = 0
    BY <1>3 DEF IsBack, Pays, Weighs
  <2>2. s \in Fine(K, b, w)
    BY <2>1
  <2> DEFINE q == Append(s.buffered, i)
             t == [s EXCEPT !.buffered = q]
  <2>3. q \in Seq(K)
    BY <1>2, <2>1, AppendProperties
  <2>4. WhileDeleting(s, i, eaten) \in {s, t}
    <3>1. WhileDeleting(s, i, eaten) =
            IF Len(s.buffered) < BufferCap THEN [s EXCEPT !.buffered = Append(@, i)] ELSE s
      BY <1>3 DEF WhileDeleting
    <3> QED
      BY <3>1
  <2> HIDE DEF q
  <2>5. /\ t \in Context(K) /\ t.seen <= t.expected
        /\ t.removed = s.removed /\ t.settled = s.settled /\ t.left = s.left
        /\ t.tail = s.tail /\ t.grace = s.grace /\ t.outstanding = s.outstanding
    BY <1>1, <2>3 DEF Context
  <2>6. BatchInv(t)
    BY <1>1 DEF BatchInv, Context
  <2>7. Solvent(t, b, w)
    BY <2>2, <2>5, SolventKept DEF Fine
  <2>8. t \in Fine(K, b, w)
    BY <2>5, <2>6, <2>7 DEF Fine
  <2> QED
    BY <2>2, <2>4, <2>8
<1>4. CASE IsBack(i)
  <2>1. Weighs(i) = 1 /\ Pays(i) \in {0, 1}
    BY <1>4 DEF Weighs, Pays
  <2> DEFINE o == IF s.outstanding > 0 THEN s.outstanding - 1 ELSE 0
             x == IF eaten \/ s.text = <<>> THEN s.text ELSE Front1(s.text)
             n == s.seen + 1
             a == [s EXCEPT !.seen = n, !.outstanding = o, !.text = x]
             c == [s EXCEPT !.safety = FALSE, !.retried = FALSE, !.outstanding = o,
                            !.expected = 0, !.seen = 0, !.settling = TRUE]
  <2>2. WhileDeleting(s, i, eaten) = IF s.seen < s.expected THEN a ELSE c
    <3>1. WhileDeleting(s, i, eaten) =
            IF s.seen < s.expected
            THEN [s EXCEPT !.seen = @ + 1, !.outstanding = IF @ > 0 THEN @ - 1 ELSE 0,
                      !.text = IF eaten \/ @ = <<>> THEN @ ELSE Front1(@)]
            ELSE [s EXCEPT !.safety = FALSE, !.retried = FALSE,
                      !.outstanding = IF @ > 0 THEN @ - 1 ELSE 0,
                      !.expected = 0, !.seen = 0, !.settling = TRUE]
      BY <1>4 DEF WhileDeleting, Repeats
    <3> QED
      BY <3>1
  <2>3. o \in Nat /\ x \in Seq(Glyphs(K))
    BY SMTT(60), <1>2, Fronts
  <2>4. ~s.settling => s.outstanding = s.expected - s.seen + 1
    BY <1>1 DEF BatchInv
  <2>5. s.settling => s.outstanding = 0 /\ s.expected = 0
    BY <1>1 DEF BatchInv
  <2>6. /\ ~s.settling => o = s.outstanding - 1
        /\ s.settling => o = 0
    BY SMTT(60), <1>1, <1>2, <2>4, <2>5
  <2> DEFINE u == Count(s.settled, {Loopback, Backspace})
  <2>7. u \in Nat
    BY <1>1, Counts
  <2>8. ~s.grace /\ Owed(s) <= w - 1 + s.outstanding /\ Spent(s) <= b - Pays(i)
    BY <1>1, <2>1 DEF Solvent, BatchInv
  <2>9. Owed(s) \in Nat /\ Spent(s) \in Nat
    <3>1. Count(s.settled, {Backspace}) \in Nat
      BY <1>1, Counts
    <3>2. Spent(s) \in Nat
      BY <1>2, <3>1 DEF Spent
    <3>3. Owed(s) = s.removed + u + s.left + (IF s.tail THEN 1 ELSE 0)
      BY DEF Owed
    <3> HIDE DEF u
    <3>4. Owed(s) \in Nat
      BY SMTT(60), <1>2, <2>7, <3>3
    <3> QED
      BY <3>2, <3>4
  <2>10. Owed(s) <= w + o /\ Spent(s) <= b
    <3>1. w - 1 + s.outstanding <= w + o
      BY <1>2, <2>3, <2>5, <2>6
    <3> HIDE DEF o
    <3>2. Owed(s) <= w + o
      BY <1>2, <2>3, <2>8, <2>9, <3>1
    <3>3. Spent(s) <= b
      BY <2>1, <2>8, <2>9
    <3> QED
      BY <3>2, <3>3
  <2>11. CASE s.seen < s.expected
    <3>1. n \in 0..MaxDelete /\ n <= s.expected /\ n = s.seen + 1
      BY SMTT(60), <1>2, <2>11
    <3>2. ~s.settling
      BY <1>2, <2>5, <2>11
    <3> HIDE DEF o, x, n
    <3>3. /\ a \in Context(K) /\ a.seen = n /\ a.expected = s.expected
          /\ a.removed = s.removed /\ a.settled = s.settled /\ a.left = s.left
          /\ a.tail = s.tail /\ a.grace = s.grace /\ a.outstanding = o
          /\ a.deleting = s.deleting /\ a.settling = s.settling /\ a.safety = s.safety
          /\ a.replayTimer = s.replayTimer /\ a.ticket = s.ticket /\ a.pending = s.pending
      BY ZenonT(60), <1>1, <2>3, <3>1 DEF Context
    <3> HIDE DEF a
    <3>4. BatchInv(a)
      <4> DEFINE e == s.expected
                 k == s.seen
      <4>1. s.outstanding = e - k + 1 /\ e \in Int /\ k \in Int
        BY <1>2, <2>4, <3>2
      <4>2. o = s.outstanding - 1
        BY <2>6, <3>2
      <4>3. a.outstanding = o /\ a.expected = e /\ a.seen = k + 1
        BY <3>1, <3>3
      <4> HIDE DEF e, k
      <4>4. o = e - (k + 1) + 1
        BY <4>1, <4>2
      <4>5. a.outstanding = a.expected - a.seen + 1
        BY <4>3, <4>4
      <4> QED
        BY <1>1, <3>2, <3>3, <4>5 DEF BatchInv
    <3>5. Owed(a) = Owed(s) /\ Spent(a) = Spent(s)
      BY <3>3 DEF Owed, Spent
    <3>6. Solvent(a, b, w)
      BY <2>10, <3>3, <3>5 DEF Solvent
    <3>7. a \in Fine(K, b, w)
      BY <3>1, <3>3, <3>4, <3>6 DEF Fine
    <3> QED
      BY <2>2, <2>11, <3>7
  <2>12. CASE ~(s.seen < s.expected)
    <3>1. o = 0 /\ 0 \in 0..MaxDelete
      BY <1>1, <1>2, <2>4, <2>6, <2>12
    <3> HIDE DEF o, x, n
    <3>2. /\ c \in Context(K) /\ c.seen = 0 /\ c.expected = 0
          /\ c.removed = s.removed /\ c.settled = s.settled /\ c.left = s.left
          /\ c.tail = s.tail /\ c.grace = s.grace /\ c.outstanding = o
          /\ c.deleting = s.deleting /\ c.settling = TRUE /\ c.safety = FALSE
          /\ c.replayTimer = s.replayTimer /\ c.ticket = s.ticket /\ c.pending = s.pending
      BY ZenonT(60), <1>1, <2>3, <3>1 DEF Context
    <3> HIDE DEF c
    <3>3. BatchInv(c)
      BY <1>1, <3>1, <3>2 DEF BatchInv
    <3>4. Owed(c) = Owed(s) /\ Spent(c) = Spent(s)
      BY <3>2 DEF Owed, Spent
    <3>5. Solvent(c, b, w)
      BY <2>10, <3>2, <3>4 DEF Solvent
    <3>6. c \in Fine(K, b, w)
      BY <3>2, <3>3, <3>5 DEF Fine
    <3> QED
      BY <2>2, <2>12, <3>6
  <2> QED
    BY <2>11, <2>12
<1> QED
  BY <1>3, <1>4, <1>5

---------------------------------------------------------------------------
(* Dispatching a key.                                                      *)

\* A failed batch is given up where it is noticed, and nothing else is.
LEMMA AbortFine ==
    ASSUME Numbers, NEW K, NEW b \in Int, NEW w \in Int, NEW s \in Fine(K, b, w)
    PROVE  /\ Abort(s) \in Fine(K, b, w) /\ Abort(s).text = s.text
           /\ ~s.deleting => Abort(s) = s
           /\ s.ticket # "Failed" => Abort(s) = s
           /\ s.ticket = "Failed" => Quiet(Abort(s)) /\ ~Abort(s).cycle
           /\ Abort(s).disabled <=> s.disabled
<1>1. CASE s.ticket = "Failed"
  <2>1. BatchInv(s)
    BY DEF Fine
  <2>2. s.deleting
    BY <1>1, <2>1 DEF BatchInv
  <2> QED
    BY <1>1, <2>2, ResetFine DEF Abort
<1>2. CASE s.ticket # "Failed"
  BY <1>2 DEF Abort
<1> QED
  BY <1>1, <1>2

\* A key that joins those waiting.
LEMMA HeldFine ==
    ASSUME NEW K, NEW b \in Int, NEW w \in Int, NEW i \in K \cup {Loopback, Backspace},
           NEW s \in Fine(K, b - Pays(i), w - Weighs(i))
    PROVE  [s EXCEPT !.settled = Append(@, i)] \in Fine(K, b, w)
<1> DEFINE q == Append(s.settled, i)
           t == [s EXCEPT !.settled = q]
<1>1. s \in Context(K) /\ s.seen <= s.expected /\ BatchInv(s)
      /\ Solvent(s, b - Pays(i), w - Weighs(i))
  BY DEF Fine
<1>2. s.settled \in Seq(K \cup {Loopback, Backspace}) /\ s.removed \in Nat /\ s.left \in Nat
      /\ s.outstanding \in Nat
  BY <1>1, Typed
<1>3. q \in Seq(K \cup {Loopback, Backspace})
  BY <1>2, AppendProperties
<1>4. /\ Count(q, {Backspace}) = Count(s.settled, {Backspace}) + Pays(i)
      /\ Count(q, {Loopback, Backspace})
           = Count(s.settled, {Loopback, Backspace}) + Weighs(i)
  <2>1. Pays(i) = IF i \in {Backspace} THEN 1 ELSE 0
    BY DEF Pays
  <2>2. Weighs(i) = IF i \in {Loopback, Backspace} THEN 1 ELSE 0
    BY DEF Weighs, IsBack
  <2> QED
    BY <1>2, <2>1, <2>2, CountAppend
<1>5. t = [s EXCEPT !.settled = Append(@, i)]
  OBVIOUS
<1> HIDE DEF q
<1>6. /\ t \in Context(K) /\ t.seen <= t.expected
      /\ t.removed = s.removed /\ t.settled = q /\ t.left = s.left
      /\ t.tail = s.tail /\ t.grace = s.grace /\ t.outstanding = s.outstanding
  BY <1>1, <1>3 DEF Context
<1>7. BatchInv(t)
  BY <1>1 DEF BatchInv, Context
<1> HIDE DEF t
<1>8. Pays(i) \in {0, 1} /\ Weighs(i) \in {0, 1}
  BY DEF Pays, Weighs
<1> DEFINE p == Count(s.settled, {Backspace})
           a == Count(s.settled, {Loopback, Backspace})
           x == IF s.tail THEN 1 ELSE 0
<1>14. x \in Nat
  OBVIOUS
<1>9. p \in Nat /\ a \in Nat
  BY <1>1, Counts
<1>10. /\ Spent(s) = s.removed + p /\ Spent(t) = s.removed + (p + Pays(i))
       /\ Owed(s) = s.removed + a + s.left + x
       /\ Owed(t) = s.removed + (a + Weighs(i)) + s.left + x
  BY <1>4, <1>6 DEF Spent, Owed
<1> HIDE DEF p, a, x
<1>11. /\ Spent(t) = Spent(s) + Pays(i) /\ Owed(t) = Owed(s) + Weighs(i)
       /\ Spent(s) \in Nat /\ Owed(s) \in Nat
  <2>1. \A r, c, l, e, y \in Nat :
            /\ r + (c + y) = (r + c) + y
            /\ r + (c + y) + l + e = (r + c + l + e) + y
            /\ r + c \in Nat /\ r + c + l + e \in Nat
    OBVIOUS
  <2>2. Pays(i) \in Nat /\ Weighs(i) \in Nat /\ s.removed \in Nat /\ s.left \in Nat
    BY <1>2, <1>8
  <2>3. Spent(t) = Spent(s) + Pays(i) /\ Spent(s) \in Nat
    BY <1>9, <1>10, <2>1, <2>2
  <2>4. Owed(t) = Owed(s) + Weighs(i) /\ Owed(s) \in Nat
    BY <1>9, <1>10, <1>14, <2>1, <2>2
  <2> QED
    BY <2>3, <2>4
<1>12. Solvent(t, b, w)
  <2>1. Spent(s) <= b - Pays(i) => Spent(t) <= b
    BY <1>8, <1>11
  <2>2. Owed(s) <= (w - Weighs(i)) + s.outstanding => Owed(t) <= w + t.outstanding
    BY <1>2, <1>6, <1>8, <1>11
  <2> QED
    BY <1>1, <1>6, <2>1, <2>2 DEF Solvent
<1> QED
  BY <1>5, <1>6, <1>7, <1>12 DEF Fine

\* Any key, or one that is replayed outside a replacement, keeps the order ...
LEMMA DispatchFine ==
    ASSUME Env, NEW K, K \subseteq Keys, NEW b \in Int, NEW w \in Int, w <= b,
           NEW i \in K \cup {Loopback, Backspace}, NEW replaying \in BOOLEAN,
           NEW eaten \in BOOLEAN, NEW s \in Fine(K, b - Pays(i), w - Weighs(i)),
           replaying => ~s.deleting /\ ~s.replayTimer
    PROVE  Dispatch(s, i, replaying, eaten) \in Fine(K, b, w)
<1> DEFINE t == Dispatch(s, i, replaying, eaten)
           held == ~replaying /\ ~AwaitingAnchor(s, i) /\ HoldsBack(s)
<1>1. b - Pays(i) \in Int /\ w - Weighs(i) \in Int /\ b - Pays(i) <= b /\ w - Weighs(i) <= w
  BY DEF Pays, Weighs
<1>2. s \in Fine(K, b, w)
  BY <1>1, Richer
<1>3. BatchInv(s) /\ s \in Context(K)
  BY DEF Fine
<1>4. CASE held
  <2>1. t = [s EXCEPT !.settled = Append(@, i)]
    BY <1>4 DEF Dispatch
  <2> QED
    BY <2>1, HeldFine
<1>5. CASE ~held
  <2>1. ~s.deleting => ~s.replayTimer
    BY <1>5 DEF AwaitingAnchor, HoldsBack
  <2>2. CASE s.grace /\ IsBack(i)
    <3>1. t = s
      BY <1>5, <2>2 DEF Dispatch
    <3> QED
      BY <1>2, <3>1
  <2>3. CASE ~(s.grace /\ IsBack(i)) /\ s.deleting
    <3>1. t = WhileDeleting(s, i, eaten)
      BY <1>5, <2>3 DEF Dispatch
    <3> QED
      BY <2>3, <3>1, WhileDeletingFine DEF Env
  <2>4. CASE ~(s.grace /\ IsBack(i)) /\ ~s.deleting /\ (s.grace \/ ~ready)
    <3> DEFINE r == Reset(s)
    <3>1. t = Raw(r, i)
      BY <1>5, <2>4 DEF Dispatch
    <3>2. r \in Fine(K, b - Pays(i), w - Weighs(i)) /\ Quiet(r) /\ (r.grace <=> s.grace)
      BY <1>1, <2>4, ResetFine DEF Env
    <3> HIDE DEF r
    <3>3. ~r.deleting /\ (IsBack(i) => ~r.grace)
      BY <2>4, <3>2 DEF Quiet
    <3> QED
      BY <3>1, <3>2, <3>3, RawFine DEF Env
  <2>5. CASE ~s.deleting /\ ~(s.grace \/ ~ready)
    <3>1. s.outstanding = 0
      BY <1>3, <2>5 DEF BatchInv
    <3>2. t = IF RepeatsTyping(s, i) THEN Drop(s, i) ELSE Type(s, i)
      BY <1>5, <2>5, <3>1 DEF Dispatch
    <3>3. ASSUME RepeatsTyping(s, i) PROVE Drop(s, i) \in Fine(K, b, w)
      BY <1>2, <3>3, RepeatsKey, DropFine DEF RepeatsTyping
    <3> QED
      BY <2>1, <2>5, <3>2, <3>3, TypeFine
  <2> QED
    BY <2>2, <2>3, <2>4, <2>5
<1> QED
  BY <1>4, <1>5

\* ... also where keyEvent() has given up a failed batch first.
LEMMA KeyEventFine ==
    ASSUME Env, NEW K, K \subseteq Keys, NEW b \in Int, NEW w \in Int, w <= b,
           NEW i \in K \cup {Loopback, Backspace}, NEW replaying \in BOOLEAN,
           NEW eaten \in BOOLEAN, NEW s \in Fine(K, b - Pays(i), w - Weighs(i)),
           replaying => ~s.deleting /\ ~s.replayTimer
    PROVE  KeyEvent(s, i, replaying, eaten) \in Fine(K, b, w)
<1>1. b - Pays(i) \in Int /\ w - Weighs(i) \in Int
  BY DEF Pays, Weighs
<1>2. Abort(s) \in Fine(K, b - Pays(i), w - Weighs(i)) /\ (~s.deleting => Abort(s) = s)
  BY <1>1, AbortFine DEF Env
<1>3. replaying => ~Abort(s).deleting /\ ~Abort(s).replayTimer
  BY <1>2
<1> QED
  BY <1>2, <1>3, DispatchFine DEF KeyEvent

\* The oldest of the keys that wait is taken.
LEMMA TakenFine ==
    ASSUME NEW K, NEW b \in Int, NEW w \in Int, NEW s \in Fine(K, b, w), s.settled # <<>>
    PROVE  LET h == Head(s.settled)
               t == [s EXCEPT !.settled = Tail(@)]
           IN  /\ h \in K \cup {Loopback, Backspace}
               /\ t \in Fine(K, b - Pays(h), w - Weighs(h))
               /\ t.text = s.text /\ (t.deleting <=> s.deleting) /\ (t.grace <=> s.grace)
               /\ (t.replayTimer <=> s.replayTimer) /\ (t.cycle <=> s.cycle)
               /\ (t.disabled <=> s.disabled)
<1> DEFINE h == Head(s.settled)
           q == Tail(s.settled)
           t == [s EXCEPT !.settled = q]
<1>1. s \in Context(K) /\ s.seen <= s.expected /\ BatchInv(s) /\ Solvent(s, b, w)
  BY DEF Fine
<1>2. s.settled \in Seq(K \cup {Loopback, Backspace}) /\ s.removed \in Nat /\ s.left \in Nat
      /\ s.outstanding \in Nat
  BY <1>1, Typed
<1>3. q \in Seq(K \cup {Loopback, Backspace}) /\ h \in K \cup {Loopback, Backspace}
  BY <1>2, HeadTailProperties
<1>4. /\ Count(s.settled, {Backspace}) = Count(q, {Backspace}) + Pays(h)
      /\ Count(s.settled, {Loopback, Backspace})
           = Count(q, {Loopback, Backspace}) + Weighs(h)
  <2>1. Pays(h) = IF h \in {Backspace} THEN 1 ELSE 0
    BY DEF Pays
  <2>2. Weighs(h) = IF h \in {Loopback, Backspace} THEN 1 ELSE 0
    BY DEF Weighs, IsBack
  <2> QED
    BY <1>2, <2>1, <2>2, CountTail
<1>5. t = [s EXCEPT !.settled = Tail(@)]
  OBVIOUS
<1> HIDE DEF q, h
<1>6. /\ t \in Context(K) /\ t.seen <= t.expected
      /\ t.removed = s.removed /\ t.settled = q /\ t.left = s.left
      /\ t.tail = s.tail /\ t.grace = s.grace /\ t.outstanding = s.outstanding
      /\ t.text = s.text /\ (t.deleting <=> s.deleting) /\ (t.grace <=> s.grace)
      /\ (t.replayTimer <=> s.replayTimer) /\ (t.cycle <=> s.cycle)
      /\ (t.disabled <=> s.disabled)
  BY ZenonT(60), <1>1, <1>3 DEF Context
<1>7. BatchInv(t)
  BY <1>1 DEF BatchInv, Context
<1> HIDE DEF t
<1>8. Pays(h) \in {0, 1} /\ Weighs(h) \in {0, 1}
  BY DEF Pays, Weighs
<1> DEFINE p == Count(q, {Backspace})
           a == Count(q, {Loopback, Backspace})
           x == IF s.tail THEN 1 ELSE 0
<1>14. x \in Nat
  OBVIOUS
<1>9. p \in Nat /\ a \in Nat
  BY <1>3, CountNat
<1>10. /\ Spent(t) = s.removed + p /\ Spent(s) = s.removed + (p + Pays(h))
       /\ Owed(t) = s.removed + a + s.left + x
       /\ Owed(s) = s.removed + (a + Weighs(h)) + s.left + x
  BY <1>4, <1>6 DEF Spent, Owed
<1> HIDE DEF p, a, x
<1>11. /\ Spent(s) = Spent(t) + Pays(h) /\ Owed(s) = Owed(t) + Weighs(h)
       /\ Spent(t) \in Nat /\ Owed(t) \in Nat
  <2>1. \A r, c, l, e, y \in Nat :
            /\ r + (c + y) = (r + c) + y
            /\ r + (c + y) + l + e = (r + c + l + e) + y
            /\ r + c \in Nat /\ r + c + l + e \in Nat
    OBVIOUS
  <2>2. Pays(h) \in Nat /\ Weighs(h) \in Nat /\ s.removed \in Nat /\ s.left \in Nat
    BY <1>2, <1>8
  <2>3. Spent(s) = Spent(t) + Pays(h) /\ Spent(t) \in Nat
    BY SMTT(60), <1>9, <1>10, <2>1, <2>2
  <2> DEFINE y == Weighs(h)
             l == s.left
             r == s.removed
  <2>5. Owed(t) = r + a + l + x /\ Owed(s) = r + (a + y) + l + x
    BY <1>10
  <2>6. y \in Nat /\ l \in Nat /\ r \in Nat
    BY <2>2
  <2> HIDE DEF y, l, r
  <2>7. Owed(s) = Owed(t) + y /\ Owed(t) \in Nat
    BY <1>9, <1>14, <2>5, <2>6
  <2>4. Owed(s) = Owed(t) + Weighs(h) /\ Owed(t) \in Nat
    BY <2>7 DEF y
  <2> QED
    BY <2>3, <2>4
<1>12. Solvent(t, b - Pays(h), w - Weighs(h))
  <2>1. Spent(s) <= b => Spent(t) <= b - Pays(h)
    BY <1>8, <1>11
  <2>2. Owed(s) <= w + s.outstanding => Owed(t) <= (w - Weighs(h)) + t.outstanding
    BY <1>2, <1>6, <1>8, <1>11
  <2> QED
    BY <1>1, <1>6, <2>1, <2>2 DEF Solvent
<1>13. t \in Fine(K, b - Pays(h), w - Weighs(h))
  BY <1>6, <1>7, <1>12 DEF Fine
<1> QED
  BY <1>3, <1>5, <1>6, <1>13 DEF h

---------------------------------------------------------------------------
(* Folding over a queue: a fold that exists is defined by its steps.       *)

\* A set of numbers has a least one.
LEMMA Least ==
    ASSUME NEW T, T \subseteq Nat, T # {}
    PROVE  \E n \in T : \A m \in T : n <= m
<1> DEFINE R == StrictSubsetOrdering(Nat)
           F == {0..n : n \in T}
<1>1. IsWellFoundedOn(R, FiniteSubsetsOf(Nat))
  BY FS_StrictSubsetOrderingWellFounded
<1>2. F \subseteq FiniteSubsetsOf(Nat) /\ F # {}
  <2>1. \A n \in T : 0 \in Int /\ n \in Int /\ 0..n \in SUBSET Nat
    OBVIOUS
  <2>2. \A n \in T : IsFiniteSet(0..n)
    BY <2>1, FS_Interval
  <2> QED
    BY <2>1, <2>2 DEF FiniteSubsetsOf
<1> HIDE DEF R, F
<1>3. PICK x \in F : \A y \in F : ~(<<y, x>> \in R)
  BY <1>1, <1>2, WFMin
<1>4. PICK n \in T : x = 0..n
  BY <1>3 DEF F
<1>5. ASSUME NEW m \in T PROVE n <= m
  <2> SUFFICES ASSUME m < n PROVE FALSE
    OBVIOUS
  <2>1. 0..m \in F
    BY DEF F
  <2>2. 0..m \subseteq 0..n /\ n \in 0..n /\ n \notin 0..m
    OBVIOUS
  <2>3. 0..m \in SUBSET Nat /\ 0..n \in SUBSET Nat
    OBVIOUS
  <2>4. <<0..m, 0..n>> \in R
    BY <2>2, <2>3 DEF R, StrictSubsetOrdering
  <2> QED
    BY <1>3, <1>4, <2>1, <2>4
<1> QED
  BY <1>5

\* Induction, for a set of numbers.
LEMMA Induction ==
    ASSUME NEW T, 0 \in T, \A n \in Nat : n \in T => n + 1 \in T
    PROVE  Nat \subseteq T
<1> SUFFICES ASSUME Nat \ T # {} PROVE FALSE
  OBVIOUS
<1>1. PICK n \in Nat \ T : \A m \in Nat \ T : n <= m
  <2>1. Nat \ T \subseteq Nat
    OBVIOUS
  <2> QED
    BY <2>1, Least
<1>2. n # 0 /\ n - 1 \in Nat
  BY <1>1
<1>3. n - 1 \in T
  BY <1>1, <1>2
<1> QED
  BY <1>1, <1>2, <1>3

\* What FoldLeft computes on the positions T of q.
Folding(s0, q, g, D) ==
    g = [T \in SUBSET D |-> IF T = {} THEN s0 ELSE Rebuffer(g[T \ {Max(T)}], q[Max(T)])]

\* A fold of any finite length exists.
LEMMA FoldExists ==
    ASSUME NEW s0, NEW q, NEW n \in Nat
    PROVE  \E g : Folding(s0, q, g, 1..n)
<1> DEFINE H == {m \in Nat : \E g : Folding(s0, q, g, 1..m)}
<1>1. 0 \in H
  <2> DEFINE g == [T \in SUBSET (1..0) |-> s0]
  <2>1. Folding(s0, q, g, 1..0)
    BY DEF Folding
  <2> QED
    BY <2>1
<1>2. ASSUME NEW m \in Nat, m \in H PROVE m + 1 \in H
  <2>1. PICK g : Folding(s0, q, g, 1..m)
    BY <1>2
  <2> DEFINE h == [T \in SUBSET (1..(m + 1)) |->
                      IF m + 1 \in T THEN Rebuffer(g[T \ {m + 1}], q[m + 1]) ELSE g[T]]
  <2> DEFINE f == [T \in SUBSET (1..(m + 1)) |->
                    IF T = {} THEN s0 ELSE Rebuffer(h[T \ {Max(T)}], q[Max(T)])]
  <2>2. ASSUME NEW T \in SUBSET (1..(m + 1)) PROVE h[T] = f[T]
    <3>1. CASE m + 1 \in T
      <4>1. Max(T) = m + 1
        <5>1. \A y \in T : y \in Int /\ m + 1 >= y
          OBVIOUS
        <5>2. \A x \in T : (\A y \in T : x >= y) => x = m + 1
          BY <3>1, <5>1
        <5> QED
          BY <3>1, <5>1, <5>2 DEF Max
      <4>2. T \ {m + 1} \in SUBSET (1..m) /\ T \ {m + 1} \in SUBSET (1..(m + 1))
            /\ m + 1 \notin T \ {m + 1}
        OBVIOUS
      <4>3. h[T \ {m + 1}] = g[T \ {m + 1}]
        BY <4>2
      <4> QED
        BY <3>1, <4>1, <4>3
    <3>2. CASE m + 1 \notin T
      <4> DEFINE x == Max(T)
      <4> HIDE DEF x
      <4>4. T \in SUBSET (1..m)
        BY <3>2
      <4>1. /\ T \in SUBSET (1..m) /\ T \ {x} \in SUBSET (1..m)
            /\ T \ {x} \in SUBSET (1..(m + 1)) /\ m + 1 \notin T \ {x}
        BY <3>2, <4>4
      <4>2. h[T] = g[T] /\ h[T \ {x}] = g[T \ {x}]
        BY <3>2, <4>1
      <4>3. g[T] = IF T = {} THEN s0 ELSE Rebuffer(g[T \ {x}], q[x])
        BY <2>1, <4>1 DEF Folding, x
      <4> QED
        BY <4>2, <4>3 DEF x
    <3> QED
      BY <3>1, <3>2
  <2>3. h = f
    BY <2>2
  <2>4. Folding(s0, q, h, 1..(m + 1))
    BY <2>3 DEF Folding
  <2> QED
    BY <2>4
<1> HIDE DEF H
<1>3. Nat \subseteq H
  BY <1>1, <1>2, Induction
<1> QED
  BY <1>3 DEF H

\* FoldLeft stays in a set that each step stays in.
LEMMA Folded ==
    ASSUME NEW P, NEW S, NEW s0 \in P, NEW q \in Seq(S),
           \A s \in P, k \in S : Rebuffer(s, k) \in P
    PROVE  FoldLeft(Rebuffer, s0, q) \in P
<1>1. Len(q) \in Nat /\ DOMAIN q = 1..Len(q)
  OBVIOUS
<1> DEFINE g == CHOOSE g : Folding(s0, q, g, DOMAIN q)
<1>2. FoldLeft(Rebuffer, s0, q) = g[DOMAIN q]
  BY Zenon DEF FoldLeft, MapThenFoldSet, Folding
<1>3. Folding(s0, q, g, 1..Len(q))
  BY <1>1, FoldExists
<1> HIDE DEF g
<1> DEFINE H == {n \in Nat : n <= Len(q) => g[1..n] \in P}
<1>4. 0 \in H
  <2>1. 1..0 = {} /\ 1..0 \in SUBSET (1..Len(q))
    BY <1>1
  <2>2. g[1..0] = s0
    BY <1>3, <2>1 DEF Folding
  <2> QED
    BY <2>2
<1>5. ASSUME NEW n \in Nat, n \in H PROVE n + 1 \in H
  <2> SUFFICES ASSUME n + 1 <= Len(q) PROVE g[1..(n + 1)] \in P
    OBVIOUS
  <2>1. Max(1..(n + 1)) = n + 1
    BY DEF Max
  <2>2. /\ (1..(n + 1)) \ {n + 1} = 1..n
        /\ 1..(n + 1) \in SUBSET (1..Len(q)) /\ n + 1 \in 1..(n + 1)
    BY <1>1
  <2>3. g[1..(n + 1)] = Rebuffer(g[1..n], q[n + 1])
    BY <1>3, <2>1, <2>2 DEF Folding
  <2>4. q[n + 1] \in S /\ g[1..n] \in P
    BY <1>1, <1>5
  <2> QED
    BY <2>3, <2>4
<1> HIDE DEF H
<1>6. Len(q) \in H
  BY <1>1, <1>4, <1>5, Induction
<1> QED
  BY <1>1, <1>2, <1>6 DEF H

---------------------------------------------------------------------------
(* Replaying the buffered keys.                                            *)

\* What becomes of a text when key i is left to the application.
TextAfter(x, i) ==
    IF IsBack(i) THEN IF x = <<>> THEN x ELSE Front1(x) ELSE Append(x, {i})

\* A context t that differs from s by that.
RawLike(s, t, i) ==
    /\ (t.cycle <=> s.cycle) /\ (t.disabled <=> s.disabled)
    /\ (t.deleting <=> s.deleting) /\ (t.settling <=> s.settling)
    /\ (t.safety <=> s.safety) /\ (t.grace <=> s.grace)
    /\ (t.replayTimer <=> s.replayTimer)
    /\ t.settled = s.settled /\ t.buffered = s.buffered /\ t.viet = s.viet
    /\ t.text = TextAfter(s.text, i)

\* A key that is left to the application changes nothing but the text and the count.
LEMMA RawFrame ==
    ASSUME NEW K, NEW s \in Context(K), NEW i
    PROVE  RawLike(s, Raw(s, i), i)
<1> USE DEF RawLike, TextAfter
<1>1. CASE ~IsBack(i)
  <2> DEFINE x == Append(s.text, {i})
             t == [s EXCEPT !.text = x]
  <2>1. Raw(s, i) = t
    BY <1>1 DEF Raw
  <2> HIDE DEF x
  <2>2. /\ (t.cycle <=> s.cycle) /\ (t.disabled <=> s.disabled)
        /\ (t.deleting <=> s.deleting) /\ (t.settling <=> s.settling)
        /\ (t.safety <=> s.safety) /\ (t.grace <=> s.grace)
        /\ (t.replayTimer <=> s.replayTimer)
        /\ t.settled = s.settled /\ t.buffered = s.buffered /\ t.viet = s.viet
        /\ t.text = x
    BY DEF Context
  <2> QED
    BY <1>1, <2>1, <2>2 DEF x
<1>2. CASE IsBack(i) /\ s.text = <<>>
  BY <1>2 DEF Raw, Erase
<1>3. CASE IsBack(i) /\ s.text # <<>>
  <2> DEFINE x == Front1(s.text)
             e == s.erased \cup Last(s.text)
             r == s.removed + 1
             t == [s EXCEPT !.text = x, !.erased = e, !.removed = r]
  <2>1. Raw(s, i) = t
    BY <1>3 DEF Raw, Erase
  <2> HIDE DEF x, e, r
  <2>2. /\ (t.cycle <=> s.cycle) /\ (t.disabled <=> s.disabled)
        /\ (t.deleting <=> s.deleting) /\ (t.settling <=> s.settling)
        /\ (t.safety <=> s.safety) /\ (t.grace <=> s.grace)
        /\ (t.replayTimer <=> s.replayTimer)
        /\ t.settled = s.settled /\ t.buffered = s.buffered /\ t.viet = s.viet
        /\ t.text = x
    BY DEF Context
  <2> QED
    BY <1>3, <2>1, <2>2 DEF x
<1> QED
  BY <1>1, <1>2, <1>3

\* A context t that s may become without the focus: what it held for the browser's return
\* it holds still, or nothing is left to do.
Onward(s, t) ==
    /\ t.disabled <=> s.disabled
    /\ s.disabled => t.text = s.text
    /\ \/ (t.cycle <=> s.cycle) /\ t.settled = s.settled
       \/ ~t.cycle /\ Quiet(t) /\ Refused(t)

\* Contexts that may take a key of the queue.
Ready(K, b, w) == {s \in Fine(K, b, w) : ~s.replayTimer}

\* A commit keeps the order; a context that has been disabled shows none of it.
LEMMA PutFine ==
    ASSUME NEW K, NEW b, NEW w, NEW s \in Fine(K, b, w), NEW g \in Seq(Glyphs(K))
    PROVE  LET t == Put(s, g)
           IN  /\ t \in Fine(K, b, w) /\ (s.disabled => t.text = s.text)
               /\ t.viet = s.viet /\ t.settled = s.settled
               /\ t.buffered = s.buffered /\ (t.deleting <=> s.deleting)
               /\ (t.replayTimer <=> s.replayTimer) /\ (t.grace <=> s.grace)
               /\ (t.cycle <=> s.cycle) /\ (t.disabled <=> s.disabled)
               /\ (t.settling <=> s.settling) /\ (t.safety <=> s.safety)
<1> DEFINE x == s.text \o g
<1>1. CASE s.disabled
  BY <1>1 DEF Put
<1>2. CASE ~s.disabled
  <2>1. s.text \in Seq(Glyphs(K))
    BY Typed DEF Fine
  <2>2. x \in Seq(Glyphs(K))
    BY <2>1, ConcatProperties
  <2>3. Put(s, g) = [s EXCEPT !.text = x]
    BY <1>2 DEF Put
  <2> HIDE DEF x
  <2> QED
    BY <1>2, <2>2, <2>3, TypedOn
<1> QED
  BY <1>1, <1>2

\* The word can be forgotten without touching the rest.
LEMMA WordFrame ==
    ASSUME NEW K, NEW s \in Context(K), NEW x
    PROVE  LET t == [s EXCEPT !.viet = x]
           IN  /\ t.text = s.text /\ t.settled = s.settled /\ t.buffered = s.buffered
               /\ (t.deleting <=> s.deleting) /\ (t.replayTimer <=> s.replayTimer)
               /\ (t.grace <=> s.grace) /\ (t.cycle <=> s.cycle)
               /\ (t.disabled <=> s.disabled) /\ (t.settling <=> s.settling)
               /\ (t.safety <=> s.safety) /\ t.ticket = s.ticket /\ t.viet = x
BY DEF Context

\* Like: what neither a Put nor a new word changes.
Like(s, t) ==
    /\ (s.disabled => t.text = s.text) /\ t.settled = s.settled
    /\ t.buffered = s.buffered /\ (t.deleting <=> s.deleting)
    /\ (t.replayTimer <=> s.replayTimer) /\ (t.grace <=> s.grace)
    /\ (t.cycle <=> s.cycle) /\ (t.disabled <=> s.disabled)
    /\ (t.settling <=> s.settling) /\ (t.safety <=> s.safety)

\* One key of the queue is typed: it changes the text, is refused, or starts a replacement.
LEMMA ReplayKeyFine ==
    ASSUME Env, NEW K, K \subseteq Keys, NEW b \in Int, NEW w \in Int,
           NEW k \in K, NEW s \in Ready(K, b, w), ~s.deleting
    PROVE  LET t == ReplayKey(s, k)
           IN  /\ t \in Ready(K, b, w)
               /\ \/ Like(s, t)
                  \/ /\ (t.disabled <=> s.disabled) /\ t.text = s.text
                     /\ ~t.cycle /\ Quiet(t) /\ Refused(t)
                  \/ /\ (t.disabled <=> s.disabled) /\ t.text = s.text
                     /\ (t.cycle <=> s.cycle) /\ t.settled = s.settled
                     /\ ~Refused(s)
<1> DEFINE g == <<{k}>>
<1>1. s \in Fine(K, b, w) /\ s \in Context(K) /\ BatchInv(s) /\ ~s.replayTimer
  BY DEF Ready, Fine
<1>2. g \in Seq(Glyphs(K))
  <2>1. {k} \in SUBSET K /\ {k} # {}
    OBVIOUS
  <2>2. {k} \in Glyphs(K)
    BY <2>1 DEF Glyphs
  <2> QED
    BY <2>2
<1>3. s.viet \in Seq(Glyphs(K)) /\ k \in Keys
  BY <1>1, Typed
<1>4. CASE effect[k] = Separator
  <2> DEFINE p == Put(s, g)
             x == <<>>
  <2>1. ReplayKey(s, k) = [p EXCEPT !.viet = x]
    BY <1>4 DEF ReplayKey
  <2>2. p \in Fine(K, b, w) /\ p \in Context(K) /\ Like(s, p)
    <3> HIDE DEF g
    <3>1. p \in Fine(K, b, w)
      BY <1>1, <1>2, PutFine
    <3>2. Like(s, p)
      BY <1>1, <1>2, PutFine DEF Like
    <3> QED
      BY <3>1, <3>2 DEF Fine
  <2>3. x \in Seq(Glyphs(K))
    BY NoKeys
  <2> HIDE DEF p, x
  <2> DEFINE t == [p EXCEPT !.viet = x]
  <2>4. t \in Fine(K, b, w)
    BY <2>2, <2>3, WordFine
  <2>5. Like(p, t)
    BY <2>2, WordFrame DEF Like
  <2> HIDE DEF t
  <2>6. Like(s, t) /\ ~t.replayTimer
    BY <1>1, <2>2, <2>5 DEF Like
  <2>7. ReplayKey(s, k) = t
    BY <2>1 DEF t
  <2> QED
    BY <2>4, <2>6, <2>7 DEF Ready
<1>5. CASE effect[k] # Separator /\ Depth(s.viet, k) = 0
  <2> DEFINE x == Compose(s.viet, k)
             v == [s EXCEPT !.viet = x]
             t == Put(v, g)
  <2>1. x \in Seq(Glyphs(K))
    BY <1>3, Composed
  <2>2. v = [s EXCEPT !.viet = Compose(@, k)]
    OBVIOUS
  <2> HIDE DEF x, g
  <2>3. v \in Fine(K, b, w)
    BY <1>1, <2>1, WordFine
  <2>4. Like(s, v) /\ v.ticket = s.ticket
    BY <1>1, WordFrame DEF Like
  <2>5. v.ticket # "Failed"
    BY <1>1, <2>4 DEF BatchInv
  <2> HIDE DEF v
  <2>6. t \in Fine(K, b, w) /\ Like(v, t)
    BY <1>2, <2>3, PutFine DEF Like
  <2>7. ReplayKey(s, k) = Commit(v, g)
    BY <1>5, <2>2 DEF ReplayKey, g
  <2>8. Commit(v, g) = t
    BY <2>5 DEF Commit
  <2> HIDE DEF t
  <2>9. Like(s, t) /\ ~t.replayTimer
    BY <1>1, <2>4, <2>6 DEF Like
  <2> QED
    BY <2>6, <2>7, <2>8, <2>9 DEF Ready
<1>6. CASE effect[k] # Separator /\ Depth(s.viet, k) # 0 /\ Refused(s)
  <2> DEFINE t == Reset(s)
  <2>1. ReplayKey(s, k) = t
    BY <1>6 DEF ReplayKey
  <2>2. /\ t \in Fine(K, b, w) /\ Quiet(t) /\ ~t.cycle /\ ~t.replayTimer
        /\ t.text = s.text /\ (t.disabled <=> s.disabled) /\ (t.grace <=> s.grace)
    BY <1>1, ResetFine DEF Env
  <2>3. Refused(t)
    BY <1>6, <2>2 DEF Refused
  <2> HIDE DEF t
  <2> QED
    BY <2>1, <2>2, <2>3 DEF Ready
<1>7. CASE effect[k] # Separator /\ Depth(s.viet, k) # 0 /\ ~Refused(s)
  <2> DEFINE t == Replace(s, k)
  <2>1. ReplayKey(s, k) = t
    BY <1>7 DEF ReplayKey
  <2>2. ~s.grace
    BY <1>7 DEF Refused
  <2>3. /\ t \in Fine(K, b, w) /\ ~t.replayTimer /\ t.text = s.text
        /\ (t.disabled <=> s.disabled) /\ (t.cycle <=> s.cycle) /\ t.settled = s.settled
    BY <1>1, <1>7, <2>2, ReplaceFine
  <2> HIDE DEF t
  <2> QED
    BY <1>7, <2>1, <2>3 DEF Ready
<1> QED
  BY <1>4, <1>5, <1>6, <1>7

\* The keys after one that starts a replacement wait again.
LEMMA RebufferFine ==
    ASSUME Env, NEW K, K \subseteq Keys, NEW b \in Int, NEW w \in Int,
           NEW s0, NEW s \in Ready(K, b, w), Onward(s0, s), NEW k \in K
    PROVE  Rebuffer(s, k) \in Ready(K, b, w) /\ Onward(s0, Rebuffer(s, k))
<1> DEFINE t == Rebuffer(s, k)
<1>1. s \in Fine(K, b, w) /\ s \in Context(K) /\ BatchInv(s) /\ Solvent(s, b, w)
      /\ ~s.replayTimer
  BY DEF Ready, Fine
<1>2. CASE s.deleting
  <2> DEFINE q == Append(s.buffered, k)
             u == [s EXCEPT !.buffered = q]
  <2>1. t \in {s, u}
    BY <1>2 DEF Rebuffer
  <2>2. q \in Seq(K)
    BY <1>1, Typed, AppendProperties
  <2> HIDE DEF q
  <2>3. /\ u \in Context(K) /\ u.seen <= u.expected
        /\ u.removed = s.removed /\ u.settled = s.settled /\ u.left = s.left
        /\ u.tail = s.tail /\ u.grace = s.grace /\ u.outstanding = s.outstanding
        /\ ~u.replayTimer /\ (u.disabled <=> s.disabled) /\ u.text = s.text
        /\ (u.cycle <=> s.cycle) /\ u.deleting
    BY <1>1, <1>2, <2>2 DEF Context, Fine
  <2>4. BatchInv(u)
    BY <1>1 DEF BatchInv, Context
  <2>5. Solvent(u, b, w)
    BY <1>1, <2>3, SolventKept
  <2>6. u \in Ready(K, b, w)
    BY <2>3, <2>4, <2>5 DEF Ready, Fine
  <2> HIDE DEF u
  <2>7. Onward(s0, u)
    BY <1>2, <2>3 DEF Onward, Quiet
  <2> QED
    BY <2>1, <2>6, <2>7
<1>3. CASE ~s.deleting
  <2>1. t = ReplayKey(s, k)
    BY <1>3 DEF Rebuffer
  <2> HIDE DEF t
  <2>2. /\ t \in Ready(K, b, w)
        /\ \/ Like(s, t)
           \/ /\ (t.disabled <=> s.disabled) /\ t.text = s.text
              /\ ~t.cycle /\ Quiet(t) /\ Refused(t)
           \/ /\ (t.disabled <=> s.disabled) /\ t.text = s.text
              /\ (t.cycle <=> s.cycle) /\ t.settled = s.settled
              /\ ~Refused(s)
    BY <1>3, <2>1, ReplayKeyFine
  <2>3. Like(s, t) => Onward(s0, t)
    BY DEF Onward, Like, Quiet, Refused
  <2>4. Onward(s0, t)
    BY <2>2, <2>3 DEF Onward
  <2> QED
    BY <2>2, <2>4 DEF t
<1> QED
  BY <1>2, <1>3

\* So for a whole queue.
LEMMA FoldFine ==
    ASSUME Env, NEW K, K \subseteq Keys, NEW b \in Int, NEW w \in Int,
           NEW s \in Ready(K, b, w), NEW q \in Seq(K)
    PROVE  LET t == FoldLeft(Rebuffer, s, q)
           IN  t \in Ready(K, b, w) /\ Onward(s, t)
<1> DEFINE P == {t \in Ready(K, b, w) : Onward(s, t)}
<1>1. s \in P
  BY DEF Onward
<1>2. \A t \in P, k \in K : Rebuffer(t, k) \in P
  BY RebufferFine
<1> HIDE DEF P
<1>3. FoldLeft(Rebuffer, s, q) \in P
  BY <1>1, <1>2, Folded
<1> QED
  BY <1>3 DEF P

---------------------------------------------------------------------------
(* Replaying the held keys.                                                *)

\* A timer that is armed to go on.
LEMMA TimerFine ==
    ASSUME NEW K, NEW b, NEW w, NEW s \in Fine(K, b, w), NEW x \in BOOLEAN,
           x => ~s.deleting
    PROVE  LET t == [s EXCEPT !.replayTimer = x]
           IN  /\ t \in Fine(K, b, w) /\ t.text = s.text /\ t.settled = s.settled
               /\ t.buffered = s.buffered /\ (t.replayTimer <=> x)
               /\ (t.deleting <=> s.deleting) /\ (t.settling <=> s.settling)
               /\ (t.cycle <=> s.cycle) /\ (t.disabled <=> s.disabled)
               /\ (t.safety <=> s.safety)
<1> DEFINE t == [s EXCEPT !.replayTimer = x]
<1>1. s \in Context(K) /\ s.seen <= s.expected /\ BatchInv(s) /\ Solvent(s, b, w)
  BY DEF Fine
<1>2. /\ t \in Context(K) /\ t.seen <= t.expected
      /\ t.removed = s.removed /\ t.settled = s.settled /\ t.left = s.left
      /\ t.tail = s.tail /\ t.grace = s.grace /\ t.outstanding = s.outstanding
      /\ t.text = s.text /\ t.buffered = s.buffered /\ (t.replayTimer <=> x)
      /\ (t.deleting <=> s.deleting) /\ (t.settling <=> s.settling)
      /\ (t.cycle <=> s.cycle) /\ (t.disabled <=> s.disabled)
      /\ (t.safety <=> s.safety)
  BY ZenonT(60), <1>1 DEF Context
<1>3. BatchInv(t)
  BY <1>1 DEF BatchInv, Context
<1>4. Solvent(t, b, w)
  BY <1>1, <1>2, SolventKept
<1> QED
  BY <1>1, <1>2, <1>3, <1>4 DEF Fine

\* Where the keys that wait may leave: the oldest of them is forwarded to the application.
Forwards(s, t) ==
    /\ t.disabled <=> s.disabled
    /\ t.text # s.text => s.settled # <<>> /\ t.text = Raw(s, Head(s.settled)).text
    /\ (t.cycle <=> s.cycle) \/ (~t.cycle /\ Quiet(t))

\* What the replay of a held key may do to the text and to the cycle.
LEMMA ReplayedFrame ==
    ASSUME Env, NEW K, K \subseteq Keys, NEW b \in Int, NEW w \in Int,
           NEW s \in Fine(K, b, w), ~s.deleting, ~s.replayTimer,
           NEW h \in K \cup {Loopback, Backspace}
    PROVE  LET t == KeyEvent(s, h, TRUE, FALSE)
           IN  /\ t.disabled <=> s.disabled
               /\ t.text \in {s.text, Raw(s, h).text}
               /\ (t.cycle <=> s.cycle) \/ (~t.cycle /\ Quiet(t))
<1> DEFINE t == KeyEvent(s, h, TRUE, FALSE)
<1>1. s \in Context(K) /\ BatchInv(s)
  BY DEF Fine
<1>2. t = Dispatch(s, h, TRUE, FALSE)
  <2>1. Abort(s) = s
    BY AbortFine DEF Env
  <2> QED
    BY <2>1 DEF KeyEvent
<1>3. s.outstanding = 0
  BY <1>1 DEF BatchInv
<1>4. CASE s.grace /\ IsBack(h)
  BY <1>2, <1>4 DEF Dispatch
<1>5. CASE ~(s.grace /\ IsBack(h)) /\ (s.grace \/ ~ready)
  <2> DEFINE r == Reset(s)
  <2>1. t = Raw(r, h)
    BY <1>2, <1>5 DEF Dispatch
  <2>2. /\ r \in Context(K) /\ Quiet(r) /\ ~r.cycle /\ r.text = s.text
        /\ (r.disabled <=> s.disabled)
    BY ResetFine DEF Env, Fine
  <2> HIDE DEF t, r
  <2>5. /\ (t.disabled <=> r.disabled) /\ (t.cycle <=> r.cycle)
        /\ (t.deleting <=> r.deleting) /\ (t.settling <=> r.settling)
        /\ (t.safety <=> r.safety) /\ t.settled = r.settled /\ t.buffered = r.buffered
        /\ t.text = TextAfter(r.text, h)
    <3>1. RawLike(r, t, h)
      BY <2>1, <2>2, RawFrame
    <3> QED
      BY <3>1 DEF RawLike
  <2>3. /\ (t.disabled <=> s.disabled) /\ ~t.cycle /\ Quiet(t)
    BY <2>2, <2>5 DEF Quiet
  <2>6. Raw(s, h).text = TextAfter(s.text, h)
    <3>1. RawLike(s, Raw(s, h), h)
      BY <1>1, RawFrame
    <3> QED
      BY <3>1 DEF RawLike
  <2>4. t.text = Raw(s, h).text
    BY <2>2, <2>5, <2>6
  <2> QED
    BY <2>3, <2>4 DEF t
<1>7. CASE ~(s.grace \/ ~ready) /\ RepeatsTyping(s, h)
  <2>1. t = Drop(s, h)
    <3>1. ~(s.outstanding > 0 /\ IsBack(h))
      BY <1>3
    <3>2. ~(s.grace /\ IsBack(h))
      BY <1>7
    <3> HIDE DEF t
    <3> QED
      BY <1>2, <1>7, <3>1, <3>2 DEF Dispatch
  <2>2. h \in K
    BY <1>7, RepeatsKey DEF RepeatsTyping
  <2>3. PICK d : d = Drop(s, h)
    OBVIOUS
  <2>4. d.text = s.text /\ (d.disabled <=> s.disabled) /\ (d.cycle <=> s.cycle)
    BY <1>1, <2>2, <2>3, DropSame
  <2>5. t = d
    BY <2>1, <2>3
  <2> HIDE DEF t
  <2> QED
    BY <2>4, <2>5 DEF t
<1>6. CASE ~(s.grace \/ ~ready) /\ ~RepeatsTyping(s, h)
  <2>1. t = Type(s, h)
    <3>1. ~(s.outstanding > 0 /\ IsBack(h))
      BY <1>3
    <3>2. ~(s.grace /\ IsBack(h))
      BY <1>6
    <3> HIDE DEF t
    <3> QED
      BY <1>2, <1>6, <3>1, <3>2 DEF Dispatch
  <2>2. ~Refused(s)
    BY <1>6 DEF Refused
  <2> DEFINE r == Raw(s, h)
             x == IF r.viet = <<>> THEN r.viet ELSE Front1(r.viet)
             e == <<>>
             c == Compose(r.viet, h)
             p == Replace(s, h)
             g == Guarded
  <2>3. \/ t = [r EXCEPT !.viet = x] \/ t = [r EXCEPT !.viet = e]
        \/ t = [r EXCEPT !.viet = c, !.armed = g]
        \/ /\ ~IsBack(h) /\ effect[h] # Separator /\ Depth(s.viet, h) # 0
           /\ t = [p EXCEPT !.oldWord = s.viet, !.repairs = 0, !.armed = g]
    <3>1. CASE IsBack(h)
      BY <2>1, <3>1 DEF Type, Raw
    <3>2. CASE ~IsBack(h)
      BY <2>1, <2>2, <3>2 DEF Type
    <3> QED
      BY <3>1, <3>2
  <2>4. \E k \in Keys : h = k \/ IsBack(h)
    BY DEF IsBack, Keys, Env, Numbers
  <2>5. r \in Context(K)
    <3>1. b + 1 \in Int /\ w + 1 \in Int
      OBVIOUS
    <3> DEFINE B == b + 2
    <3>2. b <= (w + 1) + IF b > w THEN b - w ELSE 0
      OBVIOUS
    <3> DEFINE m == IF b > w THEN b + 1 ELSE w + 1
    <3>3. m \in Int /\ b <= m - Pays(h) /\ w <= m - Weighs(h)
          /\ m - Pays(h) \in Int /\ m - Weighs(h) \in Int
      BY DEF Pays, Weighs
    <3>4. s \in Fine(K, m - Pays(h), m - Weighs(h))
      BY <3>3, Richer
    <3>5. r \in Fine(K, m, m)
      BY <1>6, <3>3, <3>4, RawFine DEF Env
    <3> QED
      BY <3>5 DEF Fine
  <2>6. (r.cycle <=> s.cycle) /\ (r.disabled <=> s.disabled)
    BY <1>1, RawFrame DEF RawLike
  <2> HIDE DEF t, r, x, e, c, p, g
  <2>7. CASE t = [r EXCEPT !.viet = x] \/ t = [r EXCEPT !.viet = e]
             \/ t = [r EXCEPT !.viet = c, !.armed = g]
    <3> DEFINE Same(y) == /\ [r EXCEPT !.viet = y].text = r.text
                          /\ [r EXCEPT !.viet = y].cycle <=> r.cycle
                          /\ [r EXCEPT !.viet = y].disabled <=> r.disabled
    <3> DEFINE y == [r EXCEPT !.viet = c, !.armed = g]
    <3>2. Same(x) /\ Same(e)
      BY <2>5 DEF Context
    <3>3. y.text = r.text /\ (y.cycle <=> r.cycle) /\ (y.disabled <=> r.disabled)
      BY <2>5 DEF Context
    <3>1. t.text = r.text /\ (t.cycle <=> r.cycle) /\ (t.disabled <=> r.disabled)
      BY <2>7, <3>2, <3>3
    <3> QED
      BY <2>6, <3>1 DEF r, t
  <2>8. CASE /\ ~IsBack(h) /\ effect[h] # Separator /\ Depth(s.viet, h) # 0
             /\ t = [p EXCEPT !.oldWord = s.viet, !.repairs = 0, !.armed = g]
    <3>1. h \in K
      BY <2>8 DEF IsBack
    <3>2. ~s.grace
      BY <1>6
    <3>3. p \in Fine(K, b, w) /\ p.text = s.text /\ (p.cycle <=> s.cycle)
          /\ (p.disabled <=> s.disabled)
      BY <2>8, <3>1, <3>2, ReplaceFine DEF p
    <3>4. p \in Context(K)
      BY <3>3 DEF Fine
    <3>5. t.text = p.text /\ (t.cycle <=> p.cycle) /\ (t.disabled <=> p.disabled)
      BY <2>8, <3>4 DEF Context
    <3> QED
      BY <3>3, <3>5 DEF t
  <2> QED
    BY <2>3, <2>7, <2>8
<1> QED
  BY <1>4, <1>5, <1>6, <1>7

\* A replay of the held keys keeps the order; it only forwards the oldest.
LEMMA ReplaySettledFine ==
    ASSUME Env, NEW K, K \subseteq Keys, NEW b \in Int, NEW w \in Int, w <= b,
           NEW s \in Fine(K, b, w)
    PROVE  /\ ReplaySettled(s) \in Fine(K, b, w)
           /\ Forwards(s, ReplaySettled(s))
<1> DEFINE idle == s.replayTimer \/ s.settled = <<>> \/ s.deleting \/ s.settling
<1>1. CASE idle
  <2>1. ReplaySettled(s) = s
    BY <1>1 DEF ReplaySettled
  <2> QED
    BY <2>1 DEF Forwards
<1>2. CASE ~idle
  <2> DEFINE h == Head(s.settled)
             x == [s EXCEPT !.settled = Tail(@)]
             t == KeyEvent(x, h, TRUE, FALSE)
             u == [t EXCEPT !.replayTimer = TRUE]
             more == ~t.deleting /\ ~t.replayTimer /\ Len(s.settled) > 1
  <2>1. /\ h \in K \cup {Loopback, Backspace}
        /\ x \in Fine(K, b - Pays(h), w - Weighs(h))
        /\ x.text = s.text /\ ~x.deleting /\ ~x.replayTimer /\ (x.cycle <=> s.cycle)
        /\ (x.disabled <=> s.disabled)
    BY <1>2, TakenFine
  <2>2. ReplaySettled(s) = IF more THEN u ELSE t
    BY <1>2 DEF ReplaySettled
  <2> HIDE DEF h, x
  <2>3. b - Pays(h) \in Int /\ w - Weighs(h) \in Int
    BY DEF Pays, Weighs
  <2>4. t \in Fine(K, b, w)
    BY <2>1, KeyEventFine
  <2>5. /\ t.disabled <=> x.disabled
        /\ t.text \in {x.text, Raw(x, h).text}
        /\ (t.cycle <=> x.cycle) \/ (~t.cycle /\ Quiet(t))
    BY <2>1, <2>3, ReplayedFrame
  <2>6. Raw(x, h).text = Raw(s, h).text
    <3>1. x \in Context(K) /\ s \in Context(K)
      BY <2>1 DEF Fine
    <3>2. Raw(s, h).text = TextAfter(s.text, h)
      <4>1. RawLike(s, Raw(s, h), h)
        BY <3>1, RawFrame
      <4> QED
        BY <4>1 DEF RawLike
    <3>3. Raw(x, h).text = TextAfter(x.text, h)
      <4>1. RawLike(x, Raw(x, h), h)
        BY <3>1, RawFrame
      <4> QED
        BY <4>1 DEF RawLike
    <3> QED
      BY <2>1, <3>2, <3>3
  <2> HIDE DEF t
  <2>7. Forwards(s, t)
    BY <1>2, <2>1, <2>5, <2>6 DEF Forwards, h
  <2>8. CASE more
    <3>1. /\ u \in Fine(K, b, w) /\ u.text = t.text /\ u.settled = t.settled
          /\ u.buffered = t.buffered
          /\ (u.deleting <=> t.deleting) /\ (u.settling <=> t.settling)
          /\ (u.cycle <=> t.cycle) /\ (u.disabled <=> t.disabled)
          /\ (u.safety <=> t.safety)
      BY ZenonT(60), <2>4, <2>8, TimerFine
    <3> HIDE DEF u
    <3>2. Forwards(s, u)
      BY <2>7, <3>1 DEF Forwards, Quiet
    <3> QED
      BY <2>2, <2>8, <3>1, <3>2
  <2> QED
    BY <2>2, <2>4, <2>7, <2>8
<1> QED
  BY <1>1, <1>2

\* A context u that a replay makes of s: while what is committed is dropped, only a
\* forwarded key changes the text; and what was held for the browser is held or given up.
Leads(s, u) ==
    /\ u.disabled <=> s.disabled
    /\ s.disabled /\ u.text # s.text =>
          s.settled # <<>> /\ u.text = Raw(s, Head(s.settled)).text
    /\ (u.cycle <=> s.cycle) \/ (~u.cycle /\ Quiet(u))

\* A replay of the buffered keys, and of the held ones after them, keeps the order.
LEMMA ReplayBufferedFine ==
    ASSUME Env, NEW K, K \subseteq Keys, NEW b \in Int, NEW w \in Int, w <= b,
           NEW s \in Fine(K, b, w), ~s.replayTimer
    PROVE  ReplayBuffered(s) \in Fine(K, b, w) /\ Leads(s, ReplayBuffered(s))
<1> DEFINE e == [s EXCEPT !.buffered = <<>>]
           t == FoldLeft(Rebuffer, e, s.buffered)
           u == ReplayBuffered(s)
<1>1. s \in Context(K) /\ s.seen <= s.expected /\ BatchInv(s) /\ Solvent(s, b, w)
  BY DEF Fine
<1>2. e \in Ready(K, b, w)
  <2> DEFINE q == <<>>
             d == [s EXCEPT !.buffered = q]
  <2>1. q \in Seq(K) /\ d = e
    BY NoKeys
  <2> HIDE DEF q
  <2>2. /\ d \in Context(K) /\ d.seen <= d.expected
        /\ d.removed = s.removed /\ d.settled = s.settled /\ d.left = s.left
        /\ d.tail = s.tail /\ d.grace = s.grace /\ d.outstanding = s.outstanding
        /\ ~d.replayTimer
    BY <1>1, <2>1 DEF Context
  <2>3. BatchInv(d)
    BY <1>1 DEF BatchInv, Context
  <2> HIDE DEF d
  <2>4. Solvent(d, b, w)
    BY <1>1, <2>2, SolventKept
  <2> QED
    BY <2>1, <2>2, <2>3, <2>4 DEF Ready, Fine
<1>3. e.text = s.text /\ e.settled = s.settled /\ (e.cycle <=> s.cycle)
      /\ (e.disabled <=> s.disabled) /\ e \in Context(K)
  BY <1>1, <1>2 DEF Context, Ready, Fine
<1>4. s.buffered \in Seq(K)
  BY <1>1, Typed
<1>5. u = IF t.deleting THEN t ELSE ReplaySettled(t)
  BY DEF ReplayBuffered
<1> HIDE DEF e, u
<1>6. t \in Ready(K, b, w) /\ Onward(e, t)
  BY <1>2, <1>4, FoldFine
<1> HIDE DEF t
<1>7. t \in Fine(K, b, w) /\ t \in Context(K)
  BY <1>6 DEF Ready, Fine
<1>8. u \in Fine(K, b, w) /\ Forwards(t, u)
  <2>1. Forwards(t, t)
    BY DEF Forwards
  <2> QED
    BY <1>5, <1>7, <2>1, ReplaySettledFine
<1>9. u.disabled <=> s.disabled
  BY <1>3, <1>6, <1>8 DEF Onward, Forwards
<1>10. ASSUME s.disabled, u.text # s.text
       PROVE  s.settled # <<>> /\ u.text = Raw(s, Head(s.settled)).text
  <2>1. t.text = s.text
    BY <1>3, <1>6, <1>10 DEF Onward
  <2>2. t.settled # <<>> /\ u.text = Raw(t, Head(t.settled)).text
    BY <1>8, <1>10, <2>1 DEF Forwards
  <2>3. t.settled = s.settled
    BY <1>3, <1>6, <2>2 DEF Onward, Quiet
  <2>4. Raw(t, Head(s.settled)).text = Raw(s, Head(s.settled)).text
    <3> DEFINE h == Head(s.settled)
    <3> HIDE DEF h
    <3>2. Raw(s, h).text = TextAfter(s.text, h)
      <4>1. RawLike(s, Raw(s, h), h)
        BY <1>1, RawFrame
      <4> QED
        BY <4>1 DEF RawLike
    <3>3. Raw(t, h).text = TextAfter(t.text, h)
      <4>1. RawLike(t, Raw(t, h), h)
        BY <1>7, RawFrame
      <4> QED
        BY <4>1 DEF RawLike
    <3>4. Raw(t, h).text = Raw(s, h).text
      BY <2>1, <3>2, <3>3
    <3> QED
      BY <3>4 DEF h
  <2> QED
    BY <2>2, <2>3, <2>4
<1>11. (u.cycle <=> s.cycle) \/ (~u.cycle /\ Quiet(u))
  <2>1. CASE (t.cycle <=> e.cycle)
    BY <1>3, <1>8, <2>1 DEF Forwards
  <2>2. CASE ~t.cycle /\ Quiet(t)
    <3>1. ReplaySettled(t) = t
      BY <2>2 DEF ReplaySettled, Quiet
    <3> QED
      BY <1>5, <2>2, <3>1
  <2> QED
    BY <1>6, <2>1, <2>2 DEF Onward
<1> QED
  BY <1>8, <1>9, <1>10, <1>11 DEF u, Leads

---------------------------------------------------------------------------
(* The ends of a replacement.                                              *)

\* The contexts s and t have the same batch and the same queues.
Agrees(s, t) ==
    /\ t.deleting = s.deleting /\ t.settling = s.settling /\ t.safety = s.safety
    /\ t.expected = s.expected /\ t.seen = s.seen /\ t.outstanding = s.outstanding
    /\ t.ticket = s.ticket /\ t.left = s.left /\ t.tail = s.tail /\ t.grace = s.grace
    /\ t.replayTimer = s.replayTimer /\ t.pending = s.pending
    /\ t.settled = s.settled /\ t.buffered = s.buffered /\ t.removed = s.removed

\* The order depends on the fields in which two contexts agree.
LEMMA AgreeFine ==
    ASSUME NEW K, NEW b, NEW w, NEW s \in Fine(K, b, w), NEW t \in Context(K), Agrees(s, t)
    PROVE  t \in Fine(K, b, w) /\ (Quiet(s) => Quiet(t))
<1>1. s.seen <= s.expected /\ BatchInv(s) /\ Solvent(s, b, w)
  BY DEF Fine
<1>2. t.seen <= t.expected
  BY <1>1 DEF Agrees
<1>3. BatchInv(t)
  BY <1>1 DEF BatchInv, Agrees
<1>4. Solvent(t, b, w)
  BY <1>1, SolventKept DEF Agrees
<1>5. Quiet(s) => Quiet(t)
  BY DEF Agrees, Quiet
<1> QED
  BY <1>2, <1>3, <1>4, <1>5 DEF Fine

\* A step from s to t that only drops a commit, before t leads to u.
LEMMA LeadsOn ==
    ASSUME NEW K, NEW s \in Context(K), NEW t \in Context(K), NEW u, Leads(t, u),
           t.disabled <=> s.disabled, s.disabled => t.text = s.text,
           t.settled = s.settled, t.cycle <=> s.cycle
    PROVE  Leads(s, u)
<1>1. ASSUME s.disabled, u.text # s.text
      PROVE  s.settled # <<>> /\ u.text = Raw(s, Head(s.settled)).text
  <2> DEFINE h == Head(s.settled)
  <2>1. s.settled # <<>> /\ u.text = Raw(t, h).text
    BY <1>1 DEF Leads
  <2> HIDE DEF h
  <2>2. RawLike(s, Raw(s, h), h)
    BY RawFrame
  <2>3. RawLike(t, Raw(t, h), h)
    BY RawFrame
  <2>4. Raw(s, h).text = TextAfter(s.text, h) /\ Raw(t, h).text = TextAfter(t.text, h)
    BY <2>2, <2>3 DEF RawLike
  <2> QED
    BY <1>1, <2>1, <2>4 DEF h
<1> QED
  BY <1>1 DEF Leads

\* A replacement ends when the worker has typed the whole batch.
LEMMA EndFine ==
    ASSUME Numbers, NEW K, NEW b, NEW w, NEW s \in Context(K), Solvent(s, b, w),
           s.seen <= s.expected, s.ticket = "Complete", s.left = 0, s.outstanding = 0,
           ~s.safety, ~s.replayTimer
    PROVE  LET t == [s EXCEPT !.pending = <<>>, !.settling = FALSE, !.deleting = FALSE]
           IN  /\ t \in Fine(K, b, w) /\ ~t.replayTimer /\ ~t.deleting
               /\ t.ticket = "Complete" /\ t.text = s.text /\ t.settled = s.settled
               /\ (t.cycle <=> s.cycle) /\ (t.disabled <=> s.disabled)
<1> DEFINE e == <<>>
           t == [s EXCEPT !.pending = e, !.settling = FALSE, !.deleting = FALSE]
<1>1. e \in Seq(Glyphs(K)) /\ e = <<>>
  BY NoKeys
<1>2. t = [s EXCEPT !.pending = <<>>, !.settling = FALSE, !.deleting = FALSE]
  OBVIOUS
<1> HIDE DEF e
<1>3. /\ t \in Context(K) /\ t.seen = s.seen /\ t.expected = s.expected
      /\ t.removed = s.removed /\ t.settled = s.settled /\ t.left = s.left
      /\ t.tail = s.tail /\ t.grace = s.grace /\ t.outstanding = s.outstanding
      /\ t.text = s.text /\ (t.cycle <=> s.cycle) /\ (t.disabled <=> s.disabled)
      /\ (t.replayTimer <=> s.replayTimer) /\ t.ticket = s.ticket /\ t.pending = e
      /\ ~t.deleting /\ ~t.settling /\ (t.safety <=> s.safety)
  BY ZenonT(60), <1>1 DEF Context
<1> HIDE DEF t
<1>4. BatchInv(t)
  BY <1>1, <1>3 DEF BatchInv
<1>5. Solvent(t, b, w)
  BY <1>3, SolventKept
<1> QED
  BY <1>2, <1>3, <1>4, <1>5 DEF Fine

\* The commit, and what waited for it.
LEMMA SettleCommitFine ==
    ASSUME Env, NEW K, K \subseteq Keys, NEW b \in Int, NEW w \in Int, w <= b,
           NEW s \in Context(K), Solvent(s, b, w), s.seen <= s.expected,
           s.ticket = "Complete", s.left = 0, s.outstanding = 0, ~s.safety, ~s.replayTimer
    PROVE  SettleCommit(s) \in Fine(K, b, w) /\ Leads(s, SettleCommit(s))
<1> DEFINE g == s.pending
           x == [s EXCEPT !.pending = <<>>, !.settling = FALSE, !.deleting = FALSE]
           t == Put(x, g)
           u == SettleCommit(s)
<1>1. /\ x \in Fine(K, b, w) /\ ~x.replayTimer /\ ~x.deleting
      /\ x.ticket = "Complete" /\ x.text = s.text /\ x.settled = s.settled
      /\ (x.cycle <=> s.cycle) /\ (x.disabled <=> s.disabled)
  BY EndFine DEF Env
<1>2. g \in Seq(Glyphs(K))
  BY Typed
<1>3. u = IF Ordered THEN [t EXCEPT !.replayTimer = TRUE] ELSE ReplayBuffered(t)
  <2>1. Commit(x, g) = t
    BY <1>1 DEF Commit
  <2> HIDE DEF t
  <2> QED
    BY <2>1 DEF SettleCommit
<1> HIDE DEF g, x
<1>4. /\ t \in Fine(K, b, w) /\ (x.disabled => t.text = x.text) /\ t.settled = x.settled
      /\ (t.deleting <=> x.deleting) /\ (t.replayTimer <=> x.replayTimer)
      /\ (t.cycle <=> x.cycle) /\ (t.disabled <=> x.disabled)
  BY <1>1, <1>2, PutFine
<1> HIDE DEF t, u
<1>5. CASE Ordered
  <2> DEFINE v == [t EXCEPT !.replayTimer = TRUE]
  <2>1. /\ v \in Fine(K, b, w) /\ v.text = t.text /\ v.settled = t.settled
        /\ (v.cycle <=> t.cycle) /\ (v.disabled <=> t.disabled)
    BY ZenonT(60), <1>1, <1>4, TimerFine
  <2> HIDE DEF v
  <2>2. Leads(s, v)
    BY <1>1, <1>4, <2>1 DEF Leads
  <2>3. u = v
    BY <1>3, <1>5 DEF v
  <2> QED
    BY <2>1, <2>2, <2>3 DEF u
<1>6. CASE ~Ordered
  <2>1. u = ReplayBuffered(t)
    BY <1>3, <1>6
  <2>2. u \in Fine(K, b, w) /\ Leads(t, u)
    BY <1>1, <1>4, <2>1, ReplayBufferedFine
  <2>3. Leads(s, u)
    <3>1. t \in Context(K)
      BY <1>4 DEF Fine
    <3>2. /\ (t.disabled <=> s.disabled) /\ (s.disabled => t.text = s.text)
          /\ t.settled = s.settled /\ (t.cycle <=> s.cycle)
      BY <1>1, <1>4
    <3> QED
      BY <2>2, <3>1, <3>2, LeadsOn
  <2> QED
    BY <2>2, <2>3 DEF u
<1> QED
  BY <1>5, <1>6

---------------------------------------------------------------------------
(* The timers of a replacement.                                            *)

\* The settle starts when the anchor is back; its batch is complete, failed or at work.
LEMMA SettleReady ==
    ASSUME NEW K, NEW b, NEW w, NEW s \in Fine(K, b, w), s.deleting
    PROVE  /\ s \in Context(K) /\ s.seen <= s.expected /\ Solvent(s, b, w)
           /\ s.ticket # "Failed" /\ ~StillTyping(s) => s.ticket = "Complete" /\ s.left = 0
           /\ ~s.grace /\ ~s.replayTimer
           /\ s.expected = 0 => s.settling
           /\ s.settling => s.outstanding = 0 /\ ~s.safety /\ s.expected = 0
<1>1. s \in Context(K) /\ s.seen <= s.expected /\ BatchInv(s) /\ Solvent(s, b, w)
  BY DEF Fine
<1>2. s.ticket \in Tickets /\ s.ticket # "none" /\ s.expected \in 0..MaxDelete
  BY <1>1, Typed DEF BatchInv
<1>3. s.ticket # "Failed" /\ ~StillTyping(s) => s.ticket = "Complete" /\ s.left = 0
  BY <1>1, <1>2 DEF BatchInv, Tickets, StillTyping
<1>4. /\ ~s.grace /\ ~s.replayTimer
      /\ s.expected = 0 => s.settling
      /\ s.settling => s.outstanding = 0 /\ ~s.safety /\ s.expected = 0
  BY <1>1, <1>2 DEF BatchInv
<1> QED
  BY <1>1, <1>3, <1>4

\* A deletion that was eaten is sent again, with an anchor.
LEMMA RepairFine ==
    ASSUME Numbers, NEW K, NEW b \in Int, NEW w \in Int, NEW s \in Fine(K, b, w),
           s.deleting, s.settling, s.repairs < 3, s.ticket = "Complete"
    PROVE  LET t == Send(Repair(s), 2)
           IN  /\ t \in Fine(K, b, w) /\ t.text = s.text /\ t.settled = s.settled
               /\ (t.cycle <=> s.cycle) /\ (t.disabled <=> s.disabled)
<1> DEFINE n == s.repairs + 1
           o == s.outstanding + 2
           t == [s EXCEPT !.repairs = n, !.expected = 1, !.seen = 0, !.settling = FALSE,
                          !.ticket = "Queued", !.left = 2, !.outstanding = o]
<1>1. /\ s \in Context(K) /\ BatchInv(s) /\ Solvent(s, b, w) /\ s.outstanding = 0
      /\ ~s.safety /\ s.left = 0 /\ ~s.grace
  BY SettleReady DEF Fine, BatchInv
<1>2. n \in 0..3 /\ o = 2 /\ 1 \in 0..MaxDelete /\ 0 \in 0..MaxDelete /\ s.removed \in Nat
  <2>1. s.repairs \in 0..3 /\ s.removed \in Nat
    BY <1>1, Typed
  <2>2. MaxDelete \in Nat \ {0}
    BY DEF Numbers
  <2> QED
    BY <1>1, <2>1, <2>2
<1>3. Send(Repair(s), 2) = t
  BY <1>1 DEF Send, Repair, Context
<1> HIDE DEF n, o
<1>4. /\ t \in Context(K) /\ t.expected = 1 /\ t.seen = 0 /\ t.settling = FALSE
      /\ t.ticket = "Queued" /\ t.left = 2 /\ t.outstanding = o
      /\ t.deleting = s.deleting /\ t.safety = s.safety /\ t.grace = s.grace
      /\ t.replayTimer = s.replayTimer /\ t.pending = s.pending
      /\ t.text = s.text /\ t.settled = s.settled /\ t.removed = s.removed
      /\ t.tail = s.tail /\ t.cycle = s.cycle /\ t.disabled = s.disabled
  BY ZenonT(60), <1>1, <1>2 DEF Context, Tickets
<1> HIDE DEF t
<1>5. BatchInv(t)
  BY <1>1, <1>2, <1>4 DEF BatchInv
<1>6. Solvent(t, b, w)
  <2> DEFINE a == Count(s.settled, {Loopback, Backspace})
             x == IF s.tail THEN 1 ELSE 0
             m == s.removed
  <2>1. Owed(s) = m + a + 0 + x /\ Owed(t) = m + a + 2 + x
    BY <1>1, <1>4 DEF Owed
  <2>2. m \in Nat /\ a \in Nat /\ x \in Nat
    BY <1>1, <1>2, Counts
  <2> HIDE DEF a, x, m
  <2>3. Owed(t) = Owed(s) + 2 /\ Owed(s) \in Nat
    BY <2>1, <2>2
  <2>4. Owed(s) <= w + 0
    BY <1>1 DEF Solvent
  <2>5. Owed(t) <= w + 2
    BY <2>3, <2>4
  <2>6. Spent(t) = Spent(s)
    BY <1>4 DEF Spent
  <2> QED
    BY <1>1, <1>2, <1>4, <2>5, <2>6 DEF Solvent
<1>7. t.seen <= t.expected
  BY <1>4
<1> QED
  BY <1>3, <1>4, <1>5, <1>6, <1>7 DEF Fine

\* A settle commits once the batch is typed and the browser is back, or repairs.
LEMMA FinishSettleFine ==
    ASSUME Env, NEW K, K \subseteq Keys, NEW b \in Int, NEW w \in Int, w <= b,
           NEW s \in Fine(K, b, w), s.deleting, s.settling, NEW missed \in BOOLEAN
    PROVE  LET u == FinishSettle(s, missed)
           IN  /\ u \in Fine(K, b, w) /\ Leads(s, u)
               /\ s.ticket # "Complete" => u.text = s.text
<1> DEFINE u == FinishSettle(s, missed)
<1>1. /\ s \in Context(K) /\ s.seen <= s.expected /\ Solvent(s, b, w)
      /\ s.ticket # "Failed" /\ ~StillTyping(s) => s.ticket = "Complete" /\ s.left = 0
      /\ ~s.replayTimer /\ s.outstanding = 0 /\ ~s.safety /\ s.expected = 0
  BY SettleReady
<1>2. CASE s.ticket = "Failed"
  <2>1. u = Reset(s)
    BY <1>2 DEF FinishSettle
  <2> HIDE DEF u
  <2>2. /\ u \in Fine(K, b, w) /\ Quiet(u) /\ ~u.cycle /\ u.text = s.text
        /\ (u.disabled <=> s.disabled)
    BY <2>1, ResetFine DEF Env
  <2>3. Leads(s, u)
    BY <2>2 DEF Leads
  <2> QED
    BY <2>2, <2>3 DEF u
<1>3. CASE s.ticket # "Failed" /\ (StillTyping(s) \/ AwaitsReturn(s))
  <2>1. u = s
    BY <1>3 DEF FinishSettle
  <2> HIDE DEF u
  <2> QED
    BY <2>1 DEF u, Leads
<1>4. CASE s.ticket # "Failed" /\ ~(StillTyping(s) \/ AwaitsReturn(s))
  <2>1. s.ticket = "Complete" /\ s.left = 0
    BY <1>1, <1>4
  <2> DEFINE broken == ~(Blind /\ missed /\ s.repairs < 3 /\ s.oldWord # <<>>)
             n == s.repairs + 1
             x == [s EXCEPT !.repairs = n]
             y == [s EXCEPT !.repairs = n, !.expected = 1, !.seen = 0, !.settling = FALSE]
             z == Send(Repair(s), 2)
  <2>2. CASE broken
    <3>1. u = SettleCommit(s)
      BY <1>4, <2>2 DEF FinishSettle
    <3> HIDE DEF u
    <3> QED
      BY <1>1, <2>1, <3>1, SettleCommitFine DEF u
  <2>3. CASE ~broken
    <3>1. n \in 0..3 /\ s.repairs < 3 /\ 1 \in 0..MaxDelete /\ 0 \in 0..MaxDelete
      <4>1. s.repairs \in 0..3
        BY <1>1, Typed
      <4>2. MaxDelete \in Nat \ {0}
        BY DEF Env, Numbers
      <4> QED
        BY <2>3, <4>1, <4>2
    <3>2. /\ x = [s EXCEPT !.repairs = @ + 1] /\ y = Repair(s)
      BY <1>1 DEF Repair, Context
    <3>3. u = SettleCommit(x) \/ u = SettleCommit(y) \/ u = z
      BY <1>4, <2>3, <3>2 DEF FinishSettle
    <3> HIDE DEF u, n, z
    <3>4. /\ x \in Context(K) /\ x.seen <= x.expected /\ x.removed = s.removed
          /\ x.settled = s.settled /\ x.left = s.left /\ x.tail = s.tail
          /\ x.grace = s.grace /\ x.outstanding = s.outstanding /\ x.ticket = s.ticket
          /\ x.safety = s.safety /\ x.replayTimer = s.replayTimer /\ x.text = s.text
          /\ x.cycle = s.cycle /\ x.disabled = s.disabled
      BY <1>1, <3>1 DEF Context
    <3>5. /\ y \in Context(K) /\ y.seen = 0 /\ y.expected = 1 /\ y.removed = s.removed
          /\ y.settled = s.settled /\ y.left = s.left /\ y.tail = s.tail
          /\ y.grace = s.grace /\ y.outstanding = s.outstanding /\ y.ticket = s.ticket
          /\ y.safety = s.safety /\ y.replayTimer = s.replayTimer /\ y.text = s.text
          /\ y.cycle = s.cycle /\ y.disabled = s.disabled
      BY ZenonT(60), <1>1, <3>1 DEF Context
    <3> HIDE DEF x, y
    <3>10. y.seen <= y.expected
      BY <3>5
    <3>6. Solvent(x, b, w) /\ Solvent(y, b, w)
      BY <1>1, <3>4, <3>5, SolventKept
    <3>7. CASE u = SettleCommit(x)
      <4>1. u \in Fine(K, b, w) /\ Leads(x, u)
        BY <1>1, <2>1, <3>4, <3>6, <3>7, SettleCommitFine
      <4>2. Leads(s, u)
        BY <1>1, <3>4, <4>1, LeadsOn
      <4> QED
        BY <2>1, <4>1, <4>2 DEF u
    <3>8. CASE u = SettleCommit(y)
      <4>1. u \in Fine(K, b, w) /\ Leads(y, u)
        BY <1>1, <2>1, <3>5, <3>6, <3>8, <3>10, SettleCommitFine
      <4>2. Leads(s, u)
        BY <1>1, <3>5, <4>1, LeadsOn
      <4> QED
        BY <2>1, <4>1, <4>2 DEF u
    <3>9. CASE u = z
      <4>1. /\ u \in Fine(K, b, w) /\ u.text = s.text /\ u.settled = s.settled
            /\ (u.cycle <=> s.cycle) /\ (u.disabled <=> s.disabled)
        BY <2>1, <3>1, <3>9, RepairFine DEF z, Env
      <4>2. Leads(s, u)
        BY <4>1 DEF Leads
      <4> QED
        BY <2>1, <4>1, <4>2 DEF u
    <3> QED
      BY <3>3, <3>7, <3>8, <3>9
  <2> QED
    BY <2>2, <2>3
<1> QED
  BY <1>2, <1>3, <1>4

\* The safety timeout commits without the loopbacks, and swallows those that still come.
LEMMA ForceCommitFine ==
    ASSUME Env, NEW K, K \subseteq Keys, NEW b \in Int, NEW w \in Int, w <= b,
           NEW s \in Fine(K, b, w), s.safety, ~StillTyping(s), s.ticket # "Failed"
    PROVE  ForceCommit(s) \in Fine(K, b, w) /\ Leads(s, ForceCommit(s))
<1> DEFINE e == <<>>
           g == s.pending
           x == [s EXCEPT !.retried = FALSE, !.safety = FALSE, !.grace = TRUE,
                    !.pending = e, !.expected = 0, !.seen = 0, !.outstanding = 0,
                    !.deleting = FALSE]
           t == Put(x, g)
           u == ForceCommit(s)
<1>1. s \in Context(K) /\ BatchInv(s) /\ Solvent(s, b, w) /\ s.deleting /\ ~s.settling
  BY DEF Fine, BatchInv
<1>2. s.ticket = "Complete" /\ s.left = 0 /\ ~s.replayTimer
  BY <1>1, SettleReady
<1>3. e \in Seq(Glyphs(K)) /\ g \in Seq(Glyphs(K)) /\ 0 \in 0..MaxDelete /\ e = <<>>
  <2>1. e \in Seq(Glyphs(K)) /\ g \in Seq(Glyphs(K)) /\ e = <<>>
    BY <1>1, Typed, NoKeys
  <2>2. MaxDelete \in Nat \ {0}
    BY DEF Env, Numbers
  <2> QED
    BY <2>1, <2>2
<1>4. u = ReplayBuffered(Commit(x, g))
  BY DEF ForceCommit
<1> HIDE DEF e, u
<1>5. /\ x \in Context(K) /\ ~x.deleting /\ x.settling = s.settling /\ ~x.safety /\ x.grace
      /\ x.pending = e /\ x.expected = 0 /\ x.seen = 0 /\ x.outstanding = 0
      /\ x.ticket = s.ticket /\ x.left = s.left /\ x.replayTimer = s.replayTimer
      /\ x.text = s.text /\ x.settled = s.settled /\ x.removed = s.removed
      /\ x.cycle = s.cycle /\ x.disabled = s.disabled
  BY ZenonT(60), <1>1, <1>3 DEF Context
<1> HIDE DEF x
<1>6. BatchInv(x)
  BY <1>1, <1>2, <1>3, <1>5 DEF BatchInv
<1>7. Solvent(x, b, w)
  <2>1. Spent(x) = Spent(s)
    BY <1>5 DEF Spent
  <2> QED
    BY <1>1, <1>5, <2>1 DEF Solvent
<1>8. x \in Fine(K, b, w)
  BY <1>5, <1>6, <1>7 DEF Fine
<1>9. Commit(x, g) = t
  BY <1>2, <1>5 DEF Commit
<1> HIDE DEF g
<1>10. /\ t \in Fine(K, b, w) /\ (x.disabled => t.text = x.text) /\ t.settled = x.settled
       /\ (t.replayTimer <=> x.replayTimer)
       /\ (t.cycle <=> x.cycle) /\ (t.disabled <=> x.disabled)
  BY <1>3, <1>8, PutFine
<1> HIDE DEF t
<1>11. u \in Fine(K, b, w) /\ Leads(t, u)
  BY <1>2, <1>4, <1>5, <1>9, <1>10, ReplayBufferedFine
<1>12. Leads(s, u)
  <2>1. t \in Context(K)
    BY <1>10 DEF Fine
  <2>2. /\ (t.disabled <=> s.disabled) /\ (s.disabled => t.text = s.text)
        /\ t.settled = s.settled /\ (t.cycle <=> s.cycle)
    BY <1>5, <1>10
  <2> QED
    BY <1>1, <1>11, <2>1, <2>2, LeadsOn
<1> QED
  BY <1>11, <1>12 DEF u

---------------------------------------------------------------------------
(* Losing the focus, and taking it again.                                  *)

\* Where nothing is under way and nothing waits, a replay does nothing.
LEMMA ReplayQuiet ==
    ASSUME NEW K, NEW s \in Context(K), Quiet(s)
    PROVE  ReplayBuffered(s).text = s.text /\ Quiet(ReplayBuffered(s))
<1> DEFINE e == [s EXCEPT !.buffered = <<>>]
           t == FoldLeft(Rebuffer, e, s.buffered)
<1>1. /\ e.text = s.text /\ e.settled = <<>> /\ ~e.deleting /\ ~e.settling /\ ~e.safety
      /\ e.buffered = <<>>
  BY DEF Context, Quiet
<1>2. s.buffered = <<>>
  BY DEF Quiet
<1>3. ReplayBuffered(s) = IF t.deleting THEN t ELSE ReplaySettled(t)
  BY DEF ReplayBuffered
<1> HIDE DEF e
<1>4. t = e
  <2> DEFINE P == {e}
             S == {}
  <2>1. s.buffered \in Seq(S)
    BY <1>2
  <2>2. e \in P /\ (\A x \in P, k \in S : Rebuffer(x, k) \in P)
    OBVIOUS
  <2> HIDE DEF P, S
  <2>3. FoldLeft(Rebuffer, e, s.buffered) \in P
    BY <2>1, <2>2, Folded
  <2> QED
    BY <2>3 DEF P
<1> HIDE DEF t
<1>5. ReplaySettled(e) = e
  BY <1>1 DEF ReplaySettled
<1> QED
  BY <1>1, <1>3, <1>4, <1>5 DEF Quiet

\* A replay, at the end of its pause.
LEMMA ReplayFiresFine ==
    ASSUME Env, NEW K, K \subseteq Keys, NEW b \in Int, NEW w \in Int, w <= b,
           NEW s \in Fine(K, b, w), s.replayTimer
    PROVE  LET u == ReplayBuffered([s EXCEPT !.replayTimer = FALSE])
           IN  /\ u \in Fine(K, b, w) /\ Leads(s, u)
               /\ Quiet(s) => u.text = s.text /\ Quiet(u)
<1> DEFINE n == FALSE
           x == [s EXCEPT !.replayTimer = n]
           u == ReplayBuffered(x)
<1>0. n \in BOOLEAN /\ ~n
  OBVIOUS
<1>6. ReplayBuffered([s EXCEPT !.replayTimer = FALSE]) = u
  OBVIOUS
<1> HIDE DEF n
<1>1. /\ x \in Fine(K, b, w) /\ x.text = s.text /\ x.settled = s.settled
      /\ x.buffered = s.buffered /\ ~x.replayTimer
      /\ (x.deleting <=> s.deleting) /\ (x.settling <=> s.settling)
      /\ (x.cycle <=> s.cycle) /\ (x.disabled <=> s.disabled)
      /\ (x.safety <=> s.safety)
  BY <1>0, TimerFine
<1> HIDE DEF x
<1>2. u \in Fine(K, b, w) /\ Leads(x, u)
  BY <1>1, ReplayBufferedFine
<1>3. x \in Context(K) /\ s \in Context(K)
  BY <1>1 DEF Fine
<1>4. ASSUME Quiet(s) PROVE u.text = s.text /\ Quiet(u)
  <2>1. Quiet(x)
    BY <1>1, <1>4 DEF Quiet
  <2> QED
    BY <1>1, <1>3, <2>1, ReplayQuiet
<1> HIDE DEF u
<1>5. Leads(s, u)
  BY <1>1, <1>2, <1>3, LeadsOn
<1> QED
  BY <1>2, <1>4, <1>5, <1>6

\* The focus goes: what is typed is committed.
LEMMA FlushFine ==
    ASSUME Env, NEW K, K \subseteq Keys, NEW b \in Int, NEW w \in Int, w <= b,
           NEW s \in Fine(K, b, w)
    PROVE  /\ Flush(s) \in Fine(K, b, w) /\ Leads(s, Flush(s))
           /\ ~s.deleting \/ s.ticket # "Complete" => Flush(s).text = s.text
<1> DEFINE u == Flush(s)
           flushed == s.deleting /\ s.expected = 0 /\ ~HeldOnWayland(s) /\ ~StillTyping(s)
<1>1. CASE ~flushed
  <2>1. u = s
    BY <1>1 DEF Flush
  <2> HIDE DEF u
  <2> QED
    BY <2>1 DEF Leads, u
<1>2. CASE flushed
  <2> DEFINE x == [s EXCEPT !.deleting = FALSE, !.settling = FALSE, !.pending = <<>>]
             g == s.pending
             t == Commit(x, g)
  <2>1. u = ReplayBuffered(t)
    BY <1>2 DEF Flush
  <2>2. /\ s \in Context(K) /\ s.seen <= s.expected /\ Solvent(s, b, w)
        /\ s.ticket # "Failed" => s.ticket = "Complete" /\ s.left = 0
        /\ ~s.replayTimer /\ s.outstanding = 0 /\ ~s.safety
    BY <1>2, SettleReady
  <2>3. g \in Seq(Glyphs(K))
    BY <2>2, Typed
  <2>4. CASE s.ticket = "Complete"
    <3> DEFINE p == Put(x, g)
    <3> DEFINE y == [s EXCEPT !.pending = <<>>, !.settling = FALSE, !.deleting = FALSE]
    <3>7. /\ y \in Fine(K, b, w) /\ ~y.replayTimer /\ ~y.deleting
          /\ y.ticket = "Complete" /\ y.text = s.text /\ y.settled = s.settled
          /\ (y.cycle <=> s.cycle) /\ (y.disabled <=> s.disabled)
      BY <2>2, <2>4, EndFine DEF Env
    <3>1. x = y
      BY <2>2 DEF Context
    <3> HIDE DEF x, y
    <3>2. /\ x \in Fine(K, b, w) /\ ~x.replayTimer /\ ~x.deleting
          /\ x.ticket = "Complete" /\ x.text = s.text /\ x.settled = s.settled
          /\ (x.cycle <=> s.cycle) /\ (x.disabled <=> s.disabled)
      BY <3>1, <3>7
    <3> HIDE DEF g
    <3>3. t = p
      BY <3>2 DEF Commit
    <3>4. /\ p \in Fine(K, b, w) /\ (x.disabled => p.text = x.text)
          /\ p.settled = x.settled /\ (p.replayTimer <=> x.replayTimer)
          /\ (p.cycle <=> x.cycle) /\ (p.disabled <=> x.disabled)
      BY <2>3, <3>2, PutFine
    <3> HIDE DEF p, t, u
    <3>5. u \in Fine(K, b, w) /\ Leads(p, u)
      BY <2>1, <3>2, <3>3, <3>4, ReplayBufferedFine
    <3>6. Leads(s, u)
      <4>1. p \in Context(K)
        BY <3>4 DEF Fine
      <4>2. /\ (p.disabled <=> s.disabled) /\ (s.disabled => p.text = s.text)
            /\ p.settled = s.settled /\ (p.cycle <=> s.cycle)
        BY <3>2, <3>4
      <4> QED
        BY <2>2, <3>5, <4>1, <4>2, LeadsOn
    <3> QED
      BY <1>2, <2>4, <3>5, <3>6 DEF u
  <2>5. CASE s.ticket = "Failed"
    <3> DEFINE e == <<>>
    <3>1. e \in Seq(Glyphs(K))
      BY NoKeys
    <3> DEFINE y == [s EXCEPT !.deleting = FALSE, !.settling = FALSE, !.pending = e]
    <3>2. x = y
      OBVIOUS
    <3> HIDE DEF e
    <3>11. /\ y \in Context(K) /\ y.ticket = s.ticket /\ y.removed = s.removed
           /\ y.settled = s.settled /\ y.left = s.left /\ y.tail = s.tail
           /\ y.grace = s.grace /\ y.outstanding = s.outstanding /\ y.text = s.text
           /\ y.disabled = s.disabled
      BY ZenonT(60), <2>2, <3>1 DEF Context
    <3> HIDE DEF x, y
    <3>3. /\ x \in Context(K) /\ x.ticket = "Failed" /\ x.removed = s.removed
          /\ x.settled = s.settled /\ x.left = s.left /\ x.tail = s.tail
          /\ x.grace = s.grace /\ x.outstanding = s.outstanding /\ x.text = s.text
          /\ (x.disabled <=> s.disabled)
      BY <2>5, <3>2, <3>11
    <3>4. Solvent(x, b, w)
      BY <2>2, <3>3, SolventKept
    <3>5. t = Reset(x)
      BY <3>3 DEF Commit
    <3> HIDE DEF t, u
    <3>6. t \in Fine(K, b, w) /\ Cleared(x, t)
      BY <3>3, <3>4, <3>5, ResetAny DEF Env
    <3>7. /\ Quiet(t) /\ ~t.cycle /\ ~t.replayTimer /\ t.text = s.text
          /\ (t.disabled <=> s.disabled) /\ t \in Context(K)
      BY <3>3, <3>6 DEF Cleared, Fine
    <3>8. u \in Fine(K, b, w) /\ Leads(t, u)
      BY <2>1, <3>6, <3>7, ReplayBufferedFine
    <3>9. u.text = s.text /\ Quiet(u)
      BY <2>1, <3>7, ReplayQuiet
    <3>10. Leads(s, u)
      BY <3>7, <3>8, <3>9 DEF Leads
    <3> QED
      BY <3>8, <3>9, <3>10 DEF u
  <2> QED
    BY <2>2, <2>4, <2>5
<1> QED
  BY <1>1, <1>2

\* The focus goes: what cannot be committed is held for a browser, or given up.
LEMMA LeaveFine ==
    ASSUME Env, NEW K, K \subseteq Keys, NEW b \in Int, NEW w \in Int, w <= b,
           NEW s \in Fine(K, b, w), ~s.cycle
    PROVE  LET r == Leave(s)
           IN  /\ r \in Fine(K, b, w) /\ (r.disabled <=> s.disabled)
               /\ r.cycle => Browser
               /\ ~r.cycle => Quiet(r)
               /\ ~s.deleting \/ s.ticket # "Complete" => r.text = s.text
<1> DEFINE t == Flush(s)
           r == Leave(s)
<1>1. /\ t \in Fine(K, b, w) /\ Leads(s, t)
      /\ ~s.deleting \/ s.ticket # "Complete" => t.text = s.text
  BY FlushFine
<1>2. r = IF Held(t) THEN [t EXCEPT !.cycle = TRUE] ELSE Abandon(t)
  BY DEF Leave
<1> HIDE DEF t, r
<1>3. CASE Held(t)
  <2> DEFINE v == [t EXCEPT !.cycle = TRUE]
  <2>1. t \in Context(K)
    BY <1>1 DEF Fine
  <2>2. v \in Context(K) /\ v.cycle /\ (v.disabled <=> t.disabled) /\ v.text = t.text
    BY <2>1 DEF Context
  <2>3. Agrees(t, v)
    BY <2>1 DEF Context, Agrees
  <2>4. r = v
    BY <1>2, <1>3
  <2> HIDE DEF v
  <2>5. v \in Fine(K, b, w)
    BY <1>1, <2>2, <2>3, AgreeFine
  <2> QED
    BY <1>1, <1>3, <2>2, <2>4, <2>5 DEF Held, Leads, r
<1>4. CASE ~Held(t)
  <2>1. /\ r \in Fine(K, b, w) /\ Quiet(r) /\ r.text = t.text
        /\ (r.disabled <=> t.disabled) /\ (r.cycle <=> t.cycle)
    BY <1>1, <1>2, <1>4, AbandonFine DEF Env
  <2>2. ~r.cycle
    BY <1>1, <2>1 DEF Leads
  <2> QED
    BY <1>1, <2>1, <2>2 DEF Leads, r
<1> QED
  BY <1>3, <1>4

\* The focus comes.
LEMMA ReturnFine ==
    ASSUME NEW K, NEW b, NEW w, NEW s \in Fine(K, b, w)
    PROVE  Return(s) \in Fine(K, b, w) /\ ~Return(s).cycle /\ Return(s).text = s.text
<1> DEFINE x == IF s.cycle THEN s.viet ELSE <<>>
           v == [s EXCEPT !.viet = x, !.cycle = FALSE, !.disabled = FALSE]
<1>1. s \in Context(K)
  BY DEF Fine
<1>2. Return(s) = v
  BY <1>1 DEF Return, Context
<1>3. x \in Seq(Glyphs(K))
  BY <1>1, Typed, NoKeys
<1> HIDE DEF x
<1>4. v \in Context(K) /\ ~v.cycle /\ v.text = s.text
  BY <1>1, <1>3 DEF Context
<1>5. Agrees(s, v)
  BY <1>1 DEF Context, Agrees
<1> HIDE DEF v
<1>6. v \in Fine(K, b, w)
  BY <1>4, <1>5, AgreeFine
<1> QED
  BY <1>2, <1>4, <1>6

\* What a reset of the page leaves.
LEMMA GivenUp ==
    ASSUME Numbers, NEW K, NEW b \in Int, NEW w \in Int, NEW s \in Fine(K, b, w)
    PROVE  LET r == [Abandon(s) EXCEPT !.outstanding = 0, !.retried = FALSE]
           IN  r \in Fine(K, b, w) /\ r.text = s.text /\ (r.cycle <=> s.cycle)
<1> DEFINE a == Abandon(s)
           r == [a EXCEPT !.outstanding = 0, !.retried = FALSE]
<1>1. a \in Fine(K, b, w) /\ Quiet(a) /\ a.text = s.text /\ (a.cycle <=> s.cycle)
  BY AbandonFine
<1> HIDE DEF a
<1>2. a \in Context(K) /\ a.outstanding = 0
  BY <1>1, BatchOwed DEF Fine, Quiet
<1>3. r \in Context(K) /\ r.cycle = a.cycle /\ r.text = a.text
  BY ZenonT(60), <1>2 DEF Context
<1>4. Agrees(a, r)
  BY <1>2 DEF Context, Agrees
<1> HIDE DEF r
<1>5. r \in Fine(K, b, w)
  BY <1>1, <1>3, <1>4, AgreeFine
<1> QED
  BY <1>1, <1>3, <1>5 DEF r, a

\* The context once the 500 ms are over.
Expired(s) == [Abandon(s) EXCEPT !.outstanding = 0, !.retried = FALSE, !.cycle = FALSE]

\* It is quiet, and shows what it did.
LEMMA ExpiredFine ==
    ASSUME Numbers, NEW K, NEW b \in Int, NEW w \in Int, NEW s \in Fine(K, b, w)
    PROVE  /\ Expired(s) \in Fine(K, b, w) /\ Expired(s).text = s.text
           /\ Expired(s).cycle = FALSE /\ Quiet(Expired(s))
           /\ (Expired(s).disabled <=> s.disabled)
<1> DEFINE a == Abandon(s)
           v == [a EXCEPT !.outstanding = 0, !.retried = FALSE, !.cycle = FALSE]
<1>1. /\ a \in Fine(K, b, w) /\ Quiet(a) /\ a.text = s.text /\ (a.disabled <=> s.disabled)
  BY AbandonFine
<1>2. Expired(s) = v
  BY DEF Expired
<1> HIDE DEF a
<1>3. a \in Context(K) /\ a.outstanding = 0
  BY <1>1, BatchOwed DEF Fine, Quiet
<1>4. v \in Context(K) /\ v.cycle = FALSE /\ v.text = a.text /\ v.disabled = a.disabled
  <2> DEFINE r == [a EXCEPT !.outstanding = 0, !.retried = FALSE]
  <2>1. r \in Context(K) /\ r.text = a.text /\ r.disabled = a.disabled
    BY ZenonT(60), <1>3 DEF Context
  <2>2. v = [r EXCEPT !.cycle = FALSE]
    BY <1>3 DEF Context
  <2> HIDE DEF r, v
  <2> QED
    BY ZenonT(60), <2>1, <2>2 DEF Context
<1>5. Agrees(a, v)
  BY <1>3 DEF Context, Agrees
<1> HIDE DEF v
<1>6. v \in Fine(K, b, w) /\ Quiet(v)
  BY <1>1, <1>4, <1>5, AgreeFine
<1> QED
  BY <1>1, <1>2, <1>4, <1>6

---------------------------------------------------------------------------
(* The inductive invariant and its parts.                                  *)

\* A context that has seen more keys.
LEMMA ContextGrows ==
    ASSUME NEW K, NEW L, K \subseteq L, NEW s \in Context(K)
    PROVE  s \in Context(L)
<1>1. Glyphs(K) \subseteq Glyphs(L)
  BY DEF Glyphs
<1>2. Seq(Glyphs(K)) \subseteq Seq(Glyphs(L))
  BY <1>1, SeqMonotonic
<1>3. Seq(K) \subseteq Seq(L)
  BY SeqMonotonic
<1>4. Seq(K \cup {Loopback, Backspace}) \subseteq Seq(L \cup {Loopback, Backspace})
  <2>1. K \cup {Loopback, Backspace} \subseteq L \cup {Loopback, Backspace}
    OBVIOUS
  <2> QED
    BY <2>1, SeqMonotonic
<1>5. SUBSET K \subseteq SUBSET L
  OBVIOUS
<1> QED
  BY <1>2, <1>3, <1>4, <1>5 DEF Context

\* A context in order stays so when more keys have come, and more Backspaces.
LEMMA FineGrows ==
    ASSUME NEW K, NEW L, K \subseteq L, NEW c \in Int, NEW v \in Int, NEW b \in Int, NEW w \in Int,
           c <= b, v <= w, NEW s \in Fine(K, c, v)
    PROVE  s \in Fine(L, b, w)
<1>1. s \in Fine(K, b, w)
  BY Richer
<1>2. s \in Context(L)
  BY <1>1, ContextGrows DEF Fine
<1> QED
  BY <1>1, <1>2 DEF Fine

\* What the inductive invariant says of the context.
LEMMA Here ==
    ASSUME IInv
    PROVE  /\ Env /\ Arrived \subseteq Keys /\ Came \in Int /\ Spare \in Int /\ Spare <= Came
           /\ ic \in Fine(Arrived, Came, Spare)
<1>1. Env
  BY ReplacementAssumption DEF Env, Numbers, IInv, TypeOK
<1>2. Arrived \subseteq Keys
  BY <1>1 DEF IInv, TypeOK, Arrived, Keys, Env, Numbers
<1>3. wire \in Seq(0..Backspace) /\ used.backspaces \in Nat
  BY DEF IInv, TypeOK
<1> DEFINE p == Count(wire, {Backspace})
           a == Count(wire, {Loopback, Backspace})
<1>4. p \in Nat /\ a \in Nat
  BY <1>3, CountNat
<1>5. p <= a
  BY <1>3, CountMore
<1>6. Came = used.backspaces - p /\ Spare = used.backspaces - a
  BY DEF Came, Spare
<1> HIDE DEF p, a
<1>7. Came \in Int /\ Spare \in Int /\ Spare <= Came
  BY <1>3, <1>4, <1>5, <1>6
<1>8. ic \in Fine(Arrived, Came, Spare)
  BY DEF Fine, IInv, TypeOK, KeyInv, CountInv
<1> QED
  BY <1>1, <1>2, <1>7, <1>8

\* The part of the inductive invariant that is not about the context.
Outside ==
    /\ effect \in [Keys -> Effects] /\ again \subseteq Keys /\ pressed \in 0..MaxKeys
    /\ wire \in Seq(0..Backspace)
    /\ ready \in BOOLEAN /\ focus \in Places /\ app \in Apps
    /\ used \in [backspaces : Nat, eaten : Nat, lost : Nat, fails : Nat, forced : Nat,
                 leaves : Nat]
    /\ \A n \in DOMAIN wire : wire[n] \in Keys => wire[n] <= pressed
    /\ \A m, n \in DOMAIN wire : wire[m] \in Keys /\ wire[m] = wire[n] => m = n

\* The inductive invariant of the next state, from its parts.
LEMMA There ==
    ASSUME Numbers, Outside', ic' \in Fine(Arrived', Came', Spare'), FocusInv'
    PROVE  IInv'
<1>1. Arrived' \subseteq Keys
  BY DEF Outside, Arrived, Keys, Numbers
<1>2. ic' \in Context(Arrived') /\ ic'.seen <= ic'.expected /\ BatchInv(ic')
      /\ Solvent(ic', Came', Spare')
  BY DEF Fine
<1>3. ic' \in Context(Keys)
  BY <1>1, <1>2, ContextGrows
<1> QED
  BY <1>2, <1>3 DEF IInv, TypeOK, KeyInv, CountInv, Outside

\* A step of the context alone, or with the focus.
LEMMA Inside ==
    ASSUME IInv, ic' \in Fine(Arrived, Came, Spare), FocusInv', focus' \in Places,
           ready' \in BOOLEAN, UNCHANGED <<app, effect, again, pressed, wire>>,
           used'.backspaces = used.backspaces,
           used' \in [backspaces : Nat, eaten : Nat, lost : Nat, fails : Nat, forced : Nat,
                      leaves : Nat]
    PROVE  IInv'
<1>1. Outside' /\ Arrived' = Arrived /\ Came' = Came /\ Spare' = Spare
  BY DEF IInv, TypeOK, KeyInv, Outside, Arrived, Coming, Came, Spare
<1>2. Numbers
  BY Here DEF Env
<1> QED
  BY <1>1, <1>2, There

\* An event that is counted, and is no Backspace.
LEMMA UseFine ==
    ASSUME IInv, NEW e \in {"eaten", "lost", "fails", "forced", "leaves"}, Use(e)
    PROVE  /\ used'.backspaces = used.backspaces
           /\ used' \in [backspaces : Nat, eaten : Nat, lost : Nat, fails : Nat,
                         forced : Nat, leaves : Nat]
BY SMTT(60) DEF IInv, TypeOK, Use

\* What a context that leads to another says of the focus.
LEMMA LedFocus ==
    ASSUME FocusInv, Leads(ic, ic'), UNCHANGED <<app, focus>>,
           focus = "away" => ic.cycle \/ Quiet(ic')
    PROVE  FocusInv'
BY DEF FocusInv, Leads, Browser

\* A step of the worker, or of a timer, that leaves the focus and the queues alone.
LEMMA SameFocus ==
    ASSUME FocusInv, UNCHANGED <<app, focus>>, ic'.cycle <=> ic.cycle,
           ic'.disabled <=> ic.disabled, Quiet(ic) => Quiet(ic')
    PROVE  FocusInv'
BY DEF FocusInv, Browser

---------------------------------------------------------------------------
(* What a key brings into the text.                                        *)

\* A key that is let through brings at most itself into the text.
LEMMA KeysAfter ==
    ASSUME NEW S, NEW x \in Seq(S), NEW i
    PROVE  KeysOf(TextAfter(x, i)) \subseteq KeysOf(x) \cup {i}
<1>1. CASE IsBack(i) /\ x # <<>>
  <2> DEFINE f == Front1(x)
  <2>1. DOMAIN f \subseteq DOMAIN x /\ \A n \in DOMAIN f : f[n] = x[n]
    BY <1>1 DEF Front1
  <2>2. TextAfter(x, i) = f
    BY <1>1 DEF TextAfter
  <2> HIDE DEF f
  <2>3. {f[n] : n \in DOMAIN f} \subseteq {x[n] : n \in DOMAIN x}
    BY <2>1
  <2> QED
    BY <2>2, <2>3 DEF KeysOf
<1>2. CASE IsBack(i) /\ x = <<>>
  BY <1>2 DEF TextAfter
<1>3. CASE ~IsBack(i)
  <2> DEFINE f == Append(x, {i})
  <2>1. \A n \in DOMAIN f : (n \in DOMAIN x /\ f[n] = x[n]) \/ f[n] = {i}
    OBVIOUS
  <2>2. TextAfter(x, i) = f
    BY <1>3 DEF TextAfter
  <2> HIDE DEF f
  <2>3. {f[n] : n \in DOMAIN f} \subseteq {x[n] : n \in DOMAIN x} \cup {{i}}
    BY <2>1
  <2> QED
    BY <2>2, <2>3 DEF KeysOf
<1> QED
  BY <1>1, <1>2, <1>3

\* A context t in which key i may have reached the text of s, and that is held for no
\* browser that s was not held for, and disabled only where s was.
Takes(s, t, i) ==
    /\ t.cycle => s.cycle
    /\ t.disabled => s.disabled
    /\ KeysOf(t.text) \subseteq KeysOf(s.text) \cup {i}

\* So where it is let through, ...
LEMMA RawTakes ==
    ASSUME NEW K, NEW s \in Context(K), NEW i
    PROVE  Takes(s, Raw(s, i), i)
<1>1. RawLike(s, Raw(s, i), i)
  BY RawFrame
<1>2. s.text \in Seq(Glyphs(K))
  BY Typed
<1>3. KeysOf(TextAfter(s.text, i)) \subseteq KeysOf(s.text) \cup {i}
  BY <1>2, KeysAfter
<1> QED
  BY <1>1, <1>3 DEF RawLike, Takes

\* ... which keeps the types, ...
LEMMA RawTyped ==
    ASSUME Numbers, NEW K, K \subseteq Keys, NEW i \in K \cup {Loopback, Backspace},
           NEW s \in Context(K)
    PROVE  Raw(s, i) \in Context(K)
<1>1. /\ s.removed \in Nat /\ s.text \in Seq(Glyphs(K)) /\ s.erased \in SUBSET K
  BY Typed
<1>2. CASE IsBack(i) /\ s.text = <<>>
  BY <1>2 DEF Raw, Erase
<1>3. CASE IsBack(i) /\ s.text # <<>>
  <2> DEFINE x == Front1(s.text)
             e == s.erased \cup Last(s.text)
             r == s.removed + 1
  <2>1. Raw(s, i) = [s EXCEPT !.text = x, !.erased = e, !.removed = r]
    BY <1>3 DEF Raw, Erase
  <2>2. x \in Seq(Glyphs(K)) /\ Last(s.text) \in Glyphs(K)
    BY <1>1, <1>3, Fronts
  <2>3. e \in SUBSET K /\ r \in Nat
    BY <1>1, <2>2 DEF Glyphs
  <2> HIDE DEF x, e, r
  <2> QED
    BY ZenonT(60), <2>1, <2>2, <2>3 DEF Context
<1>4. CASE ~IsBack(i)
  <2> DEFINE x == Append(s.text, {i})
  <2>1. Raw(s, i) = [s EXCEPT !.text = x]
    BY <1>4 DEF Raw
  <2>2. {i} \in Glyphs(K)
    <3>1. i \in K
      BY <1>4 DEF IsBack
    <3>2. {i} \in SUBSET K /\ {i} # {}
      BY <3>1
    <3> QED
      BY <3>2 DEF Glyphs
  <2>3. x \in Seq(Glyphs(K))
    BY <1>1, <2>2, AppendProperties
  <2> HIDE DEF x
  <2> QED
    BY ZenonT(60), <2>1, <2>3 DEF Context
<1> QED
  BY <1>2, <1>3, <1>4

\* ... where it is composed, ...
LEMMA TypeTakes ==
    ASSUME Env, NEW K, K \subseteq Keys, NEW b \in Int, NEW w \in Int,
           NEW i \in K \cup {Loopback, Backspace}, NEW s \in Fine(K, b, w),
           ~s.deleting, ~s.grace, ~s.replayTimer
    PROVE  Takes(s, Type(s, i), i)
<1> DEFINE t == Type(s, i)
           r == Raw(s, i)
           x == IF r.viet = <<>> THEN r.viet ELSE Front1(r.viet)
           e == <<>>
           c == Compose(r.viet, i)
           p == Replace(s, i)
           a == Raw(Reset(s), i)
           g == Guarded
<1>1. s \in Context(K)
  BY DEF Fine
<1>2. r \in Context(K) /\ Takes(s, r, i)
  BY <1>1, RawTyped, RawTakes DEF Env
<1>3. \/ t = [r EXCEPT !.viet = x] \/ t = [r EXCEPT !.viet = e]
      \/ t = [r EXCEPT !.viet = c, !.armed = g]
      \/ t = a
      \/ /\ ~IsBack(i) /\ effect[i] # Separator /\ Depth(s.viet, i) # 0
         /\ t = [p EXCEPT !.oldWord = s.viet, !.repairs = 0, !.armed = g]
  <2>1. CASE IsBack(i)
    BY <2>1 DEF Type, Raw
  <2>2. CASE ~IsBack(i)
    BY <2>2 DEF Type
  <2> QED
    BY <2>1, <2>2
<1> HIDE DEF t, r, x, e, c, p, g
<1>4. CASE \/ t = [r EXCEPT !.viet = x] \/ t = [r EXCEPT !.viet = e]
           \/ t = [r EXCEPT !.viet = c, !.armed = g]
  <2> DEFINE Same(y) == /\ [r EXCEPT !.viet = y].text = r.text
                        /\ [r EXCEPT !.viet = y].cycle <=> r.cycle
                        /\ [r EXCEPT !.viet = y].disabled <=> r.disabled
  <2> DEFINE y == [r EXCEPT !.viet = c, !.armed = g]
  <2>1. Same(x) /\ Same(e)
    BY <1>2 DEF Context
  <2>3. y.text = r.text /\ (y.cycle <=> r.cycle) /\ (y.disabled <=> r.disabled)
    BY <1>2 DEF Context
  <2>2. t.text = r.text /\ (t.cycle <=> r.cycle) /\ (t.disabled <=> r.disabled)
    BY <1>4, <2>1, <2>3
  <2> QED
    BY <1>2, <2>2 DEF Takes, t
<1>5. CASE t = a
  <2> DEFINE z == Reset(s)
  <2>1. z \in Context(K) /\ ~z.cycle /\ z.text = s.text /\ (z.disabled <=> s.disabled)
    BY ResetFine DEF Fine, Env
  <2> HIDE DEF z
  <2>2. Takes(z, Raw(z, i), i)
    BY <2>1, RawTakes
  <2>3. t = Raw(z, i)
    BY <1>5 DEF z
  <2> QED
    BY <2>1, <2>2, <2>3 DEF Takes, t
<1>6. CASE /\ ~IsBack(i) /\ effect[i] # Separator /\ Depth(s.viet, i) # 0
           /\ t = [p EXCEPT !.oldWord = s.viet, !.repairs = 0, !.armed = g]
  <2>1. i \in K
    BY <1>6 DEF IsBack
  <2>2. /\ p \in Fine(K, b, w) /\ p.text = s.text /\ (p.cycle <=> s.cycle)
        /\ (p.disabled <=> s.disabled)
    BY <1>6, <2>1, ReplaceFine DEF p
  <2>3. p \in Context(K)
    BY <2>2 DEF Fine
  <2>4. t.text = p.text /\ (t.cycle <=> p.cycle) /\ (t.disabled <=> p.disabled)
    BY <1>6, <2>3 DEF Context
  <2> QED
    BY <2>2, <2>4 DEF Takes, t
<1> QED
  BY <1>3, <1>4, <1>5, <1>6

\* ... and during a replacement.
LEMMA WhileDeletingTakes ==
    ASSUME NEW K, NEW s \in Context(K), NEW i, NEW eaten \in BOOLEAN
    PROVE  Takes(s, WhileDeleting(s, i, eaten), i)
<1> DEFINE o == IF s.outstanding > 0 THEN s.outstanding - 1 ELSE 0
           x == IF eaten \/ s.text = <<>> THEN s.text ELSE Front1(s.text)
           n == s.seen + 1
           q == Append(s.buffered, i)
           d == [s EXCEPT !.buffered = q]
           a == [s EXCEPT !.seen = n, !.outstanding = o, !.text = x]
           c == [s EXCEPT !.safety = FALSE, !.retried = FALSE, !.outstanding = o,
                          !.expected = 0, !.seen = 0, !.settling = TRUE]
           y == [s EXCEPT !.dropped = @ \cup {i}]
           t == WhileDeleting(s, i, eaten)
<1>1. t \in {s, d, a, c, y}
  <2>1. t = IF Repeats(s, i) THEN [s EXCEPT !.dropped = @ \cup {i}]
            ELSE IF ~IsBack(i)
            THEN IF Len(s.buffered) < BufferCap
                 THEN [s EXCEPT !.buffered = Append(@, i)] ELSE s
            ELSE IF s.seen < s.expected
            THEN [s EXCEPT !.seen = @ + 1, !.outstanding = IF @ > 0 THEN @ - 1 ELSE 0,
                      !.text = IF eaten \/ @ = <<>> THEN @ ELSE Front1(@)]
            ELSE [s EXCEPT !.safety = FALSE, !.retried = FALSE,
                      !.outstanding = IF @ > 0 THEN @ - 1 ELSE 0,
                      !.expected = 0, !.seen = 0, !.settling = TRUE]
    BY DEF WhileDeleting, Drop
  <2> HIDE DEF t
  <2> QED
    BY <2>1
<1>3. KeysOf(x) \subseteq KeysOf(s.text)
  <2>1. DOMAIN x \subseteq DOMAIN s.text /\ \A m \in DOMAIN x : x[m] = s.text[m]
    <3>1. s.text \in Seq(Glyphs(K))
      BY Typed
    <3> QED
      BY <3>1 DEF Front1
  <2> HIDE DEF x
  <2>2. {x[m] : m \in DOMAIN x} \subseteq {s.text[m] : m \in DOMAIN s.text}
    BY <2>1
  <2> QED
    BY <2>2 DEF KeysOf
<1> HIDE DEF o, x, n, q, t
<1>4. Takes(s, s, i)
  BY DEF Takes
<1>5. d.text = s.text /\ (d.cycle <=> s.cycle) /\ (d.disabled <=> s.disabled)
  BY DEF Context
<1>6. a.text = x /\ (a.cycle <=> s.cycle) /\ (a.disabled <=> s.disabled)
  BY DEF Context
<1>7. c.text = s.text /\ (c.cycle <=> s.cycle) /\ (c.disabled <=> s.disabled)
  BY DEF Context
<1>9. y.text = s.text /\ (y.cycle <=> s.cycle) /\ (y.disabled <=> s.disabled)
  BY DEF Context
<1> HIDE DEF a, c, d, y
<1>8. Takes(s, d, i) /\ Takes(s, a, i) /\ Takes(s, c, i) /\ Takes(s, y, i)
  BY <1>3, <1>5, <1>6, <1>7, <1>9 DEF Takes
<1> QED
  BY <1>1, <1>4, <1>8 DEF t

\* A key that comes takes nothing into the text but itself.
LEMMA KeyEventTakes ==
    ASSUME Env, NEW K, K \subseteq Keys, NEW b \in Int, NEW w \in Int,
           NEW i \in K \cup {Loopback, Backspace}, NEW s \in Fine(K, b, w),
           NEW eaten \in BOOLEAN
    PROVE  Takes(s, KeyEvent(s, i, FALSE, eaten), i)
<1> DEFINE z == Abort(s)
           t == Dispatch(z, i, FALSE, eaten)
           held == ~AwaitingAnchor(z, i) /\ HoldsBack(z)
<1>1. z \in Fine(K, b, w) /\ z.text = s.text
  BY AbortFine DEF Env
<1>2. (z.cycle => s.cycle) /\ (z.disabled => s.disabled)
  BY AbortFine DEF Env
<1>3. KeyEvent(s, i, FALSE, eaten) = t
  BY DEF KeyEvent
<1> HIDE DEF z
<1>4. z \in Context(K) /\ BatchInv(z)
  BY <1>1 DEF Fine
<1>5. Takes(z, t, i)
  <2>1. CASE held
    <3> DEFINE q == Append(z.settled, i)
               v == [z EXCEPT !.settled = q]
    <3>1. t = v
      BY <2>1 DEF Dispatch
    <3> HIDE DEF q
    <3>2. v.text = z.text /\ (v.cycle <=> z.cycle) /\ (v.disabled <=> z.disabled)
      BY <1>4 DEF Context
    <3> QED
      BY <3>1, <3>2 DEF Takes
  <2>2. CASE ~held /\ z.grace /\ IsBack(i)
    <3>1. t = z
      BY <2>2 DEF Dispatch
    <3> QED
      BY <3>1 DEF Takes
  <2>3. CASE ~held /\ ~(z.grace /\ IsBack(i)) /\ z.deleting
    <3>1. t = WhileDeleting(z, i, eaten)
      BY <2>3 DEF Dispatch
    <3> QED
      BY <1>4, <3>1, WhileDeletingTakes
  <2>4. CASE ~held /\ ~(z.grace /\ IsBack(i)) /\ ~z.deleting /\ (z.grace \/ ~ready)
    <3> DEFINE r == Reset(z)
    <3>1. t = Raw(r, i)
      BY <2>4 DEF Dispatch
    <3>2. r \in Context(K) /\ r.text = z.text /\ ~r.cycle /\ (r.disabled <=> z.disabled)
      BY <1>1, ResetFine DEF Env, Fine
    <3> HIDE DEF r
    <3>3. Takes(r, Raw(r, i), i)
      BY <3>2, RawTakes
    <3> QED
      BY <3>1, <3>2, <3>3 DEF Takes
  <2>5. CASE ~held /\ ~(z.grace /\ IsBack(i)) /\ ~z.deleting /\ ~(z.grace \/ ~ready)
    <3>1. z.outstanding = 0
      BY <1>4, <2>5 DEF BatchInv
    <3>2. t = IF RepeatsTyping(z, i) THEN Drop(z, i) ELSE Type(z, i)
      BY <2>5, <3>1 DEF Dispatch
    <3>3. ~z.replayTimer
      BY <2>5 DEF HoldsBack, AwaitingAnchor
    <3>4. ASSUME RepeatsTyping(z, i) PROVE Takes(z, Drop(z, i), i)
      BY <1>4, <3>4, RepeatsKey, DropSame DEF RepeatsTyping, Takes
    <3> QED
      BY <1>1, <2>5, <3>2, <3>3, <3>4, TypeTakes
  <2> QED
    BY <2>1, <2>2, <2>3, <2>4, <2>5
<1> QED
  BY <1>1, <1>2, <1>3, <1>5 DEF Takes

---------------------------------------------------------------------------
(* Keys on the wire.                                                       *)

\* Without an injected key every Backspace is the user's.
LEMMA CountSame ==
    ASSUME NEW q, \A n \in DOMAIN q : q[n] # Loopback
    PROVE  Count(q, {Loopback, Backspace}) = Count(q, {Backspace})
<1>1. {n \in DOMAIN q : q[n] \in {Loopback, Backspace}} = {n \in DOMAIN q : q[n] \in {Backspace}}
  OBVIOUS
<1> QED
  BY <1>1 DEF Count

\* The keys 0 and Backspace are no letters.
LEMMA NoLetter ==
    ASSUME Numbers
    PROVE  /\ Loopback \notin Keys /\ Backspace \notin Keys /\ Loopback # Backspace
           /\ Loopback \in 0..Backspace /\ Backspace \in 0..Backspace
           /\ Keys \subseteq 0..Backspace /\ 0..Backspace = Keys \cup {Loopback, Backspace}
BY DEF Numbers, Keys, Loopback, Backspace

\* A key x joins those on their way.
LEMMA WireGrows ==
    ASSUME Numbers, Outside, NEW x \in 0..Backspace, wire' = Append(wire, x)
    PROVE  /\ wire' \in Seq(0..Backspace)
           /\ Coming' = Coming \cup {x}
           /\ Count(wire', {Backspace}) = Count(wire, {Backspace}) + Pays(x)
           /\ Count(wire', {Loopback, Backspace})
                = Count(wire, {Loopback, Backspace}) + Weighs(x)
<1>1. wire \in Seq(0..Backspace)
  BY DEF Outside
<1>2. wire' \in Seq(0..Backspace)
  BY <1>1, AppendProperties
<1>3. Coming' = Coming \cup {x}
  <2> DEFINE n == Len(wire) + 1
  <2>1. /\ DOMAIN wire' = DOMAIN wire \cup {n} /\ wire'[n] = x
        /\ \A m \in DOMAIN wire : wire'[m] = wire[m]
    BY <1>1
  <2> HIDE DEF n
  <2>2. {wire'[m] : m \in DOMAIN wire'} = {wire[m] : m \in DOMAIN wire} \cup {x}
    BY <2>1
  <2> QED
    BY <2>2 DEF Coming
<1>4. Pays(x) = IF x \in {Backspace} THEN 1 ELSE 0
  BY DEF Pays
<1>5. Weighs(x) = IF x \in {Loopback, Backspace} THEN 1 ELSE 0
  BY DEF Weighs, IsBack
<1>6. /\ Count(wire', {Backspace}) = Count(wire, {Backspace}) + Pays(x)
      /\ Count(wire', {Loopback, Backspace}) = Count(wire, {Loopback, Backspace}) + Weighs(x)
  <2>1. /\ Count(Append(wire, x), {Backspace}) = Count(wire, {Backspace}) + Pays(x)
    BY ZenonT(60), <1>1, <1>4, CountAppend
  <2>2. /\ Count(Append(wire, x), {Loopback, Backspace})
              = Count(wire, {Loopback, Backspace}) + Weighs(x)
    <3> DEFINE A == {Loopback, Backspace}
    <3>1. Weighs(x) = IF x \in A THEN 1 ELSE 0
      BY <1>5
    <3> HIDE DEF A
    <3>2. Count(Append(wire, x), A) = Count(wire, A) + Weighs(x)
      BY ZenonT(60), <1>1, <3>1, CountAppend
    <3> QED
      BY <3>2 DEF A
  <2> QED
    BY <2>1, <2>2
<1> QED
  BY <1>2, <1>3, <1>6

\* The next key leaves the wire.
LEMMA WireShrinks ==
    ASSUME Numbers, Outside, wire # <<>>, wire' = Tail(wire)
    PROVE  LET h == Head(wire)
           IN  /\ wire' \in Seq(0..Backspace) /\ h \in 0..Backspace
               /\ Coming' \subseteq Coming /\ Coming \subseteq Coming' \cup {h} /\ h \in Coming
               /\ h \in Keys => h <= pressed /\ h \notin Coming'
               /\ Count(wire, {Backspace}) = Count(wire', {Backspace}) + Pays(h)
               /\ Count(wire, {Loopback, Backspace})
                    = Count(wire', {Loopback, Backspace}) + Weighs(h)
               /\ \A n \in DOMAIN wire' : wire'[n] \in Keys => wire'[n] <= pressed
               /\ \A m, n \in DOMAIN wire' :
                      wire'[m] \in Keys /\ wire'[m] = wire'[n] => m = n
<1> DEFINE h == Head(wire)
<1>1. wire \in Seq(0..Backspace)
  BY DEF Outside
<1>2. wire' \in Seq(0..Backspace) /\ h \in 0..Backspace
  BY <1>1, HeadTailProperties
<1>3. /\ h = wire[1] /\ 1 \in DOMAIN wire /\ DOMAIN wire = 1..Len(wire)
      /\ \A n \in DOMAIN wire' : n \in Nat /\ n + 1 \in DOMAIN wire /\ wire'[n] = wire[n + 1]
      /\ \A n \in DOMAIN wire : n = 1 \/ (n - 1 \in DOMAIN wire' /\ wire'[n - 1] = wire[n])
  BY <1>1
<1>4. Pays(h) = IF h \in {Backspace} THEN 1 ELSE 0
  BY DEF Pays
<1>5. Weighs(h) = IF h \in {Loopback, Backspace} THEN 1 ELSE 0
  BY DEF Weighs, IsBack
<1>6. /\ Count(wire, {Backspace}) = Count(wire', {Backspace}) + Pays(h)
      /\ Count(wire, {Loopback, Backspace}) = Count(wire', {Loopback, Backspace}) + Weighs(h)
  BY <1>1, <1>4, <1>5, CountTail
<1>7. /\ \A n \in DOMAIN wire : wire[n] \in Keys => wire[n] <= pressed
      /\ \A m, n \in DOMAIN wire : wire[m] \in Keys /\ wire[m] = wire[n] => m = n
  BY DEF Outside
<1> HIDE DEF h
<1>8. Coming' = {wire'[n] : n \in DOMAIN wire'} /\ Coming = {wire[n] : n \in DOMAIN wire}
  BY DEF Coming
<1>9. Coming' \subseteq Coming /\ Coming \subseteq Coming' \cup {h} /\ h \in Coming
  <2>1. ASSUME NEW n \in DOMAIN wire' PROVE wire'[n] \in Coming
    BY <1>3, <1>8
  <2>2. ASSUME NEW n \in DOMAIN wire PROVE wire[n] \in Coming' \cup {h}
    BY <1>3, <1>8
  <2>3. h \in Coming
    BY <1>3, <1>8
  <2> QED
    BY <1>8, <2>1, <2>2, <2>3
<1>10. h \in Keys => h <= pressed /\ h \notin Coming'
  <2> SUFFICES ASSUME h \in Keys PROVE h <= pressed /\ h \notin Coming'
    OBVIOUS
  <2>1. h <= pressed
    BY <1>3, <1>7
  <2>2. ASSUME NEW n \in DOMAIN wire', wire'[n] = h PROVE FALSE
    <3>1. n + 1 = 1 /\ n \in Nat /\ n # 0
      BY <1>2, <1>3, <1>7, <2>2
    <3> QED
      BY <3>1
  <2> QED
    BY <1>8, <2>1, <2>2
<1>11. \A n \in DOMAIN wire' : wire'[n] \in Keys => wire'[n] <= pressed
  BY <1>3, <1>7
<1>12. \A m, n \in DOMAIN wire' : wire'[m] \in Keys /\ wire'[m] = wire'[n] => m = n
  <2> SUFFICES ASSUME NEW m \in DOMAIN wire', NEW n \in DOMAIN wire',
                      wire'[m] \in Keys, wire'[m] = wire'[n]
               PROVE  m = n
    OBVIOUS
  <2>1. m + 1 = n + 1
    BY <1>3, <1>7
  <2>2. m \in Nat /\ n \in Nat
    BY <1>3
  <2> QED
    BY <2>1, <2>2
<1> QED
  BY <1>2, <1>6, <1>9, <1>10, <1>11, <1>12 DEF h

\* The part that is not about the context is part of the invariant.
LEMMA InvOutside ==
    ASSUME IInv
    PROVE  Outside
BY DEF IInv, TypeOK, KeyInv, Outside

\* Keys go elsewhere, or are lost: nothing becomes of them.
LEMMA Discard ==
    ASSUME IInv, wire # <<>>, wire' = Tail(wire),
           UNCHANGED <<app, ic, effect, again, pressed, ready, focus>>,
           used'.backspaces = used.backspaces,
           used' \in [backspaces : Nat, eaten : Nat, lost : Nat, fails : Nat, forced : Nat,
                      leaves : Nat]
    PROVE  IInv'
<1>1. Numbers /\ Outside
  BY Here, InvOutside DEF Env
<1>2. Outside'
  BY <1>1, WireShrinks DEF Outside
<1>3. Arrived \subseteq Arrived'
  BY <1>1, WireShrinks DEF Arrived
<1>4. wire \in Seq(0..Backspace) /\ wire' \in Seq(0..Backspace) /\ used.backspaces \in Nat
  BY <1>1, WireShrinks DEF Outside
<1>5. Came <= Came' /\ Spare <= Spare' /\ Came' \in Int /\ Spare' \in Int
  <2> DEFINE p == Count(wire', {Backspace})
             a == Count(wire', {Loopback, Backspace})
             h == Head(wire)
  <2>1. p \in Nat /\ a \in Nat
    BY <1>4, CountNat
  <2>2. Count(wire, {Backspace}) = p + Pays(h) /\ Count(wire, {Loopback, Backspace}) = a + Weighs(h)
    BY <1>1, WireShrinks
  <2>3. Pays(h) \in Nat /\ Weighs(h) \in Nat
    BY DEF Pays, Weighs
  <2> DEFINE x == Pays(h)
             y == Weighs(h)
             n == used.backspaces
  <2>4. Came = n - (p + x) /\ Came' = n - p /\ Spare = n - (a + y) /\ Spare' = n - a
    BY <2>2 DEF Came, Spare
  <2>5. x \in Nat /\ y \in Nat /\ n \in Nat
    BY <1>4, <2>3
  <2> HIDE DEF p, a, x, y, n
  <2> QED
    BY <2>1, <2>4, <2>5
<1>6. ic \in Fine(Arrived, Came, Spare) /\ Came \in Int /\ Spare \in Int
  BY Here
<1>7. ic' \in Fine(Arrived', Came', Spare')
  <2>1. ic \in Fine(Arrived', Came', Spare')
    BY <1>3, <1>5, <1>6, FineGrows
  <2> QED
    BY <2>1
<1>8. FocusInv'
  BY DEF IInv, FocusInv, Quiet, Browser
<1> QED
  BY <1>1, <1>2, <1>7, <1>8, There

---------------------------------------------------------------------------
(* The user's steps, and what the desktop delivers.                        *)

\* Nothing has happened yet.
LEMMA InitInv ==
    ASSUME Init
    PROVE  IInv
<1> DEFINE e == <<>>
<1>0. Numbers
  BY ReplacementAssumption DEF Numbers
<1>1. /\ ic.text = <<>> /\ ic.viet = <<>> /\ ic.pending = <<>> /\ ic.settled = <<>>
      /\ ic.buffered = <<>> /\ ic.ticket = "none" /\ ic.left = 0 /\ ic.outstanding = 0
      /\ ic.expected = 0 /\ ic.seen = 0 /\ ic.removed = 0 /\ ~ic.deleting /\ ~ic.settling
      /\ ~ic.safety /\ ~ic.replayTimer /\ ~ic.grace /\ ~ic.tail /\ ~ic.cycle
  BY DEF Init
<1>2. ic \in Context({})
  <2>1. e \in Seq(Glyphs({})) /\ e \in Seq({}) /\ e \in Seq({} \cup {Loopback, Backspace})
    BY NoKeys
  <2>2. 0 \in 0..MaxDelete
    BY <1>0 DEF Numbers
  <2>3. ic = [text |-> e, viet |-> e, deleting |-> FALSE, settling |-> FALSE,
             expected |-> 0, seen |-> 0, outstanding |-> 0, pending |-> e,
             oldWord |-> e, repairs |-> 0, buffered |-> e, settled |-> e,
             replayTimer |-> FALSE, grace |-> FALSE, safety |-> FALSE, retried |-> FALSE,
             ticket |-> "none", left |-> 0, tail |-> FALSE, cycle |-> FALSE,
             disabled |-> FALSE, armed |-> FALSE, dropped |-> {}, erased |-> {},
             removed |-> 0]
    BY DEF Init
  <2> HIDE DEF e
  <2> QED
    BY <2>1, <2>2, <2>3 DEF Context, Tickets
<1>3. wire = <<>> /\ pressed = 0 /\ used.backspaces = 0 /\ focus = "here"
  BY DEF Init
<1>4. /\ Count(wire, {Backspace}) = 0 /\ Count(wire, {Loopback, Backspace}) = 0
      /\ Count(ic.settled, {Backspace}) = 0 /\ Count(ic.settled, {Loopback, Backspace}) = 0
  BY <1>1, <1>3, CountEmpty
<1>5. CountInv
  BY <1>1, <1>3, <1>4 DEF CountInv, Came, Spare, Solvent, Spent, Owed
<1>6. BatchInv(ic)
  BY <1>1 DEF BatchInv
<1>7. FocusInv
  BY <1>1, <1>3 DEF FocusInv
<1>8. KeyInv
  <2>1. {} \subseteq Arrived
    OBVIOUS
  <2>2. ic \in Context(Arrived)
    BY <1>2, <2>1, ContextGrows
  <2> QED
    BY <1>3, <2>2 DEF KeyInv
<1>9. TypeOK
  <2>1. ic \in Context(Keys)
    <3>1. {} \subseteq Keys
      OBVIOUS
    <3> QED
      BY <1>2, <3>1, ContextGrows
  <2>2. effect \in [Keys -> Effects]
    BY <1>0 DEF Init, Effects, Separator, Numbers
  <2>7. again \subseteq Keys
    BY DEF Init
  <2>3. pressed \in 0..MaxKeys /\ wire \in Seq(0..Backspace)
    BY <1>0, <1>3 DEF Numbers
  <2>4. ready \in BOOLEAN /\ focus \in Places /\ app \in Apps
    BY DEF Init, Places
  <2>5. used \in [backspaces : Nat, eaten : Nat, lost : Nat, fails : Nat, forced : Nat,
                  leaves : Nat]
    BY DEF Init
  <2>6. ic.seen <= ic.expected
    BY <1>1
  <2> QED
    BY <2>1, <2>2, <2>3, <2>4, <2>5, <2>6, <2>7 DEF TypeOK
<1> QED
  BY <1>5, <1>6, <1>7, <1>8, <1>9 DEF IInv

\* A new key is on its way: it has not arrived.
LEMMA PressKeyKeeps ==
    ASSUME IInv, PressKey
    PROVE  IInv'
<1> DEFINE k == pressed + 1
<1>1. Numbers /\ Outside /\ ic \in Fine(Arrived, Came, Spare)
  BY Here, InvOutside DEF Env
<1>2. /\ wire' = Append(wire, k) /\ pressed' = k /\ pressed < MaxKeys
      /\ UNCHANGED <<app, ic, ready, focus, used>>
  BY DEF PressKey
<1>3. pressed \in Nat /\ MaxKeys \in Nat /\ pressed \in 0..MaxKeys
  BY <1>1 DEF Outside, Numbers
<1>4. k \in Keys /\ k \in 0..Backspace /\ Pays(k) = 0 /\ Weighs(k) = 0
  <2>1. k \in Keys
    BY <1>2, <1>3 DEF Keys
  <2> HIDE DEF k
  <2> QED
    BY <1>1, <2>1, NoLetter, Letter
<1>5. k \notin Coming
  <2> SUFFICES ASSUME NEW n \in DOMAIN wire, wire[n] = k PROVE FALSE
    BY DEF Coming
  <2>1. wire[n] <= pressed
    BY <1>1, <1>4 DEF Outside
  <2> QED
    BY <1>3, <2>1
<1> DEFINE h == k
<1>6. h = pressed + 1
  OBVIOUS
<1> HIDE DEF h
<1>7. wire' = Append(wire, h) /\ h \in 0..Backspace
  BY <1>2, <1>4, <1>6
<1>8. /\ wire' \in Seq(0..Backspace) /\ Coming' = Coming \cup {h}
      /\ Count(wire', {Backspace}) = Count(wire, {Backspace}) + Pays(h)
      /\ Count(wire', {Loopback, Backspace}) = Count(wire, {Loopback, Backspace}) + Weighs(h)
  BY <1>1, <1>7, WireGrows
<1>9. Arrived' = Arrived
  <2>1. 1..pressed' = (1..pressed) \cup {h}
    BY <1>2, <1>3, <1>6
  <2>2. h \notin 1..pressed
    BY <1>3, <1>6
  <2>3. Arrived' = (1..pressed') \ Coming'
    BY DEF Arrived
  <2> QED
    BY <1>8, <2>1, <2>2, <2>3 DEF Arrived
<1>10. Came' = Came /\ Spare' = Spare
  <2>1. wire \in Seq(0..Backspace)
    BY <1>1 DEF Outside
  <2>2. Count(wire, {Backspace}) \in Nat /\ Count(wire, {Loopback, Backspace}) \in Nat
    BY <2>1, CountNat
  <2>3. /\ Count(wire', {Backspace}) = Count(wire, {Backspace})
        /\ Count(wire', {Loopback, Backspace}) = Count(wire, {Loopback, Backspace})
    BY <1>4, <1>6, <1>8, <2>2
  <2>4. used' = used
    BY <1>2
  <2> QED
    BY <2>3, <2>4 DEF Came, Spare
<1>11. Outside'
  <2>1. effect' \in [Keys -> Effects]
    BY <1>1 DEF PressKey, Outside
  <2>2. pressed' \in 0..MaxKeys
    BY <1>2, <1>3
  <2>3. /\ DOMAIN wire' = DOMAIN wire \cup {Len(wire) + 1} /\ wire'[Len(wire) + 1] = h
        /\ \A n \in DOMAIN wire : wire'[n] = wire[n]
    BY <1>1, <1>7 DEF Outside
  <2>4. \A n \in DOMAIN wire' : wire'[n] \in Keys => wire'[n] <= pressed'
    <3>1. \A n \in DOMAIN wire : wire[n] \in Keys => wire[n] <= pressed
      BY <1>1 DEF Outside
    <3>2. \A x \in Keys : x <= pressed => x <= pressed'
      BY <1>2, <1>3 DEF Keys
    <3>3. h <= pressed'
      BY <1>2, <1>3, <1>6
    <3> QED
      BY <2>3, <3>1, <3>2, <3>3
  <2>5. \A m, n \in DOMAIN wire' : wire'[m] \in Keys /\ wire'[m] = wire'[n] => m = n
    <3>1. \A m, n \in DOMAIN wire : wire[m] \in Keys /\ wire[m] = wire[n] => m = n
      BY <1>1 DEF Outside
    <3>2. \A n \in DOMAIN wire : wire[n] # h
      BY <1>5, <1>6 DEF Coming
    <3> QED
      BY <2>3, <3>1, <3>2
  <2>6. again' \subseteq Keys
    <3>1. again' \in {again, again \cup {pressed + 1}}
      BY DEF PressKey
    <3> QED
      BY <1>1, <1>4, <3>1 DEF Outside
  <2> QED
    BY <1>1, <1>2, <1>8, <2>1, <2>2, <2>4, <2>5, <2>6 DEF Outside
<1>12. ic' \in Fine(Arrived', Came', Spare')
  BY <1>1, <1>2, <1>9, <1>10
<1>13. FocusInv'
  BY <1>2 DEF IInv, FocusInv, Quiet, Browser
<1> QED
  BY <1>1, <1>11, <1>12, <1>13, There

\* The user's Backspace pays for a glyph once it arrives.
LEMMA PressBackspaceKeeps ==
    ASSUME IInv, PressBackspace
    PROVE  IInv'
<1>1. Numbers /\ Outside /\ ic \in Fine(Arrived, Came, Spare) /\ Came \in Int /\ Spare \in Int
  BY Here, InvOutside DEF Env
<1>2. /\ wire' = Append(wire, Backspace) /\ UNCHANGED <<app, ic, effect, again, pressed, ready, focus>>
  BY DEF PressBackspace
<1>3. /\ used'.backspaces = used.backspaces + 1 /\ used.backspaces \in Nat
      /\ used' \in [backspaces : Nat, eaten : Nat, lost : Nat, fails : Nat, forced : Nat,
                    leaves : Nat]
  BY SMTT(60), <1>1 DEF PressBackspace, Use, Outside
<1>4. Backspace \in 0..Backspace /\ Backspace \notin Keys /\ Pays(Backspace) = 1
      /\ Weighs(Backspace) = 1
  BY <1>1, NoLetter DEF Pays, Weighs, IsBack
<1>5. /\ wire' \in Seq(0..Backspace) /\ Coming' = Coming \cup {Backspace}
      /\ Count(wire', {Backspace}) = Count(wire, {Backspace}) + Pays(Backspace)
      /\ Count(wire', {Loopback, Backspace})
           = Count(wire, {Loopback, Backspace}) + Weighs(Backspace)
  BY <1>1, <1>2, <1>4, WireGrows
<1>6. Arrived' = Arrived
  <2>1. 1..pressed \subseteq Keys
    BY SMTT(60), <1>1 DEF Outside, Keys, Numbers
  <2> QED
    BY <1>2, <1>4, <1>5, <2>1 DEF Arrived
<1>7. Came' = Came /\ Spare' = Spare
  <2> DEFINE p == Count(wire, {Backspace})
             a == Count(wire, {Loopback, Backspace})
             n == used.backspaces
  <2>1. p \in Nat /\ a \in Nat
    BY <1>1, CountNat DEF Outside
  <2>2. Count(wire', {Backspace}) = p + 1 /\ Count(wire', {Loopback, Backspace}) = a + 1
    BY <1>4, <1>5
  <2>3. Came = n - p /\ Came' = (n + 1) - (p + 1) /\ Spare = n - a /\ Spare' = (n + 1) - (a + 1)
    BY <1>3, <2>2 DEF Came, Spare
  <2>4. n \in Nat
    BY <1>3
  <2> HIDE DEF p, a, n
  <2> QED
    BY <2>1, <2>3, <2>4
<1>8. Outside'
  <2>1. /\ DOMAIN wire' = DOMAIN wire \cup {Len(wire) + 1} /\ wire'[Len(wire) + 1] = Backspace
        /\ \A n \in DOMAIN wire : wire'[n] = wire[n]
    BY SMTT(60), <1>1, <1>2 DEF Outside
  <2>2. \A n \in DOMAIN wire' : wire'[n] \in Keys => n \in DOMAIN wire /\ wire'[n] = wire[n]
    BY <1>4, <2>1
  <2>3. \A n \in DOMAIN wire' : wire'[n] \in Keys => wire'[n] <= pressed'
    BY <1>1, <1>2, <2>2 DEF Outside
  <2>4. \A m, n \in DOMAIN wire' : wire'[m] \in Keys /\ wire'[m] = wire'[n] => m = n
    BY <1>1, <2>2 DEF Outside
  <2> QED
    BY <1>1, <1>2, <1>3, <1>5, <2>3, <2>4 DEF Outside
<1>9. ic' \in Fine(Arrived', Came', Spare')
  BY <1>1, <1>2, <1>6, <1>7
<1>10. FocusInv'
  BY <1>2 DEF IInv, FocusInv, Quiet, Browser
<1> QED
  BY <1>1, <1>8, <1>9, <1>10, There

\* The key that arrives is one that can be paid for.
LEMMA ArrivesFine ==
    ASSUME IInv, wire # <<>>, wire' = Tail(wire), UNCHANGED <<effect, pressed>>,
           used'.backspaces = used.backspaces
    PROVE  LET h == Head(wire)
           IN  /\ Arrived' \subseteq Keys /\ h \in Arrived' \cup {Loopback, Backspace}
               /\ Came' \in Int /\ Spare' \in Int /\ Spare' <= Came'
               /\ Came' - Pays(h) \in Int /\ Spare' - Weighs(h) \in Int
               /\ ic \in Fine(Arrived', Came' - Pays(h), Spare' - Weighs(h))
<1> DEFINE h == Head(wire)
<1>1. Numbers /\ Outside /\ ic \in Fine(Arrived, Came, Spare) /\ Arrived \subseteq Keys
      /\ Came \in Int /\ Spare \in Int
  BY Here, InvOutside DEF Env
<1>2. UNCHANGED <<effect, pressed>> /\ wire # <<>> /\ wire' = Tail(wire)
  OBVIOUS
<1>3. /\ wire' \in Seq(0..Backspace) /\ h \in 0..Backspace
      /\ Coming' \subseteq Coming /\ Coming \subseteq Coming' \cup {h}
      /\ h \in Keys => h <= pressed /\ h \notin Coming'
      /\ Count(wire, {Backspace}) = Count(wire', {Backspace}) + Pays(h)
      /\ Count(wire, {Loopback, Backspace}) = Count(wire', {Loopback, Backspace}) + Weighs(h)
  BY <1>1, <1>2, WireShrinks
<1> HIDE DEF h
<1>4. Arrived \subseteq Arrived' /\ h \in Arrived' \cup {Loopback, Backspace}
      /\ Arrived' \subseteq Keys
  <2>1. Arrived \subseteq Arrived'
    BY <1>2, <1>3 DEF Arrived
  <2>2. h \in Keys => h \in Arrived'
    BY <1>1, <1>2, <1>3 DEF Arrived, Outside, Keys
  <2>3. Arrived' \subseteq Keys
    BY SMTT(60), <1>1, <1>2 DEF Arrived, Outside, Keys, Numbers
  <2> QED
    BY <1>1, <1>3, <2>1, <2>2, <2>3, NoLetter
<1>5. /\ Came' \in Int /\ Spare' \in Int /\ Spare' <= Came'
      /\ Came = Came' - Pays(h) /\ Spare = Spare' - Weighs(h)
  <2> DEFINE p == Count(wire', {Backspace})
             a == Count(wire', {Loopback, Backspace})
             n == used.backspaces
             x == Pays(h)
             y == Weighs(h)
  <2>1. p \in Nat /\ a \in Nat
    BY <1>3, CountNat
  <2>2. p <= a
    BY <1>3, CountMore
  <2>3. Came = n - (p + x) /\ Came' = n - p /\ Spare = n - (a + y) /\ Spare' = n - a
    BY <1>3 DEF Came, Spare
  <2>4. n \in Nat /\ x \in Nat /\ y \in Nat
    BY <1>1 DEF Outside, Pays, Weighs
  <2> HIDE DEF p, a, n, x, y
  <2>5. /\ Came' \in Int /\ Spare' \in Int /\ Spare' <= Came'
        /\ Came = Came' - x /\ Spare = Spare' - y
    BY <2>1, <2>2, <2>3, <2>4
  <2> QED
    BY <2>5 DEF x, y
<1>6. Came' - Pays(h) \in Int /\ Spare' - Weighs(h) \in Int
      /\ Came <= Came' - Pays(h) /\ Spare <= Spare' - Weighs(h)
  BY <1>1, <1>5
<1>7. ic \in Fine(Arrived', Came' - Pays(h), Spare' - Weighs(h))
  BY <1>1, <1>4, <1>6, FineGrows
<1> QED
  BY <1>4, <1>5, <1>6, <1>7 DEF h

\* The context takes it.
LEMMA DeliverKeeps ==
    ASSUME IInv, NEW eaten \in BOOLEAN, Deliver(eaten)
    PROVE  IInv'
<1> DEFINE h == Head(wire)
<1>1. Numbers /\ Env /\ Outside
  BY Here, InvOutside DEF Env
<1>2. /\ wire # <<>> /\ wire' = Tail(wire) /\ focus = "here"
      /\ ic' = KeyEvent(ic, h, FALSE, eaten)
      /\ UNCHANGED <<app, effect, again, pressed, ready, focus>>
  BY DEF Deliver
<1>3. /\ used'.backspaces = used.backspaces
      /\ used' \in [backspaces : Nat, eaten : Nat, lost : Nat, fails : Nat, forced : Nat,
                    leaves : Nat]
  BY UseFine DEF Deliver, IInv, TypeOK
<1>4. Outside'
  BY <1>1, <1>2, <1>3, WireShrinks DEF Outside
<1>5. /\ Arrived' \subseteq Keys /\ h \in Arrived' \cup {Loopback, Backspace}
      /\ Came' \in Int /\ Spare' \in Int /\ Spare' <= Came'
      /\ Came' - Pays(h) \in Int /\ Spare' - Weighs(h) \in Int
      /\ ic \in Fine(Arrived', Came' - Pays(h), Spare' - Weighs(h))
  BY <1>2, <1>3, ArrivesFine
<1> HIDE DEF h
<1>6. ic' \in Fine(Arrived', Came', Spare')
  <2>1. KeyEvent(ic, h, FALSE, eaten) \in Fine(Arrived', Came', Spare')
    BY <1>1, <1>5, KeyEventFine
  <2> QED
    BY <1>2, <2>1
<1>7. ~ic'.cycle
  <2>1. Takes(ic, KeyEvent(ic, h, FALSE, eaten), h)
    BY <1>1, <1>5, KeyEventTakes
  <2>2. ~ic.cycle
    BY <1>2 DEF IInv, FocusInv
  <2> QED
    BY <1>2, <2>1, <2>2 DEF Takes
<1>8. FocusInv'
  BY <1>2, <1>7 DEF FocusInv
<1> QED
  BY <1>1, <1>4, <1>6, <1>8, There

---------------------------------------------------------------------------
(* The focus.                                                              *)

\* The keys of the context go on waiting for the user, or for the desktop.
LEMMA DiscardKeeps ==
    ASSUME IInv, Lose \/ DeliverElsewhere
    PROVE  IInv'
<1>1. CASE Lose
  <2>1. /\ wire # <<>> /\ wire' = Tail(wire)
        /\ UNCHANGED <<app, ic, effect, again, pressed, ready, focus>> /\ Use("lost")
    BY <1>1 DEF Lose
  <2>2. /\ used'.backspaces = used.backspaces
        /\ used' \in [backspaces : Nat, eaten : Nat, lost : Nat, fails : Nat, forced : Nat,
                      leaves : Nat]
    BY <2>1, UseFine
  <2> QED
    BY <2>1, <2>2, Discard
<1>2. CASE DeliverElsewhere
  <2>1. /\ wire # <<>> /\ wire' = Tail(wire)
        /\ UNCHANGED <<app, ic, effect, again, pressed, ready, focus, used>>
    BY <1>2 DEF DeliverElsewhere, world
  <2>2. /\ used'.backspaces = used.backspaces
        /\ used' \in [backspaces : Nat, eaten : Nat, lost : Nat, fails : Nat, forced : Nat,
                      leaves : Nat]
    BY <2>1 DEF IInv, TypeOK
  <2> QED
    BY <2>1, <2>2, Discard
<1> QED
  BY <1>1, <1>2

\* What the loss of the focus leaves: the context, and what it shows.
LEMMA Left ==
    ASSUME IInv, focus = "here", ic' = Leave([ic EXCEPT !.disabled = app = "page"])
    PROVE  /\ ic' \in Fine(Arrived, Came, Spare)
           /\ app = "page" => ic'.disabled
           /\ ic'.cycle => Browser
           /\ ~ic'.cycle => Quiet(ic')
           /\ ~ic.deleting \/ ic.ticket # "Complete" => ic'.text = ic.text
<1> DEFINE d == app = "page"
           x == [ic EXCEPT !.disabled = d]
<1>1. Env /\ ic \in Fine(Arrived, Came, Spare) /\ ic \in Context(Arrived)
      /\ Arrived \subseteq Keys /\ Came \in Int /\ Spare \in Int /\ Spare <= Came
  BY Here DEF Fine
<1>2. d \in BOOLEAN /\ (app = "page" => d)
  OBVIOUS
<1>3. ic' = Leave(x)
  OBVIOUS
<1> HIDE DEF d
<1>4. /\ x \in Context(Arrived) /\ x.disabled = d /\ x.text = ic.text /\ x.ticket = ic.ticket
      /\ x.cycle = ic.cycle /\ x.deleting = ic.deleting
  BY <1>1, <1>2 DEF Context
<1>5. Agrees(ic, x)
  BY <1>1 DEF Context, Agrees
<1> HIDE DEF x
<1>6. x \in Fine(Arrived, Came, Spare)
  BY <1>1, <1>4, <1>5, AgreeFine
<1>7. ~x.cycle
  BY <1>4 DEF IInv, FocusInv
<1> DEFINE r == Leave(x)
<1>8. /\ r \in Fine(Arrived, Came, Spare) /\ (r.disabled <=> x.disabled)
      /\ r.cycle => Browser
      /\ ~r.cycle => Quiet(r)
      /\ ~x.deleting \/ x.ticket # "Complete" => r.text = x.text
  BY <1>1, <1>6, <1>7, LeaveFine
<1>9. ic' = r
  BY <1>3
<1> HIDE DEF r
<1> QED
  BY <1>2, <1>4, <1>8, <1>9

\* What is held for a browser is a replacement; anything else is given up.
LEMMA LeaveKeeps ==
    ASSUME IInv, Deactivate \/ CycleBegins
    PROVE  IInv'
<1>1. /\ focus = "here" /\ ic' = Leave([ic EXCEPT !.disabled = app = "page"])
      /\ focus' \in {"away", "cycle"} /\ Use("leaves")
      /\ UNCHANGED <<app, effect, again, pressed, wire, ready>>
  BY DEF Deactivate, CycleBegins
<1>2. /\ ic' \in Fine(Arrived, Came, Spare) /\ (app = "page" => ic'.disabled)
      /\ ic'.cycle => Browser
      /\ ~ic'.cycle => Quiet(ic')
  BY <1>1, Left
<1>3. /\ used'.backspaces = used.backspaces
      /\ used' \in [backspaces : Nat, eaten : Nat, lost : Nat, fails : Nat, forced : Nat,
                    leaves : Nat]
  BY <1>1, UseFine
<1>4. FocusInv'
  <2>1. ic'.cycle => Browser'
    BY <1>1, <1>2 DEF Browser
  <2>2. app' = app
    BY <1>1
  <2> QED
    BY <1>1, <1>2, <2>1, <2>2 DEF FocusInv
<1>5. focus' \in Places /\ ready' \in BOOLEAN
  BY <1>1 DEF Places, IInv, TypeOK
<1> QED
  BY <1>1, <1>2, <1>3, <1>4, <1>5, Inside

\* The context takes the focus again.
LEMMA ReturnKeeps ==
    ASSUME IInv, Activate \/ CycleEnds
    PROVE  IInv' /\ ic'.text = ic.text
<1> DEFINE r == Return(ic)
<1>1. Env /\ ic \in Fine(Arrived, Came, Spare) /\ Came \in Int /\ Spare \in Int
  BY Here
<1>2. r \in Fine(Arrived, Came, Spare) /\ ~r.cycle /\ r.text = ic.text
  BY <1>1, ReturnFine
<1>3. /\ ic' = r \/ ic' = ResetPage(r)
      /\ focus' = "here" /\ UNCHANGED <<app, effect, again, pressed, wire, ready, used>>
  BY DEF Activate, CycleEnds
<1> HIDE DEF r
<1> DEFINE v == [Abandon(r) EXCEPT !.outstanding = 0, !.retried = FALSE]
<1>4. v \in Fine(Arrived, Came, Spare) /\ v.text = r.text /\ (v.cycle <=> r.cycle)
  BY <1>1, <1>2, GivenUp DEF Env
<1>5. ResetPage(r) \in {r, v}
  BY DEF ResetPage
<1> HIDE DEF v
<1>6. ic' \in Fine(Arrived, Came, Spare) /\ ~ic'.cycle /\ ic'.text = ic.text
  BY <1>2, <1>3, <1>4, <1>5
<1>7. FocusInv'
  BY <1>3, <1>6 DEF FocusInv
<1>8. /\ used' \in [backspaces : Nat, eaten : Nat, lost : Nat, fails : Nat, forced : Nat,
                    leaves : Nat]
      /\ focus' \in Places /\ ready' \in BOOLEAN
  BY <1>3 DEF IInv, TypeOK, Places
<1> QED
  BY <1>3, <1>6, <1>7, <1>8, Inside

\* The parts of the state a step of the context leaves alone.
LEMMA Quietly ==
    ASSUME IInv, UNCHANGED <<world, wire>>, ready' \in BOOLEAN,
           ic' \in Fine(Arrived, Came, Spare), FocusInv'
    PROVE  IInv'
<1>1. /\ UNCHANGED <<app, effect, again, pressed, wire>> /\ used' = used /\ focus' = focus
  BY DEF world
<1>2. /\ used' \in [backspaces : Nat, eaten : Nat, lost : Nat, fails : Nat, forced : Nat,
                    leaves : Nat]
      /\ focus' \in Places
  BY <1>1 DEF IInv, TypeOK
<1> QED
  BY <1>1, <1>2, Inside

\* The worker takes the batch, and answers it.
LEMMA TicketKeeps ==
    ASSUME IInv, TakeBatch \/ Complete
    PROVE  IInv' /\ ic'.text = ic.text
<1>1. ic \in Fine(Arrived, Came, Spare) /\ ic \in Context(Arrived) /\ BatchInv(ic)
      /\ Solvent(ic, Came, Spare) /\ ic.seen <= ic.expected
  BY Here DEF Fine
<1>2. PICK t \in {"Running", "Complete"} :
         /\ ic' = [ic EXCEPT !.ticket = t] /\ ic.ticket \in {"Queued", "Running"}
         /\ t = "Complete" => ic.left = 0
  BY DEF TakeBatch, Complete
<1>3. /\ ic' \in Context(Arrived) /\ ic'.ticket = t
      /\ ic'.deleting = ic.deleting /\ ic'.settling = ic.settling /\ ic'.safety = ic.safety
      /\ ic'.expected = ic.expected /\ ic'.seen = ic.seen /\ ic'.outstanding = ic.outstanding
      /\ ic'.left = ic.left /\ ic'.tail = ic.tail /\ ic'.grace = ic.grace
      /\ ic'.replayTimer = ic.replayTimer /\ ic'.pending = ic.pending
      /\ ic'.settled = ic.settled /\ ic'.buffered = ic.buffered /\ ic'.removed = ic.removed
      /\ ic'.text = ic.text /\ ic'.cycle = ic.cycle /\ ic'.disabled = ic.disabled
  <2> DEFINE x == [ic EXCEPT !.ticket = t]
  <2>1. /\ x \in Context(Arrived) /\ x.ticket = t
        /\ x.deleting = ic.deleting /\ x.settling = ic.settling /\ x.safety = ic.safety
        /\ x.expected = ic.expected /\ x.seen = ic.seen /\ x.outstanding = ic.outstanding
        /\ x.left = ic.left /\ x.tail = ic.tail /\ x.grace = ic.grace
        /\ x.replayTimer = ic.replayTimer /\ x.pending = ic.pending
        /\ x.settled = ic.settled /\ x.buffered = ic.buffered /\ x.removed = ic.removed
        /\ x.text = ic.text /\ x.cycle = ic.cycle /\ x.disabled = ic.disabled
    BY <1>1 DEF Context, Tickets
  <2>2. ic' = x
    BY <1>2
  <2> HIDE DEF x
  <2> QED
    BY <2>1, <2>2
<1>4. BatchInv(ic')
  <2>1. ic.deleting /\ ic.ticket # "none"
    BY <1>1, <1>2 DEF BatchInv
  <2>2. ic'.ticket \notin {"Queued", "Running"} => ic'.left = 0
    BY <1>2, <1>3
  <2>3. ic'.ticket # "none"
    BY <1>3
  <2> QED
    BY <1>1, <1>3, <2>1, <2>2, <2>3 DEF BatchInv
<1>5. Solvent(ic', Came, Spare)
  BY <1>1, <1>3, SolventKept
<1>6. ic' \in Fine(Arrived, Came, Spare)
  BY <1>1, <1>3, <1>4, <1>5 DEF Fine
<1>7. UNCHANGED <<world, wire, ready>>
  BY DEF TakeBatch, Complete
<1>8. FocusInv'
  BY <1>3, <1>7, SameFocus DEF IInv, Quiet, world
<1> QED
  BY <1>3, <1>6, <1>7, <1>8, Quietly DEF IInv, TypeOK

---------------------------------------------------------------------------
(* The injector.                                                           *)

\* The worker types a key: it joins those on their way.
LEMMA LoopbackComes ==
    ASSUME IInv, wire' = Append(wire, Loopback), UNCHANGED <<world, ready>>
    PROVE  Outside' /\ Arrived' = Arrived /\ Came' = Came /\ Spare' = Spare - 1
<1>1. Numbers /\ Outside
  BY Here, InvOutside DEF Env
<1>2. UNCHANGED <<app, effect, again, pressed, focus, used, ready>>
  BY DEF world
<1>3. Loopback \in 0..Backspace /\ Loopback \notin Keys /\ Pays(Loopback) = 0
      /\ Weighs(Loopback) = 1
  BY <1>1, NoLetter DEF Pays, Weighs, IsBack
<1> DEFINE h == Loopback
<1>4. wire' = Append(wire, h) /\ h \in 0..Backspace /\ h \notin Keys /\ Pays(h) = 0
      /\ Weighs(h) = 1
  BY <1>3
<1> HIDE DEF h
<1>5. /\ wire' \in Seq(0..Backspace) /\ Coming' = Coming \cup {h}
      /\ Count(wire', {Backspace}) = Count(wire, {Backspace}) + Pays(h)
      /\ Count(wire', {Loopback, Backspace}) = Count(wire, {Loopback, Backspace}) + Weighs(h)
  BY <1>1, <1>4, WireGrows
<1>6. Arrived' = Arrived
  <2>1. 1..pressed \subseteq Keys
    BY <1>1 DEF Outside, Keys, Numbers
  <2> QED
    BY <1>2, <1>4, <1>5, <2>1 DEF Arrived
<1>7. Came' = Came /\ Spare' = Spare - 1
  <2> DEFINE p == Count(wire, {Backspace})
             a == Count(wire, {Loopback, Backspace})
             n == used.backspaces
  <2>1. p \in Nat /\ a \in Nat
    BY <1>1, CountNat DEF Outside
  <2>2. Count(wire', {Backspace}) = p + 0 /\ Count(wire', {Loopback, Backspace}) = a + 1
    BY <1>4, <1>5
  <2>3. Came = n - p /\ Came' = n - (p + 0) /\ Spare = n - a /\ Spare' = n - (a + 1)
    BY <1>2, <2>2 DEF Came, Spare
  <2>4. n \in Nat
    BY <1>1 DEF Outside
  <2> HIDE DEF p, a, n
  <2> QED
    BY <2>1, <2>3, <2>4
<1>8. Outside'
  <2>1. /\ DOMAIN wire' = DOMAIN wire \cup {Len(wire) + 1} /\ wire'[Len(wire) + 1] = h
        /\ \A n \in DOMAIN wire : wire'[n] = wire[n]
    BY <1>1, <1>4 DEF Outside
  <2>2. \A n \in DOMAIN wire' : wire'[n] \in Keys => n \in DOMAIN wire /\ wire'[n] = wire[n]
    BY <1>4, <2>1
  <2>3. \A n \in DOMAIN wire' : wire'[n] \in Keys => wire'[n] <= pressed'
    BY <1>1, <1>2, <2>2 DEF Outside
  <2>4. \A m, n \in DOMAIN wire' : wire'[m] \in Keys /\ wire'[m] = wire'[n] => m = n
    BY <1>1, <2>2 DEF Outside
  <2> QED
    BY <1>1, <1>2, <1>5, <2>3, <2>4 DEF Outside
<1> QED
  BY <1>6, <1>7, <1>8

\* A key that was still to be typed is typed, or is given up.
LEMMA TypedFine ==
    ASSUME NEW K, NEW b \in Int, NEW w \in Int, NEW s \in Fine(K, b, w), NEW t \in Context(K),
           t.deleting = s.deleting, t.settling = s.settling, t.safety = s.safety,
           t.expected = s.expected, t.seen = s.seen, t.outstanding = s.outstanding,
           t.ticket = s.ticket, t.grace = s.grace, t.replayTimer = s.replayTimer,
           t.pending = s.pending, t.settled = s.settled, t.removed = s.removed,
           s.ticket \notin {"Queued", "Running"} => t.left = 0,
           t.left + (IF t.tail THEN 1 ELSE 0) + 1 = s.left + (IF s.tail THEN 1 ELSE 0)
    PROVE  t \in Fine(K, b, w - 1)
<1>1. s \in Context(K) /\ s.seen <= s.expected /\ BatchInv(s) /\ Solvent(s, b, w)
  BY DEF Fine
<1>2. BatchInv(t)
  BY <1>1 DEF BatchInv
<1>3. Solvent(t, b, w - 1)
  <2> DEFINE a == Count(s.settled, {Loopback, Backspace})
             x == IF s.tail THEN 1 ELSE 0
             y == IF t.tail THEN 1 ELSE 0
             m == s.removed
             l == s.left
             n == t.left
             o == s.outstanding
  <2>1. a \in Nat /\ x \in Nat /\ y \in Nat /\ m \in Nat /\ l \in Nat /\ n \in Nat /\ o \in Nat
    BY <1>1, Counts, Typed
  <2>2. Owed(s) = m + a + l + x /\ Owed(t) = m + a + n + y /\ n + y + 1 = l + x
    BY DEF Owed
  <2> HIDE DEF a, x, y, m, l, n
  <2>3. Owed(s) = Owed(t) + 1 /\ Owed(t) \in Nat
    BY <2>1, <2>2
  <2>4. Owed(s) <= w + o => Owed(t) <= (w - 1) + o
    <3> HIDE DEF o
    <3> QED
      BY <2>1, <2>3
  <2>5. Spent(t) = Spent(s)
    BY DEF Spent
  <2> QED
    BY <1>1, <2>4, <2>5 DEF Solvent
<1> QED
  BY <1>1, <1>2, <1>3 DEF Fine

\* A key of the batch is on the wire: one less is left, one more comes.
LEMMA TypeKeyKeeps ==
    ASSUME IInv, TypeKey
    PROVE  IInv' /\ ic'.text = ic.text
<1>1. /\ ic \in Fine(Arrived, Came, Spare) /\ ic \in Context(Arrived) /\ BatchInv(ic)
      /\ Came \in Int /\ Spare \in Int /\ Numbers
  BY Here DEF Fine, Env
<1>2. /\ ic.ticket = "Running" /\ ic.left > 0 /\ ic' = [ic EXCEPT !.left = @ - 1]
      /\ wire' = Append(wire, Loopback) /\ UNCHANGED <<world, ready>>
  BY DEF TypeKey
<1> DEFINE n == ic.left - 1
           x == [ic EXCEPT !.left = n]
<1>3. n \in Nat /\ ic.left \in Nat /\ n + 1 = ic.left
  <2>1. ic.left \in Nat
    BY <1>1, Typed
  <2> QED
    BY <1>2, <2>1
<1>4. ic' = x
  BY <1>2
<1> HIDE DEF n
<1>5. /\ x \in Context(Arrived) /\ x.ticket = ic.ticket /\ x.left = n
      /\ x.deleting = ic.deleting /\ x.settling = ic.settling /\ x.safety = ic.safety
      /\ x.expected = ic.expected /\ x.seen = ic.seen /\ x.outstanding = ic.outstanding
      /\ x.tail = ic.tail /\ x.grace = ic.grace
      /\ x.replayTimer = ic.replayTimer /\ x.pending = ic.pending
      /\ x.settled = ic.settled /\ x.buffered = ic.buffered /\ x.removed = ic.removed
      /\ x.text = ic.text /\ x.cycle = ic.cycle /\ x.disabled = ic.disabled
  BY <1>1, <1>3 DEF Context
<1> HIDE DEF x
<1>6. x \in Fine(Arrived, Came, Spare - 1)
  <2>1. x.left + (IF x.tail THEN 1 ELSE 0) + 1 = ic.left + (IF ic.tail THEN 1 ELSE 0)
    BY <1>3, <1>5
  <2> QED
    BY <1>1, <1>2, <1>5, <2>1, TypedFine
<1>7. Outside' /\ Arrived' = Arrived /\ Came' = Came /\ Spare' = Spare - 1
  BY <1>2, LoopbackComes
<1>8. ic' \in Fine(Arrived', Came', Spare')
  BY <1>4, <1>6, <1>7
<1>9. FocusInv'
  BY <1>2, <1>4, <1>5, SameFocus DEF IInv, Quiet, world
<1> QED
  BY <1>1, <1>4, <1>5, <1>7, <1>8, <1>9, There

\* The last key of a cancelled batch may still come.
LEMMA TypeTailKeeps ==
    ASSUME IInv, TypeTail
    PROVE  IInv' /\ ic'.text = ic.text
<1>1. /\ ic \in Fine(Arrived, Came, Spare) /\ ic \in Context(Arrived) /\ BatchInv(ic)
      /\ Came \in Int /\ Spare \in Int /\ Numbers /\ Arrived \subseteq Keys
  BY Here DEF Fine, Env
<1>2. /\ ic.tail /\ ic' = [ic EXCEPT !.tail = FALSE]
      /\ wire' \in {wire, Append(wire, Loopback)} /\ UNCHANGED <<world, ready>>
  BY DEF TypeTail
<1> DEFINE x == [ic EXCEPT !.tail = FALSE]
<1>4. ic' = x
  BY <1>2
<1>5. /\ x \in Context(Arrived) /\ x.ticket = ic.ticket /\ x.left = ic.left
      /\ x.deleting = ic.deleting /\ x.settling = ic.settling /\ x.safety = ic.safety
      /\ x.expected = ic.expected /\ x.seen = ic.seen /\ x.outstanding = ic.outstanding
      /\ ~x.tail /\ x.grace = ic.grace
      /\ x.replayTimer = ic.replayTimer /\ x.pending = ic.pending
      /\ x.settled = ic.settled /\ x.buffered = ic.buffered /\ x.removed = ic.removed
      /\ x.text = ic.text /\ x.cycle = ic.cycle /\ x.disabled = ic.disabled
  BY <1>1 DEF Context
<1> HIDE DEF x
<1>6. x \in Fine(Arrived, Came, Spare - 1)
  <2>1. x.left + (IF x.tail THEN 1 ELSE 0) + 1 = ic.left + (IF ic.tail THEN 1 ELSE 0)
    <3>1. ic.left \in Nat
      BY <1>1, Typed
    <3> QED
      BY <1>2, <1>5, <3>1
  <2>2. ic.ticket \notin {"Queued", "Running"} => x.left = 0
    BY <1>1, <1>5 DEF BatchInv
  <2> QED
    BY <1>1, <1>5, <2>1, <2>2, TypedFine
<1>9. FocusInv'
  BY <1>2, <1>4, <1>5, SameFocus DEF IInv, Quiet, world
<1>7. CASE wire' = Append(wire, Loopback)
  <2>1. Outside' /\ Arrived' = Arrived /\ Came' = Came /\ Spare' = Spare - 1
    BY <1>2, <1>7, LoopbackComes
  <2>2. ic' \in Fine(Arrived', Came', Spare')
    BY <1>4, <1>6, <2>1
  <2> QED
    BY <1>1, <1>4, <1>5, <1>9, <2>1, <2>2, There
<1>8. CASE wire' = wire
  <2>1. Spare - 1 \in Int /\ Spare - 1 <= Spare /\ Came <= Came
    BY <1>1
  <2>2. x \in Fine(Arrived, Came, Spare)
    BY <1>1, <1>6, <2>1, Richer
  <2>3. ready' \in BOOLEAN
    BY <1>2 DEF IInv, TypeOK
  <2> QED
    BY <1>2, <1>4, <1>5, <1>8, <1>9, <2>2, <2>3, Quietly
<1> QED
  BY <1>2, <1>7, <1>8

\* A batch fails: what is left of it is never typed.
LEMMA FailKeeps ==
    ASSUME IInv, Fail
    PROVE  IInv' /\ ic'.text = ic.text
<1>1. /\ ic \in Fine(Arrived, Came, Spare) /\ ic \in Context(Arrived) /\ BatchInv(ic)
      /\ Solvent(ic, Came, Spare) /\ ic.seen <= ic.expected
      /\ Came \in Int /\ Spare \in Int
  BY Here DEF Fine
<1>2. /\ ic.ticket \in {"Queued", "Running"} /\ Use("fails") /\ ready' = FALSE
      /\ UNCHANGED <<app, effect, again, pressed, wire, focus>>
  BY DEF Fail, StillTyping
<1> DEFINE x == [ic EXCEPT !.ticket = "Failed", !.left = 0]
<1>3. ic' = x
  BY DEF Fail
<1>4. /\ x \in Context(Arrived) /\ x.ticket = "Failed" /\ x.left = 0
      /\ x.deleting = ic.deleting /\ x.settling = ic.settling /\ x.safety = ic.safety
      /\ x.expected = ic.expected /\ x.seen = ic.seen /\ x.outstanding = ic.outstanding
      /\ x.tail = ic.tail /\ x.grace = ic.grace
      /\ x.replayTimer = ic.replayTimer /\ x.pending = ic.pending
      /\ x.settled = ic.settled /\ x.buffered = ic.buffered /\ x.removed = ic.removed
      /\ x.text = ic.text /\ x.cycle = ic.cycle /\ x.disabled = ic.disabled
  BY <1>1 DEF Context, Tickets
<1> HIDE DEF x
<1>5. BatchInv(x)
  <2>1. ic.deleting
    BY <1>1, <1>2 DEF BatchInv
  <2> QED
    BY <1>1, <1>4, <2>1 DEF BatchInv
<1>6. Solvent(x, Came, Spare)
  <2> DEFINE a == Count(ic.settled, {Loopback, Backspace})
             y == IF ic.tail THEN 1 ELSE 0
             m == ic.removed
             l == ic.left
             o == ic.outstanding
  <2>1. a \in Nat /\ y \in Nat /\ m \in Nat /\ l \in Nat /\ o \in Nat
    BY <1>1, Counts, Typed
  <2>2. Owed(ic) = m + a + l + y /\ Owed(x) = m + a + 0 + y
    BY <1>4 DEF Owed
  <2> HIDE DEF a, y, m, l
  <2>3. Owed(x) <= Owed(ic) /\ Owed(x) \in Nat /\ Owed(ic) \in Nat
    BY <2>1, <2>2
  <2>4. Owed(ic) <= Spare + o => Owed(x) <= Spare + o
    <3> HIDE DEF o
    <3> QED
      BY <1>1, <2>1, <2>3
  <2>5. Spent(x) = Spent(ic)
    BY <1>4 DEF Spent
  <2> QED
    BY <1>1, <1>4, <2>4, <2>5 DEF Solvent
<1>7. x \in Fine(Arrived, Came, Spare)
  BY <1>1, <1>4, <1>5, <1>6 DEF Fine
<1>8. FocusInv'
  BY <1>2, <1>3, <1>4, SameFocus DEF IInv, Quiet
<1>9. /\ used'.backspaces = used.backspaces
      /\ used' \in [backspaces : Nat, eaten : Nat, lost : Nat, fails : Nat, forced : Nat,
                    leaves : Nat]
  BY <1>2, UseFine
<1>10. ready' \in BOOLEAN /\ focus' \in Places
  BY <1>2 DEF IInv, TypeOK
<1> QED
  BY <1>2, <1>3, <1>4, <1>7, <1>8, <1>9, <1>10, Inside

\* The device is opened again.
LEMMA RecoverKeeps ==
    ASSUME IInv, Recover
    PROVE  IInv' /\ ic'.text = ic.text
<1>1. ic \in Fine(Arrived, Came, Spare)
  BY Here
<1>2. ic' = ic /\ UNCHANGED <<world, wire>> /\ ready' = TRUE
  BY DEF Recover
<1>3. FocusInv'
  BY <1>2 DEF IInv, FocusInv, Quiet, Browser, world
<1> QED
  BY <1>1, <1>2, <1>3, Quietly

---------------------------------------------------------------------------
(* The timers.                                                             *)

\* The new suffix has reached the text only of a context whose batch is complete.
InTime ==
    ic.ticket # "Complete" => KeysOf(ic'.text) \cap KeysOf(ic.pending) \subseteq KeysOf(ic.text)

\* What a step may do to the text while the focus is elsewhere.
Away ==
    focus = "away" /\ ic'.text # ic.text =>
        /\ ic.cycle
        /\ \/ app \in {"chromium", "electron"}
           \/ ic.settled # <<>> /\ ic'.text = Raw(ic, Head(ic.settled)).text

\* A step that shows nothing new is in time, and does nothing while away.
LEMMA SameText ==
    ASSUME ic'.text = ic.text
    PROVE  InTime /\ Away
BY DEF InTime, Away

\* So for a context that leads to another.
LEMMA LedAway ==
    ASSUME FocusInv, Leads(ic, ic'), focus = "away" => ic.cycle \/ ic'.text = ic.text
    PROVE  Away
BY DEF FocusInv, Leads, Browser, Away

\* A failed batch is noticed.
LEMMA NoticeKeeps ==
    ASSUME IInv, ic.ticket = "Failed", ic' = Reset(ic), UNCHANGED <<world, wire, ready>>
    PROVE  IInv' /\ ic'.text = ic.text
<1>1. ic \in Fine(Arrived, Came, Spare) /\ Came \in Int /\ Spare \in Int /\ Numbers
  BY Here DEF Env
<1> DEFINE r == Reset(ic)
<1>2. /\ r \in Fine(Arrived, Came, Spare) /\ Quiet(r) /\ ~r.cycle
      /\ r.text = ic.text /\ (r.disabled <=> ic.disabled)
  BY <1>1, ResetFine
<1>3. ic' = r
  OBVIOUS
<1> HIDE DEF r
<1>4. FocusInv'
  <2>1. Leads(ic, ic')
    BY <1>2, <1>3 DEF Leads
  <2> QED
    BY <1>2, <1>3, <2>1, LedFocus DEF IInv, world
<1> QED
  BY <1>2, <1>3, <1>4, Quietly DEF IInv, TypeOK

\* The timer that watches the request sees it.
LEMMA WatchKeeps ==
    ASSUME IInv, WatchRequest
    PROVE  IInv' /\ ic'.text = ic.text
BY NoticeKeeps DEF WatchRequest, Abort

\* The safety timer sees it, or waits once more.
LEMMA SafetyExtendsKeeps ==
    ASSUME IInv, SafetyExtends
    PROVE  IInv' /\ ic'.text = ic.text
<1>1. ic \in Fine(Arrived, Came, Spare) /\ ic \in Context(Arrived)
  BY Here DEF Fine
<1>2. UNCHANGED <<world, wire, ready>>
  BY DEF SafetyExtends
<1>3. CASE ic.ticket = "Failed" /\ ic' = Reset(ic)
  BY <1>2, <1>3, NoticeKeeps
<1>4. CASE ic' = [ic EXCEPT !.retried = TRUE]
  <2> DEFINE x == [ic EXCEPT !.retried = TRUE]
  <2>1. /\ x \in Context(Arrived) /\ x.text = ic.text /\ x.cycle = ic.cycle
        /\ x.disabled = ic.disabled
    BY <1>1 DEF Context
  <2>2. Agrees(ic, x)
    BY <1>1 DEF Context, Agrees
  <2>3. ic' = x
    BY <1>4
  <2> HIDE DEF x
  <2>4. x \in Fine(Arrived, Came, Spare) /\ (Quiet(ic) => Quiet(x))
    BY <1>1, <2>1, <2>2, AgreeFine
  <2>5. FocusInv'
    BY <1>2, <2>1, <2>3, <2>4, SameFocus DEF IInv, world
  <2> QED
    BY <1>2, <2>1, <2>3, <2>4, <2>5, Quietly DEF IInv, TypeOK
<1> QED
  BY <1>3, <1>4 DEF SafetyExtends

\* The end of a settle commits, deletes what was missed, or repairs.
LEMMA SettleKeeps ==
    ASSUME IInv, SettleFires
    PROVE  IInv' /\ InTime /\ Away
<1>1. Env /\ ic \in Fine(Arrived, Came, Spare) /\ Came \in Int /\ Spare \in Int
      /\ Spare <= Came /\ Arrived \subseteq Keys
  BY Here
<1>2. PICK missed \in BOOLEAN : ic' = FinishSettle(ic, missed)
  BY DEF SettleFires
<1>3. ic.settling /\ ic.deleting /\ UNCHANGED <<world, wire, ready>>
  BY DEF SettleFires
<1> DEFINE u == FinishSettle(ic, missed)
<1>4. /\ u \in Fine(Arrived, Came, Spare) /\ Leads(ic, u)
      /\ ic.ticket # "Complete" => u.text = ic.text
  BY <1>1, <1>3, FinishSettleFine
<1> HIDE DEF u
<1>5. ic' = u
  BY <1>2 DEF u
<1>6. focus = "away" => ic.cycle
  BY <1>3 DEF IInv, FocusInv, Quiet
<1>7. FocusInv'
  BY <1>3, <1>4, <1>5, <1>6, LedFocus DEF IInv, world
<1>8. IInv'
  BY <1>3, <1>4, <1>5, <1>7, Quietly DEF IInv, TypeOK
<1>9. Away
  BY <1>4, <1>5, <1>6, LedAway DEF IInv
<1> QED
  BY <1>4, <1>5, <1>8, <1>9 DEF InTime

\* The safety timer commits without the keys that are missing.
LEMMA SafetyForcesKeeps ==
    ASSUME IInv, SafetyForces
    PROVE  IInv' /\ InTime /\ Away
<1>1. Env /\ ic \in Fine(Arrived, Came, Spare) /\ Came \in Int /\ Spare \in Int
      /\ Spare <= Came /\ Arrived \subseteq Keys
  BY Here
<1>2. /\ ic.safety /\ ~StillTyping(ic) /\ ic.ticket # "Failed" /\ Use("forced")
      /\ ic' = ForceCommit(ic) /\ UNCHANGED <<app, effect, again, pressed, wire, ready, focus>>
  BY DEF SafetyForces
<1> DEFINE u == ForceCommit(ic)
<1>3. u \in Fine(Arrived, Came, Spare) /\ Leads(ic, u)
  BY <1>1, <1>2, ForceCommitFine
<1> HIDE DEF u
<1>4. ic' = u
  BY <1>2 DEF u
<1>5. focus = "away" => ic.cycle
  BY <1>2 DEF IInv, FocusInv, Quiet
<1>6. FocusInv'
  BY <1>2, <1>3, <1>4, <1>5, LedFocus DEF IInv
<1>7. /\ used'.backspaces = used.backspaces
      /\ used' \in [backspaces : Nat, eaten : Nat, lost : Nat, fails : Nat, forced : Nat,
                    leaves : Nat]
  BY <1>2, UseFine
<1>8. ready' \in BOOLEAN /\ focus' \in Places
  BY <1>2 DEF IInv, TypeOK
<1>9. IInv'
  BY <1>2, <1>3, <1>4, <1>6, <1>7, <1>8, Inside
<1>10. Away
  BY <1>3, <1>4, <1>5, LedAway DEF IInv
<1>11. ic.ticket = "Complete"
  <2>1. ic.deleting
    BY <1>2 DEF IInv, BatchInv
  <2> QED
    BY <1>1, <1>2, <2>1, SettleReady
<1> QED
  BY <1>9, <1>10, <1>11 DEF InTime

\* The replay after a commit.
LEMMA ReplayFiresKeeps ==
    ASSUME IInv, ReplayFires
    PROVE  IInv' /\ InTime /\ Away
<1>1. Env /\ ic \in Fine(Arrived, Came, Spare) /\ Came \in Int /\ Spare \in Int
      /\ Spare <= Came /\ Arrived \subseteq Keys
  BY Here
<1>2. /\ ic.replayTimer /\ UNCHANGED <<world, wire, ready>>
      /\ ic' = ReplayBuffered([ic EXCEPT !.replayTimer = FALSE])
  BY DEF ReplayFires
<1> DEFINE u == ReplayBuffered([ic EXCEPT !.replayTimer = FALSE])
<1>3. /\ u \in Fine(Arrived, Came, Spare) /\ Leads(ic, u)
      /\ Quiet(ic) => u.text = ic.text /\ Quiet(u)
  BY <1>1, <1>2, ReplayFiresFine
<1> HIDE DEF u
<1>4. ic' = u
  BY <1>2 DEF u
<1>5. focus = "away" => ic.cycle \/ Quiet(ic)
  BY DEF IInv, FocusInv
<1>6. FocusInv'
  BY <1>2, <1>3, <1>4, <1>5, LedFocus DEF IInv, world
<1>7. IInv'
  BY <1>2, <1>3, <1>4, <1>6, Quietly DEF IInv, TypeOK
<1>8. Away
  BY <1>3, <1>4, <1>5, LedAway DEF IInv
<1>9. InTime
  <2>1. ic.pending = <<>>
    BY <1>2 DEF IInv, BatchInv
  <2>2. KeysOf(ic.pending) = {}
    BY <2>1 DEF KeysOf
  <2> QED
    BY <2>2 DEF InTime
<1> QED
  BY <1>7, <1>8, <1>9

\* A browser that did not come back in time has lost the focus.
LEMMA CycleExpiresKeeps ==
    ASSUME IInv, CycleExpires
    PROVE  IInv' /\ ic'.text = ic.text
<1>1. Numbers /\ ic \in Fine(Arrived, Came, Spare) /\ Came \in Int /\ Spare \in Int
  BY Here DEF Env
<1>2. /\ Expired(ic) \in Fine(Arrived, Came, Spare) /\ Expired(ic).text = ic.text
      /\ Expired(ic).cycle = FALSE /\ Quiet(Expired(ic))
      /\ (Expired(ic).disabled <=> ic.disabled)
  BY <1>1, ExpiredFine
<1>3. ic' = Expired(ic) /\ UNCHANGED <<world, wire, ready>>
  BY DEF CycleExpires, Expired
<1>4. FocusInv'
  BY <1>2, <1>3 DEF IInv, FocusInv, world
<1> QED
  BY <1>2, <1>3, <1>4, Quietly DEF IInv, TypeOK

\* No injected key is left that could be taken for a user's.
LEMMA GraceEndsKeeps ==
    ASSUME IInv, GraceEnds
    PROVE  IInv' /\ ic'.text = ic.text
<1>1. /\ ic \in Fine(Arrived, Came, Spare) /\ ic \in Context(Arrived) /\ BatchInv(ic)
      /\ Solvent(ic, Came, Spare) /\ ic.seen <= ic.expected
  BY Here DEF Fine
<1>2. /\ ic.grace /\ ~ic.tail /\ UNCHANGED <<world, wire, ready>>
      /\ \A n \in DOMAIN wire : wire[n] # Loopback
      /\ \A n \in DOMAIN ic.settled : ic.settled[n] # Loopback
  BY DEF GraceEnds
<1> DEFINE x == [ic EXCEPT !.grace = FALSE]
<1>3. ic' = x
  BY DEF GraceEnds
<1>4. /\ x \in Context(Arrived) /\ x.ticket = ic.ticket /\ x.left = ic.left
      /\ x.deleting = ic.deleting /\ x.settling = ic.settling /\ x.safety = ic.safety
      /\ x.expected = ic.expected /\ x.seen = ic.seen /\ x.outstanding = ic.outstanding
      /\ x.tail = ic.tail /\ ~x.grace
      /\ x.replayTimer = ic.replayTimer /\ x.pending = ic.pending
      /\ x.settled = ic.settled /\ x.buffered = ic.buffered /\ x.removed = ic.removed
      /\ x.text = ic.text /\ x.cycle = ic.cycle /\ x.disabled = ic.disabled
  BY <1>1 DEF Context
<1> HIDE DEF x
<1>5. ~ic.deleting /\ ic.left = 0 /\ ic.outstanding = 0
  BY <1>1, <1>2 DEF BatchInv
<1>6. BatchInv(x)
  BY <1>1, <1>4, <1>5 DEF BatchInv
<1>7. Solvent(x, Came, Spare)
  <2> DEFINE p == Count(ic.settled, {Backspace})
             m == ic.removed
  <2>1. Count(ic.settled, {Loopback, Backspace}) = p
    BY <1>2, CountSame
  <2>2. Count(wire, {Loopback, Backspace}) = Count(wire, {Backspace})
    BY <1>2, CountSame
  <2>3. Spare = Came
    BY <2>2 DEF Came, Spare
  <2>4. p \in Nat /\ m \in Nat
    BY <1>1, Counts, Typed
  <2>5. Spent(x) = m + p /\ Owed(x) = m + p + 0 + 0 /\ Spent(ic) = m + p
    BY <1>2, <1>4, <1>5, <2>1 DEF Spent, Owed
  <2> HIDE DEF p, m
  <2>6. Owed(x) = Spent(ic) /\ Spent(x) = Spent(ic) /\ Spent(ic) \in Nat
    BY <2>4, <2>5
  <2>7. Spent(ic) <= Came
    BY <1>1 DEF Solvent
  <2>8. Came \in Int /\ x.outstanding = 0
    BY <1>4, <1>5, Here
  <2> QED
    BY <2>3, <2>6, <2>7, <2>8 DEF Solvent
<1>8. x \in Fine(Arrived, Came, Spare)
  BY <1>1, <1>4, <1>6, <1>7 DEF Fine
<1>9. FocusInv'
  BY <1>2, <1>3, <1>4, SameFocus DEF IInv, Quiet, world
<1> QED
  BY <1>2, <1>3, <1>4, <1>8, <1>9, Quietly DEF IInv, TypeOK

---------------------------------------------------------------------------
(* Every step.                                                             *)

\* A key that comes is shown, or kept, whether the batch is complete or not: it is no key
\* of the pending suffix, which has come already.
LEMMA DeliverInTime ==
    ASSUME IInv, NEW eaten \in BOOLEAN, Deliver(eaten)
    PROVE  InTime /\ Away
<1> DEFINE h == Head(wire)
<1>1. Numbers /\ Env /\ Outside /\ ic \in Fine(Arrived, Came, Spare) /\ Arrived \subseteq Keys
      /\ Came \in Int /\ Spare \in Int /\ Spare <= Came
  BY Here, InvOutside DEF Env
<1>2. /\ wire # <<>> /\ wire' = Tail(wire) /\ focus = "here"
      /\ ic' = KeyEvent(ic, h, FALSE, eaten)
  BY DEF Deliver
<1>3. h \in 0..Backspace /\ h \in Coming
  <2>1. wire \in Seq(0..Backspace) /\ wire # <<>>
    BY <1>1, <1>2 DEF Outside
  <2>2. 1 \in DOMAIN wire /\ h = wire[1]
    BY <2>1
  <2>3. h \in 0..Backspace
    BY <1>1, <1>2, WireShrinks
  <2> HIDE DEF h
  <2> QED
    BY <2>2, <2>3 DEF Coming
<1> HIDE DEF h
<1> DEFINE K == Arrived \cup ({h} \cap Keys)
<1>4. /\ K \subseteq Keys /\ Arrived \subseteq K /\ h \in K \cup {Loopback, Backspace}
      /\ h \notin Arrived
  BY <1>1, <1>3, NoLetter DEF Arrived, Keys, Loopback, Backspace, Numbers
<1> HIDE DEF K
<1>5. ic \in Fine(K, Came, Spare)
  <2>1. Came <= Came /\ Spare <= Spare
    BY <1>1
  <2> QED
    BY <1>1, <1>4, <2>1, FineGrows
<1>6. Takes(ic, ic', h)
  BY <1>1, <1>2, <1>4, <1>5, KeyEventTakes
<1>7. KeysOf(ic.pending) \subseteq Arrived
  <2>1. ic.pending \in Seq(Glyphs(Arrived))
    BY <1>1 DEF Fine, Context
  <2>2. \A n \in DOMAIN ic.pending : ic.pending[n] \in Glyphs(Arrived)
    BY <2>1
  <2> QED
    BY <2>2 DEF KeysOf, Glyphs
<1>8. InTime
  BY <1>4, <1>6, <1>7 DEF Takes, InTime
<1> QED
  BY <1>2, <1>8 DEF Away

\* A loss of the focus commits what is pending only where the batch is complete.
LEMMA LeaveInTime ==
    ASSUME IInv, Deactivate \/ CycleBegins
    PROVE  InTime /\ Away
<1>1. focus = "here" /\ ic' = Leave([ic EXCEPT !.disabled = app = "page"])
  BY DEF Deactivate, CycleBegins
<1>2. ~ic.deleting \/ ic.ticket # "Complete" => ic'.text = ic.text
  BY <1>1, Left
<1> QED
  BY <1>1, <1>2 DEF InTime, Away

\* A step of something else.
LEMMA StandsStill ==
    ASSUME IInv, UNCHANGED vars
    PROVE  IInv' /\ InTime /\ Away
<1>1. UNCHANGED <<world, wire>> /\ ready' = ready /\ ic' = ic
  BY DEF vars, world
<1>2. ready' \in BOOLEAN /\ ic' \in Fine(Arrived, Came, Spare)
  BY <1>1, Here DEF IInv, TypeOK
<1>3. FocusInv'
  BY <1>1 DEF IInv, FocusInv, Browser, Quiet, world
<1> QED
  BY <1>1, <1>2, <1>3, Quietly, SameText

\* Every step keeps the invariant, commits in time, and commits nothing while away.
LEMMA Step ==
    ASSUME IInv, [Next]_vars
    PROVE  IInv' /\ InTime /\ Away
<1>1. CASE Lose \/ DeliverElsewhere
  <2>1. ic'.text = ic.text
    BY <1>1 DEF Lose, DeliverElsewhere
  <2> QED
    BY <1>1, <2>1, DiscardKeeps, SameText
<1>2. ASSUME NEW eaten \in BOOLEAN, Deliver(eaten)
      PROVE  IInv' /\ InTime /\ Away
  BY <1>2, DeliverKeeps, DeliverInTime
<1>3. CASE Deactivate \/ CycleBegins
  BY <1>3, LeaveKeeps, LeaveInTime
<1>4. CASE Activate \/ CycleEnds
  BY <1>4, ReturnKeeps, SameText
<1>5. CASE PressKey
  <2>1. ic'.text = ic.text
    BY <1>5 DEF PressKey
  <2> QED
    BY <1>5, <2>1, PressKeyKeeps, SameText
<1>6. CASE PressBackspace
  <2>1. ic'.text = ic.text
    BY <1>6 DEF PressBackspace
  <2> QED
    BY <1>6, <2>1, PressBackspaceKeeps, SameText
<1>7. CASE TakeBatch \/ Complete
  BY <1>7, TicketKeeps, SameText
<1>8. CASE TypeKey \/ TypeTail \/ Fail \/ Recover
  BY <1>8, TypeKeyKeeps, TypeTailKeeps, FailKeeps, RecoverKeeps, SameText
<1>9. CASE WatchRequest \/ SafetyExtends \/ CycleExpires \/ GraceEnds
  BY <1>9, WatchKeeps, SafetyExtendsKeeps, CycleExpiresKeeps, GraceEndsKeeps, SameText
<1>10. CASE SettleFires \/ SafetyForces \/ ReplayFires
  BY <1>10, SettleKeeps, SafetyForcesKeeps, ReplayFiresKeeps
<1>11. CASE UNCHANGED vars
  BY <1>11, StandsStill
<1> QED
  BY <1>1, <1>2, <1>3, <1>4, <1>5, <1>6, <1>7, <1>8, <1>9, <1>10, <1>11
  DEF Next, Desktop, User, Injector, Timers

---------------------------------------------------------------------------
(* What follows from the context in order.                                 *)

\* The inductive invariant holds: a batch goes with a replacement and accounts for its
\* keys, a focus that is lost leaves nothing under way but for a browser, each letter comes
\* once, and the user's Backspaces pay for every glyph deleted outside a replacement.
THEOREM Invariance == Spec => []IInv
<1>1. Init => IInv
  BY InitInv
<1>2. IInv /\ [Next]_vars => IInv'
  BY Step
<1> QED
  BY <1>1, <1>2, PTL DEF Spec

\* The state has its types, for every number of keys and every capacity of the buffer.
THEOREM TypeCorrect == Spec => []TypeOK
<1>1. IInv => TypeOK
  BY DEF IInv
<1> QED
  BY <1>1, Invariance, PTL

\* Outside a replacement the screen loses at most one glyph per Backspace of the user,
\* however late, lost or abandoned the injected ones are.
THEOREM NothingStray == Spec => []NoStrayDeletion
<1>1. ASSUME IInv
      PROVE  NoStrayDeletion
  <2> DEFINE p == Count(wire, {Backspace})
             m == Count(ic.settled, {Backspace})
             n == used.backspaces
             d == ic.removed
  <2>1. p \in Nat /\ n \in Nat
    BY <1>1, CountNat DEF IInv, TypeOK
  <2>2. m \in Nat /\ d \in Nat
    BY <1>1, CountNat DEF IInv, TypeOK, Context
  <2>3. d + m <= n - p
    BY <1>1 DEF IInv, CountInv, Solvent, Spent, Came
  <2> HIDE DEF p, m, n, d
  <2>4. d <= n
    BY <2>1, <2>2, <2>3
  <2> QED
    BY <2>4 DEF NoStrayDeletion, n, d
<1> QED
  BY <1>1, Invariance, PTL

\* The suffix of the replacement reaches the text only of a context whose batch the worker
\* has completed: no failure, no loss of the focus and no timer commits it before.
THEOREM CommittedInTime == Spec => CommitAfterBatch
<1>1. IInv /\ [Next]_vars =>
        [ic.ticket # "Complete" =>
            KeysOf(ic'.text) \cap KeysOf(ic.pending) \subseteq KeysOf(ic.text)]_vars
  BY Step DEF InTime
<1> QED
  BY <1>1, Invariance, PTL DEF Spec, CommitAfterBatch

\* While something else has the focus nothing is committed, except by a Chromium on X11
\* that may return, and by the replay of the oldest key held in a page.
THEOREM NothingCommittedAway == Spec => NothingWhileAway
<1>1. IInv /\ [Next]_vars =>
        [focus = "away" /\ ic'.text # ic.text =>
          /\ ic.cycle
          /\ \/ app \in {"chromium", "electron"}
             \/ ic.settled # <<>> /\ ic'.text = Raw(ic, Head(ic.settled)).text]_vars
  BY Step DEF Away
<1> QED
  BY <1>1, Invariance, PTL DEF Spec, NothingWhileAway
=============================================================================
