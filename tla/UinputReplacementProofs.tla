---------------------- MODULE UinputReplacementProofs ----------------------
(***************************************************************************)
(* What UinputReplacement shows, in which order, and that no key is lost:  *)
(* the theorems that need the content of the queues and of the screen.     *)
(*                                                                         *)
(* To the invariant of UinputReplacementSafety three parts are added.      *)
(* OrderInv: the waiting keys are in the order of their numbers.           *)
(* TrackInv: the screen, with what is pending, shows the word composed.    *)
(* KeptInv: each key pressed is shown, waits, or was deleted by the user.  *)
(* For each part every handler is shown to keep it, then every step.       *)
(***************************************************************************)
EXTENDS UinputReplacementSafety

---------------------------------------------------------------------------
(* The ends of sequences.                                                  *)

\* The sequence q ends with w.
Ends(q, w) == Len(w) <= Len(q) /\ \A n \in 1..Len(w) : w[n] = q[Len(q) - Len(w) + n]

\* This is what a suffix is.
LEMMA SuffixIs ==
    ASSUME NEW S, NEW q \in Seq(S), NEW w \in Seq(S)
    PROVE  IsSuffix(w, q) <=> Ends(q, w)
<1> DEFINE r == Reverse(w)
           p == Reverse(q)
           a == Len(w)
           c == Len(q)
<1>1. a \in Nat /\ c \in Nat
  OBVIOUS
<1>2. r \in Seq(S) /\ Len(r) = a /\ \A n \in 1..a : r[n] = w[(a - n) + 1]
  BY DEF Reverse
<1>3. p \in Seq(S) /\ Len(p) = c /\ \A n \in 1..c : p[n] = q[(c - n) + 1]
  BY DEF Reverse
<1>4. IsSuffix(w, q) <=> (a <= c /\ SubSeq(r, 1, a) = SubSeq(p, 1, a))
  BY <1>2, <1>3 DEF IsSuffix, IsPrefix
<1>5. Ends(q, w) <=> (a <= c /\ \A n \in 1..a : w[n] = q[c - a + n])
  BY DEF Ends
<1> HIDE DEF r, p, a, c
<1>6. a <= c => (SubSeq(r, 1, a) = SubSeq(p, 1, a) <=> \A n \in 1..a : r[n] = p[n])
  BY <1>1, <1>2, <1>3
<1>7. ASSUME a <= c, \A n \in 1..a : r[n] = p[n] PROVE \A n \in 1..a : w[n] = q[c - a + n]
  <2> SUFFICES ASSUME NEW n \in 1..a PROVE w[n] = q[c - a + n]
    OBVIOUS
  <2> DEFINE m == (a - n) + 1
  <2>1. m \in 1..a /\ m \in 1..c /\ (a - m) + 1 = n /\ (c - m) + 1 = c - a + n
    BY <1>1, <1>7
  <2> HIDE DEF m
  <2> QED
    BY SMTT(60), <1>2, <1>3, <1>7, <2>1
<1>8. ASSUME a <= c, \A n \in 1..a : w[n] = q[c - a + n] PROVE \A n \in 1..a : r[n] = p[n]
  <2> SUFFICES ASSUME NEW n \in 1..a PROVE r[n] = p[n]
    OBVIOUS
  <2> DEFINE m == (a - n) + 1
  <2>1. m \in 1..a /\ n \in 1..c /\ (c - n) + 1 = c - a + m
    BY <1>1, <1>8
  <2>2. r[n] = w[m]
    BY <1>2
  <2>3. p[n] = q[(c - n) + 1]
    BY <1>3, <2>1
  <2>4. w[m] = q[c - a + m]
    BY <1>8, <2>1
  <2> HIDE DEF m
  <2> QED
    BY <2>1, <2>2, <2>3, <2>4
<1> QED
  BY <1>4, <1>5, <1>6, <1>7, <1>8

\* Nothing is the end of everything, ...
LEMMA EndsEmpty ==
    ASSUME NEW S, NEW q \in Seq(S)
    PROVE  Ends(q, <<>>)
BY DEF Ends

\* ... and an end stays one when both are extended ...
LEMMA EndsAppend ==
    ASSUME NEW S, NEW q \in Seq(S), NEW w \in Seq(S), NEW e \in S, Ends(q, w)
    PROVE  Ends(Append(q, e), Append(w, e))
<1>1. Len(w) <= Len(q) /\ \A n \in 1..Len(w) : w[n] = q[Len(q) - Len(w) + n]
  BY DEF Ends
<1> DEFINE a == Len(w)
           c == Len(q)
<1>2. a \in Nat /\ c \in Nat /\ Len(Append(q, e)) = c + 1 /\ Len(Append(w, e)) = a + 1
  OBVIOUS
<1>3. /\ \A n \in 1..c : Append(q, e)[n] = q[n]
      /\ \A n \in 1..a : Append(w, e)[n] = w[n]
      /\ Append(q, e)[c + 1] = e /\ Append(w, e)[a + 1] = e
  OBVIOUS
<1>4. a <= c /\ \A n \in 1..a : w[n] = q[c - a + n]
  BY <1>1
<1> HIDE DEF a, c
<1>5. ASSUME NEW n \in 1..(a + 1)
      PROVE  Append(w, e)[n] = Append(q, e)[(c + 1) - (a + 1) + n]
  <2>1. (c + 1) - (a + 1) + n = c - a + n
    BY <1>2
  <2>2. CASE n = a + 1
    <3>1. c - a + n = c + 1
      BY <1>2, <2>2
    <3> QED
      BY <1>3, <2>1, <2>2, <3>1
  <2>3. CASE n # a + 1
    <3>1. n \in 1..a /\ c - a + n \in 1..c
      BY <1>2, <1>4, <2>3
    <3> QED
      BY <1>3, <1>4, <2>1, <3>1
  <2> QED
    BY <2>2, <2>3
<1>6. a + 1 <= c + 1
  BY <1>2, <1>4
<1> QED
  BY <1>2, <1>5, <1>6 DEF Ends

\* A sequence without its last element.
LEMMA FrontIs ==
    ASSUME NEW S, NEW q \in Seq(S), q # <<>>
    PROVE  /\ Front1(q) \in Seq(S) /\ Len(Front1(q)) = Len(q) - 1
           /\ \A n \in 1..(Len(q) - 1) : Front1(q)[n] = q[n]
<1> DEFINE c == Len(q)
<1>1. c \in Nat /\ c > 0 /\ c - 1 \in Nat
  OBVIOUS
<1>2. Front1(q) = SubSeq(q, 1, c - 1)
  BY DEF Front1
<1>3. \A n \in 1..(c - 1) : q[n] \in S
  OBVIOUS
<1> HIDE DEF c
<1> DEFINE e == c - 1
<1>4. e \in Nat /\ 1 \in Int /\ e \in Int /\ e - 1 + 1 = e /\ (IF 1 <= e THEN e - 1 + 1 ELSE 0) = e
  BY <1>1
<1> HIDE DEF e
<1>5. /\ SubSeq(q, 1, e) \in Seq(S) /\ Len(SubSeq(q, 1, e)) = e
      /\ \A n \in 1..e : SubSeq(q, 1, e)[n] = q[1 + n - 1]
  BY <1>3, <1>4, SubSeqProperties DEF e
<1>6. \A n \in 1..e : 1 + n - 1 = n
  BY <1>4
<1>7. Front1(q) = SubSeq(q, 1, e)
  BY <1>2 DEF e
<1> QED
  BY <1>5, <1>6, <1>7 DEF c, e

\* ... or shortened.
LEMMA EndsFront ==
    ASSUME NEW S, NEW q \in Seq(S), NEW w \in Seq(S), Ends(q, w)
    PROVE  Ends(IF q = <<>> THEN q ELSE Front1(q), IF w = <<>> THEN w ELSE Front1(w))
<1>1. Len(w) <= Len(q) /\ \A n \in 1..Len(w) : w[n] = q[Len(q) - Len(w) + n]
  BY DEF Ends
<1>2. CASE w = <<>>
  <2>1. (IF q = <<>> THEN q ELSE Front1(q)) \in Seq(S)
    BY Fronts
  <2> QED
    BY <1>2, <2>1, EndsEmpty
<1>3. CASE w # <<>>
  <2> DEFINE a == Len(w)
             c == Len(q)
  <2>1. a \in Nat /\ c \in Nat /\ a > 0 /\ c > 0 /\ a <= c /\ q # <<>>
    BY <1>1, <1>3
  <2>2. /\ Len(Front1(q)) = c - 1 /\ Len(Front1(w)) = a - 1
        /\ \A n \in 1..(c - 1) : Front1(q)[n] = q[n]
        /\ \A n \in 1..(a - 1) : Front1(w)[n] = w[n]
    BY <2>1, <1>3, FrontIs
  <2>3. \A n \in 1..a : w[n] = q[c - a + n]
    BY <1>1
  <2> HIDE DEF a, c
  <2>4. ASSUME NEW n \in 1..(a - 1) PROVE Front1(w)[n] = Front1(q)[(c - 1) - (a - 1) + n]
    <3>1. n \in 1..a /\ c - a + n \in 1..(c - 1) /\ (c - 1) - (a - 1) + n = c - a + n
      BY <2>1
    <3> QED
      BY <2>2, <2>3, <3>1
  <2>5. a - 1 <= c - 1
    BY <2>1
  <2>6. Ends(Front1(q), Front1(w))
    BY <2>2, <2>4, <2>5 DEF Ends
  <2> QED
    BY <1>3, <2>1, <2>6
<1> QED
  BY <1>2, <1>3

\* Two sequences, one after the other.
LEMMA Joined ==
    ASSUME NEW S, NEW x \in Seq(S), NEW y \in Seq(S)
    PROVE  /\ x \o y \in Seq(S) /\ Len(x \o y) = Len(x) + Len(y)
           /\ \A n \in 1..Len(x) : (x \o y)[n] = x[n]
           /\ \A n \in (Len(x) + 1)..(Len(x) + Len(y)) : (x \o y)[n] = y[n - Len(x)]
OBVIOUS

\* The last d elements may be replaced in both.
LEMMA EndsReplaced ==
    ASSUME NEW S, NEW q \in Seq(S), NEW w \in Seq(S), Ends(q, w), NEW v \in Seq(S),
           Len(v) = Len(w), NEW d \in 1..Len(w),
           \A n \in 1..(Len(w) - d) : v[n] = w[n]
    PROVE  Ends(DropN(q, d) \o LastN(v, d), v)
<1> DEFINE a == Len(w)
           c == Len(q)
           x == DropN(q, d)
           y == LastN(v, d)
<1>1. a \in Nat /\ c \in Nat /\ d \in 1..a /\ a <= c /\ Len(v) = a
  BY DEF Ends
<1>2. /\ x \in Seq(S) /\ Len(x) = c - d /\ \A n \in 1..(c - d) : x[n] = q[n]
  BY <1>1 DEF DropN
<1>3. /\ y \in Seq(S) /\ Len(y) = d /\ \A n \in 1..d : y[n] = v[a - d + n]
  <2>1. y = SubSeq(v, a - d + 1, a)
    BY DEF LastN
  <2>2. a - d + 1 \in 1..(a + 1) /\ a - (a - d + 1) + 1 = d
    BY <1>1
  <2> HIDE DEF a, y
  <2>3. y \in Seq(S) /\ Len(y) = d
    BY <1>1, <2>1, <2>2
  <2>4. ASSUME NEW n \in 1..d PROVE y[n] = v[a - d + n]
    <3>1. (a - d + 1) + n - 1 = a - d + n
      BY <1>1
    <3> QED
      BY <1>1, <2>1, <2>2, <3>1
  <2> QED
    BY <2>3, <2>4
<1>4. \A n \in 1..a : w[n] = q[c - a + n]
  BY DEF Ends
<1>5. \A n \in 1..(a - d) : v[n] = w[n]
  OBVIOUS
<1> HIDE DEF a, c, x, y
<1>6. /\ Len(x \o y) = c
      /\ \A n \in 1..(c - d) : (x \o y)[n] = x[n]
      /\ \A n \in (c - d + 1)..c : (x \o y)[n] = y[n - (c - d)]
  <2>1. c - d + d = c
    BY <1>1
  <2> DEFINE m == c - d
  <2>2. Len(x) = m /\ Len(y) = d /\ m + d = c
    BY <1>2, <1>3, <2>1
  <2> HIDE DEF m
  <2>4. x \in Seq(S) /\ y \in Seq(S)
    BY <1>2, <1>3
  <2>5. /\ Len(x \o y) = Len(x) + Len(y)
        /\ \A n \in 1..Len(x) : (x \o y)[n] = x[n]
        /\ \A n \in (Len(x) + 1)..(Len(x) + Len(y)) : (x \o y)[n] = y[n - Len(x)]
    BY <2>4, Joined
  <2> DEFINE z == x \o y
  <2>6. /\ Len(z) = Len(x) + Len(y)
        /\ \A n \in 1..Len(x) : z[n] = x[n]
        /\ \A n \in (Len(x) + 1)..(Len(x) + Len(y)) : z[n] = y[n - Len(x)]
    BY <2>5
  <2> HIDE DEF z
  <2>3. /\ Len(z) = m + d
        /\ \A n \in 1..m : z[n] = x[n]
        /\ \A n \in (m + 1)..(m + d) : z[n] = y[n - m]
    BY <2>2, <2>6
  <2> QED
    BY <2>2, <2>3 DEF m, z
<1>7. ASSUME NEW n \in 1..a PROVE v[n] = (x \o y)[c - a + n]
  <2>1. CASE n <= a - d
    <3>1. n \in 1..(a - d) /\ c - a + n \in 1..(c - d)
      BY <1>1, <2>1
    <3> QED
      BY <1>2, <1>4, <1>5, <1>6, <3>1
  <2>2. CASE ~(n <= a - d)
    <3>1. /\ c - a + n \in (c - d + 1)..c /\ (c - a + n) - (c - d) = n - (a - d)
          /\ n - (a - d) \in 1..d /\ a - d + (n - (a - d)) = n
      BY <1>1, <2>2
    <3> QED
      BY <1>3, <1>6, <3>1
  <2> QED
    BY <2>1, <2>2
<1>8. Ends(x \o y, v)
  BY <1>1, <1>6, <1>7 DEF Ends
<1> QED
  BY <1>8 DEF x, y

\* To drop n is to drop one, and n - 1 of the rest.
LEMMA DropFront ==
    ASSUME NEW S, NEW q \in Seq(S), NEW n \in Nat, n # 0
    PROVE  DropN(IF q = <<>> THEN q ELSE Front1(q), n - 1) = DropN(q, n)
<1>1. CASE q = <<>>
  BY <1>1 DEF DropN
<1>2. CASE q # <<>>
  <2> DEFINE c == Len(q)
             f == Front1(q)
  <2>1. c \in Nat /\ c > 0
    BY <1>2
  <2>2. f \in Seq(S) /\ Len(f) = c - 1 /\ \A m \in 1..(c - 1) : f[m] = q[m]
    BY <1>2, FrontIs
  <2>3. DropN(f, n - 1) = SubSeq(f, 1, (c - 1) - (n - 1)) /\ DropN(q, n) = SubSeq(q, 1, c - n)
    BY <2>2 DEF DropN
  <2>7. c = Len(q)
    OBVIOUS
  <2> HIDE DEF c, f
  <2>4. (c - 1) - (n - 1) = c - n
    BY <2>1
  <2>5. SubSeq(f, 1, c - n) = SubSeq(q, 1, c - n)
    <3>1. c - n <= c - 1 /\ c - n \in Int
      BY <2>1
    <3> QED
      BY <2>1, <2>2, <2>7, <3>1
  <2>6. DropN(f, n - 1) = DropN(q, n)
    BY <2>3, <2>4, <2>5
  <2> QED
    BY <1>2, <2>6 DEF f
<1> QED
  BY <1>1, <1>2

\* To drop nothing changes nothing.
LEMMA DropNone ==
    ASSUME NEW S, NEW q \in Seq(S), NEW n \in Nat
    PROVE  DropN(q, 0) = q /\ DropN(q, n) \in Seq(S)
<1>1. DropN(q, 0) = q
  BY DEF DropN
<1>2. DropN(q, n) \in Seq(S)
  <2>1. Len(q) - n \in Int /\ Len(q) - n <= Len(q)
    OBVIOUS
  <2> QED
    BY <2>1 DEF DropN
<1> QED
  BY <1>1, <1>2

---------------------------------------------------------------------------
(* The word that the engine believes in.                                   *)

\* The screen, once the deletions have come, ends with it.
LEMMA TracksIs ==
    ASSUME NEW K, NEW s \in Context(K), s.seen <= s.expected
    PROVE  /\ Shown(s) \in Seq(Glyphs(K)) /\ s.expected - s.seen \in Nat
           /\ Tracks(s) <=> Ends(Shown(s), s.viet)
<1>1. /\ s.text \in Seq(Glyphs(K)) /\ s.viet \in Seq(Glyphs(K))
      /\ s.pending \in Seq(Glyphs(K)) /\ s.deleting \in BOOLEAN
      /\ s.expected \in 0..MaxDelete /\ s.seen \in 0..MaxDelete
  BY Typed
<1> DEFINE n == s.expected - s.seen
           x == DropN(s.text, n)
<1>2. n \in Nat
  BY <1>1
<1> HIDE DEF n
<1>3. x \in Seq(Glyphs(K))
  BY <1>1, <1>2, DropNone
<1>4. Shown(s) = IF s.deleting THEN x \o s.pending ELSE s.text
  BY DEF Shown, n
<1> HIDE DEF x
<1>5. x \o s.pending \in Seq(Glyphs(K))
  BY <1>1, <1>3, ConcatProperties
<1>6. Shown(s) \in Seq(Glyphs(K))
  BY <1>1, <1>4, <1>5
<1>7. Tracks(s) <=> Ends(Shown(s), s.viet)
  BY <1>1, <1>6, SuffixIs DEF Tracks
<1> QED
  BY <1>2, <1>6, <1>7 DEF n

\* A context without a word has nothing to show.
LEMMA Forgotten ==
    ASSUME NEW K, NEW s \in Context(K), s.seen <= s.expected, s.viet = <<>>
    PROVE  Tracks(s)
BY TracksIs, EndsEmpty

\* What the screen is compared with depends on six fields.
LEMMA TracksSame ==
    ASSUME NEW s, NEW t, t.text = s.text, t.viet = s.viet, t.pending = s.pending,
           t.deleting = s.deleting, t.expected = s.expected, t.seen = s.seen
    PROVE  Tracks(t) = Tracks(s) /\ Shown(t) = Shown(s)
BY DEF Tracks, Shown

\* A reset forgets the word, ...
LEMMA WordGone ==
    ASSUME NEW K, NEW s \in Context(K), s.ticket = "none" => s.outstanding = 0
    PROVE  Reset(s).viet = <<>> /\ Abandon(s).viet = <<>>
<1> DEFINE c == Cancel(s)
<1>1. c \in Context(K)
  BY CancelGood
<1> HIDE DEF c
<1>2. Reset(s) = [c EXCEPT !.viet = <<>>, !.buffered = <<>>, !.settled = <<>>,
                    !.replayTimer = FALSE, !.settling = FALSE, !.safety = FALSE,
                    !.deleting = FALSE, !.pending = <<>>, !.expected = 0, !.seen = 0,
                    !.oldWord = <<>>, !.repairs = 0, !.cycle = FALSE,
                    !.armed = FALSE]
  BY DEF Reset, c
<1>3. Abandon(s) = [c EXCEPT !.viet = <<>>, !.buffered = <<>>, !.settled = <<>>,
                    !.replayTimer = FALSE, !.settling = FALSE, !.safety = FALSE,
                    !.deleting = FALSE, !.pending = <<>>, !.expected = 0, !.seen = 0]
  BY DEF Abandon, c
<1> QED
  BY <1>1, <1>2, <1>3 DEF Context

\* ... in a context that is in order as well, ...
LEMMA ResetForgets ==
    ASSUME NEW K, NEW b, NEW w, NEW s \in Fine(K, b, w)
    PROVE  Reset(s).viet = <<>> /\ Abandon(s).viet = <<>>
BY BatchOwed, WordGone DEF Fine

\* ... and so whatever the screen shows agrees with it.
LEMMA ResetTracks ==
    ASSUME Numbers, NEW K, NEW b \in Int, NEW w \in Int, NEW s \in Fine(K, b, w)
    PROVE  Tracks(Reset(s)) /\ Tracks(Abandon(s))
<1>1. Reset(s) \in Fine(K, b, w) /\ Abandon(s) \in Fine(K, b, w)
  BY ResetFine, AbandonFine
<1> QED
  BY <1>1, ResetForgets, Forgotten DEF Fine

\* The new suffix takes the place of the old one.
LEMMA ReplaceTracks ==
    ASSUME Env, NEW K, K \subseteq Keys, NEW b \in Int, NEW w \in Int,
           NEW k \in K, NEW s \in Fine(K, b, w), ~s.deleting, ~s.grace, ~s.replayTimer,
           effect[k] # Separator, Depth(s.viet, k) # 0, Tracks(s)
    PROVE  Tracks(Replace(s, k))
<1> DEFINE d == Depth(s.viet, k)
           v == Compose(s.viet, k)
           p == LastN(v, d)
           t == Replace(s, k)
<1>1. s \in Context(K) /\ s.seen <= s.expected
  BY DEF Fine
<1>2. s.viet \in Seq(Glyphs(K)) /\ k \in Keys /\ s.text \in Seq(Glyphs(K))
  BY <1>1, Typed
<1>3. d \in 1..Len(s.viet) /\ Len(s.viet) \in Nat
  <2>1. d \in 0..Len(s.viet) /\ d # 0
    BY <1>2, Depths
  <2> QED
    BY <2>1
<1>4. v \in Seq(Glyphs(K)) /\ Len(v) = Len(s.viet)
  BY <1>2, Composed
<1>5. \A n \in 1..(Len(s.viet) - d) : v[n] = s.viet[n]
  <2> DEFINE m == Len(s.viet) - d + 1
  <2>1. v = [s.viet EXCEPT ![m] = @ \cup {k}]
    BY DEF Compose
  <2>2. \A n \in 1..(Len(s.viet) - d) : n # m /\ n \in 1..Len(s.viet)
    BY <1>3
  <2>3. DOMAIN s.viet = 1..Len(s.viet)
    BY <1>2
  <2> HIDE DEF m, d, v
  <2> QED
    BY <2>1, <2>2, <2>3
<1>6. Ends(s.text, s.viet)
  <2>1. Shown(s) = s.text
    BY DEF Shown
  <2> QED
    BY <1>1, <2>1, TracksIs
<1>7. t = [Send(s, d + 1) EXCEPT !.viet = v, !.expected = d, !.seen = 0,
             !.pending = p, !.deleting = TRUE, !.safety = TRUE]
  BY DEF Replace
<1> HIDE DEF d, v, p, t
<1>8. /\ t.text = s.text /\ t.viet = v /\ t.expected = d /\ t.seen = 0 /\ t.pending = p
      /\ t.deleting
  BY <1>1, <1>7 DEF Send, Context
<1>9. Shown(t) = DropN(s.text, d) \o LastN(v, d)
  <2>1. d - 0 = d
    BY <1>3
  <2> QED
    BY <1>8, <2>1 DEF Shown, p
<1>10. Ends(Shown(t), v)
  <2> DEFINE a == s.viet
             q == s.text
  <2>1. a \in Seq(Glyphs(K)) /\ q \in Seq(Glyphs(K)) /\ d \in 1..Len(a)
        /\ Len(v) = Len(a) /\ Ends(q, a)
    BY <1>2, <1>3, <1>4, <1>6
  <2>2. \A n \in 1..(Len(a) - d) : v[n] = a[n]
    BY <1>5
  <2> HIDE DEF a, q
  <2>3. Ends(DropN(q, d) \o LastN(v, d), v)
    BY <1>4, <2>1, <2>2, EndsReplaced
  <2> QED
    BY <1>9, <2>3 DEF q
<1>11. t \in Fine(K, b, w)
  BY ReplaceFine DEF t
<1> QED
  BY <1>8, <1>10, <1>11, TracksIs DEF Fine, t

\* A key that finds no replacement under way changes the screen as it changes the word.
LEMMA TypeTracks ==
    ASSUME Env, NEW K, K \subseteq Keys, NEW b \in Int, NEW w \in Int, w <= b,
           NEW i \in K \cup {Loopback, Backspace},
           NEW s \in Fine(K, b - Pays(i), w - Weighs(i)), ~s.deleting, ~s.grace,
           ~s.replayTimer, Tracks(s)
    PROVE  Tracks(Type(s, i))
<1> DEFINE r == Raw(s, i)
           t == Type(s, i)
<1>1. s \in Context(K) /\ s.viet \in Seq(Glyphs(K)) /\ s.text \in Seq(Glyphs(K))
      /\ s.seen <= s.expected
  BY Typed DEF Fine
<1>2. r \in Context(K)
  BY RawFine DEF Env, Fine
<1>3. /\ r.text = TextAfter(s.text, i) /\ r.viet = s.viet /\ ~r.deleting
  BY <1>1, RawFrame DEF RawLike
<1>4. t \in Fine(K, b, w) /\ t \in Context(K) /\ t.seen <= t.expected
  BY TypeFine DEF Fine
<1>5. Ends(s.text, s.viet)
  <2>1. Shown(s) = s.text
    BY DEF Shown
  <2> QED
    BY <1>1, <2>1, TracksIs
<1>6. ASSUME NEW x, t = [r EXCEPT !.viet = x], Ends(r.text, x) PROVE Tracks(t)
  <2> HIDE DEF r, t
  <2>1. t.viet = x /\ t.text = r.text /\ t.deleting = r.deleting
    BY <1>2, <1>6 DEF Context
  <2>2. Shown(t) = r.text
    BY <1>3, <2>1 DEF Shown
  <2> QED
    BY <1>4, <1>6, <2>1, <2>2, TracksIs
<1>9. ASSUME NEW x, t = [r EXCEPT !.viet = x, !.armed = Guarded], Ends(r.text, x)
      PROVE  Tracks(t)
  <2> HIDE DEF r, t
  <2>1. t.viet = x /\ t.text = r.text /\ t.deleting = r.deleting
    BY <1>2, <1>9 DEF Context
  <2>2. Shown(t) = r.text
    BY <1>3, <2>1 DEF Shown
  <2> QED
    BY <1>4, <1>9, <2>1, <2>2, TracksIs
<1>7. CASE IsBack(i)
  <2> DEFINE x == IF s.viet = <<>> THEN s.viet ELSE Front1(s.viet)
  <2>1. t = [r EXCEPT !.viet = x]
    <3>1. t = [Erase(s) EXCEPT !.viet = IF @ = <<>> THEN @ ELSE Front1(@)]
      BY <1>7 DEF Type
    <3>2. r = Erase(s)
      BY <1>7 DEF Raw
    <3> HIDE DEF r
    <3> QED
      BY <1>3, <3>1, <3>2
  <2>2. r.text = IF s.text = <<>> THEN s.text ELSE Front1(s.text)
    BY <1>3, <1>7 DEF TextAfter
  <2> HIDE DEF r, t
  <2>3. Ends(r.text, x)
    BY <1>1, <1>5, <2>2, EndsFront
  <2> QED
    BY <1>6, <2>1, <2>3 DEF t
<1>8. CASE ~IsBack(i)
  <2>1. i \in K /\ i \in Keys /\ Pays(i) = 0 /\ Weighs(i) = 0
    BY <1>8 DEF IsBack, Pays, Weighs
  <2>2. s \in Fine(K, b, w)
    BY <2>1
  <2>3. CASE effect[i] = Separator
    <3>1. t = [r EXCEPT !.viet = <<>>]
      BY <1>8, <2>3 DEF Type
    <3> HIDE DEF r, t
    <3>2. r.text \in Seq(Glyphs(K))
      BY <1>2, Typed
    <3>3. Ends(r.text, <<>>)
      BY <3>2, EndsEmpty
    <3> QED
      BY <1>6, <3>1, <3>3 DEF t
  <2>4. CASE effect[i] # Separator /\ Depth(s.viet, i) = 0
    <3>1. t = [r EXCEPT !.viet = Compose(@, i), !.armed = Guarded]
      BY <1>8, <2>4 DEF Type
    <3>2. Compose(s.viet, i) = Append(s.viet, {i})
      BY <2>4 DEF Compose
    <3>3. {i} \in Glyphs(K)
      <4>1. {i} \in SUBSET K /\ {i} # {}
        BY <2>1
      <4> QED
        BY <4>1 DEF Glyphs
    <3>4. r.text = Append(s.text, {i})
      BY <1>3, <1>8 DEF TextAfter
    <3> HIDE DEF r, t
    <3>5. Ends(r.text, Append(s.viet, {i}))
      BY <1>1, <1>5, <3>3, <3>4, EndsAppend
    <3>6. t = [r EXCEPT !.viet = Append(s.viet, {i}), !.armed = Guarded]
      BY <1>3, <3>1, <3>2
    <3> QED
      BY <1>9, <3>5, <3>6 DEF t
  <2>5. CASE effect[i] # Separator /\ Depth(s.viet, i) # 0 /\ Refused(s)
    <3> DEFINE c == Reset(s)
    <3>1. t = Raw(c, i)
      BY <1>8, <2>5 DEF Type
    <3>2. c \in Context(K) /\ c.viet = <<>>
      BY <2>2, ResetFine, ResetForgets DEF Env, Fine
    <3> HIDE DEF c, t
    <3>3. t.viet = <<>>
      BY <3>1, <3>2, RawFrame DEF RawLike
    <3> QED
      BY <1>4, <3>3, Forgotten DEF t
  <2>6. CASE effect[i] # Separator /\ Depth(s.viet, i) # 0 /\ ~Refused(s)
    <3> DEFINE c == Replace(s, i)
    <3>1. t = [c EXCEPT !.oldWord = s.viet, !.repairs = 0, !.armed = Guarded]
      BY <1>8, <2>6 DEF Type
    <3>2. c \in Context(K) /\ Tracks(c)
      BY <2>1, <2>2, <2>6, ReplaceFine, ReplaceTracks DEF Fine
    <3> HIDE DEF c, t
    <3>3. /\ t.text = c.text /\ t.viet = c.viet /\ t.pending = c.pending
          /\ t.deleting = c.deleting /\ t.expected = c.expected /\ t.seen = c.seen
      BY <3>1, <3>2 DEF Context
    <3> QED
      BY <3>2, <3>3, TracksSame DEF t
  <2> QED
    BY <2>3, <2>4, <2>5, <2>6
<1> QED
  BY <1>7, <1>8

\* What the guard drops is in its history only, ...
LEMMA DropFrame ==
    ASSUME NEW K, NEW s \in Context(K), NEW i
    PROVE  LET t == Drop(s, i)
           IN  /\ t.text = s.text /\ t.viet = s.viet /\ t.pending = s.pending
               /\ t.deleting = s.deleting /\ t.expected = s.expected /\ t.seen = s.seen
               /\ t.oldWord = s.oldWord /\ t.buffered = s.buffered
               /\ t.settled = s.settled /\ t.replayTimer = s.replayTimer
               /\ t.grace = s.grace /\ t.ticket = s.ticket /\ t.erased = s.erased
               /\ t.dropped = s.dropped \cup {i}
<1> DEFINE d == s.dropped \cup {i}
<1>1. PICK t : t = [s EXCEPT !.dropped = d]
  OBVIOUS
<1> HIDE DEF d
<1>2. /\ t.text = s.text /\ t.viet = s.viet /\ t.pending = s.pending
      /\ t.deleting = s.deleting /\ t.expected = s.expected /\ t.seen = s.seen
      /\ t.oldWord = s.oldWord /\ t.buffered = s.buffered
      /\ t.settled = s.settled /\ t.replayTimer = s.replayTimer
      /\ t.grace = s.grace /\ t.ticket = s.ticket /\ t.erased = s.erased
      /\ t.dropped = d
  BY ONLY ZenonT(60), <1>1, s \in Context(K) DEF Context
<1>3. Drop(s, i) = t
  BY <1>1 DEF Drop, d
<1> QED
  BY <1>2, <1>3 DEF d

\* ... and was never in the word.
LEMMA DropTracks ==
    ASSUME NEW K, NEW s \in Context(K), NEW i, Tracks(s)
    PROVE  Tracks(Drop(s, i))
<1>1. PICK t : t = Drop(s, i)
  OBVIOUS
<1>2. /\ t.text = s.text /\ t.viet = s.viet /\ t.pending = s.pending
      /\ t.deleting = s.deleting /\ t.expected = s.expected /\ t.seen = s.seen
  BY <1>1, DropFrame
<1> QED
  BY <1>1, <1>2, TracksSame

\* During a replacement a Backspace deletes what was to be deleted.
LEMMA WhileDeletingTracks ==
    ASSUME Numbers, NEW K, NEW s \in Context(K), s.seen <= s.expected, s.deleting, NEW i,
           Tracks(s)
    PROVE  Tracks(WhileDeleting(s, i, FALSE))
<1> DEFINE t == WhileDeleting(s, i, FALSE)
           x == IF s.text = <<>> THEN s.text ELSE Front1(s.text)
           o == IF s.outstanding > 0 THEN s.outstanding - 1 ELSE 0
           n == s.seen + 1
           q == Append(s.buffered, i)
<1>1. /\ s.text \in Seq(Glyphs(K)) /\ s.seen \in Nat /\ s.expected \in Nat
  <2>1. /\ s.text \in Seq(Glyphs(K)) /\ s.seen \in 0..MaxDelete
        /\ s.expected \in 0..MaxDelete
    BY Typed
  <2>2. MaxDelete \in Nat
    BY DEF Numbers
  <2> QED
    BY <2>1, <2>2
<1>5. CASE Repeats(s, i)
  BY <1>5, DropTracks DEF WhileDeleting
<1>2. CASE ~IsBack(i) /\ ~Repeats(s, i)
  <2>1. t = [s EXCEPT !.buffered = q] \/ t = s
    BY <1>2 DEF WhileDeleting
  <2> HIDE DEF t, q
  <2>2. /\ t.text = s.text /\ t.viet = s.viet /\ t.pending = s.pending
        /\ t.deleting = s.deleting /\ t.expected = s.expected /\ t.seen = s.seen
    BY <2>1 DEF Context
  <2> QED
    BY <2>2, TracksSame DEF t
<1>3. CASE IsBack(i) /\ s.seen < s.expected
  <2>1. t = [s EXCEPT !.seen = n, !.outstanding = o, !.text = x]
    BY <1>3 DEF WhileDeleting, Repeats
  <2>2. /\ s.expected - s.seen \in Nat /\ s.expected - s.seen # 0
        /\ s.expected - n = (s.expected - s.seen) - 1
    BY <1>1, <1>3
  <2>3. DropN(x, (s.expected - s.seen) - 1) = DropN(s.text, s.expected - s.seen)
    BY <1>1, <2>2, DropFront
  <2> HIDE DEF t, n, x, o
  <2>4. /\ t.text = x /\ t.viet = s.viet /\ t.pending = s.pending
        /\ t.deleting = s.deleting /\ t.expected = s.expected /\ t.seen = n
    BY <2>1 DEF Context
  <2>5. Shown(t) = Shown(s)
    BY <2>2, <2>3, <2>4 DEF Shown
  <2> QED
    BY <2>4, <2>5 DEF Tracks, t
<1>4. CASE IsBack(i) /\ ~(s.seen < s.expected)
  <2>1. t = [s EXCEPT !.safety = FALSE, !.retried = FALSE, !.outstanding = o,
                      !.expected = 0, !.seen = 0, !.settling = TRUE]
    BY <1>4 DEF WhileDeleting, Repeats
  <2>2. s.expected - s.seen = 0 /\ 0 - 0 = 0
    BY <1>1, <1>4
  <2> HIDE DEF t, o
  <2>4. /\ t.text = s.text /\ t.viet = s.viet /\ t.pending = s.pending
        /\ t.deleting = s.deleting /\ t.expected = 0 /\ t.seen = 0
    BY <2>1 DEF Context
  <2>5. Shown(t) = Shown(s)
    BY <2>2, <2>4 DEF Shown
  <2> QED
    BY <2>4, <2>5 DEF Tracks, t
<1> QED
  BY <1>2, <1>3, <1>4, <1>5

\* Any key that is not eaten.
LEMMA DispatchTracks ==
    ASSUME Env, NEW K, K \subseteq Keys, NEW b \in Int, NEW w \in Int, w <= b,
           NEW i \in K \cup {Loopback, Backspace}, NEW replaying \in BOOLEAN,
           NEW s \in Fine(K, b - Pays(i), w - Weighs(i)),
           replaying => ~s.deleting /\ ~s.replayTimer, Tracks(s)
    PROVE  Tracks(Dispatch(s, i, replaying, FALSE))
<1> DEFINE t == Dispatch(s, i, replaying, FALSE)
           held == ~replaying /\ ~AwaitingAnchor(s, i) /\ HoldsBack(s)
           q == Append(s.settled, i)
<1>1. b - Pays(i) \in Int /\ w - Weighs(i) \in Int
  BY DEF Pays, Weighs
<1>2. t \in Fine(K, b, w)
  BY DispatchFine
<1>3. BatchInv(s) /\ s \in Context(K) /\ s.seen <= s.expected
  BY DEF Fine
<1>4. CASE held
  <2>1. t = [s EXCEPT !.settled = q]
    BY <1>4 DEF Dispatch
  <2> HIDE DEF t, q
  <2>2. /\ t.text = s.text /\ t.viet = s.viet /\ t.pending = s.pending
        /\ t.deleting = s.deleting /\ t.expected = s.expected /\ t.seen = s.seen
    BY <1>3, <2>1 DEF Context
  <2> QED
    BY <2>2, TracksSame DEF t
<1>5. CASE ~held
  <2>1. ~s.deleting => ~s.replayTimer
    BY <1>5 DEF AwaitingAnchor, HoldsBack
  <2>2. CASE s.grace /\ IsBack(i)
    BY <1>5, <2>2 DEF Dispatch
  <2>3. CASE ~(s.grace /\ IsBack(i)) /\ s.deleting
    <3>1. t = WhileDeleting(s, i, FALSE)
      BY <1>5, <2>3 DEF Dispatch
    <3> QED
      BY <1>3, <2>3, <3>1, WhileDeletingTracks DEF Env
  <2>4. CASE ~(s.grace /\ IsBack(i)) /\ ~s.deleting /\ (s.grace \/ ~ready)
    <3> DEFINE r == Reset(s)
    <3>1. t = Raw(r, i)
      BY <1>5, <2>4 DEF Dispatch
    <3>2. r \in Context(K) /\ r.viet = <<>>
      BY <1>1, ResetFine, ResetForgets DEF Env, Fine
    <3> HIDE DEF r, t
    <3>3. t.viet = <<>>
      BY <3>1, <3>2, RawFrame DEF RawLike
    <3> QED
      BY <1>2, <3>3, Forgotten DEF t, Fine
  <2>5. CASE ~s.deleting /\ ~(s.grace \/ ~ready)
    <3>1. s.outstanding = 0
      BY <1>3, <2>5 DEF BatchInv
    <3>2. t = Drop(s, i) \/ t = Type(s, i)
      BY <1>5, <2>5, <3>1 DEF Dispatch
    <3>3. ~s.deleting /\ ~s.grace /\ ~s.replayTimer
      BY <2>1, <2>5
    <3> HIDE DEF t
    <3>4. Tracks(Type(s, i)) /\ Tracks(Drop(s, i))
      BY <1>3, <3>3, TypeTracks, DropTracks
    <3> QED
      BY <3>2, <3>4 DEF t
  <2> QED
    BY <2>2, <2>3, <2>4, <2>5
<1> QED
  BY <1>4, <1>5

\* ... also where keyEvent() has given up a failed batch first.
LEMMA KeyEventTracks ==
    ASSUME Env, NEW K, K \subseteq Keys, NEW b \in Int, NEW w \in Int, w <= b,
           NEW i \in K \cup {Loopback, Backspace}, NEW replaying \in BOOLEAN,
           NEW s \in Fine(K, b - Pays(i), w - Weighs(i)),
           replaying => ~s.deleting /\ ~s.replayTimer, Tracks(s)
    PROVE  Tracks(KeyEvent(s, i, replaying, FALSE))
<1>1. b - Pays(i) \in Int /\ w - Weighs(i) \in Int
  BY DEF Pays, Weighs
<1> DEFINE a == Abort(s)
<1>2. a \in Fine(K, b - Pays(i), w - Weighs(i)) /\ (~s.deleting => a = s)
  BY <1>1, AbortFine DEF Env
<1>3. Tracks(a)
  BY <1>1, ResetTracks DEF Abort, Env
<1>4. KeyEvent(s, i, replaying, FALSE) = Dispatch(a, i, replaying, FALSE)
  BY DEF KeyEvent
<1> HIDE DEF a
<1>5. replaying => ~a.deleting /\ ~a.replayTimer
  BY <1>2
<1>6. Tracks(Dispatch(a, i, replaying, FALSE))
  BY <1>2, <1>3, <1>5, DispatchTracks
<1> QED
  BY <1>4, <1>6

---------------------------------------------------------------------------
(* What is committed follows the word.                                     *)

\* A context that takes what is committed, and shows the word.
Current(s) == Tracks(s) /\ ~s.disabled

\* A commit extends the text of a context that takes it.
LEMMA PutShows ==
    ASSUME NEW K, NEW s \in Context(K), NEW g, ~s.disabled
    PROVE  LET t == Put(s, g)
           IN  /\ t.text = s.text \o g /\ t.viet = s.viet /\ t.deleting = s.deleting
               /\ ~t.disabled
<1> DEFINE x == s.text \o g
           t == [s EXCEPT !.text = x]
<1>1. Put(s, g) = t
  BY DEF Put
<1> HIDE DEF x
<1>2. t.text = x /\ t.viet = s.viet /\ t.deleting = s.deleting /\ t.disabled = s.disabled
  BY DEF Context
<1> QED
  BY <1>1, <1>2 DEF x

\* One key of the queue.
LEMMA ReplayKeyTracks ==
    ASSUME Env, NEW K, K \subseteq Keys, NEW b \in Int, NEW w \in Int,
           NEW k \in K, NEW s \in Ready(K, b, w), ~s.deleting, Current(s)
    PROVE  Current(ReplayKey(s, k))
<1> DEFINE t == ReplayKey(s, k)
           g == <<{k}>>
<1>1. s \in Fine(K, b, w) /\ s \in Context(K) /\ BatchInv(s) /\ ~s.replayTimer
      /\ s.seen <= s.expected
  BY DEF Ready, Fine
<1>2. t \in Context(K) /\ t.seen <= t.expected
  <2>1. t \in Ready(K, b, w)
    BY ReplayKeyFine
  <2> QED
    BY <2>1 DEF Ready, Fine
<1>3. ~t.disabled
  <2>1. t.disabled <=> s.disabled
    BY ReplayKeyFine DEF Like
  <2> QED
    BY <2>1 DEF Current
<1>4. s.viet \in Seq(Glyphs(K)) /\ s.text \in Seq(Glyphs(K)) /\ k \in Keys
  BY <1>1, Typed
<1>5. Ends(s.text, s.viet)
  <2>1. Shown(s) = s.text
    BY DEF Shown
  <2> QED
    BY <1>1, <2>1, TracksIs DEF Current
<1>6. CASE effect[k] = Separator
  <2> DEFINE p == Put(s, g)
  <2>1. t = [p EXCEPT !.viet = <<>>]
    BY <1>6 DEF ReplayKey
  <2>2. p \in Context(K)
    <3>1. {k} \in SUBSET K /\ {k} # {}
      OBVIOUS
    <3>2. {k} \in Glyphs(K)
      BY <3>1 DEF Glyphs
    <3>3. g \in Seq(Glyphs(K))
      BY <3>2
    <3> HIDE DEF g
    <3> QED
      BY <1>1, <3>3, PutFine DEF Fine
  <2> HIDE DEF p, t
  <2>3. t.viet = <<>>
    BY <2>1, <2>2 DEF Context
  <2> QED
    BY <1>2, <1>3, <2>3, Forgotten DEF t, Current
<1>7. CASE effect[k] # Separator /\ Depth(s.viet, k) = 0
  <2> DEFINE x == Append(s.viet, {k})
             v == [s EXCEPT !.viet = x]
  <2>1. Compose(s.viet, k) = x
    BY <1>7 DEF Compose
  <2>2. t = Commit(v, g)
    BY <1>7, <2>1 DEF ReplayKey
  <2>3. {k} \in Glyphs(K)
    <3>1. {k} \in SUBSET K /\ {k} # {}
      OBVIOUS
    <3> QED
      BY <3>1 DEF Glyphs
  <2>4. x \in Seq(Glyphs(K))
    BY <1>4, <2>3, AppendProperties
  <2>5. Ends(Append(s.text, {k}), x)
    BY <1>4, <1>5, <2>3, EndsAppend
  <2> HIDE DEF x, t
  <2>6. /\ v \in Context(K) /\ v.viet = x /\ v.text = s.text /\ v.deleting = s.deleting
        /\ v.disabled = s.disabled /\ v.ticket = s.ticket
    BY <1>1, <2>4 DEF Context
  <2> HIDE DEF v
  <2>7. v.ticket # "Failed" /\ ~v.disabled
    BY <1>1, <2>6 DEF BatchInv, Current
  <2>8. t = Put(v, g)
    BY <2>2, <2>7 DEF Commit
  <2>9. t.text = v.text \o g /\ t.viet = v.viet /\ t.deleting = v.deleting
    BY <2>6, <2>7, <2>8, PutShows
  <2>10. s.text \o g = Append(s.text, {k})
    BY <1>4, <2>3
  <2>11. Shown(t) = Append(s.text, {k})
    BY <2>6, <2>9, <2>10 DEF Shown
  <2>12. Tracks(t)
    BY <1>2, <2>5, <2>6, <2>9, <2>11, TracksIs DEF t
  <2> QED
    BY <1>3, <2>12 DEF Current, t
<1>8. CASE effect[k] # Separator /\ Depth(s.viet, k) # 0 /\ Refused(s)
  <2>1. t = Reset(s)
    BY <1>8 DEF ReplayKey
  <2> QED
    BY <1>1, <1>3, <2>1, ResetTracks DEF Env, Current
<1>9. CASE effect[k] # Separator /\ Depth(s.viet, k) # 0 /\ ~Refused(s)
  <2>1. t = Replace(s, k)
    BY <1>9 DEF ReplayKey
  <2>2. ~s.grace
    BY <1>9 DEF Refused
  <2> HIDE DEF t
  <2>3. Tracks(t)
    BY <1>1, <1>9, <2>1, <2>2, ReplaceTracks DEF Current
  <2> QED
    BY <1>3, <2>3 DEF Current, t
<1> QED
  BY <1>6, <1>7, <1>8, <1>9

\* The keys after one that starts a replacement wait again.
LEMMA RebufferTracks ==
    ASSUME Env, NEW K, K \subseteq Keys, NEW b \in Int, NEW w \in Int,
           NEW s \in Ready(K, b, w), NEW k \in K, Current(s)
    PROVE  Rebuffer(s, k) \in Ready(K, b, w) /\ Current(Rebuffer(s, k))
<1> DEFINE t == Rebuffer(s, k)
           q == Append(s.buffered, k)
<1>1. t \in Ready(K, b, w)
  <2>1. Onward(s, s)
    BY DEF Onward
  <2> QED
    BY <2>1, RebufferFine
<1>2. CASE s.deleting
  <2>1. t = s \/ t = [s EXCEPT !.buffered = q]
    BY <1>2 DEF Rebuffer
  <2> HIDE DEF t, q
  <2>2. s \in Context(K)
    BY DEF Ready, Fine
  <2>3. /\ t.text = s.text /\ t.viet = s.viet /\ t.pending = s.pending
        /\ t.deleting = s.deleting /\ t.expected = s.expected /\ t.seen = s.seen
        /\ t.disabled = s.disabled
    BY <2>1, <2>2 DEF Context
  <2>4. Current(t)
    BY <2>3, TracksSame DEF Current
  <2> QED
    BY <1>1, <2>4 DEF t
<1>3. CASE ~s.deleting
  <2>1. t = ReplayKey(s, k)
    BY <1>3 DEF Rebuffer
  <2> QED
    BY <1>1, <1>3, <2>1, ReplayKeyTracks
<1> QED
  BY <1>2, <1>3

\* A replay of the held keys.
LEMMA ReplaySettledTracks ==
    ASSUME Env, NEW K, K \subseteq Keys, NEW b \in Int, NEW w \in Int, w <= b,
           NEW s \in Fine(K, b, w), Tracks(s)
    PROVE  Tracks(ReplaySettled(s))
<1> DEFINE idle == s.replayTimer \/ s.settled = <<>> \/ s.deleting \/ s.settling
<1>1. CASE idle
  BY <1>1 DEF ReplaySettled
<1>2. CASE ~idle
  <2> DEFINE h == Head(s.settled)
             q == Tail(s.settled)
             x == [s EXCEPT !.settled = q]
             t == KeyEvent(x, h, TRUE, FALSE)
             u == [t EXCEPT !.replayTimer = TRUE]
             more == ~t.deleting /\ ~t.replayTimer /\ Len(s.settled) > 1
  <2>1. /\ h \in K \cup {Loopback, Backspace}
        /\ x \in Fine(K, b - Pays(h), w - Weighs(h))
        /\ ~x.deleting /\ ~x.replayTimer
    BY <1>2, TakenFine
  <2>2. ReplaySettled(s) = IF more THEN u ELSE t
    BY <1>2 DEF ReplaySettled
  <2> HIDE DEF h, q
  <2>3. s \in Context(K)
    BY DEF Fine
  <2>4. /\ x.text = s.text /\ x.viet = s.viet /\ x.pending = s.pending
        /\ x.deleting = s.deleting /\ x.expected = s.expected /\ x.seen = s.seen
    BY <2>3 DEF Context
  <2>5. Tracks(x)
    BY <2>4, TracksSame
  <2> HIDE DEF x
  <2>6. t \in Fine(K, b, w)
    BY <2>1, KeyEventFine
  <2>7. Tracks(t)
    BY <2>1, <2>5, KeyEventTracks
  <2> HIDE DEF t
  <2>8. t \in Context(K)
    BY <2>6 DEF Fine
  <2>9. /\ u.text = t.text /\ u.viet = t.viet /\ u.pending = t.pending
        /\ u.deleting = t.deleting /\ u.expected = t.expected /\ u.seen = t.seen
    BY <2>8 DEF Context
  <2>10. Tracks(u)
    BY <2>7, <2>9, TracksSame
  <2> QED
    BY <2>2, <2>7, <2>10
<1> QED
  BY <1>1, <1>2

\* A replay of the buffered keys, and of the held ones after them.
LEMMA ReplayBufferedTracks ==
    ASSUME Env, NEW K, K \subseteq Keys, NEW b \in Int, NEW w \in Int, w <= b,
           NEW s \in Fine(K, b, w), ~s.replayTimer, Current(s)
    PROVE  Tracks(ReplayBuffered(s))
<1> DEFINE e == <<>>
           d == [s EXCEPT !.buffered = e]
           t == FoldLeft(Rebuffer, d, s.buffered)
<1>1. s \in Context(K) /\ s.seen <= s.expected /\ BatchInv(s) /\ Solvent(s, b, w)
  BY DEF Fine
<1>2. ReplayBuffered(s) = IF t.deleting THEN t ELSE ReplaySettled(t)
  BY DEF ReplayBuffered
<1>3. e \in Seq(K)
  BY NoKeys
<1>4. s.buffered \in Seq(K)
  BY <1>1, Typed
<1> HIDE DEF e
<1>5. /\ d \in Context(K) /\ d.text = s.text /\ d.viet = s.viet /\ d.pending = s.pending
      /\ d.deleting = s.deleting /\ d.expected = s.expected /\ d.seen = s.seen
      /\ d.disabled = s.disabled /\ d.replayTimer = s.replayTimer
  BY <1>1, <1>3 DEF Context
<1>6. BatchInv(d)
  BY <1>1 DEF BatchInv, Context
<1>7. Solvent(d, b, w)
  <2>1. /\ d.removed = s.removed /\ d.settled = s.settled /\ d.left = s.left
        /\ d.tail = s.tail /\ d.grace = s.grace /\ d.outstanding = s.outstanding
    BY <1>1, <1>3 DEF Context
  <2> HIDE DEF d
  <2> QED
    BY <1>1, <2>1, SolventKept
<1>8. d \in Ready(K, b, w) /\ Current(d)
  <2>1. d \in Ready(K, b, w)
    BY <1>1, <1>5, <1>6, <1>7 DEF Ready, Fine
  <2> HIDE DEF d
  <2> QED
    BY <1>5, <2>1, TracksSame DEF Current
<1> HIDE DEF d
<1> DEFINE P == {x \in Ready(K, b, w) : Current(x)}
<1>9. d \in P /\ \A x \in P, k \in K : Rebuffer(x, k) \in P
  BY <1>8, RebufferTracks
<1> HIDE DEF P
<1>10. t \in P
  BY <1>4, <1>9, Folded
<1> HIDE DEF t
<1>11. t \in Fine(K, b, w) /\ Tracks(t)
  BY <1>10 DEF P, Ready, Current
<1> QED
  BY <1>2, <1>11, ReplaySettledTracks

\* The pending suffix is what the screen was to show in place of the deleted one.
LEMMA EndTracks ==
    ASSUME Numbers, NEW K, NEW b, NEW w, NEW s \in Context(K), s.seen <= s.expected,
           s.deleting, s.expected = 0, Current(s), NEW x \in Fine(K, b, w), ~x.deleting,
           x.text = s.text, x.viet = s.viet, x.disabled = s.disabled
    PROVE  Current(Put(x, s.pending)) /\ Put(x, s.pending) \in Fine(K, b, w)
<1> DEFINE g == s.pending
           t == Put(x, g)
<1>1. /\ s.text \in Seq(Glyphs(K)) /\ s.viet \in Seq(Glyphs(K)) /\ g \in Seq(Glyphs(K))
      /\ s.seen \in 0..MaxDelete
  BY Typed
<1>2. s.expected - s.seen = 0
  BY <1>1 DEF Numbers
<1>3. Shown(s) = s.text \o g
  BY <1>1, <1>2, DropNone DEF Shown
<1>4. Ends(s.text \o g, s.viet)
  BY <1>3, TracksIs DEF Current
<1> HIDE DEF g
<1>5. t \in Fine(K, b, w)
  BY <1>1, PutFine
<1>6. x \in Context(K) /\ ~x.disabled
  BY DEF Fine, Current
<1>7. t.text = x.text \o g /\ t.viet = x.viet /\ t.deleting = x.deleting /\ ~t.disabled
  BY <1>6, PutShows
<1> HIDE DEF t
<1>8. Shown(t) = s.text \o g
  BY <1>7 DEF Shown
<1>9. t \in Context(K) /\ t.seen <= t.expected
  BY <1>5 DEF Fine
<1>10. Tracks(t)
  BY <1>4, <1>7, <1>8, <1>9, TracksIs
<1> QED
  BY <1>5, <1>7, <1>10 DEF Current, t, g

\* The commit, and what waited for it.
LEMMA SettleCommitTracks ==
    ASSUME Env, NEW K, K \subseteq Keys, NEW b \in Int, NEW w \in Int, w <= b,
           NEW s \in Context(K), Solvent(s, b, w), s.seen <= s.expected,
           s.ticket = "Complete", s.left = 0, s.outstanding = 0, ~s.safety, ~s.replayTimer,
           s.deleting, s.expected = 0, Current(s)
    PROVE  Tracks(SettleCommit(s))
<1> DEFINE e == <<>>
           x == [s EXCEPT !.pending = e, !.settling = FALSE, !.deleting = FALSE]
           t == Put(x, s.pending)
           v == [t EXCEPT !.replayTimer = TRUE]
<1>1. /\ x \in Fine(K, b, w) /\ ~x.replayTimer /\ ~x.deleting /\ x.ticket = "Complete"
  BY ZenonT(60), EndFine DEF Env
<1>2. SettleCommit(s) = IF Ordered THEN v ELSE ReplayBuffered(t)
  <2>1. Commit(x, s.pending) = t
    BY <1>1 DEF Commit
  <2> HIDE DEF t
  <2> QED
    BY <2>1 DEF SettleCommit
<1> HIDE DEF e
<1>3. x.text = s.text /\ x.viet = s.viet /\ x.disabled = s.disabled
  BY DEF Context
<1> HIDE DEF x
<1>4. t \in Fine(K, b, w) /\ Current(t)
  BY <1>1, <1>3, EndTracks DEF Env
<1>5. ~t.replayTimer
  <2>1. s.pending \in Seq(Glyphs(K))
    BY Typed
  <2> QED
    BY <1>1, <2>1, PutFine
<1> HIDE DEF t
<1>6. t \in Context(K)
  BY <1>4 DEF Fine
<1>7. /\ v.text = t.text /\ v.viet = t.viet /\ v.pending = t.pending
      /\ v.deleting = t.deleting /\ v.expected = t.expected /\ v.seen = t.seen
  BY <1>6 DEF Context
<1>8. Tracks(v)
  BY <1>4, <1>7, TracksSame DEF Current
<1> HIDE DEF v
<1>9. Tracks(ReplayBuffered(t))
  BY <1>4, <1>5, ReplayBufferedTracks
<1> QED
  BY <1>2, <1>8, <1>9

---------------------------------------------------------------------------
(* The word and the loss of the focus.                                     *)

\* A reset leaves nothing that waits for the page.
LEMMA ResetParks ==
    ASSUME Numbers, NEW K, NEW b \in Int, NEW w \in Int, NEW s \in Fine(K, b, w)
    PROVE  /\ Tracks(Reset(s)) /\ Parked(Reset(s))
           /\ Tracks(Expired(s)) /\ Parked(Expired(s))
<1>1. Quiet(Reset(s)) /\ ~Reset(s).cycle /\ ~Reset(s).replayTimer
  BY ResetFine
<1>2. Reset(s).viet = <<>> /\ Abandon(s).viet = <<>>
  BY ResetForgets
<1>3. Tracks(Reset(s)) /\ Parked(Reset(s))
  BY <1>1, <1>2, ResetTracks DEF Parked
<1> DEFINE a == Abandon(s)
           v == [a EXCEPT !.outstanding = 0, !.retried = FALSE, !.cycle = FALSE]
<1>4. a \in Fine(K, b, w) /\ ~a.replayTimer
  BY AbandonFine
<1>5. a \in Context(K) /\ a.viet = <<>>
  BY <1>2, <1>4 DEF Fine
<1>6. Expired(s) = v
  BY DEF Expired
<1> HIDE DEF a
<1>7. v.viet = a.viet /\ (v.replayTimer <=> a.replayTimer)
  BY <1>5 DEF Context
<1> HIDE DEF v
<1>8. /\ Expired(s) \in Fine(K, b, w) /\ Expired(s).text = s.text
      /\ Expired(s).cycle = FALSE /\ Quiet(Expired(s))
      /\ (Expired(s).disabled <=> s.disabled)
  BY ExpiredFine
<1>9. v \in Fine(K, b, w) /\ v.cycle = FALSE /\ Quiet(v)
  BY <1>6, <1>8
<1>10. Tracks(v)
  BY <1>5, <1>7, <1>9, Forgotten DEF Fine
<1>11. Parked(v)
  BY <1>4, <1>5, <1>7, <1>9 DEF Parked
<1> QED
  BY <1>3, <1>6, <1>10, <1>11

\* What is flushed is shown: a page that the compositor has disabled flushes nothing.
LEMMA FlushTracks ==
    ASSUME Env, NEW K, K \subseteq Keys, NEW b \in Int, NEW w \in Int, w <= b,
           NEW s \in Fine(K, b, w), Tracks(s), s.disabled => app = "page"
    PROVE  Tracks(Flush(s))
<1> DEFINE u == Flush(s)
           flushed == s.deleting /\ s.expected = 0 /\ ~HeldOnWayland(s) /\ ~StillTyping(s)
<1>1. CASE ~flushed
  BY <1>1 DEF Flush
<1>2. CASE flushed
  <2> DEFINE e == <<>>
             x == [s EXCEPT !.deleting = FALSE, !.settling = FALSE, !.pending = e]
             g == s.pending
             t == Commit(x, g)
  <2>1. u = ReplayBuffered(t)
    BY <1>2 DEF Flush
  <2>2. /\ s \in Context(K) /\ s.seen <= s.expected /\ Solvent(s, b, w)
        /\ s.ticket # "Failed" => s.ticket = "Complete" /\ s.left = 0
        /\ ~s.replayTimer /\ s.outstanding = 0 /\ ~s.safety
    BY <1>2, SettleReady
  <2>3. Current(s)
    BY <1>2 DEF HeldOnWayland, Current
  <2>4. e \in Seq(Glyphs(K))
    BY NoKeys
  <2>5. CASE s.ticket = "Complete"
    <3> DEFINE y == [s EXCEPT !.pending = <<>>, !.settling = FALSE, !.deleting = FALSE]
    <3>1. /\ y \in Fine(K, b, w) /\ ~y.replayTimer /\ ~y.deleting
          /\ y.ticket = "Complete" /\ y.text = s.text /\ y.settled = s.settled
          /\ (y.cycle <=> s.cycle) /\ (y.disabled <=> s.disabled)
      BY <2>2, <2>5, EndFine DEF Env
    <3>2. y.text = s.text /\ y.viet = s.viet /\ y.disabled = s.disabled
      BY <2>2 DEF Context
    <3>3. x = y
      BY <2>2 DEF Context
    <3> HIDE DEF x, y, e
    <3> DEFINE p == Put(x, g)
    <3>4. p \in Fine(K, b, w) /\ Current(p)
      BY <1>2, <2>2, <2>3, <3>1, <3>2, <3>3, EndTracks DEF Env
    <3>5. t = p
      BY <3>1, <3>3 DEF Commit
    <3>6. ~p.replayTimer
      <4>1. g \in Seq(Glyphs(K))
        BY <2>2, Typed
      <4> HIDE DEF g
      <4> QED
        BY <3>1, <3>3, <4>1, PutFine
    <3> HIDE DEF p, t, u
    <3>7. Tracks(u)
      BY <2>1, <3>4, <3>5, <3>6, ReplayBufferedTracks
    <3> QED
      BY <3>7 DEF u
  <2>6. CASE s.ticket = "Failed"
    <3> HIDE DEF e, g
    <3>1. /\ x \in Context(K) /\ x.ticket = s.ticket /\ x.removed = s.removed
          /\ x.settled = s.settled /\ x.left = s.left /\ x.tail = s.tail
          /\ x.grace = s.grace /\ x.outstanding = s.outstanding
          /\ x.disabled = s.disabled
      BY ZenonT(60), <2>2, <2>4 DEF Context
    <3> HIDE DEF x
    <3>2. Solvent(x, b, w)
      BY <2>2, <3>1, SolventKept
    <3>3. x.ticket = "none" => x.outstanding = 0
      BY <2>6, <3>1
    <3>4. t = Reset(x)
      BY <2>6, <3>1 DEF Commit
    <3>5. t.viet = <<>>
      BY <3>1, <3>3, <3>4, WordGone
    <3> HIDE DEF t
    <3>6. t \in Fine(K, b, w) /\ Cleared(x, t)
      BY <3>1, <3>2, <3>3, <3>4, ResetAny DEF Env
    <3>7. Current(t) /\ ~t.replayTimer
      <4>1. Tracks(t)
        BY <3>5, <3>6, Forgotten DEF Fine
      <4> QED
        BY <2>3, <3>1, <3>6, <4>1 DEF Current, Cleared
    <3>8. Tracks(u)
      BY <2>1, <3>6, <3>7, ReplayBufferedTracks
    <3> QED
      BY <3>8
  <2> QED
    BY <2>2, <2>5, <2>6
<1> QED
  BY <1>1, <1>2

\* What is held for a browser is the replacement as it was; anything else is forgotten.
LEMMA LeaveTracks ==
    ASSUME Env, NEW K, K \subseteq Keys, NEW b \in Int, NEW w \in Int, w <= b,
           NEW s \in Fine(K, b, w), ~s.cycle, Tracks(s), s.disabled => app = "page"
    PROVE  Tracks(Leave(s)) /\ Parked(Leave(s))
<1> DEFINE t == Flush(s)
           r == Leave(s)
<1>1. t \in Fine(K, b, w) /\ Leads(s, t) /\ Tracks(t)
  BY FlushFine, FlushTracks
<1>2. r = IF Held(t) THEN [t EXCEPT !.cycle = TRUE] ELSE Abandon(t)
  BY DEF Leave
<1> HIDE DEF t, r
<1>3. CASE Held(t)
  <2> DEFINE v == [t EXCEPT !.cycle = TRUE]
  <2>1. t \in Context(K)
    BY <1>1 DEF Fine
  <2>2. /\ v.text = t.text /\ v.viet = t.viet /\ v.pending = t.pending
        /\ v.deleting = t.deleting /\ v.expected = t.expected /\ v.seen = t.seen
        /\ v.cycle
    BY <2>1 DEF Context
  <2>3. r = v
    BY <1>2, <1>3
  <2> HIDE DEF v
  <2>4. Tracks(v)
    BY <1>1, <2>2, TracksSame
  <2>5. Parked(v)
    BY <1>3, <2>2 DEF Parked, Held
  <2> QED
    BY <2>3, <2>4, <2>5 DEF r
<1>4. CASE ~Held(t)
  <2>1. r = Abandon(t)
    BY <1>2, <1>4
  <2>2. Quiet(r) /\ ~r.replayTimer /\ (r.cycle <=> t.cycle)
    BY <1>1, <2>1, AbandonFine DEF Env
  <2>3. r.viet = <<>> /\ Tracks(r)
    BY <1>1, <2>1, ResetForgets, ResetTracks DEF Env
  <2>4. ~r.cycle
    BY <1>1, <2>2 DEF Leads
  <2>5. Parked(r)
    BY <2>2, <2>3, <2>4 DEF Parked
  <2> QED
    BY <2>3, <2>5 DEF r
<1> QED
  BY <1>3, <1>4

\* The focus comes to the word that was held for it, or to none, and with it the commits.
LEMMA ReturnTracks ==
    ASSUME Numbers, NEW K, NEW b \in Int, NEW w \in Int, NEW s \in Fine(K, b, w), Tracks(s)
    PROVE  Current(Return(s)) /\ Current(ResetPage(Return(s)))
<1> DEFINE x == IF s.cycle THEN s.viet ELSE <<>>
           r == [s EXCEPT !.viet = x, !.cycle = FALSE, !.disabled = FALSE]
<1>1. s \in Context(K)
  BY DEF Fine
<1>2. Return(s) = r
  BY <1>1 DEF Return, Context
<1>3. x \in {s.viet, <<>>}
  OBVIOUS
<1> HIDE DEF x
<1>4. /\ r.text = s.text /\ r.viet = x /\ r.pending = s.pending
      /\ r.deleting = s.deleting /\ r.expected = s.expected /\ r.seen = s.seen
      /\ ~r.disabled
  BY <1>1 DEF Context
<1> HIDE DEF r
<1>5. r \in Fine(K, b, w)
  BY <1>2, ReturnFine
<1>6. Current(r)
  <2>1. CASE x = s.viet
    BY <1>4, <2>1, TracksSame DEF Current
  <2>2. CASE x = <<>>
    BY <1>4, <1>5, <2>2, Forgotten DEF Fine, Current
  <2> QED
    BY <1>3, <2>1, <2>2
<1> DEFINE a == Abandon(r)
           v == [a EXCEPT !.outstanding = 0, !.retried = FALSE]
<1>7. a \in Fine(K, b, w) /\ (a.disabled <=> r.disabled)
  BY <1>5, AbandonFine
<1>8. Tracks(a)
  BY <1>5, ResetTracks
<1>9. ResetPage(r) \in {r, v}
  BY DEF ResetPage
<1> HIDE DEF a
<1>10. a \in Context(K)
  BY <1>7 DEF Fine
<1>11. /\ v.text = a.text /\ v.viet = a.viet /\ v.pending = a.pending
       /\ v.deleting = a.deleting /\ v.expected = a.expected /\ v.seen = a.seen
       /\ v.disabled = a.disabled
  BY <1>10 DEF Context
<1> HIDE DEF v
<1>12. Current(v)
  <2>1. Tracks(v)
    BY <1>8, <1>11, TracksSame
  <2> QED
    BY <1>4, <1>7, <1>11, <2>1 DEF Current
<1> QED
  BY <1>2, <1>6, <1>9, <1>12

---------------------------------------------------------------------------
(* The waiting keys, and their order.                                    *)

\* The keys of a queue that one joined, or that lost its first.
LEMMA KeysInQueue ==
    ASSUME NEW S, NEW q \in Seq(S)
    PROVE  /\ KeysIn(<<>>) = {}
           /\ \A x \in S : KeysIn(Append(q, x)) = KeysIn(q) \cup ({x} \cap Keys)
           /\ q # <<>> => /\ KeysIn(q) = KeysIn(Tail(q)) \cup ({Head(q)} \cap Keys)
                          /\ Head(q) \in S /\ Tail(q) \in Seq(S)
<1>1. KeysIn(<<>>) = {}
  BY DEF KeysIn
<1>2. ASSUME NEW x \in S PROVE KeysIn(Append(q, x)) = KeysIn(q) \cup ({x} \cap Keys)
  <2>1. /\ DOMAIN Append(q, x) = 1..(Len(q) + 1) /\ DOMAIN q = 1..Len(q) /\ Len(q) \in Nat
        /\ \A n \in 1..Len(q) : Append(q, x)[n] = q[n]
        /\ Append(q, x)[Len(q) + 1] = x
    OBVIOUS
  <2>2. 1..(Len(q) + 1) = (1..Len(q)) \cup {Len(q) + 1}
    BY <2>1
  <2>3. {Append(q, x)[n] : n \in DOMAIN Append(q, x)} = {q[n] : n \in DOMAIN q} \cup {x}
    BY <2>1, <2>2
  <2> QED
    BY <2>3 DEF KeysIn
<1>3. ASSUME q # <<>>
      PROVE  /\ KeysIn(q) = KeysIn(Tail(q)) \cup ({Head(q)} \cap Keys)
             /\ Head(q) \in S /\ Tail(q) \in Seq(S)
  <2>1. /\ DOMAIN q = 1..Len(q) /\ Len(q) \in Nat /\ Len(q) # 0
        /\ DOMAIN Tail(q) = 1..(Len(q) - 1)
        /\ \A n \in 1..(Len(q) - 1) : Tail(q)[n] = q[n + 1]
        /\ Head(q) = q[1] /\ Head(q) \in S /\ Tail(q) \in Seq(S)
    BY <1>3
  <2>2. \A n \in 1..Len(q) : n = 1 \/ (n - 1 \in 1..(Len(q) - 1) /\ (n - 1) + 1 = n)
    BY <2>1
  <2>3. \A n \in 1..(Len(q) - 1) : n + 1 \in 1..Len(q)
    BY <2>1
  <2>4. {q[n] : n \in DOMAIN q} = {Tail(q)[n] : n \in DOMAIN Tail(q)} \cup {Head(q)}
    <3>1. ASSUME NEW n \in DOMAIN q
          PROVE  q[n] \in {Tail(q)[m] : m \in DOMAIN Tail(q)} \cup {Head(q)}
      <4>1. n \in 1..Len(q)
        BY <2>1
      <4>2. CASE n = 1
        BY <2>1, <4>2
      <4>3. CASE n # 1
        <5>1. n - 1 \in DOMAIN Tail(q) /\ (n - 1) + 1 = n
          BY <2>1, <2>2, <4>1, <4>3
        <5>2. Tail(q)[n - 1] = q[n]
          BY <2>1, <5>1
        <5> QED
          BY <5>1, <5>2
      <4> QED
        BY <4>2, <4>3
    <3>2. {Tail(q)[n] : n \in DOMAIN Tail(q)} \subseteq {q[n] : n \in DOMAIN q}
      BY <2>1, <2>3
    <3>3. Head(q) \in {q[n] : n \in DOMAIN q}
      <4>1. 1 \in DOMAIN q
        BY <2>1
      <4> QED
        BY <2>1, <4>1
    <3> QED
      BY <3>1, <3>2, <3>3
  <2> QED
    BY <2>1, <2>4 DEF KeysIn
<1> QED
  BY <1>1, <1>2, <1>3

\* A queue stays in order when a later key joins it, or when its first leaves, which is
\* before the others.
LEMMA RisingQueue ==
    ASSUME NEW S, NEW q \in Seq(S), Rising(q)
    PROVE  /\ \A x \in S : Before(KeysIn(q), {x} \cap Keys) => Rising(Append(q, x))
           /\ q # <<>> => Rising(Tail(q)) /\ Before({Head(q)} \cap Keys, KeysIn(Tail(q)))
<1>1. ASSUME NEW x \in S, Before(KeysIn(q), {x} \cap Keys) PROVE Rising(Append(q, x))
  <2> DEFINE p == Append(q, x)
  <2>1. /\ DOMAIN p = 1..(Len(q) + 1) /\ DOMAIN q = 1..Len(q) /\ Len(q) \in Nat
        /\ \A n \in 1..Len(q) : p[n] = q[n]
        /\ p[Len(q) + 1] = x
    OBVIOUS
  <2> HIDE DEF p
  <2> SUFFICES ASSUME NEW m \in DOMAIN p, NEW n \in DOMAIN p, m < n, {p[m], p[n]} \subseteq Keys
               PROVE  p[m] < p[n]
    BY DEF Rising, p
  <2>2. m \in 1..Len(q) /\ (n \in 1..Len(q) \/ n = Len(q) + 1)
    BY <2>1
  <2>3. CASE n \in 1..Len(q)
    <3>1. p[m] = q[m] /\ p[n] = q[n] /\ m \in DOMAIN q /\ n \in DOMAIN q
      BY <2>1, <2>2, <2>3
    <3> QED
      BY <3>1 DEF Rising
  <2>4. CASE n = Len(q) + 1
    <3>1. p[m] = q[m] /\ p[n] = x /\ m \in DOMAIN q
      BY <2>1, <2>2, <2>4
    <3>2. p[m] \in KeysIn(q) /\ x \in {x} \cap Keys
      BY <3>1 DEF KeysIn
    <3> QED
      BY <1>1, <3>1, <3>2 DEF Before
  <2> QED
    BY <2>2, <2>3, <2>4
<1>2. ASSUME q # <<>> PROVE Rising(Tail(q)) /\ Before({Head(q)} \cap Keys, KeysIn(Tail(q)))
  <2> DEFINE p == Tail(q)
  <2>1. /\ DOMAIN q = 1..Len(q) /\ Len(q) \in Nat /\ Len(q) # 0
        /\ DOMAIN p = 1..(Len(q) - 1)
        /\ \A n \in 1..(Len(q) - 1) : p[n] = q[n + 1]
        /\ Head(q) = q[1]
    BY <1>2
  <2> HIDE DEF p
  <2>2. \A n \in DOMAIN p : n \in Nat /\ n + 1 \in DOMAIN q /\ 1 \in DOMAIN q /\ 1 < n + 1
    BY <2>1
  <2>3. \A m, n \in DOMAIN p : m < n => m + 1 < n + 1
    BY <2>1
  <2>4. Rising(p)
    <3> SUFFICES ASSUME NEW m \in DOMAIN p, NEW n \in DOMAIN p, m < n,
                        {p[m], p[n]} \subseteq Keys
                 PROVE  p[m] < p[n]
      BY DEF Rising
    <3>1. p[m] = q[m + 1] /\ p[n] = q[n + 1]
      BY <2>1
    <3>2. m + 1 \in DOMAIN q /\ n + 1 \in DOMAIN q /\ m + 1 < n + 1
      BY <2>2, <2>3
    <3> QED
      BY <3>1, <3>2 DEF Rising
  <2>5. Before({Head(q)} \cap Keys, KeysIn(p))
    <3> SUFFICES ASSUME Head(q) \in Keys, NEW y \in KeysIn(p) PROVE Head(q) < y
      BY DEF Before
    <3>1. PICK n \in DOMAIN p : y = p[n] /\ y \in Keys
      BY DEF KeysIn
    <3>2. p[n] = q[n + 1] /\ n + 1 \in DOMAIN q /\ 1 \in DOMAIN q /\ 1 < n + 1
      BY <2>1, <2>2
    <3>3. {q[1], q[n + 1]} \subseteq Keys
      BY <2>1, <3>1, <3>2
    <3> QED
      BY <2>1, <3>1, <3>2, <3>3 DEF Rising
  <2> QED
    BY <2>4, <2>5 DEF p
<1> QED
  BY <1>1, <1>2

\* What the handlers do to the waiting keys: they serve no keys but N, and leave the queues
\* as they are or empty them.
Serves(s, t, N) ==
    /\ Served(t) \subseteq Served(s) \cup N
    /\ t.buffered \in {s.buffered, <<>>}
    /\ t.settled \in {s.settled, <<>>}

\* An empty queue is in order.
LEMMA RisingEmpty == Rising(<<>>) /\ KeysIn(<<>>) = {}
BY DEF Rising, KeysIn

\* The order of the keys outlives the service of the first of those that are being replayed.
LEMMA ServesInOrder ==
    ASSUME NEW s, NEW t, NEW M, NEW N, NEW R, NEW C, NEW D, Orderly(s, M, C), Serves(s, t, N),
           N \subseteq M, R \subseteq M, D \subseteq C, Before(N, R), t.buffered = <<>> \/ N = {}
    PROVE  Orderly(t, R, D)
<1>1. Rising(t.buffered) /\ Rising(t.settled)
  BY RisingEmpty DEF Serves, Orderly
<1>2. /\ KeysIn(t.buffered) \subseteq KeysIn(s.buffered)
      /\ KeysIn(t.settled) \subseteq KeysIn(s.settled)
      /\ (N = {} \/ KeysIn(t.buffered) = {})
  BY RisingEmpty DEF Serves
<1>3. Served(t) \subseteq Served(s) \cup N
  BY DEF Serves
<1> DEFINE B == KeysIn(s.buffered)
           A == KeysIn(s.settled)
           B2 == KeysIn(t.buffered)
           A2 == KeysIn(t.settled)
           Y == Served(s)
           Z == Served(t)
<1>4. /\ Before(Y, B \cup M \cup A \cup C) /\ Before(B, M \cup A \cup C)
      /\ Before(M, A \cup C) /\ Before(A, C)
  BY DEF Orderly
<1> HIDE DEF B, A, B2, A2, Y, Z
<1>5. B2 \subseteq B /\ A2 \subseteq A /\ (N = {} \/ B2 = {}) /\ Z \subseteq Y \cup N
  BY <1>2, <1>3 DEF B, A, B2, A2, Y, Z
<1>6. /\ Before(Z, B2 \cup R \cup A2 \cup D) /\ Before(B2, R \cup A2 \cup D)
      /\ Before(R, A2 \cup D) /\ Before(A2, D)
  BY <1>4, <1>5 DEF Before
<1> QED
  BY <1>1, <1>6 DEF Orderly, B2, A2, Z

\* ... and a key that joins the buffer, ...
LEMMA BuffersInOrder ==
    ASSUME NEW S, NEW s, s.buffered \in Seq(S), NEW t, NEW k \in S, k \in Keys, NEW M, NEW R,
           NEW C, Orderly(s, M, C),
           Served(t) \subseteq Served(s), t.buffered = Append(s.buffered, k),
           t.settled = s.settled, k \in M, R \subseteq M, Before({k}, R)
    PROVE  Orderly(t, R, C)
<1> DEFINE B == KeysIn(s.buffered)
           A == KeysIn(s.settled)
           B2 == KeysIn(t.buffered)
           Y == Served(s)
           Z == Served(t)
<1>1. B2 = B \cup {k}
  BY KeysInQueue DEF B, B2
<1>2. /\ Before(Y, B \cup M \cup A \cup C) /\ Before(B, M \cup A \cup C)
      /\ Before(M, A \cup C) /\ Before(A, C)
  BY DEF Orderly
<1>3. Rising(t.buffered) /\ Rising(t.settled)
  <2>1. Before(B, {k} \cap Keys)
    BY <1>2 DEF Before
  <2> QED
    BY <2>1, RisingQueue DEF Orderly, B
<1> HIDE DEF B, A, B2, Y, Z
<1>4. Z \subseteq Y
  BY DEF Y, Z
<1>5. /\ Before(Z, B2 \cup R \cup A \cup C) /\ Before(B2, R \cup A \cup C)
      /\ Before(R, A \cup C) /\ Before(A, C)
  BY <1>1, <1>2, <1>4 DEF Before
<1> QED
  BY <1>3, <1>5 DEF Orderly, B2, A, Z

\* ... or the keys held back, ...
LEMMA SettlesInOrder ==
    ASSUME NEW S, NEW s, s.settled \in Seq(S), NEW t, NEW i \in S, NEW C,
           Orderly(s, {}, ({i} \cap Keys) \cup C), Before({i} \cap Keys, C),
           Served(t) = Served(s), t.buffered = s.buffered, t.settled = Append(s.settled, i)
    PROVE  Orderly(t, {}, C)
<1> DEFINE B == KeysIn(s.buffered)
           A == KeysIn(s.settled)
           A2 == KeysIn(t.settled)
           N == {i} \cap Keys
           Y == Served(s)
<1>1. A2 = A \cup N
  BY KeysInQueue DEF A, A2
<1>2. /\ Before(Y, B \cup {} \cup A \cup (N \cup C)) /\ Before(B, {} \cup A \cup (N \cup C))
      /\ Before({}, A \cup (N \cup C)) /\ Before(A, N \cup C)
  BY DEF Orderly
<1>3. Rising(t.buffered) /\ Rising(t.settled)
  <2>1. Before(A, N)
    BY <1>2 DEF Before
  <2> QED
    BY <2>1, RisingQueue DEF Orderly, A
<1>6. Before(N, C)
  OBVIOUS
<1> HIDE DEF B, A, A2, N, Y
<1>5. /\ Before(Y, B \cup {} \cup A2 \cup C) /\ Before(B, {} \cup A2 \cup C)
      /\ Before({}, A2 \cup C) /\ Before(A2, C)
  BY <1>1, <1>2, <1>6 DEF Before
<1> QED
  BY <1>3, <1>5 DEF Orderly, B, A2, Y

\* ... and of a key that is taken from these to be replayed, ...
LEMMA PopsInOrder ==
    ASSUME NEW S, NEW s, s.settled \in Seq(S), s.settled # <<>>, NEW t, NEW C,
           Orderly(s, {}, C), Served(t) = Served(s), t.buffered = s.buffered,
           t.settled = Tail(s.settled)
    PROVE  Orderly(t, {Head(s.settled)} \cap Keys, C)
<1> DEFINE B == KeysIn(s.buffered)
           A == KeysIn(s.settled)
           A2 == KeysIn(t.settled)
           N == {Head(s.settled)} \cap Keys
           Y == Served(s)
<1>1. A = A2 \cup N
  BY KeysInQueue DEF A, A2
<1>2. /\ Before(Y, B \cup {} \cup A \cup C) /\ Before(B, {} \cup A \cup C)
      /\ Before({}, A \cup C) /\ Before(A, C)
  BY DEF Orderly
<1>3. Rising(t.buffered) /\ Rising(t.settled) /\ Before(N, A2)
  BY RisingQueue DEF Orderly, A2
<1> HIDE DEF B, A, A2, N, Y
<1>5. /\ Before(Y, B \cup N \cup A2 \cup C) /\ Before(B, N \cup A2 \cup C)
      /\ Before(N, A2 \cup C) /\ Before(A2, C)
  BY <1>1, <1>2, <1>3 DEF Before
<1> QED
  BY <1>3, <1>5 DEF Orderly, B, A2, N, Y

\* ... and of the buffer that is emptied to be replayed.
LEMMA ReplaysInOrder ==
    ASSUME NEW s, NEW t, NEW C, Orderly(s, {}, C), Served(t) \subseteq Served(s),
           t.buffered = <<>>, t.settled = s.settled
    PROVE  Orderly(t, KeysIn(s.buffered), C)
<1> DEFINE B == KeysIn(s.buffered)
           A == KeysIn(s.settled)
           B2 == KeysIn(t.buffered)
           Y == Served(s)
           Z == Served(t)
<1>1. B2 = {} /\ Rising(t.buffered) /\ Rising(t.settled)
  BY RisingEmpty DEF B2, Orderly
<1>2. /\ Before(Y, B \cup {} \cup A \cup C) /\ Before(B, {} \cup A \cup C)
      /\ Before({}, A \cup C) /\ Before(A, C)
  BY DEF Orderly
<1>4. Z \subseteq Y
  BY DEF Y, Z
<1> HIDE DEF B, A, B2, Y, Z
<1>5. /\ Before(Z, B2 \cup B \cup A \cup C) /\ Before(B2, B \cup A \cup C)
      /\ Before(B, A \cup C) /\ Before(A, C)
  BY <1>1, <1>2, <1>4 DEF Before
<1> QED
  BY <1>1, <1>5 DEF Orderly, B2, A, B, Z

---------------------------------------------------------------------------
(* What the handlers make of the words and of the queues.                *)

\* A context with no word and nothing under way.
Emptied(t) ==
    /\ t.viet = <<>> /\ t.pending = <<>> /\ t.buffered = <<>> /\ t.settled = <<>>
    /\ ~t.deleting /\ ~t.replayTimer

\* Contexts that differ in the text and in the word only, as far as the keys are concerned.
Beside(s, t) ==
    /\ t.pending = s.pending /\ t.oldWord = s.oldWord
    /\ t.buffered = s.buffered /\ t.settled = s.settled
    /\ t.expected = s.expected /\ t.seen = s.seen
    /\ (t.deleting <=> s.deleting) /\ (t.replayTimer <=> s.replayTimer)

\* What a cancellation does not touch.
LEMMA CancelBeside ==
    ASSUME NEW K, NEW s \in Context(K), s.ticket = "none" => s.outstanding = 0
    PROVE  Beside(s, Cancel(s)) /\ Cancel(s).text = s.text /\ Cancel(s).viet = s.viet
<1> DEFINE g == s.grace \/ (s.ticket # "none" /\ s.outstanding > 0)
           o == IF s.ticket = "none" THEN s.outstanding ELSE 0
           x == s.tail \/ (s.ticket = "Running" /\ s.left > 0)
           c == [s EXCEPT !.grace = g, !.outstanding = o, !.tail = x, !.left = 0,
                          !.ticket = "none"]
<1>1. c = Cancel(s)
  BY DEF Cancel
<1> HIDE DEF g, o, x
<1>2. /\ c.pending = s.pending /\ c.oldWord = s.oldWord
      /\ c.buffered = s.buffered /\ c.settled = s.settled
      /\ c.expected = s.expected /\ c.seen = s.seen
      /\ c.deleting = s.deleting /\ c.replayTimer = s.replayTimer
      /\ c.text = s.text /\ c.viet = s.viet
  BY ZenonT(60) DEF Context
<1> QED
  BY <1>1, <1>2 DEF Beside

\* reset() and the loss of the focus leave the text alone, and nothing that waits.
LEMMA AnyEmpties ==
    ASSUME NEW K, NEW s \in Context(K), s.ticket = "none" => s.outstanding = 0
    PROVE  /\ Emptied(Reset(s)) /\ Reset(s).text = s.text /\ Reset(s).oldWord = <<>>
           /\ Emptied(Abandon(s)) /\ Abandon(s).text = s.text /\ Abandon(s).oldWord = s.oldWord
           /\ Emptied(Expired(s)) /\ Expired(s).text = s.text /\ Expired(s).oldWord = s.oldWord
<1> DEFINE c == Cancel(s)
<1>1. c \in Context(K)
  BY CancelGood
<1>2. Beside(s, c) /\ c.text = s.text
  BY CancelBeside
<1>3. PICK r : r = Reset(s)
  OBVIOUS
<1>4. PICK a : a = Abandon(s)
  OBVIOUS
<1>5. PICK e : e = Expired(s)
  OBVIOUS
<1>6. r = [c EXCEPT !.viet = <<>>, !.buffered = <<>>, !.settled = <<>>,
                    !.replayTimer = FALSE, !.settling = FALSE, !.safety = FALSE,
                    !.deleting = FALSE, !.pending = <<>>, !.expected = 0, !.seen = 0,
                    !.oldWord = <<>>, !.repairs = 0, !.cycle = FALSE,
                    !.armed = FALSE]
  BY <1>3 DEF Reset
<1>7. a = [c EXCEPT !.viet = <<>>, !.buffered = <<>>, !.settled = <<>>,
         !.replayTimer = FALSE, !.settling = FALSE, !.safety = FALSE, !.deleting = FALSE,
         !.pending = <<>>, !.expected = 0, !.seen = 0]
  BY <1>4 DEF Abandon
<1>8. e = [a EXCEPT !.outstanding = 0, !.retried = FALSE, !.cycle = FALSE]
  BY <1>4, <1>5 DEF Expired
<1> HIDE DEF c
<1>9. /\ r.viet = <<>> /\ r.pending = <<>> /\ r.buffered = <<>> /\ r.settled = <<>>
       /\ r.deleting = FALSE /\ r.replayTimer = FALSE /\ r.text = c.text /\ r.oldWord = <<>>
  BY ZenonT(60), <1>1, <1>6 DEF Context
<1>10. /\ a.viet = <<>> /\ a.pending = <<>> /\ a.buffered = <<>> /\ a.settled = <<>>
       /\ a.deleting = FALSE /\ a.replayTimer = FALSE /\ a.text = c.text
       /\ a.oldWord = c.oldWord
  BY ZenonT(60), <1>1, <1>7 DEF Context
<1>11. /\ e.viet = a.viet /\ e.pending = a.pending /\ e.buffered = a.buffered
       /\ e.settled = a.settled
       /\ e.deleting = a.deleting /\ e.replayTimer = a.replayTimer /\ e.text = a.text
       /\ e.oldWord = a.oldWord
  BY ZenonT(60), <1>1, <1>7, <1>8 DEF Context
<1>12. Emptied(r) /\ r.text = s.text /\ r.oldWord = <<>>
  BY <1>2, <1>9 DEF Emptied
<1>13. Emptied(a) /\ a.text = s.text /\ a.oldWord = s.oldWord
  BY <1>2, <1>10 DEF Emptied, Beside
<1>14. Emptied(e) /\ e.text = s.text /\ e.oldWord = s.oldWord
  BY <1>11, <1>13 DEF Emptied
<1> QED
  BY <1>3, <1>4, <1>5, <1>12, <1>13, <1>14

\* So they do in a replacement in order.
LEMMA ResetEmpties ==
    ASSUME NEW K, NEW b, NEW w, NEW s \in Fine(K, b, w)
    PROVE  /\ Emptied(Reset(s)) /\ Reset(s).text = s.text /\ Reset(s).oldWord = <<>>
           /\ Emptied(Abandon(s)) /\ Abandon(s).text = s.text /\ Abandon(s).oldWord = s.oldWord
           /\ Emptied(Expired(s)) /\ Expired(s).text = s.text /\ Expired(s).oldWord = s.oldWord
BY BatchOwed, AnyEmpties DEF Fine

\* A key left to the application changes the text.
LEMMA RawBeside ==
    ASSUME NEW K, NEW s \in Context(K), NEW i
    PROVE  /\ Beside(s, Raw(s, i)) /\ Raw(s, i).text = TextAfter(s.text, i)
           /\ Raw(s, i).viet = s.viet
<1>1. PICK x : x = TextAfter(s.text, i)
  OBVIOUS
<1>2. PICK y : y = s.erased \cup Last(s.text)
  OBVIOUS
<1>3. PICK z : z = s.removed + 1
  OBVIOUS
<1>4. PICK t : t = Raw(s, i)
  OBVIOUS
<1>5. \/ t = s /\ x = s.text
      \/ t = [s EXCEPT !.text = x]
      \/ t = [s EXCEPT !.text = x, !.erased = y, !.removed = z]
  BY <1>1, <1>2, <1>3, <1>4 DEF Raw, Erase, TextAfter
<1>6. /\ t.pending = s.pending /\ t.oldWord = s.oldWord
      /\ t.buffered = s.buffered /\ t.settled = s.settled
      /\ t.expected = s.expected /\ t.seen = s.seen
      /\ t.deleting = s.deleting /\ t.replayTimer = s.replayTimer
      /\ t.text = x /\ t.viet = s.viet
  <2>1. CASE t = s /\ x = s.text
    BY <2>1
  <2>2. CASE t = [s EXCEPT !.text = x]
    BY ONLY ZenonT(60), <2>2, s \in Context(K) DEF Context
  <2>3. CASE t = [s EXCEPT !.text = x, !.erased = y, !.removed = z]
    BY ONLY ZenonT(60), <2>3, s \in Context(K) DEF Context
  <2> QED
    BY <1>5, <2>1, <2>2, <2>3
<1> QED
  BY <1>1, <1>4, <1>6 DEF Beside

\* So does a commit, unless the context is disabled.
LEMMA PutBeside ==
    ASSUME NEW K, NEW s \in Context(K), NEW g
    PROVE  /\ Beside(s, Put(s, g)) /\ Put(s, g).viet = s.viet
           /\ Put(s, g).text = IF s.disabled THEN s.text ELSE s.text \o g
<1>1. PICK x : x = s.text \o g
  OBVIOUS
<1>2. PICK t : t = [s EXCEPT !.text = x]
  OBVIOUS
<1>3. /\ t.pending = s.pending /\ t.oldWord = s.oldWord
      /\ t.buffered = s.buffered /\ t.settled = s.settled
      /\ t.expected = s.expected /\ t.seen = s.seen
      /\ t.deleting = s.deleting /\ t.replayTimer = s.replayTimer
      /\ t.text = x /\ t.viet = s.viet
  BY ONLY ZenonT(60), <1>2, s \in Context(K) DEF Context
<1>4. Put(s, g) = IF s.disabled THEN s ELSE t
  BY <1>1, <1>2 DEF Put
<1> QED
  BY <1>1, <1>3, <1>4 DEF Beside

\* A new word.
LEMMA WordBeside ==
    ASSUME NEW K, NEW s \in Context(K), NEW x
    PROVE  LET t == [s EXCEPT !.viet = x]
           IN  Beside(s, t) /\ t.text = s.text /\ t.viet = x /\ (t.disabled <=> s.disabled)
<1>1. PICK t : t = [s EXCEPT !.viet = x]
  OBVIOUS
<1>2. /\ t.pending = s.pending /\ t.oldWord = s.oldWord
      /\ t.buffered = s.buffered /\ t.settled = s.settled
      /\ t.expected = s.expected /\ t.seen = s.seen
      /\ t.deleting = s.deleting /\ t.replayTimer = s.replayTimer
      /\ t.text = s.text /\ t.viet = x /\ t.disabled = s.disabled
  BY ONLY ZenonT(60), <1>1, s \in Context(K) DEF Context
<1> QED
  BY <1>1, <1>2 DEF Beside

\* The word after a letter that arms the guard.
Lettered(s, x) == [s EXCEPT !.viet = x, !.armed = Guarded]

\* It changes nothing else of these.
LEMMA LetterBeside ==
    ASSUME NEW K, NEW s \in Context(K), NEW x, NEW t, t = Lettered(s, x)
    PROVE  Beside(s, t) /\ t.text = s.text /\ t.viet = x
<1>3. PICK g : g = Guarded
  OBVIOUS
<1>1. t = [s EXCEPT !.viet = x, !.armed = g]
  BY <1>3 DEF Lettered
<1>2. /\ t.pending = s.pending /\ t.oldWord = s.oldWord
      /\ t.buffered = s.buffered /\ t.settled = s.settled
      /\ t.expected = s.expected /\ t.seen = s.seen
      /\ t.deleting = s.deleting /\ t.replayTimer = s.replayTimer
      /\ t.text = s.text /\ t.viet = x
  BY ONLY ZenonT(60), <1>1, s \in Context(K) DEF Context
<1> QED
  BY <1>1, <1>2 DEF Beside

\* A replacement that letter k begins: the word changes and the suffix is pending.
Begins(s, t, k) ==
    LET d == Depth(s.viet, k)
    IN  /\ t.text = s.text /\ t.viet = Compose(s.viet, k)
        /\ t.pending = LastN(Compose(s.viet, k), d)
        /\ t.expected = d /\ t.seen = 0 /\ t.deleting /\ (t.replayTimer <=> s.replayTimer)
        /\ t.buffered = s.buffered /\ t.settled = s.settled

\* A replacement begins so, whether it keeps the old word or notes a new one.
LEMMA ReplaceBegins ==
    ASSUME NEW K, NEW s \in Context(K), NEW k
    PROVE  /\ Begins(s, Replace(s, k), k) /\ Replace(s, k).oldWord = s.oldWord
           /\ LET t == [Replace(s, k) EXCEPT !.oldWord = s.viet, !.repairs = 0,
                                             !.armed = Guarded]
              IN  Begins(s, t, k) /\ t.oldWord = s.viet
<1>1. PICK n : n = Compose(s.viet, k)
  OBVIOUS
<1>2. PICK d : d = Depth(s.viet, k)
  OBVIOUS
<1>3. PICK p : p = LastN(n, d)
  OBVIOUS
<1>4. PICK o : o = s.outstanding + (d + 1)
  OBVIOUS
<1>5. PICK l : l = d + 1
  OBVIOUS
<1>6. PICK v : v = s.viet
  OBVIOUS
<1>7. PICK r : r = [s EXCEPT !.ticket = "Queued", !.left = l, !.outstanding = o]
  OBVIOUS
<1>8. PICK t : t = [r EXCEPT !.viet = n, !.expected = d, !.seen = 0,
                            !.pending = p, !.deleting = TRUE, !.safety = TRUE]
  OBVIOUS
<1>16. PICK g : g = Guarded
  OBVIOUS
<1>9. PICK u : u = [t EXCEPT !.oldWord = v, !.repairs = 0, !.armed = g]
  OBVIOUS
<1>10. t = Replace(s, k)
  BY <1>1, <1>2, <1>3, <1>4, <1>5, <1>7, <1>8 DEF Replace, Send
<1>11. /\ t.text = s.text /\ t.viet = n /\ t.pending = p /\ t.expected = d /\ t.seen = 0
       /\ t.deleting = TRUE /\ t.replayTimer = s.replayTimer
       /\ t.buffered = s.buffered /\ t.settled = s.settled /\ t.oldWord = s.oldWord
  BY ONLY ZenonT(60), <1>7, <1>8, s \in Context(K) DEF Context
<1>12. /\ u.text = t.text /\ u.viet = t.viet /\ u.pending = t.pending
       /\ u.expected = t.expected /\ u.seen = t.seen
       /\ u.deleting = t.deleting /\ u.replayTimer = t.replayTimer
       /\ u.buffered = t.buffered /\ u.settled = t.settled /\ u.oldWord = v
  BY ONLY ZenonT(60), <1>7, <1>8, <1>9, s \in Context(K) DEF Context
<1>13. Begins(s, t, k) /\ t.oldWord = s.oldWord
  BY <1>1, <1>2, <1>3, <1>11 DEF Begins
<1>14. Begins(s, u, k) /\ u.oldWord = s.viet
  BY <1>6, <1>12, <1>13 DEF Begins
<1>15. u = [Replace(s, k) EXCEPT !.oldWord = s.viet, !.repairs = 0, !.armed = Guarded]
  BY <1>6, <1>9, <1>10, <1>16
<1> QED
  BY <1>10, <1>13, <1>14, <1>15

\* The keys of parts of a text, and of a composed word.
LEMMA TextKeys ==
    ASSUME NEW S, NEW x \in Seq(S), NEW y \in Seq(S)
    PROVE  /\ KeysOf(<<>>) = {}
           /\ KeysOf(x \o y) \subseteq KeysOf(x) \cup KeysOf(y)
           /\ \A g \in S : KeysOf(Append(x, g)) \subseteq KeysOf(x) \cup g
           /\ x # <<>> => KeysOf(Front1(x)) \subseteq KeysOf(x)
           /\ \A n \in 0..Len(x) : KeysOf(LastN(x, n)) \subseteq KeysOf(x)
<1>1. KeysOf(<<>>) = {}
  BY DEF KeysOf
<1>2. KeysOf(x \o y) \subseteq KeysOf(x) \cup KeysOf(y)
  <2> SUFFICES ASSUME NEW n \in DOMAIN (x \o y), NEW k \in (x \o y)[n]
               PROVE  k \in KeysOf(x) \cup KeysOf(y)
    BY DEF KeysOf
  <2>1. /\ Len(x) \in Nat /\ Len(y) \in Nat /\ DOMAIN x = 1..Len(x) /\ DOMAIN y = 1..Len(y)
        /\ n \in 1..(Len(x) + Len(y))
    BY Joined
  <2>2. CASE n \in 1..Len(x)
    <3>1. k \in x[n]
      BY <2>2, Joined
    <3> QED
      BY <2>1, <2>2, <3>1 DEF KeysOf
  <2>3. CASE n \in (Len(x) + 1)..(Len(x) + Len(y))
    <3>1. k \in y[n - Len(x)] /\ n - Len(x) \in DOMAIN y
      BY <2>1, <2>3, Joined
    <3> QED
      BY <3>1 DEF KeysOf
  <2> QED
    BY <2>1, <2>2, <2>3
<1>3. ASSUME NEW g \in S PROVE KeysOf(Append(x, g)) \subseteq KeysOf(x) \cup g
  <2> SUFFICES ASSUME NEW n \in DOMAIN Append(x, g), NEW k \in Append(x, g)[n]
               PROVE  k \in KeysOf(x) \cup g
    BY DEF KeysOf
  <2>1. (n \in DOMAIN x /\ Append(x, g)[n] = x[n]) \/ Append(x, g)[n] = g
    OBVIOUS
  <2> QED
    BY <2>1 DEF KeysOf
<1>4. ASSUME x # <<>> PROVE KeysOf(Front1(x)) \subseteq KeysOf(x)
  <2> SUFFICES ASSUME NEW n \in DOMAIN Front1(x), NEW k \in Front1(x)[n]
               PROVE  k \in KeysOf(x)
    BY DEF KeysOf
  <2>1. n \in DOMAIN x /\ Front1(x)[n] = x[n]
    BY <1>4 DEF Front1
  <2> QED
    BY <2>1 DEF KeysOf
<1>5. ASSUME NEW m \in 0..Len(x) PROVE KeysOf(LastN(x, m)) \subseteq KeysOf(x)
  <2> SUFFICES ASSUME NEW n \in DOMAIN LastN(x, m), NEW k \in LastN(x, m)[n]
               PROVE  k \in KeysOf(x)
    BY DEF KeysOf
  <2>1. Len(x) - m + n \in DOMAIN x /\ LastN(x, m)[n] = x[Len(x) - m + n]
    BY DEF LastN
  <2> QED
    BY <2>1 DEF KeysOf
<1> QED
  BY <1>1, <1>2, <1>3, <1>4, <1>5

\* A composed word is made of the keys of the word and of the letter.
LEMMA ComposeKeys ==
    ASSUME Env, NEW K, K \subseteq Keys, NEW q \in Seq(Glyphs(K)), NEW k \in K
    PROVE  KeysOf(Compose(q, k)) \subseteq KeysOf(q) \cup {k}
<1> DEFINE d == Depth(q, k)
           n == Len(q) - d + 1
<1>1. d \in 0..Len(q) /\ Len(q) \in Nat
  BY Depths
<1>2. CASE d = 0
  <2>1. Compose(q, k) = Append(q, {k}) /\ {k} \in Glyphs(K)
    BY <1>2 DEF Compose, Glyphs
  <2> QED
    BY <2>1, TextKeys
<1>3. CASE d # 0
  <2>1. Compose(q, k) = [q EXCEPT ![n] = q[n] \cup {k}]
    BY <1>3 DEF Compose
  <2>2. DOMAIN q = 1..Len(q)
    OBVIOUS
  <2> HIDE DEF n
  <2>3. \A m \in DOMAIN q : [q EXCEPT ![n] = q[n] \cup {k}][m] \subseteq q[m] \cup {k}
    OBVIOUS
  <2>4. DOMAIN [q EXCEPT ![n] = q[n] \cup {k}] = DOMAIN q
    OBVIOUS
  <2> QED
    BY <2>1, <2>3, <2>4 DEF KeysOf
<1> QED
  BY <1>2, <1>3

\* A glyph of one key.
LEMMA OneKey ==
    ASSUME NEW K, NEW k \in K
    PROVE  {k} \in Glyphs(K) /\ <<{k}>> \in Seq(Glyphs(K))
           /\ \A x : x \in Seq(Glyphs(K)) => x \o <<{k}>> = Append(x, {k})
<1>1. {k} \in SUBSET K /\ {k} # {}
  OBVIOUS
<1>2. {k} \in Glyphs(K)
  BY <1>1 DEF Glyphs
<1> QED
  BY <1>2

\* The keys of a text that key i, if it is one, joins.
LEMMA KeysWritten ==
    ASSUME Numbers, NEW K, K \subseteq Keys, NEW x \in Seq(Glyphs(K)),
           NEW i \in K \cup {Loopback, Backspace}
    PROVE  KeysOf(TextAfter(x, i)) \subseteq KeysOf(x) \cup ({i} \cap Keys)
<1>1. CASE IsBack(i)
  <2>1. x # <<>> => KeysOf(Front1(x)) \subseteq KeysOf(x)
    BY TextKeys
  <2> QED
    BY <1>1, <2>1 DEF TextAfter
<1>2. CASE ~IsBack(i)
  <2>1. i \in K /\ i \in Keys
    BY <1>2 DEF IsBack
  <2>2. {i} \in Glyphs(K)
    BY <2>1, OneKey
  <2>3. KeysOf(Append(x, {i})) \subseteq KeysOf(x) \cup {i}
    BY <2>2, TextKeys
  <2> QED
    BY <1>2, <2>1, <2>3 DEF TextAfter
<1> QED
  BY <1>1, <1>2

\* What becomes of a context s where key i is typed.
Writes(s, t, i) ==
    /\ Beside(s, t) /\ t.text = TextAfter(s.text, i)
    /\ KeysOf(t.viet) \subseteq KeysOf(s.viet) \cup ({i} \cap Keys)

\* A key that finds no replacement under way is written, or ends the word, or begins a
\* replacement.
LEMMA TypeCases ==
    ASSUME Env, NEW K, K \subseteq Keys, NEW b \in Int, NEW w \in Int,
           NEW i \in K \cup {Loopback, Backspace}, NEW s \in Fine(K, b, w)
    PROVE  LET t == Type(s, i)
           IN  \/ Writes(s, t, i)
               \/ /\ Emptied(t) /\ t.oldWord = <<>> /\ t.text = TextAfter(s.text, i)
               \/ /\ i \in K /\ effect[i] # Separator /\ Depth(s.viet, i) # 0 /\ ~Refused(s)
                  /\ Begins(s, t, i) /\ t.oldWord = s.viet
<1>1. s \in Context(K)
  BY DEF Fine
<1>2. s.viet \in Seq(Glyphs(K)) /\ s.text \in Seq(Glyphs(K))
  BY <1>1, Typed
<1>3. Numbers
  BY DEF Env
<1>4. PICK t : t = Type(s, i)
  OBVIOUS
<1>5. PICK r : r = Raw(s, i)
  OBVIOUS
<1>6. r \in Context(K) /\ Beside(s, r) /\ r.text = TextAfter(s.text, i) /\ r.viet = s.viet
  BY <1>1, <1>3, <1>5, RawBeside, RawTyped
<1>7. ASSUME NEW x,
             t = [r EXCEPT !.viet = x] \/ t = Lettered(r, x),
             KeysOf(x) \subseteq KeysOf(s.viet) \cup ({i} \cap Keys)
      PROVE  Writes(s, t, i)
  <2>1. Beside(r, t) /\ t.text = r.text /\ t.viet = x
    <3>1. CASE t = [r EXCEPT !.viet = x]
      BY <1>6, <3>1, WordBeside
    <3>2. CASE t = Lettered(r, x)
      <4>1. r \in Context(K)
        BY <1>6
      <4> QED
        BY ONLY <4>1, <3>2, LetterBeside
    <3> QED
      BY <1>7, <3>1, <3>2
  <2> QED
    BY <1>6, <1>7, <2>1 DEF Beside, Writes
<1>8. CASE IsBack(i)
  <2>1. PICK x : x = IF s.viet = <<>> THEN s.viet ELSE Front1(s.viet)
    OBVIOUS
  <2>2. KeysOf(x) \subseteq KeysOf(s.viet)
    BY <1>2, <2>1, TextKeys
  <2>3. t = [r EXCEPT !.viet = x]
    BY <1>4, <1>5, <1>6, <1>8, <2>1 DEF Type, Raw
  <2>4. Writes(s, t, i)
    BY <1>7, <2>2, <2>3
  <2> QED
    BY <1>4, <2>4
<1>9. CASE ~IsBack(i) /\ effect[i] = Separator
  <2>1. t = [r EXCEPT !.viet = <<>>]
    BY <1>4, <1>5, <1>9 DEF Type
  <2>2. KeysOf(<<>>) \subseteq KeysOf(s.viet) \cup ({i} \cap Keys)
    BY <1>2, TextKeys
  <2>3. Writes(s, t, i)
    BY <1>7, <2>1, <2>2
  <2> QED
    BY <1>4, <2>3
<1>10. (i \in K /\ i \in Keys) \/ IsBack(i)
  BY DEF IsBack
<1>11. CASE ~IsBack(i) /\ effect[i] # Separator /\ Depth(s.viet, i) = 0
  <2>1. PICK x : x = Compose(s.viet, i)
    OBVIOUS
  <2>2. KeysOf(x) \subseteq KeysOf(s.viet) \cup ({i} \cap Keys)
    BY <1>2, <1>10, <1>11, <2>1, ComposeKeys
  <2>3. t = Lettered(r, x)
    BY <1>4, <1>5, <1>6, <1>11, <2>1 DEF Type, Lettered
  <2>4. Writes(s, t, i)
    BY <1>7, <2>2, <2>3
  <2> QED
    BY <1>4, <2>4
<1>12. CASE ~IsBack(i) /\ effect[i] # Separator /\ Depth(s.viet, i) # 0 /\ Refused(s)
  <2>1. PICK c : c = Reset(s)
    OBVIOUS
  <2>2. Emptied(c) /\ c.text = s.text /\ c.oldWord = <<>>
    BY <2>1, ResetEmpties
  <2>3. c \in Context(K)
    <3>1. c \in Fine(K, b, w)
      BY <1>3, <2>1, ResetFine
    <3> QED
      BY <3>1 DEF Fine
  <2>4. t = Raw(c, i)
    BY <1>4, <1>12, <2>1 DEF Type
  <2>5. Beside(c, t) /\ t.text = TextAfter(c.text, i) /\ t.viet = c.viet
    BY <2>3, <2>4, RawBeside
  <2>6. Emptied(t) /\ t.oldWord = <<>> /\ t.text = TextAfter(s.text, i)
    BY <2>2, <2>5 DEF Emptied, Beside
  <2> QED
    BY <1>4, <2>6
<1>13. CASE ~IsBack(i) /\ effect[i] # Separator /\ Depth(s.viet, i) # 0 /\ ~Refused(s)
  <2>1. t = [Replace(s, i) EXCEPT !.oldWord = s.viet, !.repairs = 0, !.armed = Guarded]
    BY <1>4, <1>13 DEF Type
  <2>2. Begins(s, t, i) /\ t.oldWord = s.viet
    BY <1>1, <2>1, ReplaceBegins
  <2> QED
    BY <1>4, <1>10, <1>13, <2>2
<1> QED
  BY <1>8, <1>9, <1>11, <1>12, <1>13

\* A key of the buffer that is replayed is committed, or ends the word, or begins a
\* replacement.
Replays(s, t, k) ==
    \/ /\ Beside(s, t)
       /\ t.text = IF s.disabled THEN s.text ELSE Append(s.text, {k})
       /\ KeysOf(t.viet) \subseteq KeysOf(s.viet) \cup {k}
    \/ Emptied(t) /\ t.oldWord = <<>> /\ t.text = s.text
    \/ /\ effect[k] # Separator /\ Depth(s.viet, k) # 0 /\ ~Refused(s)
       /\ Begins(s, t, k) /\ t.oldWord = s.oldWord

\* A key that is replayed is written, resets everything or begins a replacement.
LEMMA ReplayKeyCases ==
    ASSUME Env, NEW K, K \subseteq Keys, NEW b \in Int, NEW w \in Int, NEW k \in K,
           NEW s \in Fine(K, b, w)
    PROVE  Replays(s, ReplayKey(s, k), k)
<1> USE DEF Replays
<1>1. s \in Context(K)
  BY DEF Fine
<1>2. s.viet \in Seq(Glyphs(K)) /\ s.text \in Seq(Glyphs(K))
  BY <1>1, Typed
<1>3. Numbers
  BY DEF Env
<1>4. PICK t : t = ReplayKey(s, k)
  OBVIOUS
<1>5. PICK g : g = <<{k}>>
  OBVIOUS
<1>6. g \in Seq(Glyphs(K)) /\ s.text \o g = Append(s.text, {k})
  BY <1>2, <1>5, OneKey
<1>7. CASE effect[k] = Separator
  <2>1. PICK p : p = Put(s, g)
    OBVIOUS
  <2>2. /\ Beside(s, p)
        /\ p.text = IF s.disabled THEN s.text ELSE Append(s.text, {k})
    BY <1>1, <1>6, <2>1, PutBeside
  <2>3. p \in Context(K)
    <3>1. p \in Fine(K, b, w)
      BY <1>6, <2>1, PutFine
    <3> QED
      BY <3>1 DEF Fine
  <2>4. t = [p EXCEPT !.viet = <<>>]
    BY <1>4, <1>5, <1>7, <2>1 DEF ReplayKey
  <2>5. Beside(p, t) /\ t.text = p.text /\ t.viet = <<>>
    BY <2>3, <2>4, WordBeside
  <2>6. KeysOf(t.viet) \subseteq KeysOf(s.viet) \cup {k}
    BY <1>2, <2>5, TextKeys
  <2>7. Beside(s, t)
    BY <2>2, <2>5 DEF Beside
  <2> QED
    BY <1>4, <2>2, <2>5, <2>6, <2>7
<1>8. CASE effect[k] # Separator /\ Depth(s.viet, k) = 0
  <2>1. PICK x : x = Compose(s.viet, k)
    OBVIOUS
  <2>2. PICK v : v = [s EXCEPT !.viet = x]
    OBVIOUS
  <2>3. Beside(s, v) /\ v.text = s.text /\ v.viet = x /\ (v.disabled <=> s.disabled)
    BY <1>1, <2>2, WordBeside
  <2>4. v \in Fine(K, b, w) /\ v \in Context(K)
    <3>1. x \in Seq(Glyphs(K))
      BY <1>2, <2>1, Composed
    <3>2. v \in Fine(K, b, w)
      BY <2>2, <3>1, WordFine
    <3> QED
      BY <3>2 DEF Fine
  <2>5. t = Commit(v, g)
    BY <1>4, <1>5, <1>8, <2>1, <2>2 DEF ReplayKey
  <2>6. CASE v.ticket = "Failed"
    <3>1. t = Reset(v)
      BY <2>5, <2>6 DEF Commit
    <3>2. Emptied(t) /\ t.oldWord = <<>> /\ t.text = s.text
      BY <2>3, <2>4, <3>1, ResetEmpties
    <3> QED
      BY <1>4, <3>2
  <2>7. CASE v.ticket # "Failed"
    <3>1. t = Put(v, g)
      BY <2>5, <2>7 DEF Commit
    <3>2. /\ Beside(v, t) /\ t.viet = v.viet
          /\ t.text = IF v.disabled THEN v.text ELSE v.text \o g
      BY <2>4, <3>1, PutBeside
    <3>3. t.text = IF s.disabled THEN s.text ELSE Append(s.text, {k})
      BY <1>6, <2>3, <3>2
    <3>4. Beside(s, t)
      BY <2>3, <3>2 DEF Beside
    <3>5. KeysOf(t.viet) \subseteq KeysOf(s.viet) \cup {k}
      BY <1>2, <2>1, <2>3, <3>2, ComposeKeys
    <3> QED
      BY <1>4, <3>3, <3>4, <3>5
  <2> QED
    BY <2>6, <2>7
<1>9. CASE effect[k] # Separator /\ Depth(s.viet, k) # 0 /\ Refused(s)
  <2>1. t = Reset(s)
    BY <1>4, <1>9 DEF ReplayKey
  <2>2. Emptied(t) /\ t.oldWord = <<>> /\ t.text = s.text
    BY <2>1, ResetEmpties
  <2> QED
    BY <1>4, <2>2
<1>10. CASE effect[k] # Separator /\ Depth(s.viet, k) # 0 /\ ~Refused(s)
  <2>1. t = Replace(s, k)
    BY <1>4, <1>10 DEF ReplayKey
  <2>2. Begins(s, t, k) /\ t.oldWord = s.oldWord
    BY <1>1, <2>1, ReplaceBegins
  <2> QED
    BY <1>4, <1>10, <2>2
<1> QED
  BY <1>7, <1>8, <1>9, <1>10

---------------------------------------------------------------------------
(* A text in which each key is in one glyph.                             *)

\* A neat text stays so when a later key is appended, when it loses its last glyph, and
\* when a later key that may change glyphs joins one of them.
LEMMA NeatAppend ==
    ASSUME Numbers, NEW K, K \subseteq Keys, NEW q \in Seq(Glyphs(K)), Neat(q), NEW k \in K,
           Before(KeysOf(q), {k})
    PROVE  Neat(Append(q, {k}))
<1>1. PICK p : p = Append(q, {k})
  OBVIOUS
<1>2. /\ DOMAIN p = 1..(Len(q) + 1) /\ DOMAIN q = 1..Len(q) /\ Len(q) \in Nat
      /\ \A n \in 1..Len(q) : p[n] = q[n]
      /\ p[Len(q) + 1] = {k}
  BY <1>1
<1>3. \A n \in DOMAIN q : \A j \in q[n] : j < k /\ j # k
  <2>1. \A n \in DOMAIN q : \A j \in q[n] : j \in KeysOf(q)
    BY DEF KeysOf
  <2>2. \A n \in DOMAIN q : q[n] \subseteq K
    BY DEF Glyphs
  <2>3. \A j \in K : j \in Int
    BY DEF Keys
  <2> QED
    BY <2>1, <2>2, <2>3 DEF Before
<1>4. ASSUME NEW m \in DOMAIN p, NEW n \in DOMAIN p, m < n
      PROVE  /\ p[m] \cap p[n] = {}
             /\ \A h \in p[m], j \in p[n] : h < j \/ effect[h] \in 1..MaxDelete
  <2>1. m \in DOMAIN q /\ (n \in DOMAIN q \/ n = Len(q) + 1)
    BY <1>2, <1>4
  <2>2. p[m] = q[m] /\ m \in Int /\ n \in Int /\ m # n
    BY <1>2, <1>4, <2>1
  <2>3. CASE n \in DOMAIN q
    <3>1. p[n] = q[n]
      BY <1>2, <2>3
    <3> QED
      BY <1>4, <2>1, <2>2, <2>3, <3>1 DEF Neat, InOrder
  <2>4. CASE n = Len(q) + 1
    <3>1. p[n] = {k}
      BY <1>2, <2>4
    <3> QED
      BY <1>3, <2>1, <2>2, <3>1
  <2> QED
    BY <2>1, <2>3, <2>4
<1>5. \A m, n \in DOMAIN p : m # n => m < n \/ n < m
  BY <1>2
<1>6. \A m, n \in DOMAIN p : m # n => p[m] \cap p[n] = {}
  BY <1>4, <1>5
<1>7. Neat(p)
  BY <1>4, <1>6 DEF Neat, InOrder
<1> QED
  BY <1>1, <1>7

\* A neat text stays so when it loses its last glyph, ...
LEMMA NeatFront ==
    ASSUME NEW S, NEW q \in Seq(S), q # <<>>, Neat(q)
    PROVE  Neat(Front1(q))
<1>1. DOMAIN Front1(q) \subseteq DOMAIN q /\ \A n \in DOMAIN Front1(q) : Front1(q)[n] = q[n]
  BY DEF Front1
<1> QED
  BY <1>1 DEF Neat, InOrder

\* ... and when a letter changes one of its glyphs.
LEMMA NeatMarked ==
    ASSUME Numbers, NEW K, K \subseteq Keys, NEW q \in Seq(Glyphs(K)), Neat(q), NEW k \in K,
           Before(KeysOf(q), {k}), effect[k] \in 1..MaxDelete, NEW p \in DOMAIN q
    PROVE  Neat([q EXCEPT ![p] = q[p] \cup {k}])
<1>1. PICK r : r = [q EXCEPT ![p] = q[p] \cup {k}]
  OBVIOUS
<1>2. /\ DOMAIN r = DOMAIN q
      /\ \A n \in DOMAIN q : r[n] = IF n = p THEN q[n] \cup {k} ELSE q[n]
  BY <1>1
<1>3. \A n \in DOMAIN q : \A j \in q[n] : j < k /\ j # k
  <2>1. \A n \in DOMAIN q : \A j \in q[n] : j \in KeysOf(q)
    BY DEF KeysOf
  <2>2. \A n \in DOMAIN q : q[n] \subseteq K
    BY DEF Glyphs
  <2>3. \A j \in K : j \in Int
    BY DEF Keys
  <2> QED
    BY <2>1, <2>2, <2>3 DEF Before
<1>4. \A n \in DOMAIN q : n \in Int
  OBVIOUS
<1>5. InOrder(r)
  <2> SUFFICES ASSUME NEW m \in DOMAIN q, NEW n \in DOMAIN q, m < n, NEW h \in r[m],
                      NEW j \in r[n], effect[h] \notin 1..MaxDelete
               PROVE  h < j
    BY <1>2 DEF InOrder
  <2>1. h \in q[m]
    BY <1>2
  <2>2. j \in q[n] \/ j = k
    BY <1>2
  <2>3. CASE j \in q[n]
    BY <2>1, <2>3 DEF Neat, InOrder
  <2>4. CASE j = k
    BY <1>3, <2>1, <2>4
  <2> QED
    BY <2>2, <2>3, <2>4
<1>6. ASSUME NEW m \in DOMAIN q, NEW n \in DOMAIN q, m # n PROVE r[m] \cap r[n] = {}
  <2>1. q[m] \cap q[n] = {} /\ k \notin q[m] /\ k \notin q[n]
    BY <1>3, <1>6 DEF Neat
  <2> QED
    BY <1>2, <1>6, <2>1
<1>7. Neat(r)
  BY <1>2, <1>5, <1>6 DEF Neat
<1> QED
  BY <1>1, <1>7

\* The parts of a text.
LEMMA Parts ==
    ASSUME NEW S, NEW x \in Seq(S), NEW d \in 0..Len(x)
    PROVE  /\ DropN(x, d) \in Seq(S) /\ Len(DropN(x, d)) = Len(x) - d
           /\ \A m \in 1..(Len(x) - d) : DropN(x, d)[m] = x[m]
           /\ LastN(x, d) \in Seq(S) /\ Len(LastN(x, d)) = d
           /\ \A m \in 1..d : LastN(x, d)[m] = x[Len(x) - d + m]
BY DEF DropN, LastN

\* Sequences with the same length and elements are the same.
LEMMA SameSeq ==
    ASSUME NEW S, NEW x \in Seq(S), NEW y \in Seq(S), Len(x) = Len(y),
           \A m \in 1..Len(x) : x[m] = y[m]
    PROVE  x = y
OBVIOUS

\* What a replacement shows: the text, in which the key has joined the first of the glyphs
\* that are replaced.
LEMMA ShownMarked ==
    ASSUME Env, NEW K, K \subseteq Keys, NEW x \in Seq(Glyphs(K)), NEW v \in Seq(Glyphs(K)),
           Ends(x, v), NEW k \in K, Depth(v, k) # 0
    PROVE  LET d == Depth(v, k)
               p == Len(x) - d + 1
               n == Len(v) - d + 1
           IN  /\ p \in DOMAIN x /\ n \in DOMAIN v /\ v[n] = x[p]
               /\ DropN(x, d) \o LastN(Compose(v, k), d) = [x EXCEPT ![p] = x[p] \cup {k}]
<1>1. PICK d : d = Depth(v, k)
  OBVIOUS
<1>2. PICK p : p = Len(x) - d + 1
  OBVIOUS
<1>3. PICK n : n = Len(v) - d + 1
  OBVIOUS
<1>4. PICK c : c = Compose(v, k)
  OBVIOUS
<1>5. /\ d \in 1..Len(v) /\ Len(v) \in Nat /\ Len(x) \in Nat /\ Len(v) <= Len(x)
      /\ DOMAIN x = 1..Len(x) /\ DOMAIN v = 1..Len(v)
  <2>1. d \in 0..Len(v)
    BY <1>1, Depths
  <2> QED
    BY <1>1, <2>1 DEF Ends
<1>6. p \in DOMAIN x /\ n \in DOMAIN v
  BY <1>2, <1>3, <1>5
<1>7. \A m \in 1..Len(v) : v[m] = x[Len(x) - Len(v) + m]
  BY DEF Ends
<1>8. v[n] = x[p]
  <2>1. Len(x) - Len(v) + n = p
    BY <1>2, <1>3, <1>5
  <2> QED
    BY <1>5, <1>6, <1>7, <2>1
<1>9. c = [v EXCEPT ![n] = v[n] \cup {k}] /\ c \in Seq(Glyphs(K)) /\ Len(c) = Len(v)
  BY <1>1, <1>3, <1>4, Composed DEF Compose
<1>10. PICK a : a = DropN(x, d)
  OBVIOUS
<1>11. PICK e : e = LastN(c, d)
  OBVIOUS
<1>12. /\ a \in Seq(Glyphs(K)) /\ Len(a) = Len(x) - d
       /\ \A m \in 1..(Len(x) - d) : a[m] = x[m]
  <2>1. d \in 0..Len(x)
    BY <1>5
  <2> QED
    BY <1>10, <2>1, Parts
<1>13. /\ e \in Seq(Glyphs(K)) /\ Len(e) = d
       /\ \A m \in 1..d : e[m] = c[Len(v) - d + m]
  <2>1. d \in 0..Len(c)
    BY <1>5, <1>9
  <2>2. /\ e \in Seq(Glyphs(K)) /\ Len(e) = d
        /\ \A m \in 1..d : e[m] = c[Len(c) - d + m]
    <3>1. c \in Seq(Glyphs(K))
      BY <1>9
    <3> QED
      BY ONLY <1>11, <2>1, <3>1, Parts
  <2>3. Len(c) = Len(v)
    BY <1>9
  <2> QED
    BY <2>2, <2>3
<1>14. PICK r : r = [x EXCEPT ![p] = x[p] \cup {k}]
  OBVIOUS
<1>15. PICK y : y = a \o e
  OBVIOUS
<1>16. /\ y \in Seq(Glyphs(K)) /\ Len(y) = Len(x)
       /\ \A m \in 1..Len(a) : y[m] = a[m]
       /\ \A m \in (Len(a) + 1)..(Len(a) + Len(e)) : y[m] = e[m - Len(a)]
  <2>1. /\ y \in Seq(Glyphs(K)) /\ Len(y) = Len(a) + Len(e)
        /\ \A m \in 1..Len(a) : y[m] = a[m]
        /\ \A m \in (Len(a) + 1)..(Len(a) + Len(e)) : y[m] = e[m - Len(a)]
    <3>1. a \in Seq(Glyphs(K)) /\ e \in Seq(Glyphs(K))
      BY <1>12, <1>13
    <3> QED
      BY ONLY <1>15, <3>1, Joined
  <2> QED
    BY <1>5, <1>12, <1>13, <2>1
<1>17. DOMAIN r = 1..Len(x) /\ DOMAIN y = 1..Len(x)
  BY <1>5, <1>14, <1>16
<1>18. ASSUME NEW m \in 1..Len(x) PROVE y[m] = r[m]
  <2>1. CASE m <= Len(x) - d
    <3>1. m \in 1..Len(a) /\ m \in 1..(Len(x) - d) /\ m # p
      BY <1>2, <1>5, <1>12, <2>1
    <3> QED
      BY <1>5, <1>12, <1>14, <1>16, <3>1
  <2>2. CASE ~(m <= Len(x) - d)
    <3>1. PICK l : l = m - (Len(x) - d)
      OBVIOUS
    <3>2. /\ m \in (Len(a) + 1)..(Len(a) + Len(e)) /\ l \in 1..d /\ l = m - Len(a)
          /\ Len(v) - d + l \in 1..Len(v) /\ Len(x) - Len(v) + (Len(v) - d + l) = m
      BY <1>5, <1>12, <1>13, <2>2, <3>1
    <3>3. y[m] = c[Len(v) - d + l]
      BY <1>13, <1>16, <3>2
    <3>4. v[Len(v) - d + l] = x[m]
      BY <1>7, <3>2
    <3>5. Len(v) - d + l = n <=> m = p
      BY <1>2, <1>3, <1>5, <3>1
    <3>6. CASE m = p
      <4>1. c[n] = v[n] \cup {k} /\ r[p] = x[p] \cup {k}
        BY <1>5, <1>6, <1>9, <1>14
      <4> QED
        BY <1>8, <3>3, <3>5, <3>6, <4>1
    <3>7. CASE m # p
      <4>1. c[Len(v) - d + l] = v[Len(v) - d + l]
        BY <1>5, <1>9, <3>2, <3>5, <3>7
      <4>2. r[m] = x[m]
        BY <1>5, <1>14, <3>7
      <4> QED
        BY <3>3, <3>4, <4>1, <4>2
    <3> QED
      BY <3>6, <3>7
  <2> QED
    BY <2>1, <2>2
<1>19. y = r
  <2>1. r \in Seq(Glyphs(K)) /\ Len(r) = Len(x)
    <3>1. x[p] \cup {k} \in Glyphs(K)
      <4>1. x[p] \in Glyphs(K)
        BY <1>6
      <4> QED
        BY <4>1 DEF Glyphs
    <3> QED
      BY <1>6, <1>14, <3>1
  <2> QED
    BY <1>16, <1>18, <2>1, SameSeq
<1> QED
  BY <1>1, <1>2, <1>3, <1>4, <1>6, <1>8, <1>10, <1>11, <1>14, <1>15, <1>19

\* A text stays neat, and what was deleted stays away, where a later key is typed.
LEMMA NeatTyped ==
    ASSUME Numbers, NEW K, K \subseteq Keys, NEW x \in Seq(Glyphs(K)), Neat(x),
           NEW i \in K \cup {Loopback, Backspace}, Before(KeysOf(x), {i} \cap Keys)
    PROVE  Neat(TextAfter(x, i))
<1>1. CASE IsBack(i)
  <2>1. x # <<>> => Neat(Front1(x))
    BY NeatFront
  <2> QED
    BY <1>1, <2>1 DEF TextAfter
<1>2. CASE ~IsBack(i)
  <2>1. i \in K /\ {i} \cap Keys = {i}
    BY <1>2 DEF IsBack
  <2>2. Neat(Append(x, {i}))
    BY <2>1, NeatAppend
  <2> QED
    BY <1>2, <2>2 DEF TextAfter
<1> QED
  BY <1>1, <1>2

\* The old word that is not shown is not shown after a later key.
LEMMA ReplacedTyped ==
    ASSUME Numbers, NEW K, K \subseteq Keys, NEW s \in Context(K), NEW t, Replaced(s),
           ~s.deleting, ~t.deleting, t.oldWord = s.oldWord,
           NEW i \in K \cup {Loopback, Backspace}, t.text = TextAfter(s.text, i),
           Before(KeysOf(s.oldWord), {i} \cap Keys)
    PROVE  Replaced(t)
<1> SUFFICES ASSUME s.oldWord # <<>> PROVE Replaced(t)
  BY DEF Replaced
<1>1. Shown(s) = s.text /\ Shown(t) = t.text
  BY DEF Shown
<1>2. s.text \in Seq(Glyphs(K)) /\ s.oldWord \in Seq(Glyphs(K))
  BY Typed
<1>3. PICK n \in DOMAIN s.oldWord : \A m \in DOMAIN s.text : s.text[m] # s.oldWord[n]
  BY <1>1 DEF Replaced
<1>4. PICK y : y = t.text
  OBVIOUS
<1>5. ASSUME NEW m \in DOMAIN y PROVE y[m] # s.oldWord[n]
  <2>1. CASE IsBack(i)
    <3>1. y = s.text \/ (s.text # <<>> /\ y = Front1(s.text))
      BY <1>4, <2>1 DEF TextAfter
    <3>2. m \in DOMAIN s.text /\ y[m] = s.text[m]
      BY <1>2, <1>5, <3>1 DEF Front1
    <3> QED
      BY <1>3, <3>2
  <2>2. CASE ~IsBack(i)
    <3>1. y = Append(s.text, {i})
      BY <1>4, <2>2 DEF TextAfter
    <3>2. (m \in DOMAIN s.text /\ y[m] = s.text[m]) \/ y[m] = {i}
      BY <1>2, <1>5, <3>1
    <3>3. i \notin s.oldWord[n]
      <4>1. i \in K /\ {i} \cap Keys = {i}
        BY <2>2 DEF IsBack
      <4>2. ASSUME i \in s.oldWord[n] PROVE FALSE
        <5>1. i \in KeysOf(s.oldWord)
          BY <1>3, <4>2 DEF KeysOf
        <5>2. i < i
          BY <4>1, <5>1 DEF Before
        <5>3. i \in Int
          BY <4>1 DEF Keys
        <5> QED
          BY <5>2, <5>3
      <4> QED
        BY <4>2
    <3> QED
      BY <1>3, <3>2, <3>3
  <2> QED
    BY <2>1, <2>2
<1> QED
  BY <1>1, <1>3, <1>4, <1>5 DEF Replaced

\* So a clean context stays clean where a later key is written.
LEMMA CleanTyped ==
    ASSUME Numbers, NEW K, K \subseteq Keys, NEW s \in Context(K), NEW t, Clean(s),
           ~s.deleting, ~t.deleting, NEW i \in K \cup {Loopback, Backspace},
           t.text = TextAfter(s.text, i), Before(Served(s), {i} \cap Keys),
           Idle(t) \/ (t.oldWord = s.oldWord /\ (Idle(s) => Idle(t)))
    PROVE  Clean(t)
<1>1. s.text \in Seq(Glyphs(K)) /\ Shown(t) = t.text
  BY Typed DEF Shown
<1>2. Before(KeysOf(s.text), {i} \cap Keys) /\ Before(KeysOf(s.oldWord), {i} \cap Keys)
  BY DEF Before, Served
<1>3. Neat(s.text)
  BY DEF Clean
<1>4. Neat(t.text)
  BY <1>1, <1>2, <1>3, NeatTyped
<1>5. Replaced(t) \/ Idle(t)
  <2>1. CASE Replaced(s) /\ t.oldWord = s.oldWord
    BY <1>2, <2>1, ReplacedTyped
  <2> QED
    BY <2>1 DEF Clean
<1> QED
  BY <1>1, <1>4, <1>5 DEF Clean

\* Nothing shows where nothing is under way but the text.
LEMMA CleanEmptied ==
    ASSUME NEW s, NEW t, Clean(s), Emptied(t), t.text = s.text
    PROVE  Clean(t)
BY DEF Clean, Emptied, Idle, Shown

\* A replacement shows a neat text, without the glyph that it replaces first.
LEMMA CleanBegins ==
    ASSUME Env, NEW K, K \subseteq Keys, NEW s \in Context(K), s.seen <= s.expected, NEW t,
           Clean(s), Tracks(s),
           ~s.deleting, NEW k \in K, effect[k] # Separator, Depth(s.viet, k) # 0,
           Before(Served(s), {k}), Begins(s, t, k),
           t.oldWord = s.viet \/ (t.oldWord = s.oldWord /\ Replaced(s))
    PROVE  Clean(t) /\ Replaced(t)
<1>1. s.text \in Seq(Glyphs(K)) /\ s.viet \in Seq(Glyphs(K)) /\ s.oldWord \in Seq(Glyphs(K))
  BY Typed
<1>2. PICK x : x = s.text
  OBVIOUS
<1>3. PICK v : v = s.viet
  OBVIOUS
<1>4. PICK d : d = Depth(v, k)
  OBVIOUS
<1>5. PICK p : p = Len(x) - d + 1
  OBVIOUS
<1>6. PICK n : n = Len(v) - d + 1
  OBVIOUS
<1>7. PICK y : y = [x EXCEPT ![p] = x[p] \cup {k}]
  OBVIOUS
<1>8. x \in Seq(Glyphs(K)) /\ v \in Seq(Glyphs(K))
  BY <1>1, <1>2, <1>3
<1>9. Ends(x, v)
  BY <1>2, <1>3, TracksIs DEF Shown
<1>10. d # 0
  BY <1>3, <1>4
<1>11. /\ p \in DOMAIN x /\ n \in DOMAIN v /\ v[n] = x[p]
       /\ DropN(x, d) \o LastN(Compose(v, k), d) = y
  BY <1>4, <1>5, <1>6, <1>7, <1>8, <1>9, <1>10, ShownMarked
<1>12. Shown(t) = y /\ t.text = x
  <2>1. d - 0 = d
    <3>1. d \in 0..Len(v)
      BY <1>4, <1>8, Depths
    <3> QED
      BY <3>1
  <2>2. t.expected - t.seen = d /\ t.pending = LastN(Compose(v, k), d) /\ t.deleting
        /\ t.text = x
    BY <1>2, <1>3, <1>4, <2>1 DEF Begins
  <2> QED
    BY <1>11, <2>2 DEF Shown
<1>13. Neat(x) /\ Before(KeysOf(x), {k})
  BY <1>2 DEF Clean, Before, Served
<1>14. effect[k] \in 1..MaxDelete
  <2>1. effect[k] \in Effects /\ MaxDelete \in Nat
    BY DEF Env, Numbers
  <2>2. effect[k] # 0
    <3>1. Len(v) \in Nat
      BY <1>8
    <3> QED
      BY <1>4, <1>10, <3>1 DEF Depth, AtMost
  <2> QED
    BY <2>1, <2>2 DEF Effects, Separator
<1>15. Neat(y)
  <2>1. Numbers /\ p \in DOMAIN x
    BY <1>11 DEF Env
  <2>2. Neat([x EXCEPT ![p] = x[p] \cup {k}])
    BY ONLY <1>8, <1>13, <1>14, <2>1, K \subseteq Keys, k \in K, NeatMarked
  <2> QED
    BY ONLY <1>7, <2>2
<1>16. DOMAIN y = DOMAIN x /\ \A m \in DOMAIN x : y[m] = IF m = p THEN x[m] \cup {k} ELSE x[m]
  BY <1>7
<1>17. \A h \in K : h \in Int
  BY DEF Keys
<1>18. Replaced(t)
  <2>1. CASE t.oldWord = s.viet
    <3>1. ASSUME NEW m \in DOMAIN y PROVE y[m] # v[n]
      <4>1. CASE m = p
        <5>1. k \notin x[p]
          <6>1. ASSUME k \in x[p] PROVE FALSE
            <7>1. k \in KeysOf(x)
              BY <1>11, <6>1 DEF KeysOf
            <7>2. k < k
              BY <1>13, <7>1 DEF Before
            <7> QED
              BY <1>17, <7>2
          <6> QED
            BY <6>1
        <5>2. k \in y[m]
          BY <1>11, <1>16, <4>1
        <5> QED
          BY <1>11, <5>1, <5>2
      <4>2. CASE m # p
        <5>1. y[m] = x[m] /\ m \in DOMAIN x
          BY <1>16, <3>1, <4>2
        <5>2. x[m] \cap x[p] = {}
          BY <1>11, <1>13, <4>2, <5>1 DEF Neat
        <5>3. x[m] # {}
          <6>1. x[m] \in Glyphs(K)
            BY <1>8, <5>1
          <6> QED
            BY <6>1 DEF Glyphs
        <5> QED
          BY <1>11, <5>1, <5>2, <5>3
      <4> QED
        BY <4>1, <4>2
    <3> QED
      BY <1>3, <1>11, <1>12, <2>1, <3>1 DEF Replaced
  <2>2. CASE t.oldWord = s.oldWord /\ Replaced(s)
    <3> SUFFICES ASSUME s.oldWord # <<>> PROVE Replaced(t)
      BY <2>2 DEF Replaced
    <3>1. Shown(s) = x
      BY <1>2 DEF Shown
    <3>2. PICK l \in DOMAIN s.oldWord : \A m \in DOMAIN x : x[m] # s.oldWord[l]
      BY <2>2, <3>1 DEF Replaced
    <3>3. k \notin s.oldWord[l]
      <4>1. ASSUME k \in s.oldWord[l] PROVE FALSE
        <5>1. k \in KeysOf(s.oldWord)
          BY <3>2, <4>1 DEF KeysOf
        <5>2. k < k
          BY <5>1 DEF Before, Served
        <5> QED
          BY <1>17, <5>2
      <4> QED
        BY <4>1
    <3>4. \A m \in DOMAIN y : y[m] # s.oldWord[l]
      BY <1>16, <3>2, <3>3
    <3> QED
      BY <1>12, <2>2, <3>2, <3>4 DEF Replaced
  <2> QED
    BY <2>1, <2>2
<1> QED
  BY <1>12, <1>13, <1>15, <1>18 DEF Clean

---------------------------------------------------------------------------
(* The keys that come.                                                   *)

\* A key that is written is served.
LEMMA WritesServes ==
    ASSUME Numbers, NEW K, K \subseteq Keys, NEW s \in Context(K), NEW t,
           NEW i \in K \cup {Loopback, Backspace}, Writes(s, t, i)
    PROVE  Serves(s, t, {i} \cap Keys)
<1>1. s.text \in Seq(Glyphs(K))
  BY Typed
<1>2. KeysOf(t.text) \subseteq KeysOf(s.text) \cup ({i} \cap Keys)
  BY <1>1, KeysWritten DEF Writes
<1>3. /\ t.pending = s.pending /\ t.oldWord = s.oldWord /\ t.buffered = s.buffered
      /\ t.settled = s.settled /\ KeysOf(t.viet) \subseteq KeysOf(s.viet) \cup ({i} \cap Keys)
  BY DEF Writes, Beside
<1>4. Served(t) \subseteq Served(s) \cup ({i} \cap Keys)
  BY <1>2, <1>3 DEF Served
<1> QED
  BY <1>3, <1>4 DEF Serves

\* A context without a word serves no other keys.
LEMMA EmptiedServes ==
    ASSUME NEW s, NEW t, Emptied(t), t.oldWord \in {s.oldWord, <<>>}, NEW N,
           KeysOf(t.text) \subseteq KeysOf(s.text) \cup N
    PROVE  Serves(s, t, N) /\ Waits(t)
<1>1. KeysOf(<<>>) = {}
  BY DEF KeysOf
<1>2. KeysOf(t.viet) = {} /\ KeysOf(t.pending) = {}
      /\ KeysOf(t.oldWord) \subseteq KeysOf(s.oldWord)
  BY <1>1 DEF Emptied
<1>3. Served(t) \subseteq Served(s) \cup N
  BY <1>2 DEF Served
<1> QED
  BY <1>3 DEF Serves, Emptied, Waits

\* The letter that begins a replacement is served.
LEMMA BeginsServes ==
    ASSUME Env, NEW K, K \subseteq Keys, NEW s \in Context(K), NEW t, NEW k \in K,
           Begins(s, t, k), t.oldWord \in {s.viet, s.oldWord}
    PROVE  Serves(s, t, {k}) /\ Waits(t)
<1>1. s.viet \in Seq(Glyphs(K))
  BY Typed
<1>2. PICK c : c = Compose(s.viet, k)
  OBVIOUS
<1>3. PICK d : d = Depth(s.viet, k)
  OBVIOUS
<1>4. KeysOf(c) \subseteq KeysOf(s.viet) \cup {k} /\ c \in Seq(Glyphs(K))
  BY <1>1, <1>2, ComposeKeys, Composed
<1>5. d \in 0..Len(c)
  <2>1. d \in 0..Len(s.viet)
    BY <1>1, <1>3, Depths
  <2>2. d # 0 => Len(c) = Len(s.viet)
    BY <1>1, <1>2, <1>3, Composed
  <2>3. Len(c) \in Nat
    BY <1>4
  <2> QED
    BY <2>1, <2>2, <2>3
<1>6. KeysOf(LastN(c, d)) \subseteq KeysOf(c)
  BY <1>4, <1>5, TextKeys
<1>7. /\ t.text = s.text /\ t.viet = c /\ t.pending = LastN(c, d)
      /\ t.buffered = s.buffered /\ t.settled = s.settled /\ t.deleting
  BY <1>2, <1>3 DEF Begins
<1>8. Served(t) \subseteq Served(s) \cup {k}
  BY <1>4, <1>6, <1>7 DEF Served
<1> QED
  BY <1>7, <1>8 DEF Serves, Waits

\* What a handler that serves key i, if it is one, makes of the context s.
Keeps(s, t, C) ==
    /\ Orderly(t, {}, C) /\ Waits(t)
    /\ Tracks(s) /\ Clean(s) => Clean(t)

\* Nothing comes before or after no key.
LEMMA BeforeNone == \A A : Before(A, {}) /\ Before({}, A)
BY DEF Before

\* A key that finds no replacement under way is served in its turn.
LEMMA TypeKeeps ==
    ASSUME Env, NEW K, K \subseteq Keys, NEW b \in Int, NEW w \in Int,
           NEW i \in K \cup {Loopback, Backspace}, NEW s \in Fine(K, b, w),
           ~s.deleting, ~s.replayTimer, Waits(s), NEW C, Orderly(s, {i} \cap Keys, C)
    PROVE  Keeps(s, Type(s, i), C)
<1>1. PICK t : t = Type(s, i)
  OBVIOUS
<1>2. PICK N : N = {i} \cap Keys
  OBVIOUS
<1>3. s \in Context(K) /\ s.seen <= s.expected /\ Numbers
  BY DEF Fine, Env
<1>4. s.buffered = <<>>
  BY DEF Waits
<1>5. Before(Served(s), N)
  BY <1>2 DEF Orderly, Before
<1>6. KeysOf(TextAfter(s.text, i)) \subseteq KeysOf(s.text) \cup N
  BY <1>2, <1>3, KeysWritten, Typed
<1>7. ASSUME Serves(s, t, N), t.buffered = <<>> PROVE Orderly(t, {}, C)
  BY ONLY <1>2, <1>7, Orderly(s, {i} \cap Keys, C), ServesInOrder, BeforeNone
<1>8. CASE Writes(s, t, i)
  <2>1. Serves(s, t, N) /\ t.buffered = <<>> /\ ~t.deleting /\ t.oldWord = s.oldWord
        /\ t.text = TextAfter(s.text, i) /\ (Idle(s) => Idle(t))
    BY <1>2, <1>3, <1>4, <1>8, WritesServes DEF Writes, Beside, Idle
  <2>2. Clean(s) => Clean(t)
    BY <1>2, <1>3, <1>5, <2>1, CleanTyped
  <2> QED
    BY <1>1, <1>7, <2>1, <2>2 DEF Keeps, Waits
<1>9. CASE Emptied(t) /\ t.oldWord = <<>> /\ t.text = TextAfter(s.text, i)
  <2>1. Serves(s, t, N) /\ t.buffered = <<>> /\ Waits(t)
    BY <1>6, <1>9, EmptiedServes DEF Emptied
  <2>2. Clean(s) => Clean(t)
    <3>1. Idle(t) /\ ~t.deleting
      BY <1>9 DEF Emptied, Idle
    <3> QED
      BY <1>2, <1>3, <1>5, <1>9, <3>1, CleanTyped
  <2> QED
    BY <1>1, <1>7, <2>1, <2>2 DEF Keeps
<1>10. CASE /\ i \in K /\ effect[i] # Separator /\ Depth(s.viet, i) # 0 /\ ~Refused(s)
            /\ Begins(s, t, i) /\ t.oldWord = s.viet
  <2>1. N = {i}
    BY <1>2, <1>10
  <2>2. Serves(s, t, N) /\ t.buffered = <<>> /\ Waits(t)
    BY <1>3, <1>4, <1>10, <2>1, BeginsServes DEF Begins
  <2>3. Tracks(s) /\ Clean(s) => Clean(t)
    BY <1>3, <1>5, <1>10, <2>1, CleanBegins
  <2> QED
    BY <1>1, <1>7, <2>2, <2>3 DEF Keeps
<1> QED
  BY <1>1, <1>8, <1>9, <1>10, TypeCases

\* A key that comes during a replacement is buffered, if it finds room; a Backspace deletes
\* what is to be deleted.
LEMMA WhileDeletingCases ==
    ASSUME Numbers, NEW K, NEW s \in Context(K), s.seen <= s.expected, s.deleting, NEW i,
           NEW eaten \in BOOLEAN
    PROVE  LET t == WhileDeleting(s, i, eaten)
           IN  /\ t.viet = s.viet /\ t.pending = s.pending /\ t.oldWord = s.oldWord
               /\ t.settled = s.settled /\ t.deleting
               /\ t.text = s.text \/ (IsBack(i) /\ s.text # <<>> /\ t.text = Front1(s.text))
               /\ t.buffered = s.buffered \/ (~IsBack(i) /\ t.buffered = Append(s.buffered, i))
               /\ ~eaten => Shown(t) = Shown(s)
<1>1. PICK t : t = WhileDeleting(s, i, eaten)
  OBVIOUS
<1>2. /\ s.text \in Seq(Glyphs(K)) /\ s.seen \in Nat /\ s.expected \in Nat
  <2>1. /\ s.text \in Seq(Glyphs(K)) /\ s.seen \in 0..MaxDelete
        /\ s.expected \in 0..MaxDelete
    BY Typed
  <2>2. MaxDelete \in Nat
    BY DEF Numbers
  <2> QED
    BY <2>1, <2>2
<1>8. CASE Repeats(s, i)
  <2>1. t = Drop(s, i)
    BY <1>1, <1>8 DEF WhileDeleting
  <2>2. /\ t.text = s.text /\ t.viet = s.viet /\ t.pending = s.pending
        /\ t.deleting = s.deleting /\ t.expected = s.expected /\ t.seen = s.seen
        /\ t.oldWord = s.oldWord /\ t.settled = s.settled /\ t.buffered = s.buffered
    BY ONLY <2>1, s \in Context(K), DropFrame
  <2>3. Shown(t) = Shown(s)
    BY <2>2, TracksSame
  <2> QED
    BY <1>1, <2>2, <2>3
<1>3. CASE ~IsBack(i) /\ ~Repeats(s, i)
  <2>1. PICK q : q = Append(s.buffered, i)
    OBVIOUS
  <2>2. t = [s EXCEPT !.buffered = q] \/ t = s
    BY <1>1, <1>3, <2>1 DEF WhileDeleting
  <2>3. /\ t.text = s.text /\ t.viet = s.viet /\ t.pending = s.pending
        /\ t.deleting = s.deleting /\ t.expected = s.expected /\ t.seen = s.seen
        /\ t.oldWord = s.oldWord /\ t.settled = s.settled
        /\ (t.buffered = q \/ t.buffered = s.buffered)
    BY ONLY <2>2, s \in Context(K) DEF Context
  <2>4. Shown(t) = Shown(s)
    BY <2>3, TracksSame
  <2> QED
    BY <1>1, <1>3, <2>1, <2>3, <2>4
<1>4. PICK x : x = IF eaten \/ s.text = <<>> THEN s.text ELSE Front1(s.text)
  OBVIOUS
<1>5. PICK o : o = IF s.outstanding > 0 THEN s.outstanding - 1 ELSE 0
  OBVIOUS
<1>6. CASE IsBack(i) /\ s.seen < s.expected
  <2>1. PICK n : n = s.seen + 1
    OBVIOUS
  <2>2. t = [s EXCEPT !.seen = n, !.outstanding = o, !.text = x]
    BY <1>1, <1>4, <1>5, <1>6, <2>1 DEF WhileDeleting, Repeats
  <2>3. /\ s.expected - s.seen \in Nat /\ s.expected - s.seen # 0
        /\ s.expected - n = (s.expected - s.seen) - 1
    BY <1>2, <1>6, <2>1
  <2>4. ~eaten => DropN(x, (s.expected - s.seen) - 1) = DropN(s.text, s.expected - s.seen)
    BY <1>2, <1>4, <2>3, DropFront
  <2>5. /\ t.text = x /\ t.viet = s.viet /\ t.pending = s.pending
        /\ t.deleting = s.deleting /\ t.expected = s.expected /\ t.seen = n
        /\ t.oldWord = s.oldWord /\ t.settled = s.settled /\ t.buffered = s.buffered
    BY ONLY <2>2, s \in Context(K) DEF Context
  <2>6. ~eaten => Shown(t) = Shown(s)
    BY <2>3, <2>4, <2>5 DEF Shown
  <2> QED
    BY <1>1, <1>4, <1>6, <2>5, <2>6
<1>7. CASE IsBack(i) /\ ~(s.seen < s.expected)
  <2>1. t = [s EXCEPT !.safety = FALSE, !.retried = FALSE, !.outstanding = o,
                      !.expected = 0, !.seen = 0, !.settling = TRUE]
    BY <1>1, <1>5, <1>7 DEF WhileDeleting, Repeats
  <2>2. s.expected - s.seen = 0 /\ 0 - 0 = 0
    BY <1>2, <1>7
  <2>3. /\ t.text = s.text /\ t.viet = s.viet /\ t.pending = s.pending
        /\ t.deleting = s.deleting /\ t.expected = 0 /\ t.seen = 0
        /\ t.oldWord = s.oldWord /\ t.settled = s.settled /\ t.buffered = s.buffered
    BY ONLY <2>1, s \in Context(K) DEF Context
  <2>4. Shown(t) = Shown(s)
    BY <2>2, <2>3 DEF Shown
  <2> QED
    BY <1>1, <2>3, <2>4
<1> QED
  BY <1>3, <1>6, <1>7, <1>8

\* So the order is kept, and what is shown, unless the application eats the Backspace.
LEMMA WhileDeletingKeeps ==
    ASSUME Numbers, NEW K, K \subseteq Keys, NEW s \in Context(K), s.seen <= s.expected,
           s.deleting, NEW i \in K \cup {Loopback, Backspace}, NEW eaten \in BOOLEAN,
           NEW C, Orderly(s, {i} \cap Keys, C)
    PROVE  /\ Orderly(WhileDeleting(s, i, eaten), {}, C) /\ Waits(WhileDeleting(s, i, eaten))
           /\ ~eaten /\ Clean(s) => Clean(WhileDeleting(s, i, eaten))
<1>1. PICK t : t = WhileDeleting(s, i, eaten)
  OBVIOUS
<1>2. PICK N : N = {i} \cap Keys
  OBVIOUS
<1>3. /\ t.viet = s.viet /\ t.pending = s.pending /\ t.oldWord = s.oldWord
      /\ t.settled = s.settled /\ t.deleting
      /\ t.text = s.text \/ (IsBack(i) /\ s.text # <<>> /\ t.text = Front1(s.text))
      /\ t.buffered = s.buffered \/ (~IsBack(i) /\ t.buffered = Append(s.buffered, i))
      /\ ~eaten => Shown(t) = Shown(s)
  BY <1>1, WhileDeletingCases
<1>4. s.text \in Seq(Glyphs(K)) /\ s.buffered \in Seq(K)
  BY Typed
<1>5. Served(t) \subseteq Served(s)
  <2>1. KeysOf(t.text) \subseteq KeysOf(s.text)
    BY <1>3, <1>4, TextKeys
  <2> QED
    BY <1>3, <2>1 DEF Served
<1>6. Orderly(t, {}, C)
  <2>1. CASE t.buffered = s.buffered
    <3>1. Serves(s, t, {})
      BY <1>3, <1>5, <2>1 DEF Serves
    <3> QED
      BY <3>1, ServesInOrder, BeforeNone
  <2>2. CASE ~IsBack(i) /\ t.buffered = Append(s.buffered, i)
    <3>1. i \in K /\ i \in Keys /\ i \in N
      BY <1>2, <2>2 DEF IsBack
    <3>2. {} \subseteq N /\ Orderly(s, N, C)
      BY <1>2
    <3> QED
      BY ONLY <1>3, <1>4, <1>5, <2>2, <3>1, <3>2, BuffersInOrder, BeforeNone
  <2> QED
    BY <1>3, <2>1, <2>2
<1>7. ASSUME ~eaten, Clean(s) PROVE Clean(t)
  <2>1. Neat(t.text)
    <3>1. Neat(s.text)
      BY <1>7 DEF Clean
    <3> QED
      BY <1>3, <1>4, <3>1, NeatFront
  <2>2. Neat(Shown(t)) /\ Replaced(t)
    BY <1>3, <1>7 DEF Clean, Replaced, Idle
  <2> QED
    BY <2>1, <2>2 DEF Clean
<1> QED
  BY <1>1, <1>3, <1>6, <1>7 DEF Waits

\* Key i is the next to be served: the oldest of the keys held back, or one that comes when
\* the desktop delivers it.
Due(s, i, replaying, C) ==
    IF replaying THEN ~s.deleting /\ ~s.replayTimer /\ Orderly(s, {i} \cap Keys, C)
    ELSE Orderly(s, {}, ({i} \cap Keys) \cup C) /\ Before({i} \cap Keys, C)

\* Where no keys are held back, it is.
LEMMA DueNext ==
    ASSUME NEW s, NEW i, NEW C, Orderly(s, {}, ({i} \cap Keys) \cup C),
           Before({i} \cap Keys, C), s.settled = <<>> \/ {i} \cap Keys = {}
    PROVE  Orderly(s, {i} \cap Keys, C)
<1> DEFINE B == KeysIn(s.buffered)
           A == KeysIn(s.settled)
           N == {i} \cap Keys
           Y == Served(s)
<1>1. /\ Before(Y, B \cup {} \cup A \cup (N \cup C)) /\ Before(B, {} \cup A \cup (N \cup C))
      /\ Before({}, A \cup (N \cup C)) /\ Before(A, N \cup C)
  BY DEF Orderly
<1>2. A = {} \/ N = {}
  BY RisingEmpty
<1>3. Before(N, C)
  OBVIOUS
<1> HIDE DEF A, B, N, Y
<1>4. /\ Before(Y, B \cup N \cup A \cup C) /\ Before(B, N \cup A \cup C)
      /\ Before(N, A \cup C) /\ Before(A, C)
  BY <1>1, <1>2, <1>3 DEF Before
<1> QED
  BY <1>4 DEF Orderly, A, B, N, Y

\* What the guard drops leaves the rest in order.
LEMMA DropKeeps ==
    ASSUME NEW K, NEW s \in Context(K), NEW i, NEW M, NEW C, Orderly(s, M, C), Waits(s)
    PROVE  Orderly(Drop(s, i), {}, C) /\ Waits(Drop(s, i)) /\ (Clean(s) => Clean(Drop(s, i)))
<1>1. PICK t : t = Drop(s, i)
  OBVIOUS
<1>2. /\ t.text = s.text /\ t.viet = s.viet /\ t.pending = s.pending
      /\ t.deleting = s.deleting /\ t.expected = s.expected /\ t.seen = s.seen
      /\ t.oldWord = s.oldWord /\ t.buffered = s.buffered
      /\ t.settled = s.settled /\ t.replayTimer = s.replayTimer
  BY <1>1, DropFrame
<1>3. Shown(t) = Shown(s)
  BY <1>2, TracksSame
<1>4. Serves(s, t, {})
  BY <1>2 DEF Serves, Served
<1>5. Orderly(t, {}, C)
  BY ONLY <1>4, Orderly(s, M, C), ServesInOrder, BeforeNone
<1>6. Waits(t) /\ (Clean(s) => Clean(t))
  BY <1>2, <1>3 DEF Waits, Clean, Replaced, Idle
<1> QED
  BY <1>1, <1>5, <1>6

\* A key is held back, swallowed, dropped, buffered or served in its turn.
LEMMA DispatchKeeps ==
    ASSUME Env, NEW K, K \subseteq Keys, NEW b \in Int, NEW w \in Int,
           NEW i \in K \cup {Loopback, Backspace}, NEW s \in Fine(K, b, w),
           NEW replaying \in BOOLEAN, NEW eaten \in BOOLEAN, Waits(s), NEW C,
           Due(s, i, replaying, C)
    PROVE  LET t == Dispatch(s, i, replaying, eaten)
           IN  Orderly(t, {}, C) /\ Waits(t) /\ (~eaten /\ Tracks(s) /\ Clean(s) => Clean(t))
<1>1. PICK t : t = Dispatch(s, i, replaying, eaten)
  OBVIOUS
<1>2. PICK held \in BOOLEAN : held <=> ~replaying /\ ~AwaitingAnchor(s, i) /\ HoldsBack(s)
  <2>1. \E h \in BOOLEAN : h <=> ~replaying /\ ~AwaitingAnchor(s, i) /\ HoldsBack(s)
    OBVIOUS
  <2> QED
    BY <2>1
<1>3. s \in Context(K) /\ s.seen <= s.expected /\ BatchInv(s) /\ Numbers
  BY DEF Fine, Env
<1>4. s.settled \in Seq(K \cup {Loopback, Backspace}) /\ s.text \in Seq(Glyphs(K))
  BY <1>3, Typed
<1>5. CASE held
  <2>1. PICK q : q = Append(s.settled, i)
    OBVIOUS
  <2>2. t = [s EXCEPT !.settled = q]
    BY <1>1, <1>2, <1>5, <2>1 DEF Dispatch
  <2>3. /\ t.text = s.text /\ t.viet = s.viet /\ t.pending = s.pending
        /\ t.deleting = s.deleting /\ t.expected = s.expected /\ t.seen = s.seen
        /\ t.oldWord = s.oldWord /\ t.settled = q /\ t.buffered = s.buffered
        /\ t.replayTimer = s.replayTimer
    BY ONLY <1>3, <2>2 DEF Context
  <2>4. Orderly(t, {}, C)
    <3>1. Orderly(s, {}, ({i} \cap Keys) \cup C) /\ Before({i} \cap Keys, C)
      BY <1>2, <1>5 DEF Due
    <3>2. Served(t) = Served(s)
      BY <2>3 DEF Served
    <3>3. i \in K \cup {Loopback, Backspace}
      OBVIOUS
    <3> QED
      BY ONLY <1>4, <2>1, <2>3, <3>1, <3>2, <3>3, SettlesInOrder
  <2>5. Waits(t)
    BY <2>3 DEF Waits
  <2>6. Clean(s) => Clean(t)
    <3>1. Shown(t) = Shown(s)
      BY <2>3, TracksSame
    <3>2. Idle(s) => Replaced(s) \/ s.settled = <<>>
      BY DEF Idle
    <3>3. ~Idle(s)
      <4>1. s.deleting \/ s.replayTimer \/ s.settling \/ s.settled # <<>>
        BY <1>2, <1>5 DEF HoldsBack
      <4>2. s.settling => s.deleting
        BY <1>3 DEF BatchInv
      <4> QED
        BY <4>1, <4>2 DEF Idle
    <3> QED
      BY <2>3, <3>1, <3>3 DEF Clean, Replaced
  <2> QED
    BY <1>1, <2>4, <2>5, <2>6
<1>6. CASE ~held
  <2>1. /\ ~s.deleting => ~s.replayTimer
        /\ s.settled = <<>> \/ {i} \cap Keys = {} \/ replaying
    <3>1. IsBack(i) => {i} \cap Keys = {}
      BY <1>3, NoLetter DEF IsBack
    <3> QED
      BY <1>2, <1>6, <3>1 DEF AwaitingAnchor, HoldsBack, Due
  <2>2. Orderly(s, {i} \cap Keys, C)
    BY <2>1, DueNext DEF Due
  <2>3. CASE s.grace /\ IsBack(i)
    <3>1. t = s
      BY <1>1, <1>2, <1>6, <2>3 DEF Dispatch
    <3>2. {i} \cap Keys = {}
      BY <1>3, <2>3, NoLetter DEF IsBack
    <3> QED
      BY <1>1, <2>2, <3>1, <3>2
  <2>4. CASE ~(s.grace /\ IsBack(i)) /\ s.deleting
    <3>1. t = WhileDeleting(s, i, eaten)
      BY <1>1, <1>2, <1>6, <2>4 DEF Dispatch
    <3> QED
      BY <1>1, <1>3, <2>2, <2>4, <3>1, WhileDeletingKeeps
  <2>5. CASE ~(s.grace /\ IsBack(i)) /\ ~s.deleting /\ (s.grace \/ ~ready)
    <3>1. PICK r : r = Reset(s)
      OBVIOUS
    <3>2. t = Raw(r, i)
      BY <1>1, <1>2, <1>6, <2>5, <3>1 DEF Dispatch
    <3>3. Emptied(r) /\ r.text = s.text /\ r.oldWord = <<>>
      BY <3>1, ResetEmpties
    <3>4. r \in Context(K)
      <4>1. r \in Fine(K, b, w)
        BY <1>3, <3>1, ResetFine
      <4> QED
        BY <4>1 DEF Fine
    <3>5. Emptied(t) /\ t.oldWord = <<>> /\ t.text = TextAfter(s.text, i)
      <4>1. Beside(r, t) /\ t.text = TextAfter(r.text, i) /\ t.viet = r.viet
        BY <3>2, <3>4, RawBeside
      <4> QED
        BY <3>3, <4>1 DEF Emptied, Beside
    <3>6. KeysOf(t.text) \subseteq KeysOf(s.text) \cup ({i} \cap Keys)
      BY <1>3, <1>4, <3>5, KeysWritten
    <3>7. Serves(s, t, {i} \cap Keys) /\ Waits(t) /\ t.buffered = <<>>
      BY <3>5, <3>6, EmptiedServes DEF Emptied
    <3>8. Orderly(t, {}, C)
      BY ONLY <2>2, <3>7, ServesInOrder, BeforeNone
    <3>9. Clean(s) => Clean(t)
      <4>1. Idle(t) /\ ~t.deleting
        BY <3>5 DEF Emptied, Idle
      <4>2. Before(Served(s), {i} \cap Keys)
        BY <2>2 DEF Orderly, Before
      <4> QED
        BY <1>3, <2>5, <3>5, <4>1, <4>2, CleanTyped
    <3> QED
      BY <1>1, <3>7, <3>8, <3>9
  <2>6. CASE ~s.deleting /\ ~(s.grace \/ ~ready)
    <3>1. s.outstanding = 0
      BY <1>3, <2>6 DEF BatchInv
    <3>2. t = Drop(s, i) \/ t = Type(s, i)
      BY <1>1, <1>2, <1>6, <2>6, <3>1 DEF Dispatch
    <3>3. CASE t = Type(s, i)
      <4>1. Keeps(s, t, C)
        BY <2>1, <2>2, <2>6, <3>3, TypeKeeps
      <4> QED
        BY <1>1, <4>1 DEF Keeps
    <3>4. CASE t = Drop(s, i)
      BY <1>1, <1>3, <2>2, <3>4, DropKeeps
    <3> QED
      BY <3>2, <3>3, <3>4
  <2> QED
    BY <2>3, <2>4, <2>5, <2>6
<1> QED
  BY <1>5, <1>6

\* So is one that finds a failed batch, which is given up first.
LEMMA KeyEventKeeps ==
    ASSUME Env, NEW K, K \subseteq Keys, NEW b \in Int, NEW w \in Int,
           NEW i \in K \cup {Loopback, Backspace}, NEW s \in Fine(K, b, w),
           NEW replaying \in BOOLEAN, NEW eaten \in BOOLEAN, Waits(s), NEW C,
           Due(s, i, replaying, C)
    PROVE  LET t == KeyEvent(s, i, replaying, eaten)
           IN  Orderly(t, {}, C) /\ Waits(t) /\ (~eaten /\ Tracks(s) /\ Clean(s) => Clean(t))
<1>1. PICK r : r = Abort(s)
  OBVIOUS
<1>2. r \in Fine(K, b, w) /\ (~s.deleting => r = s)
  BY <1>1, AbortFine DEF Env
<1>3. r = s \/ (Emptied(r) /\ r.oldWord = <<>> /\ r.text = s.text /\ r = Reset(s))
  BY <1>1, ResetEmpties DEF Abort
<1>4. Due(r, i, replaying, C) /\ Waits(r)
  <2>1. CASE r = s
    BY <2>1
  <2>2. CASE Emptied(r) /\ r.oldWord = <<>> /\ r.text = s.text
    <3>1. KeysOf(r.text) \subseteq KeysOf(s.text) \cup {}
      BY <2>2
    <3>2. Serves(s, r, {}) /\ Waits(r)
      BY <2>2, <3>1, EmptiedServes
    <3>3. CASE replaying
      <4>1. Orderly(s, {i} \cap Keys, C)
        BY <3>3 DEF Due
      <4>2. Orderly(r, {i} \cap Keys, C)
        BY ONLY <3>2, <4>1, ServesInOrder, BeforeNone
      <4> QED
        BY <2>2, <3>2, <3>3, <4>2 DEF Due, Emptied
    <3>4. CASE ~replaying
      <4>1. Orderly(s, {}, ({i} \cap Keys) \cup C) /\ Before({i} \cap Keys, C)
        BY <3>4 DEF Due
      <4>2. Orderly(r, {}, ({i} \cap Keys) \cup C)
        BY ONLY <3>2, <4>1, ServesInOrder, BeforeNone
      <4> QED
        BY <3>2, <3>4, <4>1, <4>2 DEF Due
    <3> QED
      BY <3>3, <3>4
  <2> QED
    BY <1>3, <2>1, <2>2
<1>5. Tracks(s) /\ Clean(s) => Tracks(r) /\ Clean(r)
  <2>1. CASE r = s
    BY <2>1
  <2>2. CASE Emptied(r) /\ r.oldWord = <<>> /\ r.text = s.text /\ r = Reset(s)
    BY <2>2, ResetTracks, CleanEmptied DEF Env
  <2> QED
    BY <1>3, <2>1, <2>2
<1>6. PICK t : t = Dispatch(r, i, replaying, eaten)
  OBVIOUS
<1>7. Orderly(t, {}, C) /\ Waits(t) /\ (~eaten /\ Tracks(r) /\ Clean(r) => Clean(t))
  BY <1>2, <1>4, <1>6, DispatchKeeps
<1>8. KeyEvent(s, i, replaying, eaten) = t
  BY <1>1, <1>6 DEF KeyEvent
<1> QED
  BY <1>5, <1>7, <1>8

---------------------------------------------------------------------------
(* The keys that are replayed.                                           *)

\* What the order and the cleanness of a context depend on.
LEMMA AlikeKeeps ==
    ASSUME NEW s, NEW t, t.text = s.text, t.viet = s.viet, t.pending = s.pending,
           t.oldWord = s.oldWord, t.buffered = s.buffered, t.settled = s.settled,
           t.deleting = s.deleting, t.expected = s.expected, t.seen = s.seen
    PROVE  /\ Served(t) = Served(s) /\ Shown(t) = Shown(s) /\ (Replaced(s) <=> Replaced(t))
           /\ \A M, C : Orderly(s, M, C) => Orderly(t, M, C)
           /\ Clean(s) /\ Replaced(s) => Clean(t)
<1>1. Served(t) = Served(s)
  BY DEF Served
<1>2. Shown(t) = Shown(s)
  BY DEF Shown
<1>3. Replaced(s) <=> Replaced(t)
  BY <1>2 DEF Replaced
<1>4. ASSUME NEW M, NEW C, Orderly(s, M, C) PROVE Orderly(t, M, C)
  BY <1>1, <1>4 DEF Orderly
<1>5. Clean(s) /\ Replaced(s) => Clean(t)
  BY <1>2, <1>3 DEF Clean
<1> QED
  BY <1>1, <1>2, <1>3, <1>4, <1>5

\* A key that is replayed leaves what is held back alone, or gives up everything.
Stays(s, t) == t.oldWord = <<>> \/ t.settled = s.settled

\* The replayed key is not held back again.
LEMMA ReplayedSettled ==
    ASSUME Env, NEW K, K \subseteq Keys, NEW b \in Int, NEW w \in Int,
           NEW i \in K \cup {Loopback, Backspace}, NEW s \in Fine(K, b, w), ~s.deleting,
           NEW replaying \in BOOLEAN, NEW eaten \in BOOLEAN, replaying
    PROVE  Stays(s, KeyEvent(s, i, replaying, eaten))
<1> USE DEF Stays
<1>1. PICK t : t = KeyEvent(s, i, replaying, eaten)
  OBVIOUS
<1>2. s \in Context(K) /\ BatchInv(s) /\ Numbers
  BY DEF Fine, Env
<1>3. t = Dispatch(s, i, replaying, eaten)
  <2>1. Abort(s) = s
    BY <1>2, AbortFine
  <2> QED
    BY <1>1, <2>1 DEF KeyEvent
<1>4. s.outstanding = 0
  BY <1>2 DEF BatchInv
<1>5. CASE s.grace /\ IsBack(i)
  BY <1>1, <1>3, <1>5 DEF Dispatch
<1>6. CASE ~(s.grace /\ IsBack(i)) /\ (s.grace \/ ~ready)
  <2>1. PICK r : r = Reset(s)
    OBVIOUS
  <2>2. r \in Context(K) /\ r.oldWord = <<>>
    <3>1. r \in Fine(K, b, w) /\ r.oldWord = <<>>
      BY <1>2, <2>1, ResetFine, ResetEmpties
    <3> QED
      BY <3>1 DEF Fine
  <2>3. t = Raw(r, i)
    BY <1>3, <1>6, <2>1 DEF Dispatch
  <2>4. t.oldWord = r.oldWord
    BY <2>2, <2>3, RawBeside DEF Beside
  <2> QED
    BY <1>1, <2>2, <2>4
<1>7. CASE ~(s.grace \/ ~ready)
  <2>1. t = Drop(s, i) \/ t = Type(s, i)
    BY <1>3, <1>4, <1>7 DEF Dispatch
  <2>2. ASSUME t = Type(s, i) PROVE t.settled = s.settled \/ t.oldWord = <<>>
    <3>1. Writes(s, t, i) \/ t.oldWord = <<>> \/ Begins(s, t, i)
      BY <1>2, <2>2, TypeCases
    <3> QED
      BY <3>1 DEF Writes, Beside, Begins
  <2>4. ASSUME t = Drop(s, i) PROVE t.settled = s.settled
    BY ONLY <1>2, <2>4, DropFrame
  <2>3. t.settled = s.settled \/ t.oldWord = <<>>
    BY <2>1, <2>2, <2>4
  <2> QED
    BY <1>1, <2>3
<1> QED
  BY <1>5, <1>6, <1>7

\* The oldest of the keys held back is served.
LEMMA ReplaySettledKeeps ==
    ASSUME Env, NEW K, K \subseteq Keys, NEW b \in Int, NEW w \in Int, w <= b,
           NEW s \in Fine(K, b, w), Waits(s), NEW C, Orderly(s, {}, C)
    PROVE  LET t == ReplaySettled(s)
           IN  Orderly(t, {}, C) /\ Waits(t) /\ (Tracks(s) /\ Clean(s) => Clean(t))
<1>1. CASE s.replayTimer \/ s.settled = <<>> \/ s.deleting \/ s.settling
  <2>1. ReplaySettled(s) = s
    BY <1>1 DEF ReplaySettled
  <2> QED
    BY <2>1
<1>2. CASE ~(s.replayTimer \/ s.settled = <<>> \/ s.deleting \/ s.settling)
  <2>1. PICK h : h = Head(s.settled)
    OBVIOUS
  <2>2. PICK x : x = [s EXCEPT !.settled = Tail(s.settled)]
    OBVIOUS
  <2>3. PICK t : t = KeyEvent(x, h, TRUE, FALSE)
    OBVIOUS
  <2>4. PICK u : u = [t EXCEPT !.replayTimer = TRUE]
    OBVIOUS
  <2>5. s \in Context(K)
    BY DEF Fine
  <2>6. s.settled \in Seq(K \cup {Loopback, Backspace})
    BY <2>5, Typed
  <2>7. ReplaySettled(s)
          = IF ~t.deleting /\ ~t.replayTimer /\ Len(s.settled) > 1 THEN u ELSE t
    BY <1>2, <2>1, <2>2, <2>3, <2>4 DEF ReplaySettled
  <2>8. /\ h \in K \cup {Loopback, Backspace} /\ x \in Fine(K, b - Pays(h), w - Weighs(h))
        /\ ~x.deleting /\ ~x.replayTimer
    BY <1>2, <2>1, <2>2, TakenFine
  <2>9. b - Pays(h) \in Int /\ w - Weighs(h) \in Int
    BY DEF Pays, Weighs
  <2>10. PICK q : q = Tail(s.settled)
    OBVIOUS
  <2>11. /\ x.text = s.text /\ x.viet = s.viet /\ x.pending = s.pending
         /\ x.deleting = s.deleting /\ x.expected = s.expected /\ x.seen = s.seen
         /\ x.oldWord = s.oldWord /\ x.buffered = s.buffered /\ x.settled = q
    <3>1. x = [s EXCEPT !.settled = q]
      BY <2>2, <2>10
    <3> QED
      BY ONLY <2>5, <3>1 DEF Context
  <2>12. Waits(x)
    BY <1>2, <2>11 DEF Waits
  <2>13. Due(x, h, TRUE, C)
    <3>1. Served(x) = Served(s)
      BY <2>11 DEF Served
    <3>2. s.settled # <<>>
      BY <1>2
    <3>3. Orderly(x, {Head(s.settled)} \cap Keys, C)
      BY ONLY <2>6, <2>10, <2>11, <3>1, <3>2, Orderly(s, {}, C), PopsInOrder
    <3> QED
      BY <2>1, <2>8, <3>3 DEF Due
  <2>14. Orderly(t, {}, C) /\ Waits(t) /\ (Tracks(x) /\ Clean(x) => Clean(t))
    <3>1. TRUE \in BOOLEAN /\ FALSE \in BOOLEAN
      OBVIOUS
    <3> QED
      BY <2>3, <2>8, <2>9, <2>12, <2>13, <3>1, KeyEventKeeps
  <2>15. Tracks(s) /\ Clean(s) => Tracks(x) /\ Clean(x)
    <3>1. Tracks(x) = Tracks(s) /\ Shown(x) = Shown(s)
      BY <2>11, TracksSame
    <3>2. ~Idle(s)
      BY <1>2 DEF Idle
    <3> QED
      BY <2>11, <3>1, <3>2 DEF Clean, Replaced
  <2>16. t.oldWord = <<>> \/ t.settled = q
    <3>1. t.oldWord = <<>> \/ t.settled = x.settled
      <4>1. TRUE \in BOOLEAN /\ FALSE \in BOOLEAN
        OBVIOUS
      <4> QED
        <5>1. Stays(x, t)
          BY <2>3, <2>8, <2>9, <4>1, ReplayedSettled
        <5> QED
          BY <5>1 DEF Stays
    <3> QED
      BY ONLY <2>11, <3>1
  <2>17. t \in Fine(K, b, w)
    BY <2>3, <2>8, KeyEventFine
  <2>18. /\ u.text = t.text /\ u.viet = t.viet /\ u.pending = t.pending
         /\ u.deleting = t.deleting /\ u.expected = t.expected /\ u.seen = t.seen
         /\ u.oldWord = t.oldWord /\ u.buffered = t.buffered /\ u.settled = t.settled
         /\ u.replayTimer = TRUE
    <3>1. t \in Context(K)
      BY <2>17 DEF Fine
    <3> QED
      BY ONLY <2>4, <3>1 DEF Context
  <2>19. Orderly(u, {}, C) /\ Waits(u)
    BY <2>14, <2>18, AlikeKeeps DEF Waits
  <2>20. ASSUME Clean(t), Len(s.settled) > 1 PROVE Clean(u)
    <3>1. q # <<>>
      <4>1. Len(q) = Len(s.settled) - 1 /\ Len(s.settled) \in Nat
        BY ONLY <1>2, <2>6, <2>10
      <4>2. Len(q) # 0
        BY ONLY <2>20, <4>1
      <4> QED
        BY <4>2
    <3>2. Replaced(t)
      <4>1. CASE t.oldWord = <<>>
        BY <4>1 DEF Replaced
      <4>2. CASE t.settled = q
        BY <2>20, <3>1, <4>2 DEF Clean, Idle
      <4> QED
        BY <2>16, <4>1, <4>2
    <3> QED
      BY <2>18, <2>20, <3>2, AlikeKeeps
  <2> QED
    BY <2>7, <2>14, <2>15, <2>19, <2>20
<1> QED
  BY <1>1, <1>2

\* FoldLeft stays in a family of sets that each step leads along.
LEMMA FoldedAt ==
    ASSUME NEW P, NEW S, NEW s0 \in P[0], NEW q \in Seq(S),
           \A n \in 1..Len(q) : \A s \in P[n - 1] : Rebuffer(s, q[n]) \in P[n]
    PROVE  FoldLeft(Rebuffer, s0, q) \in P[Len(q)]
<1>1. Len(q) \in Nat /\ DOMAIN q = 1..Len(q)
  OBVIOUS
<1> DEFINE g == CHOOSE g : Folding(s0, q, g, DOMAIN q)
<1>2. FoldLeft(Rebuffer, s0, q) = g[DOMAIN q]
  BY Zenon DEF FoldLeft, MapThenFoldSet, Folding
<1>3. Folding(s0, q, g, 1..Len(q))
  BY <1>1, FoldExists
<1> HIDE DEF g
<1> DEFINE H == {n \in Nat : n <= Len(q) => g[1..n] \in P[n]}
<1>4. 0 \in H
  <2>1. 1..0 = {} /\ 1..0 \in SUBSET (1..Len(q))
    BY <1>1
  <2>2. g[1..0] = s0
    BY <1>3, <2>1 DEF Folding
  <2> QED
    BY <2>2
<1>5. ASSUME NEW n \in Nat, n \in H PROVE n + 1 \in H
  <2> SUFFICES ASSUME n + 1 <= Len(q) PROVE g[1..(n + 1)] \in P[n + 1]
    OBVIOUS
  <2>1. Max(1..(n + 1)) = n + 1
    BY DEF Max
  <2>2. /\ (1..(n + 1)) \ {n + 1} = 1..n
        /\ 1..(n + 1) \in SUBSET (1..Len(q)) /\ n + 1 \in 1..(n + 1)
    BY <1>1
  <2>3. g[1..(n + 1)] = Rebuffer(g[1..n], q[n + 1])
    BY <1>3, <2>1, <2>2 DEF Folding
  <2>4. n + 1 \in 1..Len(q) /\ (n + 1) - 1 = n /\ g[1..n] \in P[n]
    BY <1>1, <1>5
  <2>5. \A s \in P[n] : Rebuffer(s, q[n + 1]) \in P[n + 1]
    BY <2>4
  <2> QED
    BY <2>3, <2>4, <2>5
<1> HIDE DEF H
<1>6. Len(q) \in H
  BY <1>1, <1>4, <1>5, Induction
<1> QED
  BY <1>1, <1>2, <1>6 DEF H

\* Key k of the buffer is replayed, or waits again: its turn is over, and R waits for its own.
LEMMA RebufferKeeps ==
    ASSUME Env, NEW K, K \subseteq Keys, NEW b \in Int, NEW w \in Int,
           NEW s \in Ready(K, b, w), NEW k \in K, s.buffered # <<>> => s.deleting,
           NEW M, NEW R, NEW C, Orderly(s, M, C), k \in M, R \subseteq M, Before({k}, R)
    PROVE  LET t == Rebuffer(s, k)
           IN  /\ Orderly(t, R, C) /\ (t.buffered # <<>> => t.deleting)
               /\ Current(s) /\ Clean(s) /\ Replaced(s) => Clean(t) /\ Replaced(t)
<1>1. PICK t : t = Rebuffer(s, k)
  OBVIOUS
<1>2. s \in Fine(K, b, w) /\ s \in Context(K) /\ s.seen <= s.expected /\ Numbers /\ k \in Keys
  BY DEF Ready, Fine, Env
<1>3. s.buffered \in Seq(K) /\ s.text \in Seq(Glyphs(K))
  BY <1>2, Typed
<1>4. /\ {k} \subseteq M /\ Before(Served(s), {k}) /\ {k} \cap Keys = {k}
      /\ ~IsBack(k) /\ k \in K \cup {Loopback, Backspace}
  <2>1. Before(Served(s), {k})
    BY DEF Orderly, Before
  <2>2. ~IsBack(k)
    BY <1>2, Letter
  <2> QED
    BY <1>2, <2>1, <2>2
<1>5. ASSUME NEW N, N \subseteq {k}, Serves(s, t, N), t.buffered = <<>> \/ N = {}
      PROVE  Orderly(t, R, C)
  <2>1. N \subseteq M /\ Before(N, R) /\ C \subseteq C
    BY <1>4, <1>5 DEF Before
  <2> QED
    BY ONLY <1>5, <2>1, R \subseteq M, Orderly(s, M, C), ServesInOrder
<1>6. CASE s.deleting
  <2>1. PICK q : q = Append(s.buffered, k)
    OBVIOUS
  <2>2. t = s \/ t = [s EXCEPT !.buffered = q]
    BY <1>1, <1>6, <2>1 DEF Rebuffer
  <2>3. /\ t.text = s.text /\ t.viet = s.viet /\ t.pending = s.pending
        /\ t.deleting = s.deleting /\ t.expected = s.expected /\ t.seen = s.seen
        /\ t.oldWord = s.oldWord /\ t.settled = s.settled
        /\ t.buffered = s.buffered \/ t.buffered = q
    BY ONLY <1>2, <2>2 DEF Context
  <2>4. Served(t) = Served(s)
    BY <2>3 DEF Served
  <2>5. Orderly(t, R, C)
    <3>1. CASE t.buffered = s.buffered
      <4>1. Serves(s, t, {})
        BY <2>3, <2>4, <3>1 DEF Serves
      <4>2. {} \subseteq {k}
        OBVIOUS
      <4> QED
        BY <1>5, <4>1, <4>2
    <3>2. CASE t.buffered = q
      <4>1. t.buffered = Append(s.buffered, k) /\ Served(t) \subseteq Served(s)
        BY <2>1, <2>4, <3>2
      <4> QED
        BY ONLY <1>2, <1>3, <2>3, <4>1, k \in K, k \in M, R \subseteq M, Before({k}, R),
                Orderly(s, M, C), BuffersInOrder
    <3> QED
      BY <2>3, <3>1, <3>2
  <2>6. Clean(s) /\ Replaced(s) => Clean(t) /\ Replaced(t)
    <3>1. Shown(t) = Shown(s)
      BY <2>3, TracksSame
    <3> QED
      BY <2>3, <3>1 DEF Clean, Replaced
  <2> QED
    BY <1>1, <1>6, <2>3, <2>5, <2>6
<1>7. CASE ~s.deleting
  <2>1. s.buffered = <<>>
    BY <1>7
  <2>2. t = ReplayKey(s, k)
    BY <1>1, <1>7 DEF Rebuffer
  <2>3. CASE /\ Beside(s, t)
             /\ t.text = IF s.disabled THEN s.text ELSE Append(s.text, {k})
             /\ KeysOf(t.viet) \subseteq KeysOf(s.viet) \cup {k}
    <3>1. KeysOf(t.text) \subseteq KeysOf(s.text) \cup {k}
      <4>1. {k} \in Glyphs(K)
        BY OneKey
      <4>2. KeysOf(Append(s.text, {k})) \subseteq KeysOf(s.text) \cup {k}
        BY <1>3, <4>1, TextKeys
      <4> QED
        BY <2>3, <4>2
    <3>2. /\ t.pending = s.pending /\ t.oldWord = s.oldWord /\ t.buffered = <<>>
          /\ t.settled = s.settled /\ ~t.deleting /\ (Idle(s) => Idle(t))
      BY <1>7, <2>1, <2>3 DEF Beside, Idle
    <3>3. Serves(s, t, {k})
      <4>1. Served(t) \subseteq Served(s) \cup {k}
        BY <2>3, <3>1, <3>2 DEF Served
      <4> QED
        BY <2>1, <3>2, <4>1 DEF Serves
    <3>4. Orderly(t, R, C)
      BY <1>5, <3>2, <3>3
    <3>5. ASSUME Current(s), Clean(s), Replaced(s) PROVE Clean(t) /\ Replaced(t)
      <4>1. t.text = TextAfter(s.text, k)
        BY <1>4, <2>3, <3>5 DEF TextAfter, Current
      <4>2. Clean(t)
        BY <1>2, <1>4, <1>7, <3>2, <3>5, <4>1, CleanTyped
      <4>3. Before(KeysOf(s.oldWord), {k} \cap Keys)
        BY <1>4 DEF Before, Served
      <4>4. Replaced(t)
        BY <1>2, <1>4, <1>7, <3>2, <3>5, <4>1, <4>3, ReplacedTyped
      <4> QED
        BY <4>2, <4>4
    <3> QED
      BY <1>1, <3>2, <3>4, <3>5
  <2>4. CASE Emptied(t) /\ t.oldWord = <<>> /\ t.text = s.text
    <3>1. Serves(s, t, {}) /\ t.buffered = <<>>
      <4>1. KeysOf(t.text) \subseteq KeysOf(s.text) \cup {}
        BY <2>4
      <4> QED
        BY <2>4, <4>1, EmptiedServes DEF Emptied
    <3>2. Orderly(t, R, C)
      <4>1. {} \subseteq {k}
        OBVIOUS
      <4> QED
        BY <1>5, <3>1, <4>1
    <3>3. Clean(s) => Clean(t) /\ Replaced(t)
      BY <2>4, CleanEmptied DEF Replaced
    <3> QED
      BY <1>1, <3>1, <3>2, <3>3
  <2>5. CASE /\ effect[k] # Separator /\ Depth(s.viet, k) # 0 /\ ~Refused(s)
             /\ Begins(s, t, k) /\ t.oldWord = s.oldWord
    <3>1. Serves(s, t, {k}) /\ t.buffered = <<>>
      BY <1>2, <2>1, <2>5, BeginsServes DEF Begins
    <3>2. Orderly(t, R, C)
      BY <1>5, <3>1
    <3>3. Current(s) /\ Clean(s) /\ Replaced(s) => Clean(t) /\ Replaced(t)
      BY <1>2, <1>4, <1>7, <2>5, CleanBegins DEF Current
    <3> QED
      BY <1>1, <3>1, <3>2, <3>3
  <2> QED
    <3>1. Replays(s, t, k)
      BY <1>2, <2>2, ReplayKeyCases
    <3> QED
      BY ONLY <2>3, <2>4, <2>5, <3>1 DEF Replays
<1> QED
  BY <1>6, <1>7

\* The keys of a queue after the first n.
After(q, n) == {q[m] : m \in (n + 1)..Len(q)} \cap Keys

\* They are those of the queue at first, none at last, and each comes before the next.
LEMMA AfterFirst ==
    ASSUME NEW K, K \subseteq Keys, NEW q \in Seq(K), Rising(q)
    PROVE  /\ After(q, 0) = KeysIn(q) /\ After(q, Len(q)) = {}
           /\ \A n \in 1..Len(q) : /\ q[n] \in K /\ q[n] \in After(q, n - 1)
                                   /\ After(q, n) \subseteq After(q, n - 1)
                                   /\ Before({q[n]}, After(q, n))
<1>1. DOMAIN q = 1..Len(q) /\ Len(q) \in Nat
  OBVIOUS
<1>2. After(q, 0) = KeysIn(q)
  BY <1>1 DEF After, KeysIn
<1>3. After(q, Len(q)) = {}
  <2>1. (Len(q) + 1)..Len(q) = {}
    BY <1>1
  <2> QED
    BY <2>1 DEF After
<1>4. ASSUME NEW n \in 1..Len(q)
      PROVE  /\ q[n] \in K /\ q[n] \in After(q, n - 1)
             /\ After(q, n) \subseteq After(q, n - 1)
             /\ Before({q[n]}, After(q, n))
  <2>1. q[n] \in K /\ n \in ((n - 1) + 1)..Len(q)
    BY <1>1
  <2>2. (n + 1)..Len(q) \subseteq ((n - 1) + 1)..Len(q)
    BY <1>1
  <2>3. ASSUME NEW m \in (n + 1)..Len(q), q[m] \in Keys PROVE q[n] < q[m]
    <3>1. n \in DOMAIN q /\ m \in DOMAIN q /\ n < m
      BY <1>1
    <3>2. {q[n], q[m]} \subseteq Keys
      BY <2>1, <2>3
    <3> QED
      BY <3>1, <3>2 DEF Rising
  <2> QED
    BY <2>1, <2>2, <2>3 DEF After, Before
<1> QED
  BY <1>2, <1>3, <1>4

\* The buffer is replayed.
LEMMA ReplayBufferedKeeps ==
    ASSUME Env, NEW K, K \subseteq Keys, NEW b \in Int, NEW w \in Int, w <= b,
           NEW s \in Fine(K, b, w), ~s.replayTimer, NEW C, Orderly(s, {}, C)
    PROVE  LET t == ReplayBuffered(s)
           IN  /\ Orderly(t, {}, C) /\ Waits(t)
               /\ Current(s) /\ Clean(s) /\ Replaced(s) => Clean(t)
<1>1. s \in Context(K) /\ s.seen <= s.expected /\ BatchInv(s) /\ Solvent(s, b, w)
  BY DEF Fine
<1>2. PICK e : e = <<>>
  OBVIOUS
<1>3. PICK q : q = s.buffered
  OBVIOUS
<1>4. e \in Seq(K) /\ q \in Seq(K)
  BY <1>1, <1>2, <1>3, NoKeys, Typed
<1>5. PICK d : d = [s EXCEPT !.buffered = e]
  OBVIOUS
<1>6. /\ d \in Context(K) /\ d.text = s.text /\ d.viet = s.viet /\ d.pending = s.pending
      /\ d.deleting = s.deleting /\ d.expected = s.expected /\ d.seen = s.seen
      /\ d.disabled = s.disabled /\ d.replayTimer = s.replayTimer
      /\ d.oldWord = s.oldWord /\ d.settled = s.settled /\ d.buffered = e
      /\ d.removed = s.removed /\ d.left = s.left
      /\ d.tail = s.tail /\ d.grace = s.grace /\ d.outstanding = s.outstanding
      /\ d.ticket = s.ticket /\ d.settling = s.settling /\ d.safety = s.safety
  BY ONLY ZenonT(60), <1>1, <1>4, <1>5 DEF Context
<1>7. d \in Ready(K, b, w)
  <2>1. BatchInv(d)
    BY <1>1, <1>6 DEF BatchInv
  <2>2. Solvent(d, b, w)
    BY <1>1, <1>6, SolventKept
  <2> QED
    BY <1>1, <1>6, <2>1, <2>2 DEF Ready, Fine
<1>8. Rising(q) /\ Orderly(d, After(q, 0), C)
  <2>1. Rising(q)
    BY <1>3 DEF Orderly
  <2>2. Served(d) = Served(s)
    BY <1>6 DEF Served
  <2>3. Orderly(d, KeysIn(s.buffered), C)
    BY <1>2, <1>6, <2>2, ReplaysInOrder
  <2> QED
    BY <1>3, <1>4, <2>1, <2>3, AfterFirst
<1>9. Current(s) /\ Clean(s) /\ Replaced(s) => Current(d) /\ Clean(d) /\ Replaced(d)
  <2>1. Shown(d) = Shown(s) /\ Tracks(d) = Tracks(s)
    BY <1>6, TracksSame
  <2> QED
    BY <1>6, <2>1 DEF Current, Clean, Replaced
<1>10. PICK t : t = FoldLeft(Rebuffer, d, q)
  OBVIOUS
<1> DEFINE Good(x) == Current(x) /\ Clean(x) /\ Replaced(x)
           In(n, x) == /\ Orderly(x, After(q, n), C)
                       /\ x.buffered # <<>> => x.deleting
                       /\ Good(s) => Good(x)
           P == [n \in 0..Len(q) |-> {x \in Ready(K, b, w) : In(n, x)}]
<1>11. Len(q) \in Nat /\ 0 \in 0..Len(q) /\ Len(q) \in 0..Len(q)
  BY <1>4
<1>12. d \in P[0]
  <2>1. In(0, d)
    BY <1>2, <1>6, <1>8, <1>9
  <2> HIDE DEF In
  <2> QED
    BY <1>7, <1>11, <2>1
<1>13. ASSUME NEW n \in 1..Len(q), NEW x \in P[n - 1] PROVE Rebuffer(x, q[n]) \in P[n]
  <2>1. n - 1 \in 0..Len(q) /\ n \in 0..Len(q)
    BY <1>11
  <2>2. x \in Ready(K, b, w) /\ In(n - 1, x)
    <3> HIDE DEF In
    <3> QED
      BY <1>13, <2>1
  <2>3. PICK k : k = q[n]
    OBVIOUS
  <2>4. PICK M : M = After(q, n - 1)
    OBVIOUS
  <2>5. PICK R : R = After(q, n)
    OBVIOUS
  <2>6. k \in K /\ k \in M /\ R \subseteq M /\ Before({k}, R)
    BY <1>4, <1>8, <2>3, <2>4, <2>5, AfterFirst
  <2>7. PICK y : y = Rebuffer(x, k)
    OBVIOUS
  <2>8. Orderly(x, M, C) /\ (x.buffered # <<>> => x.deleting)
    BY <2>2, <2>4
  <2>9. /\ Orderly(y, R, C) /\ (y.buffered # <<>> => y.deleting)
        /\ Current(x) /\ Clean(x) /\ Replaced(x) => Clean(y) /\ Replaced(y)
    BY <2>2, <2>6, <2>7, <2>8, RebufferKeeps
  <2>10. y \in Ready(K, b, w)
    <3>1. Onward(x, x)
      BY DEF Onward
    <3> QED
      BY <2>2, <2>6, <2>7, <3>1, RebufferFine
  <2>11. Current(x) => Current(y)
    BY <2>2, <2>6, <2>7, RebufferTracks
  <2>12. In(n, y)
    BY <2>2, <2>5, <2>9, <2>11
  <2> HIDE DEF In
  <2> QED
    BY <2>1, <2>3, <2>7, <2>10, <2>12
<1>14. t \in P[Len(q)]
  <2> HIDE DEF P
  <2> QED
    BY <1>4, <1>10, <1>12, <1>13, FoldedAt
<1>15. t \in Ready(K, b, w) /\ In(Len(q), t)
  <2> HIDE DEF In
  <2> QED
    BY <1>11, <1>14
<1>16. t \in Fine(K, b, w) /\ Orderly(t, {}, C) /\ (t.buffered # <<>> => t.deleting)
       /\ (Good(s) => Good(t))
  <2>1. After(q, Len(q)) = {}
    BY <1>4, <1>8, AfterFirst
  <2>2. /\ Orderly(t, After(q, Len(q)), C) /\ (t.buffered # <<>> => t.deleting)
        /\ Good(s) => Good(t)
    BY <1>15
  <2>3. t \in Fine(K, b, w)
    BY <1>15 DEF Ready
  <2> QED
    BY <2>1, <2>2, <2>3
<1>17. PICK u : u = ReplayBuffered(s)
  OBVIOUS
<1>18. u = IF t.deleting THEN t ELSE ReplaySettled(t)
  <2>1. d = [s EXCEPT !.buffered = <<>>]
    BY <1>2, <1>5
  <2> QED
    BY <1>3, <1>10, <1>17, <2>1 DEF ReplayBuffered
<1>19. Waits(t)
  BY <1>16 DEF Waits
<1>20. CASE t.deleting
  BY <1>16, <1>17, <1>18, <1>19, <1>20
<1>21. CASE ~t.deleting
  <2>1. u = ReplaySettled(t)
    BY <1>18, <1>21
  <2>2. Orderly(u, {}, C) /\ Waits(u) /\ (Tracks(t) /\ Clean(t) => Clean(u))
    BY <1>16, <1>19, <2>1, ReplaySettledKeeps
  <2>3. Good(s) => Clean(u)
    BY <1>16, <2>2 DEF Current
  <2> QED
    BY <1>17, <2>2, <2>3
<1> QED
  BY <1>20, <1>21

---------------------------------------------------------------------------
(* The end of a replacement.                                             *)

\* A context that gives up everything is in order, and clean.
LEMMA EmptiedKeeps ==
    ASSUME NEW s, NEW t, Emptied(t), t.text = s.text, t.oldWord \in {s.oldWord, <<>>}, NEW C,
           Orderly(s, {}, C)
    PROVE  Orderly(t, {}, C) /\ Waits(t) /\ (Clean(s) => Clean(t))
<1>1. KeysOf(t.text) \subseteq KeysOf(s.text) \cup {}
  OBVIOUS
<1>2. Serves(s, t, {}) /\ Waits(t)
  BY <1>1, EmptiedServes
<1>3. Orderly(t, {}, C)
  BY ONLY <1>2, Orderly(s, {}, C), ServesInOrder, BeforeNone
<1> QED
  BY <1>2, <1>3, CleanEmptied

\* The end of a replacement: the pending suffix is committed.
LEMMA EndKeeps ==
    ASSUME Numbers, NEW K, NEW b, NEW w, NEW s \in Context(K), s.seen <= s.expected,
           s.deleting, NEW x \in Fine(K, b, w), ~x.deleting, x.text = s.text,
           x.viet = s.viet, x.oldWord = s.oldWord, x.disabled = s.disabled,
           x.buffered = s.buffered, x.settled = s.settled, x.pending = <<>>,
           NEW C, Orderly(s, {}, C)
    PROVE  LET t == Put(x, s.pending)
           IN  /\ Orderly(t, {}, C)
               /\ s.expected = 0 /\ ~s.disabled /\ Clean(s) => Clean(t) /\ Replaced(t)
<1>1. PICK g : g = s.pending
  OBVIOUS
<1>2. PICK t : t = Put(x, g)
  OBVIOUS
<1>3. /\ s.text \in Seq(Glyphs(K)) /\ g \in Seq(Glyphs(K)) /\ s.seen \in 0..MaxDelete
  BY <1>1, Typed
<1>4. x \in Context(K)
  BY DEF Fine
<1>5. /\ Beside(x, t) /\ t.viet = s.viet
      /\ t.text = IF s.disabled THEN s.text ELSE s.text \o g
  BY <1>2, <1>4, PutBeside
<1>6. Serves(s, t, {})
  <2>1. KeysOf(s.text \o g) \subseteq KeysOf(s.text) \cup KeysOf(g)
    BY <1>3, TextKeys
  <2>2. KeysOf(<<>>) = {}
    BY DEF KeysOf
  <2>3. t.pending = <<>> /\ t.oldWord = s.oldWord
        /\ t.buffered = s.buffered /\ t.settled = s.settled
    BY <1>5 DEF Beside
  <2>4. Served(t) \subseteq Served(s)
    BY <1>1, <1>5, <2>1, <2>2, <2>3 DEF Served
  <2> QED
    BY <2>3, <2>4 DEF Serves
<1>7. Orderly(t, {}, C)
  BY ONLY <1>6, Orderly(s, {}, C), ServesInOrder, BeforeNone
<1>8. ASSUME s.expected = 0, ~s.disabled, Clean(s) PROVE Clean(t) /\ Replaced(t)
  <2>1. s.expected - s.seen = 0
    BY <1>3, <1>8 DEF Numbers
  <2>2. Shown(s) = s.text \o g
    BY <1>1, <1>3, <2>1, DropNone DEF Shown
  <2>3. t.text = Shown(s) /\ Shown(t) = Shown(s) /\ t.oldWord = s.oldWord
    BY <1>5, <1>8, <2>2 DEF Shown, Beside
  <2>4. Replaced(s)
    BY <1>8 DEF Clean, Idle
  <2> QED
    BY <1>8, <2>3, <2>4 DEF Clean, Replaced
<1> QED
  BY <1>1, <1>2, <1>7, <1>8

\* The commit, and what waited for it.
LEMMA SettleCommitClean ==
    ASSUME Env, NEW K, K \subseteq Keys, NEW b \in Int, NEW w \in Int, w <= b,
           NEW s \in Context(K), Solvent(s, b, w), s.seen <= s.expected,
           s.ticket = "Complete", s.left = 0, s.outstanding = 0, ~s.safety, ~s.replayTimer,
           s.deleting, NEW C, Orderly(s, {}, C)
    PROVE  LET u == SettleCommit(s)
           IN  /\ Orderly(u, {}, C) /\ Waits(u)
               /\ s.expected = 0 /\ Current(s) /\ Clean(s) => Clean(u)
<1>1. PICK e : e = <<>>
  OBVIOUS
<1>2. PICK x : x = [s EXCEPT !.pending = e, !.settling = FALSE, !.deleting = FALSE]
  OBVIOUS
<1>3. PICK t : t = Put(x, s.pending)
  OBVIOUS
<1>4. PICK v : v = [t EXCEPT !.replayTimer = TRUE]
  OBVIOUS
<1>5. PICK u : u = SettleCommit(s)
  OBVIOUS
<1>6. x = [s EXCEPT !.pending = <<>>, !.settling = FALSE, !.deleting = FALSE]
  BY <1>1, <1>2
<1>7. /\ x \in Fine(K, b, w) /\ ~x.replayTimer /\ ~x.deleting /\ x.ticket = "Complete"
  BY <1>6, EndFine DEF Env
<1>8. u = IF Ordered THEN v ELSE ReplayBuffered(t)
  <2>1. Commit(x, s.pending) = t
    BY <1>3, <1>7 DEF Commit
  <2> QED
    BY <1>4, <1>5, <1>6, <2>1 DEF SettleCommit
<1>9. /\ x.text = s.text /\ x.viet = s.viet /\ x.oldWord = s.oldWord
      /\ x.disabled = s.disabled /\ x.buffered = s.buffered /\ x.settled = s.settled
      /\ x.pending = <<>>
  <2>1. /\ x.text = s.text /\ x.viet = s.viet /\ x.oldWord = s.oldWord
        /\ x.disabled = s.disabled /\ x.buffered = s.buffered /\ x.settled = s.settled
        /\ x.pending = e
    BY ONLY ZenonT(60), <1>2, s \in Context(K) DEF Context
  <2> QED
    BY <1>1, <2>1
<1>10. /\ Orderly(t, {}, C)
       /\ s.expected = 0 /\ ~s.disabled /\ Clean(s) => Clean(t) /\ Replaced(t)
  BY <1>3, <1>7, <1>9, EndKeeps DEF Env
<1>11. s.pending \in Seq(Glyphs(K))
  BY Typed
<1>12. t \in Fine(K, b, w) /\ ~t.replayTimer /\ t \in Context(K)
  <2>1. t \in Fine(K, b, w) /\ ~t.replayTimer
    BY <1>3, <1>7, <1>11, PutFine
  <2> QED
    BY <2>1 DEF Fine
<1>13. s.expected = 0 /\ Current(s) => Current(t)
  BY <1>3, <1>7, <1>9, EndTracks DEF Env
<1>14. /\ v.text = t.text /\ v.viet = t.viet /\ v.pending = t.pending
       /\ v.deleting = t.deleting /\ v.expected = t.expected /\ v.seen = t.seen
       /\ v.oldWord = t.oldWord /\ v.buffered = t.buffered /\ v.settled = t.settled
       /\ v.replayTimer = TRUE
  BY ONLY ZenonT(60), <1>4, <1>12 DEF Context
<1>15. /\ Orderly(v, {}, C) /\ Waits(v)
       /\ s.expected = 0 /\ Current(s) /\ Clean(s) => Clean(v)
  <2>1. Orderly(v, {}, C) /\ Waits(v) /\ (Clean(t) /\ Replaced(t) => Clean(v))
    BY <1>10, <1>14, AlikeKeeps DEF Waits
  <2> QED
    BY <1>10, <2>1 DEF Current
<1>16. PICK y : y = ReplayBuffered(t)
  OBVIOUS
<1>17. /\ Orderly(y, {}, C) /\ Waits(y)
       /\ s.expected = 0 /\ Current(s) /\ Clean(s) => Clean(y)
  <2>1. /\ Orderly(y, {}, C) /\ Waits(y)
        /\ Current(t) /\ Clean(t) /\ Replaced(t) => Clean(y)
    BY <1>10, <1>12, <1>16, ReplayBufferedKeeps
  <2> QED
    BY <1>10, <1>13, <2>1 DEF Current
<1> QED
  BY <1>5, <1>8, <1>15, <1>16, <1>17

\* Where the old word has been replaced, it is not intact.
LEMMA NotIntact ==
    ASSUME Numbers, NEW K, NEW s \in Context(K), s.seen <= s.expected, s.deleting,
           s.expected = 0, s.oldWord # <<>>, Clean(s)
    PROVE  ~WordStillIntact(s)
<1>1. PICK x : x = s.text
  OBVIOUS
<1>2. PICK o : o = s.oldWord
  OBVIOUS
<1>3. /\ x \in Seq(Glyphs(K)) /\ o \in Seq(Glyphs(K)) /\ s.pending \in Seq(Glyphs(K))
      /\ s.seen \in 0..MaxDelete
  BY <1>1, <1>2, Typed
<1>4. PICK y : y = Shown(s)
  OBVIOUS
<1>5. y = x \o s.pending
  <2>1. s.expected - s.seen = 0
    BY <1>3 DEF Numbers
  <2> QED
    BY <1>1, <1>3, <1>4, <2>1, DropNone DEF Shown
<1>6. PICK n \in DOMAIN o : \A m \in DOMAIN y : y[m] # o[n]
  BY <1>2, <1>4 DEF Clean, Idle, Replaced
<1>7. \A m \in 1..Len(x) : m \in DOMAIN y /\ y[m] = x[m]
  BY <1>3, <1>5, Joined
<1>8. ASSUME NEW m \in 0..(Len(x) - Len(o)), SubSeq(x, m + 1, m + Len(o)) = o PROVE FALSE
  <2>1. n \in 1..Len(o) /\ Len(o) \in Nat /\ Len(x) \in Nat
    BY <1>3, <1>6
  <2>2. SubSeq(x, m + 1, m + Len(o))[n] = x[m + n] /\ m + n \in 1..Len(x)
    BY <1>3, <2>1
  <2>3. y[m + n] = o[n] /\ m + n \in DOMAIN y
    BY <1>7, <1>8, <2>2
  <2> QED
    BY <1>6, <2>3
<1> QED
  BY <1>1, <1>2, <1>8 DEF WordStillIntact

\* A settle commits, waits or repairs; while Backspaces delete it does not repair.
LEMMA FinishSettleClean ==
    ASSUME Env, NEW K, K \subseteq Keys, NEW b \in Int, NEW w \in Int, w <= b,
           NEW s \in Fine(K, b, w), s.deleting, s.settling, NEW missed \in BOOLEAN,
           NEW C, Orderly(s, {}, C), Waits(s)
    PROVE  LET u == FinishSettle(s, missed)
           IN  /\ Orderly(u, {}, C) /\ Waits(u)
               /\ Current(s) /\ Clean(s) => Tracks(u) /\ Clean(u)
<1>1. PICK u : u = FinishSettle(s, missed)
  OBVIOUS
<1>2. /\ s \in Context(K) /\ s.seen <= s.expected /\ Solvent(s, b, w)
      /\ s.ticket # "Failed" /\ ~StillTyping(s) => s.ticket = "Complete" /\ s.left = 0
      /\ ~s.replayTimer /\ s.outstanding = 0 /\ ~s.safety /\ s.expected = 0
  BY SettleReady
<1>3. CASE s.ticket = "Failed"
  <2>1. u = Reset(s)
    BY <1>1, <1>3 DEF FinishSettle
  <2>2. Emptied(u) /\ u.text = s.text /\ u.oldWord = <<>>
    BY <2>1, ResetEmpties
  <2>3. Orderly(u, {}, C) /\ Waits(u) /\ (Clean(s) => Clean(u))
    BY <2>2, EmptiedKeeps
  <2>4. Tracks(u)
    BY <2>1, ResetTracks DEF Env
  <2> QED
    BY <1>1, <2>3, <2>4
<1>4. CASE s.ticket # "Failed" /\ (StillTyping(s) \/ AwaitsReturn(s))
  <2>1. u = s
    BY <1>1, <1>4 DEF FinishSettle
  <2> QED
    BY <1>1, <2>1 DEF Current
<1>5. CASE s.ticket # "Failed" /\ ~(StillTyping(s) \/ AwaitsReturn(s))
  <2>1. s.ticket = "Complete" /\ s.left = 0
    BY <1>2, <1>5
  <2>2. ASSUME NEW x \in Context(K), x.seen <= x.expected, Agrees(s, x) \/
               (/\ x.deleting = s.deleting /\ x.safety = s.safety
                /\ x.outstanding = s.outstanding /\ x.ticket = s.ticket /\ x.left = s.left
                /\ x.tail = s.tail /\ x.grace = s.grace /\ x.replayTimer = s.replayTimer
                /\ x.settled = s.settled /\ x.buffered = s.buffered
                /\ x.removed = s.removed),
               Orderly(x, {}, C), u = SettleCommit(x)
        PROVE  /\ Orderly(u, {}, C) /\ Waits(u)
               /\ x.expected = 0 /\ Current(x) /\ Clean(x) => Clean(u) /\ Tracks(u)
    <3>1. /\ x.deleting /\ ~x.safety /\ x.outstanding = 0 /\ x.ticket = "Complete"
          /\ x.left = 0 /\ ~x.replayTimer
      BY <1>2, <2>1, <2>2 DEF Agrees
    <3>2. Solvent(x, b, w)
      BY <1>2, <2>2, SolventKept DEF Agrees
    <3>3. /\ Orderly(u, {}, C) /\ Waits(u)
          /\ x.expected = 0 /\ Current(x) /\ Clean(x) => Clean(u)
      BY <2>2, <3>1, <3>2, SettleCommitClean
    <3>4. x.expected = 0 /\ Current(x) => Tracks(u)
      BY <2>2, <3>1, <3>2, SettleCommitTracks
    <3> QED
      BY <3>3, <3>4
  <2>3. CASE u = SettleCommit(s)
    <3>1. Agrees(s, s)
      BY DEF Agrees
    <3> QED
      BY <1>1, <1>2, <2>2, <2>3, <3>1
  <2>4. CASE u # SettleCommit(s)
    <3>1. PICK n : n = s.repairs + 1
      OBVIOUS
    <3>2. PICK x : x = [s EXCEPT !.repairs = n]
      OBVIOUS
    <3>3. PICK y : y = [s EXCEPT !.repairs = n, !.expected = 1, !.seen = 0, !.settling = FALSE]
      OBVIOUS
    <3>4. PICK o : o = y.outstanding + 2
      OBVIOUS
    <3>5. PICK z : z = [y EXCEPT !.ticket = "Queued", !.left = 2, !.outstanding = o]
      OBVIOUS
    <3>6. s.repairs < 3 /\ s.oldWord # <<>>
      BY <1>1, <1>5, <2>4 DEF FinishSettle
    <3>7. n \in 0..3 /\ 1 \in 0..MaxDelete /\ 0 \in 0..MaxDelete
      <4>1. s.repairs \in 0..3
        BY <1>2, Typed
      <4>2. MaxDelete \in Nat \ {0}
        BY DEF Env, Numbers
      <4> QED
        BY <3>1, <3>6, <4>1, <4>2
    <3>8. x = [s EXCEPT !.repairs = @ + 1]
      BY <3>1, <3>2
    <3>9. y = Repair(s)
      BY <3>1, <3>3 DEF Repair
    <3>10. \/ u = SettleCommit(x) /\ ~WordStillIntact(s)
           \/ WordStillIntact(s) /\ u \in {SettleCommit(y), z}
      <4>1. z = Send(y, 2)
        BY <3>4, <3>5 DEF Send
      <4> QED
        BY <1>1, <1>5, <2>4, <3>8, <3>9, <4>1 DEF FinishSettle
    <3>11. /\ x \in Context(K) /\ x.text = s.text /\ x.viet = s.viet /\ x.pending = s.pending
           /\ x.deleting = s.deleting /\ x.expected = s.expected /\ x.seen = s.seen
           /\ x.oldWord = s.oldWord /\ x.buffered = s.buffered /\ x.settled = s.settled
           /\ x.safety = s.safety /\ x.outstanding = s.outstanding /\ x.ticket = s.ticket
           /\ x.left = s.left /\ x.tail = s.tail /\ x.grace = s.grace
           /\ x.replayTimer = s.replayTimer /\ x.removed = s.removed
           /\ x.disabled = s.disabled
      BY ONLY ZenonT(60), <1>2, <3>2, <3>7 DEF Context
    <3>12. /\ y \in Context(K) /\ y.text = s.text /\ y.viet = s.viet /\ y.pending = s.pending
           /\ y.deleting = s.deleting /\ y.expected = 1 /\ y.seen = 0
           /\ y.oldWord = s.oldWord /\ y.buffered = s.buffered /\ y.settled = s.settled
           /\ y.safety = s.safety /\ y.outstanding = s.outstanding /\ y.ticket = s.ticket
           /\ y.left = s.left /\ y.tail = s.tail /\ y.grace = s.grace
           /\ y.replayTimer = s.replayTimer /\ y.removed = s.removed
           /\ y.disabled = s.disabled
      BY ONLY ZenonT(60), <1>2, <3>3, <3>7 DEF Context
    <3>13. Served(x) = Served(s) /\ Served(y) = Served(s)
      BY <3>11, <3>12 DEF Served
    <3>14. Orderly(x, {}, C) /\ Orderly(y, {}, C)
      BY <3>11, <3>12, <3>13 DEF Orderly
    <3>15. CASE u = SettleCommit(x) /\ ~WordStillIntact(s)
      <4>1. x.seen <= x.expected /\ x.expected = 0
        BY <1>2, <3>11
      <4>2. Current(s) /\ Clean(s) => Current(x) /\ Clean(x)
        <5>1. Tracks(x) = Tracks(s)
          BY <3>11, TracksSame
        <5>2. Shown(x) = Shown(s)
          BY <3>11, TracksSame
        <5> QED
          BY <3>11, <5>1, <5>2 DEF Current, Clean, Replaced, Idle
      <4>3. /\ Orderly(u, {}, C) /\ Waits(u)
            /\ Current(x) /\ Clean(x) => Clean(u) /\ Tracks(u)
        BY <2>2, <3>11, <3>14, <3>15, <4>1
      <4> QED
        BY <1>1, <4>2, <4>3
    <3>16. CASE WordStillIntact(s) /\ u \in {SettleCommit(y), z}
      <4>1. ~Clean(s)
        BY <1>2, <3>6, <3>16, NotIntact DEF Env
      <4>2. CASE u = SettleCommit(y)
        <5>1. y.seen <= y.expected
          BY <3>12
        <5>2. Orderly(u, {}, C) /\ Waits(u)
          BY <2>2, <3>12, <3>14, <4>2, <5>1
        <5> QED
          BY <1>1, <4>1, <5>2
      <4>3. CASE u = z
        <5>1. /\ z.text = y.text /\ z.viet = y.viet /\ z.pending = y.pending
              /\ z.deleting = y.deleting /\ z.expected = y.expected /\ z.seen = y.seen
              /\ z.oldWord = y.oldWord /\ z.buffered = y.buffered /\ z.settled = y.settled
          <6>1. y \in Context(K)
            BY <3>12
          <6> QED
            BY ONLY ZenonT(60), <3>5, <6>1 DEF Context
        <5>2. Orderly(z, {}, C)
          BY <3>14, <5>1, AlikeKeeps
        <5>3. Waits(z)
          BY <3>12, <5>1 DEF Waits
        <5> QED
          BY <1>1, <4>1, <4>3, <5>2, <5>3
      <4> QED
        BY <3>16, <4>2, <4>3
    <3> QED
      BY <3>10, <3>15, <3>16
  <2> QED
    BY <2>3, <2>4
<1> QED
  BY <1>3, <1>4, <1>5

\* A forced commit keeps the order of the keys.
LEMMA ForceCommitKeeps ==
    ASSUME Env, NEW K, K \subseteq Keys, NEW b \in Int, NEW w \in Int, w <= b,
           NEW s \in Fine(K, b, w), s.safety, ~StillTyping(s), s.ticket # "Failed",
           NEW C, Orderly(s, {}, C)
    PROVE  Orderly(ForceCommit(s), {}, C) /\ Waits(ForceCommit(s))
<1>1. /\ s \in Context(K) /\ s.seen <= s.expected /\ BatchInv(s) /\ Solvent(s, b, w)
      /\ s.deleting /\ ~s.settling
  BY DEF Fine, BatchInv
<1>2. s.ticket = "Complete" /\ s.left = 0 /\ ~s.replayTimer
  BY <1>1, SettleReady
<1>3. PICK e : e = <<>>
  OBVIOUS
<1>4. PICK g : g = s.pending
  OBVIOUS
<1>5. e \in Seq(Glyphs(K)) /\ g \in Seq(Glyphs(K)) /\ 0 \in 0..MaxDelete
  <2>1. e \in Seq(Glyphs(K)) /\ g \in Seq(Glyphs(K))
    BY <1>1, <1>3, <1>4, Typed, NoKeys
  <2>2. MaxDelete \in Nat \ {0}
    BY DEF Env, Numbers
  <2> QED
    BY <2>1, <2>2
<1>6. PICK x : x = [s EXCEPT !.retried = FALSE, !.safety = FALSE, !.grace = TRUE,
                       !.pending = e, !.expected = 0, !.seen = 0, !.outstanding = 0,
                       !.deleting = FALSE]
  OBVIOUS
<1>7. PICK t : t = Put(x, g)
  OBVIOUS
<1>8. PICK u : u = ForceCommit(s)
  OBVIOUS
<1>9. /\ x \in Context(K) /\ x.deleting = FALSE /\ x.settling = s.settling
      /\ x.safety = FALSE /\ x.grace = TRUE
      /\ x.pending = e /\ x.expected = 0 /\ x.seen = 0 /\ x.outstanding = 0
      /\ x.ticket = s.ticket /\ x.left = s.left /\ x.replayTimer = s.replayTimer
      /\ x.text = s.text /\ x.settled = s.settled /\ x.removed = s.removed
      /\ x.viet = s.viet /\ x.oldWord = s.oldWord /\ x.disabled = s.disabled
      /\ x.buffered = s.buffered
  BY ONLY ZenonT(60), <1>1, <1>5, <1>6 DEF Context
<1>10. x \in Fine(K, b, w)
  <2>1. BatchInv(x)
    BY <1>1, <1>2, <1>3, <1>9 DEF BatchInv
  <2>2. Solvent(x, b, w)
    <3>1. Spent(x) = Spent(s)
      BY <1>9 DEF Spent
    <3> QED
      BY <1>1, <1>9, <3>1 DEF Solvent
  <2> QED
    BY <1>9, <2>1, <2>2 DEF Fine
<1>11. Commit(x, g) = t
  BY <1>2, <1>7, <1>9 DEF Commit
<1>12. u = ReplayBuffered(t)
  BY <1>3, <1>4, <1>6, <1>8, <1>11 DEF ForceCommit
<1>13. t \in Fine(K, b, w) /\ ~t.replayTimer
  BY <1>2, <1>5, <1>7, <1>9, <1>10, PutFine
<1>14. Orderly(t, {}, C)
  <2>1. /\ ~x.deleting /\ x.text = s.text /\ x.viet = s.viet /\ x.oldWord = s.oldWord
        /\ x.disabled = s.disabled /\ x.buffered = s.buffered /\ x.settled = s.settled
        /\ x.pending = <<>>
    BY <1>3, <1>9
  <2> QED
    BY <1>1, <1>4, <1>7, <1>10, <2>1, EndKeeps DEF Env
<1>15. Orderly(u, {}, C) /\ Waits(u)
  BY <1>12, <1>13, <1>14, ReplayBufferedKeeps
<1> QED
  BY <1>8, <1>15

\* What is flushed keeps the order, and is clean where the screen follows.
LEMMA FlushKeeps ==
    ASSUME Env, NEW K, K \subseteq Keys, NEW b \in Int, NEW w \in Int, w <= b,
           NEW s \in Fine(K, b, w), NEW C, Orderly(s, {}, C), Waits(s)
    PROVE  LET u == Flush(s)
           IN  /\ Orderly(u, {}, C) /\ Waits(u)
               /\ Tracks(s) /\ Clean(s) /\ (s.disabled => app = "page") => Clean(u)
<1>1. PICK u : u = Flush(s)
  OBVIOUS
<1>2. CASE ~(s.deleting /\ s.expected = 0 /\ ~HeldOnWayland(s) /\ ~StillTyping(s))
  <2>1. u = s
    BY <1>1, <1>2 DEF Flush
  <2> QED
    BY <1>1, <2>1
<1>3. CASE s.deleting /\ s.expected = 0 /\ ~HeldOnWayland(s) /\ ~StillTyping(s)
  <2>1. PICK e : e = <<>>
    OBVIOUS
  <2>2. PICK x : x = [s EXCEPT !.deleting = FALSE, !.settling = FALSE, !.pending = e]
    OBVIOUS
  <2>3. PICK g : g = s.pending
    OBVIOUS
  <2>4. PICK t : t = Commit(x, g)
    OBVIOUS
  <2>5. u = ReplayBuffered(t)
    BY <1>1, <1>3, <2>1, <2>2, <2>3, <2>4 DEF Flush
  <2>6. /\ s \in Context(K) /\ s.seen <= s.expected /\ Solvent(s, b, w)
        /\ s.ticket # "Failed" => s.ticket = "Complete" /\ s.left = 0
        /\ ~s.replayTimer /\ s.outstanding = 0 /\ ~s.safety
    BY <1>3, SettleReady
  <2>7. Tracks(s) /\ (s.disabled => app = "page") => Current(s)
    BY <1>3 DEF HeldOnWayland, Current
  <2>8. e \in Seq(Glyphs(K)) /\ g \in Seq(Glyphs(K))
    BY <2>1, <2>3, <2>6, NoKeys, Typed
  <2>9. /\ x \in Context(K) /\ x.ticket = s.ticket /\ x.removed = s.removed
        /\ x.settled = s.settled /\ x.left = s.left /\ x.tail = s.tail
        /\ x.grace = s.grace /\ x.outstanding = s.outstanding /\ x.text = s.text
        /\ x.disabled = s.disabled /\ x.viet = s.viet /\ x.oldWord = s.oldWord
        /\ x.buffered = s.buffered /\ x.pending = e /\ x.deleting = FALSE
        /\ x.replayTimer = s.replayTimer
    BY ONLY ZenonT(60), <2>2, <2>6, <2>8 DEF Context
  <2>10. CASE s.ticket = "Complete"
    <3>1. x = [s EXCEPT !.pending = <<>>, !.settling = FALSE, !.deleting = FALSE]
      BY <2>1, <2>2, <2>6 DEF Context
    <3>2. x \in Fine(K, b, w)
      BY <2>6, <2>10, <3>1, EndFine DEF Env
    <3>3. t = Put(x, s.pending)
      BY <2>3, <2>4, <2>9, <2>10 DEF Commit
    <3>4. /\ Orderly(t, {}, C)
          /\ s.expected = 0 /\ ~s.disabled /\ Clean(s) => Clean(t) /\ Replaced(t)
      <4>1. ~x.deleting /\ x.pending = <<>>
        BY <2>1, <2>9
      <4> QED
        BY <1>3, <2>6, <2>9, <3>2, <3>3, <4>1, EndKeeps DEF Env
    <3>5. t \in Fine(K, b, w) /\ ~t.replayTimer
      BY <2>3, <2>6, <2>8, <2>9, <3>2, <3>3, PutFine
    <3>6. Current(s) => Current(t)
      BY <1>3, <2>6, <2>9, <3>2, <3>3, EndTracks DEF Env
    <3>7. /\ Orderly(u, {}, C) /\ Waits(u)
          /\ Current(t) /\ Clean(t) /\ Replaced(t) => Clean(u)
      BY <2>5, <3>4, <3>5, ReplayBufferedKeeps
    <3>8. Current(s) /\ Clean(s) => Clean(u)
      BY <1>3, <3>4, <3>6, <3>7 DEF Current
    <3> QED
      BY <1>1, <2>7, <3>7, <3>8
  <2>11. CASE s.ticket = "Failed"
    <3>1. Solvent(x, b, w)
      BY <2>6, <2>9, SolventKept
    <3>2. x.ticket = "none" => x.outstanding = 0
      BY <2>9, <2>11
    <3>3. t = Reset(x)
      BY <2>4, <2>9, <2>11 DEF Commit
    <3>4. t \in Fine(K, b, w) /\ (t.disabled <=> s.disabled)
      BY <2>9, <3>1, <3>2, <3>3, ResetAny DEF Env, Cleared
    <3>5. Emptied(t) /\ t.text = s.text /\ t.oldWord = <<>>
      BY <2>9, <3>2, <3>3, AnyEmpties
    <3>6. Orderly(t, {}, C) /\ (Clean(s) => Clean(t)) /\ Replaced(t) /\ ~t.replayTimer
      <4>1. Orderly(t, {}, C) /\ (Clean(s) => Clean(t))
        BY <3>5, EmptiedKeeps
      <4> QED
        BY <3>5, <4>1 DEF Replaced, Emptied
    <3>7. Tracks(t)
      BY <3>4, <3>5, Forgotten DEF Fine, Emptied
    <3>8. /\ Orderly(u, {}, C) /\ Waits(u)
          /\ Current(t) /\ Clean(t) /\ Replaced(t) => Clean(u)
      BY <2>5, <3>4, <3>6, ReplayBufferedKeeps
    <3>9. Current(s) => Current(t)
      BY <3>4, <3>7 DEF Current
    <3> QED
      BY <1>1, <2>7, <3>6, <3>8, <3>9
  <2> QED
    BY <2>6, <2>10, <2>11
<1> QED
  BY <1>2, <1>3

\* The loss of the focus keeps what it holds, and gives up the rest.
LEMMA FocusLeaves ==
    ASSUME Env, NEW K, K \subseteq Keys, NEW b \in Int, NEW w \in Int, w <= b,
           NEW s \in Fine(K, b, w), NEW C, Orderly(s, {}, C), Waits(s)
    PROVE  LET r == Leave(s)
           IN  /\ Orderly(r, {}, C) /\ Waits(r)
               /\ Tracks(s) /\ Clean(s) /\ (s.disabled => app = "page") => Clean(r)
<1>1. PICK t : t = Flush(s)
  OBVIOUS
<1>2. PICK r : r = Leave(s)
  OBVIOUS
<1>3. /\ Orderly(t, {}, C) /\ Waits(t)
      /\ Tracks(s) /\ Clean(s) /\ (s.disabled => app = "page") => Clean(t)
  BY <1>1, FlushKeeps
<1>4. t \in Fine(K, b, w) /\ t \in Context(K)
  <2>1. t \in Fine(K, b, w)
    BY <1>1, FlushFine
  <2> QED
    BY <2>1 DEF Fine
<1>5. CASE Held(t)
  <2>1. r = [t EXCEPT !.cycle = TRUE]
    BY <1>1, <1>2, <1>5 DEF Leave
  <2>2. /\ r.text = t.text /\ r.viet = t.viet /\ r.pending = t.pending
        /\ r.oldWord = t.oldWord /\ r.buffered = t.buffered /\ r.settled = t.settled
        /\ r.deleting = t.deleting /\ r.expected = t.expected /\ r.seen = t.seen
        /\ r.replayTimer = t.replayTimer
    BY ONLY ZenonT(60), <1>4, <2>1 DEF Context
  <2>3. Orderly(r, {}, C) /\ (Clean(t) /\ Replaced(t) => Clean(r))
    BY <1>3, <2>2, AlikeKeeps
  <2>4. Waits(r)
    BY <1>3, <2>2 DEF Waits
  <2>5. Clean(t) => Replaced(t)
    BY <1>5 DEF Held, Clean, Idle
  <2> QED
    BY <1>2, <1>3, <2>3, <2>4, <2>5
<1>6. CASE ~Held(t)
  <2>1. r = Abandon(t)
    BY <1>1, <1>2, <1>6 DEF Leave
  <2>2. Emptied(r) /\ r.text = t.text /\ r.oldWord = t.oldWord
    BY <1>4, <2>1, ResetEmpties
  <2>3. Orderly(r, {}, C) /\ Waits(r) /\ (Clean(t) => Clean(r))
    BY <1>3, <2>2, EmptiedKeeps
  <2> QED
    BY <1>2, <1>3, <2>3
<1> QED
  BY <1>5, <1>6

\* The focus comes back to what it left.
LEMMA FocusReturns ==
    ASSUME Numbers, NEW K, NEW b \in Int, NEW w \in Int, NEW s \in Fine(K, b, w), NEW C,
           Orderly(s, {}, C), Waits(s), NEW r \in {Return(s), ResetPage(Return(s))}
    PROVE  Orderly(r, {}, C) /\ Waits(r) /\ (Clean(s) => Clean(r))
<1>1. PICK v : v = IF s.cycle THEN s.viet ELSE <<>>
  OBVIOUS
<1>2. PICK x : x = Return(s)
  OBVIOUS
<1>3. s \in Context(K)
  BY DEF Fine
<1>4. x = [s EXCEPT !.viet = v, !.cycle = FALSE, !.disabled = FALSE]
  BY <1>1, <1>2, <1>3 DEF Return, Context
<1>5. /\ x.text = s.text /\ x.viet = v /\ x.pending = s.pending
      /\ x.oldWord = s.oldWord /\ x.buffered = s.buffered /\ x.settled = s.settled
      /\ x.deleting = s.deleting /\ x.expected = s.expected /\ x.seen = s.seen
      /\ x.replayTimer = s.replayTimer
  BY ONLY ZenonT(60), <1>3, <1>4 DEF Context
<1>6. Orderly(x, {}, C) /\ Waits(x) /\ (Clean(s) => Clean(x))
  <2>1. KeysOf(v) \subseteq KeysOf(s.viet)
    BY <1>1 DEF KeysOf
  <2>2. Serves(s, x, {})
    BY <1>5, <2>1 DEF Serves, Served
  <2>3. Orderly(x, {}, C)
    BY ONLY <2>2, Orderly(s, {}, C), ServesInOrder, BeforeNone
  <2>4. Shown(x) = Shown(s)
    BY <1>5 DEF Shown
  <2> QED
    BY <1>5, <2>3, <2>4 DEF Waits, Clean, Replaced, Idle
<1>7. CASE r = x
  BY <1>6, <1>7
<1>8. CASE r # x
  <2>1. PICK a : a = Abandon(x)
    OBVIOUS
  <2>2. r = [a EXCEPT !.outstanding = 0, !.retried = FALSE]
    BY <1>2, <1>8, <2>1 DEF ResetPage
  <2>3. x \in Fine(K, b, w)
    BY <1>2, ReturnFine
  <2>4. Emptied(a) /\ a.text = x.text /\ a.oldWord = x.oldWord
    BY <2>1, <2>3, ResetEmpties
  <2>5. a \in Context(K)
    BY <2>1, <2>3, AbandonFine DEF Fine
  <2>6. /\ r.viet = a.viet /\ r.pending = a.pending /\ r.buffered = a.buffered
        /\ r.settled = a.settled
        /\ r.deleting = a.deleting /\ r.replayTimer = a.replayTimer /\ r.text = a.text
        /\ r.oldWord = a.oldWord
    BY ONLY ZenonT(60), <2>2, <2>5 DEF Context
  <2>7. Emptied(r) /\ r.text = x.text /\ r.oldWord = x.oldWord
    BY <2>4, <2>6 DEF Emptied
  <2>8. Orderly(r, {}, C) /\ Waits(r) /\ (Clean(x) => Clean(r))
    BY <1>6, <2>7, EmptiedKeeps
  <2> QED
    BY <1>6, <2>8
<1> QED
  BY <1>7, <1>8

---------------------------------------------------------------------------
(* The steps, and the order of the keys.                                   *)

\* A context serves and holds keys that it has seen.
LEMMA SeenKeys ==
    ASSUME NEW K, NEW s \in Context(K)
    PROVE  /\ Served(s) \subseteq K /\ KeysIn(s.buffered) \subseteq K
           /\ KeysIn(s.settled) \subseteq K \cup {Loopback, Backspace}
<1>1. /\ s.text \in Seq(Glyphs(K)) /\ s.viet \in Seq(Glyphs(K)) /\ s.pending \in Seq(Glyphs(K))
      /\ s.oldWord \in Seq(Glyphs(K)) /\ s.buffered \in Seq(K)
      /\ s.settled \in Seq(K \cup {Loopback, Backspace})
  BY Typed
<1>2. ASSUME NEW q \in Seq(Glyphs(K)) PROVE KeysOf(q) \subseteq K
  <2>1. \A n \in DOMAIN q : q[n] \in SUBSET K
    BY DEF Glyphs
  <2> QED
    BY <2>1 DEF KeysOf
<1>3. ASSUME NEW S, NEW q \in Seq(S) PROVE KeysIn(q) \subseteq S
  BY DEF KeysIn
<1> QED
  BY <1>1, <1>2, <1>3 DEF Served

\* The keys that are coming, once one more has joined them, or the first has left.
LEMMA WireKeys ==
    ASSUME IInv, OrderInv
    PROVE  /\ \A i \in {Loopback, Backspace} :
                 wire' = Append(wire, i) => KeysIn(wire') = KeysIn(wire) /\ Rising(wire')
           /\ wire # <<>> /\ wire' = Tail(wire) =>
                 /\ KeysIn(wire) = KeysIn(wire') \cup ({Head(wire)} \cap Keys)
                 /\ Rising(wire') /\ Before({Head(wire)} \cap Keys, KeysIn(wire'))
<1>1. wire \in Seq(0..Backspace) /\ Rising(wire)
  BY DEF IInv, TypeOK, OrderInv
<1>2. ASSUME NEW i \in {Loopback, Backspace}, wire' = Append(wire, i)
      PROVE  KeysIn(wire') = KeysIn(wire) /\ Rising(wire')
  <2>1. i \in 0..Backspace /\ {i} \cap Keys = {}
    <3>1. Numbers
      BY Here DEF Env
    <3>2. MaxKeys \in Nat \ {0}
      BY <3>1 DEF Numbers
    <3> QED
      BY <3>2 DEF Loopback, Backspace, Keys
  <2>2. KeysIn(wire') = KeysIn(wire)
    <3>1. KeysIn(Append(wire, i)) = KeysIn(wire) \cup ({i} \cap Keys)
      <4>1. PICK S : S = 0..Backspace
        OBVIOUS
      <4>2. wire \in Seq(S) /\ i \in S
        BY <1>1, <2>1, <4>1
      <4> QED
        BY ONLY <4>2, KeysInQueue
    <3> QED
      BY <1>2, <2>1, <3>1
  <2>3. Before(KeysIn(wire), {i} \cap Keys)
    BY <2>1, BeforeNone
  <2>4. Rising(wire')
    BY <1>1, <1>2, <2>1, <2>3, RisingQueue
  <2> QED
    BY <2>2, <2>4
<1>3. ASSUME wire # <<>>, wire' = Tail(wire)
      PROVE  /\ KeysIn(wire) = KeysIn(wire') \cup ({Head(wire)} \cap Keys)
             /\ Rising(wire') /\ Before({Head(wire)} \cap Keys, KeysIn(wire'))
  BY <1>1, <1>3, KeysInQueue, RisingQueue
<1> QED
  BY <1>2, <1>3

\* Nothing waits yet.
LEMMA InitOrder ==
    ASSUME Init
    PROVE  OrderInv
<1>1. /\ ic.text = <<>> /\ ic.viet = <<>> /\ ic.pending = <<>> /\ ic.oldWord = <<>>
      /\ ic.buffered = <<>> /\ ic.settled = <<>> /\ wire = <<>>
  BY DEF Init
<1>2. Rising(<<>>) /\ KeysIn(<<>>) = {} /\ KeysOf(<<>>) = {}
  BY RisingEmpty DEF KeysOf
<1>3. Served(ic) = {}
  BY <1>1, <1>2 DEF Served
<1> QED
  BY <1>1, <1>2, <1>3, BeforeNone DEF OrderInv, Orderly, Waits

\* The next key is later than any.
LEMMA PressKeyOrder ==
    ASSUME IInv, OrderInv, PressKey
    PROVE  OrderInv'
<1>1. PICK k : k = pressed + 1
  OBVIOUS
<1>2. wire' = Append(wire, k) /\ ic' = ic /\ pressed < MaxKeys
  BY <1>1 DEF PressKey
<1>3. wire \in Seq(0..Backspace) /\ pressed \in 0..MaxKeys /\ ic \in Context(Arrived)
  BY DEF IInv, TypeOK, KeyInv
<1>4. MaxKeys \in Nat \ {0}
  BY ReplacementAssumption
<1>5. k \in Keys /\ k \in 0..Backspace /\ \A j \in 1..pressed : j < k
  BY <1>1, <1>2, <1>3, <1>4 DEF Keys, Backspace
<1>6. KeysIn(wire') = KeysIn(wire) \cup {k}
  <2>1. {k} \cap Keys = {k}
    BY <1>5
  <2>2. KeysIn(Append(wire, k)) = KeysIn(wire) \cup ({k} \cap Keys)
    <3>1. PICK S : S = 0..Backspace
      OBVIOUS
    <3>2. wire \in Seq(S) /\ k \in S
      BY <1>3, <1>5, <3>1
    <3> QED
      BY ONLY <3>2, KeysInQueue
  <2> QED
    BY <1>2, <2>1, <2>2
<1>7. KeysIn(wire) \subseteq 1..pressed
  <2>1. ASSUME NEW n \in DOMAIN wire, wire[n] \in Keys PROVE wire[n] \in 1..pressed
    <3>1. wire[n] <= pressed
      BY <2>1 DEF IInv, KeyInv
    <3> QED
      BY <1>3, <1>4, <2>1, <3>1 DEF Keys
  <2> QED
    BY <2>1 DEF KeysIn
<1>8. /\ Served(ic) \subseteq 1..pressed /\ KeysIn(ic.buffered) \subseteq 1..pressed
      /\ KeysIn(ic.settled) \subseteq 1..pressed
  <2>1. /\ Served(ic) \subseteq Arrived /\ KeysIn(ic.buffered) \subseteq Arrived
        /\ KeysIn(ic.settled) \subseteq Arrived \cup {Loopback, Backspace}
    BY <1>3, SeenKeys
  <2>2. KeysIn(ic.settled) \subseteq Keys
    BY DEF KeysIn
  <2>3. Arrived \subseteq 1..pressed /\ {Loopback, Backspace} \cap Keys = {}
    BY <1>4 DEF Arrived, Loopback, Backspace, Keys
  <2> QED
    BY <2>1, <2>2, <2>3
<1>9. Rising(wire')
  <2>1. Before(KeysIn(wire), {k} \cap Keys)
    BY <1>5, <1>7 DEF Before
  <2> QED
    BY <1>2, <1>3, <1>5, <2>1, RisingQueue DEF OrderInv
<1>10. /\ Before(Served(ic), {k}) /\ Before(KeysIn(ic.buffered), {k})
       /\ Before(KeysIn(ic.settled), {k})
  BY <1>5, <1>8 DEF Before
<1>11. Orderly(ic, {}, KeysIn(wire) \cup {k})
  BY <1>10 DEF OrderInv, Orderly, Before
<1> QED
  BY <1>2, <1>6, <1>9, <1>11 DEF OrderInv

\* Steps of the user, of the desktop and of the worker that do not touch the context.
LEMMA OtherOrder ==
    ASSUME IInv, OrderInv,
           PressBackspace \/ Lose \/ DeliverElsewhere \/ Recover \/ UNCHANGED vars
    PROVE  OrderInv'
<1>1. ic' = ic
  BY DEF PressBackspace, Lose, DeliverElsewhere, Recover, vars
<1>2. \/ wire' = wire \/ wire' = Append(wire, Backspace)
      \/ wire # <<>> /\ wire' = Tail(wire)
  BY DEF PressBackspace, Lose, DeliverElsewhere, Recover, vars
<1>3. KeysIn(wire') \subseteq KeysIn(wire) /\ Rising(wire')
  BY <1>2, WireKeys DEF OrderInv
<1>4. Orderly(ic, {}, KeysIn(wire'))
  BY <1>3 DEF OrderInv, Orderly, Before
<1> QED
  BY <1>1, <1>3, <1>4 DEF OrderInv

\* What a step of the context itself keeps.
LEMMA HereOrder ==
    ASSUME OrderInv, wire' = wire \/ (KeysIn(wire') = KeysIn(wire) /\ Rising(wire')),
           Orderly(ic', {}, KeysIn(wire)), Waits(ic')
    PROVE  OrderInv'
BY DEF OrderInv

\* A context that another step left alike, or emptied.
LEMMA AlikeOrder ==
    ASSUME IInv, OrderInv, wire' = wire \/ (KeysIn(wire') = KeysIn(wire) /\ Rising(wire')),
           \/ ic' \in {Reset(ic), Expired(ic)}
           \/ /\ ic'.text = ic.text /\ ic'.viet = ic.viet /\ ic'.pending = ic.pending
              /\ ic'.oldWord = ic.oldWord /\ ic'.buffered = ic.buffered
              /\ ic'.settled = ic.settled /\ ic'.deleting = ic.deleting
              /\ ic'.expected = ic.expected /\ ic'.seen = ic.seen
              /\ ic'.replayTimer = ic.replayTimer
    PROVE  OrderInv'
<1>1. Orderly(ic, {}, KeysIn(wire)) /\ Waits(ic)
  BY DEF OrderInv
<1>2. CASE ic' \in {Reset(ic), Expired(ic)}
  <2>1. Emptied(ic') /\ ic'.text = ic.text /\ ic'.oldWord \in {ic.oldWord, <<>>}
    BY <1>2, Here, ResetEmpties
  <2>2. Orderly(ic', {}, KeysIn(wire)) /\ Waits(ic')
    BY <1>1, <2>1, EmptiedKeeps
  <2> QED
    BY <2>2, HereOrder
<1>3. CASE ic' \notin {Reset(ic), Expired(ic)}
  <2>1. /\ ic'.text = ic.text /\ ic'.viet = ic.viet /\ ic'.pending = ic.pending
        /\ ic'.oldWord = ic.oldWord /\ ic'.buffered = ic.buffered
        /\ ic'.settled = ic.settled /\ ic'.deleting = ic.deleting
        /\ ic'.expected = ic.expected /\ ic'.seen = ic.seen
        /\ ic'.replayTimer = ic.replayTimer
    BY <1>3
  <2>2. Orderly(ic', {}, KeysIn(wire))
    BY <1>1, <2>1, AlikeKeeps
  <2>3. Waits(ic')
    BY <1>1, <2>1 DEF Waits
  <2> QED
    BY <2>2, <2>3, HereOrder
<1> QED
  BY <1>2, <1>3

\* What a step of the worker, or of a timer that only watches, makes of the context.
LEMMA BatchSteps ==
    ASSUME IInv,
           \/ TakeBatch \/ Complete \/ TypeKey \/ TypeTail \/ Fail \/ GraceEnds
           \/ WatchRequest \/ SafetyExtends \/ CycleExpires
    PROVE  /\ wire' = wire \/ wire' = Append(wire, Loopback)
           /\ UNCHANGED <<app, focus, effect>>
           /\ used'.forced = used.forced /\ used'.eaten = used.eaten
           /\ \/ ic' \in {Reset(ic), Expired(ic)}
              \/ /\ ic'.text = ic.text /\ ic'.viet = ic.viet /\ ic'.pending = ic.pending
                 /\ ic'.deleting = ic.deleting /\ ic'.expected = ic.expected
                 /\ ic'.seen = ic.seen /\ ic'.oldWord = ic.oldWord
                 /\ ic'.disabled = ic.disabled /\ ic'.cycle = ic.cycle
                 /\ ic'.settling = ic.settling /\ ic'.safety = ic.safety
                 /\ ic'.settled = ic.settled /\ ic'.buffered = ic.buffered
                 /\ ic'.replayTimer = ic.replayTimer
<1>1. ic \in Context(Arrived)
  BY Here DEF Fine
<1>2. /\ UNCHANGED <<app, focus, effect>>
      /\ used'.forced = used.forced /\ used'.eaten = used.eaten
  <2>1. CASE Fail
    BY <2>1 DEF Fail, Use, IInv, TypeOK
  <2>2. CASE ~Fail
    BY <2>2
       DEF TakeBatch, Complete, TypeKey, TypeTail, GraceEnds, WatchRequest, SafetyExtends,
            CycleExpires, world
  <2> QED
    BY <2>1, <2>2
<1>3. wire' = wire \/ wire' = Append(wire, Loopback)
  BY DEF TakeBatch, Complete, TypeKey, TypeTail, Fail, GraceEnds, WatchRequest, SafetyExtends,
         CycleExpires, world
<1>4. PICK n : n = ic.left - 1
  OBVIOUS
<1>5. \/ ic' \in {Reset(ic), Expired(ic)}
      \/ \E x \in Tickets : ic' = [ic EXCEPT !.ticket = x]
      \/ ic' = [ic EXCEPT !.left = n]
      \/ ic' = [ic EXCEPT !.tail = FALSE]
      \/ ic' = [ic EXCEPT !.ticket = "Failed", !.left = 0]
      \/ ic' = [ic EXCEPT !.grace = FALSE]
      \/ ic' = [ic EXCEPT !.retried = TRUE]
  <2>1. TakeBatch \/ Complete => \E x \in Tickets : ic' = [ic EXCEPT !.ticket = x]
    BY DEF TakeBatch, Complete, Tickets
  <2>2. TypeKey => ic' = [ic EXCEPT !.left = n]
    BY <1>4 DEF TypeKey
  <2>3. /\ TypeTail => ic' = [ic EXCEPT !.tail = FALSE]
        /\ Fail => ic' = [ic EXCEPT !.ticket = "Failed", !.left = 0]
        /\ GraceEnds => ic' = [ic EXCEPT !.grace = FALSE]
    BY DEF TypeTail, Fail, GraceEnds
  <2>4. WatchRequest \/ CycleExpires => ic' \in {Reset(ic), Expired(ic)}
    BY DEF WatchRequest, CycleExpires, Abort, Expired
  <2>5. SafetyExtends => ic' = Reset(ic) \/ ic' = [ic EXCEPT !.retried = TRUE]
    BY DEF SafetyExtends
  <2> QED
    BY <2>1, <2>2, <2>3, <2>4, <2>5
<1> DEFINE Alike(y) ==
             /\ y.text = ic.text /\ y.viet = ic.viet /\ y.pending = ic.pending
             /\ y.deleting = ic.deleting /\ y.expected = ic.expected
             /\ y.seen = ic.seen /\ y.oldWord = ic.oldWord
             /\ y.disabled = ic.disabled /\ y.cycle = ic.cycle
             /\ y.settling = ic.settling /\ y.safety = ic.safety
             /\ y.settled = ic.settled /\ y.buffered = ic.buffered
             /\ y.replayTimer = ic.replayTimer
<1>6. ic' \in {Reset(ic), Expired(ic)} \/ Alike(ic')
  <2>1. \A x : Alike([ic EXCEPT !.ticket = x])
    BY <1>1 DEF Context
  <2>2. Alike([ic EXCEPT !.left = n])
    BY <1>1 DEF Context
  <2>3. Alike([ic EXCEPT !.tail = FALSE])
    BY <1>1 DEF Context
  <2>4. Alike([ic EXCEPT !.ticket = "Failed", !.left = 0])
    BY <1>1 DEF Context
  <2>5. Alike([ic EXCEPT !.grace = FALSE])
    BY <1>1 DEF Context
  <2>6. Alike([ic EXCEPT !.retried = TRUE])
    BY <1>1 DEF Context
  <2> HIDE DEF Alike
  <2> QED
    BY <1>5, <2>1, <2>2, <2>3, <2>4, <2>5, <2>6
<1> QED
  BY <1>2, <1>3, <1>6

\* Steps of the worker, and timers that only watch.
LEMMA BatchOrder ==
    ASSUME IInv, OrderInv,
           \/ TakeBatch \/ Complete \/ TypeKey \/ TypeTail \/ Fail \/ GraceEnds
           \/ WatchRequest \/ SafetyExtends \/ CycleExpires
    PROVE  OrderInv'
<1>1. wire' = wire \/ (KeysIn(wire') = KeysIn(wire) /\ Rising(wire'))
  BY BatchSteps, WireKeys
<1> QED
  BY <1>1, BatchSteps, AlikeOrder

\* A key that comes is served, or joins those that wait.
LEMMA DeliverOrder ==
    ASSUME IInv, OrderInv, NEW eaten \in BOOLEAN, Deliver(eaten)
    PROVE  /\ OrderInv'
           /\ ~eaten /\ Tracks(ic) /\ Clean(ic) => Clean(ic')
<1>1. PICK h : h = Head(wire)
  OBVIOUS
<1>2. PICK C : C = KeysIn(wire')
  OBVIOUS
<1>3. /\ wire # <<>> /\ wire' = Tail(wire) /\ ic' = KeyEvent(ic, h, FALSE, eaten)
      /\ UNCHANGED <<effect, pressed>>
  BY <1>1 DEF Deliver
<1>4. used'.backspaces = used.backspaces
  BY DEF Deliver, Use, IInv, TypeOK
<1>5. /\ Arrived' \subseteq Keys /\ h \in Arrived' \cup {Loopback, Backspace}
      /\ Came' - Pays(h) \in Int /\ Spare' - Weighs(h) \in Int
      /\ ic \in Fine(Arrived', Came' - Pays(h), Spare' - Weighs(h))
  BY <1>1, <1>3, <1>4, ArrivesFine
<1>6. PICK K, b, w : K = Arrived' /\ b = Came' - Pays(h) /\ w = Spare' - Weighs(h)
  OBVIOUS
<1>7. /\ K \subseteq Keys /\ h \in K \cup {Loopback, Backspace} /\ b \in Int /\ w \in Int
      /\ ic \in Fine(K, b, w) /\ Env
  BY <1>5, <1>6, Here
<1>8. /\ KeysIn(wire) = ({h} \cap Keys) \cup C /\ Rising(wire')
      /\ Before({h} \cap Keys, C)
  BY <1>1, <1>2, <1>3, WireKeys
<1>9. Due(ic, h, FALSE, C) /\ Waits(ic) /\ FALSE \in BOOLEAN
  BY <1>8 DEF OrderInv, Due
<1>10. PICK t : t = KeyEvent(ic, h, FALSE, eaten)
  OBVIOUS
<1>11. Orderly(t, {}, C) /\ Waits(t) /\ (~eaten /\ Tracks(ic) /\ Clean(ic) => Clean(t))
  BY ONLY <1>7, <1>9, <1>10, eaten \in BOOLEAN, KeyEventKeeps
<1>12. ic' = t
  BY <1>3, <1>10
<1> QED
  BY <1>2, <1>8, <1>11, <1>12 DEF OrderInv

\* The focus goes, or comes.
LEMMA FocusOrder ==
    ASSUME IInv, OrderInv, Deactivate \/ CycleBegins \/ Activate \/ CycleEnds
    PROVE  /\ OrderInv'
           /\ (ic.disabled => app = "page" /\ focus # "here") /\ Tracks(ic) /\ Clean(ic)
                  => Clean(ic')
<1>1. Env /\ ic \in Fine(Arrived, Came, Spare) /\ ic \in Context(Arrived)
      /\ Arrived \subseteq Keys /\ Came \in Int /\ Spare \in Int /\ Spare <= Came
  BY Here DEF Fine
<1>2. Orderly(ic, {}, KeysIn(wire)) /\ Waits(ic) /\ wire' = wire
  BY DEF OrderInv, Deactivate, CycleBegins, Activate, CycleEnds
<1>3. CASE Deactivate \/ CycleBegins
  <2>1. PICK d \in BOOLEAN : d = (app = "page")
    OBVIOUS
  <2>2. PICK x : x = [ic EXCEPT !.disabled = d]
    OBVIOUS
  <2>3. ic' = Leave(x)
    BY <1>3, <2>1, <2>2 DEF Deactivate, CycleBegins
  <2>4. /\ x \in Context(Arrived) /\ x.disabled = d /\ x.text = ic.text /\ x.viet = ic.viet
        /\ x.pending = ic.pending /\ x.deleting = ic.deleting /\ x.expected = ic.expected
        /\ x.seen = ic.seen /\ x.oldWord = ic.oldWord /\ x.buffered = ic.buffered
        /\ x.settled = ic.settled /\ x.replayTimer = ic.replayTimer
    BY ONLY ZenonT(60), <1>1, <2>1, <2>2 DEF Context
  <2>5. Agrees(ic, x)
    BY <1>1, <2>2 DEF Context, Agrees
  <2>6. x \in Fine(Arrived, Came, Spare)
    BY <1>1, <2>4, <2>5, AgreeFine
  <2>7. Orderly(x, {}, KeysIn(wire)) /\ Waits(x) /\ Shown(x) = Shown(ic)
        /\ Tracks(x) = Tracks(ic)
    <3>1. Orderly(x, {}, KeysIn(wire)) /\ Shown(x) = Shown(ic)
      BY <1>2, <2>4, AlikeKeeps
    <3>2. Tracks(x) = Tracks(ic)
      BY <2>4, TracksSame
    <3> QED
      BY <1>2, <2>4, <3>1, <3>2 DEF Waits
  <2>8. Clean(ic) => Clean(x)
    BY <2>4, <2>7 DEF Clean, Replaced, Idle
  <2>9. PICK r : r = Leave(x)
    OBVIOUS
  <2>10. PICK C : C = KeysIn(wire)
    OBVIOUS
  <2>11. /\ Orderly(r, {}, C) /\ Waits(r)
         /\ Tracks(x) /\ Clean(x) /\ (x.disabled => app = "page") => Clean(r)
    BY <1>1, <2>6, <2>7, <2>9, <2>10, FocusLeaves
  <2>12. OrderInv'
    BY <1>2, <2>3, <2>9, <2>10, <2>11, HereOrder
  <2> QED
    BY <2>1, <2>3, <2>4, <2>7, <2>8, <2>9, <2>11, <2>12
<1>4. CASE Activate \/ CycleEnds
  <2>1. ic' \in {Return(ic), ResetPage(Return(ic))}
    BY <1>4 DEF Activate, CycleEnds
  <2>2. Orderly(ic', {}, KeysIn(wire)) /\ Waits(ic') /\ (Clean(ic) => Clean(ic'))
    BY <1>1, <1>2, <2>1, FocusReturns DEF Env
  <2> QED
    BY <1>2, <2>2, HereOrder
<1> QED
  BY <1>3, <1>4

\* The end of a settle, of a pause of the replay, and of the patience with the loopbacks.
LEMMA TimerOrder ==
    ASSUME IInv, OrderInv, SettleFires \/ ReplayFires \/ SafetyForces
    PROVE  /\ OrderInv'
           /\ ~SafetyForces /\ Current(ic) /\ Clean(ic) => Clean(ic')
           /\ SettleFires /\ Current(ic) /\ Clean(ic) => Tracks(ic')
<1>1. Env /\ ic \in Fine(Arrived, Came, Spare) /\ ic \in Context(Arrived)
      /\ Arrived \subseteq Keys /\ Came \in Int /\ Spare \in Int /\ Spare <= Came
  BY Here DEF Fine
<1>2. Orderly(ic, {}, KeysIn(wire)) /\ Waits(ic) /\ wire' = wire
  BY DEF OrderInv, SettleFires, ReplayFires, SafetyForces
<1>3. CASE SettleFires
  <2>1. PICK missed \in BOOLEAN : ic' = FinishSettle(ic, missed)
    BY <1>3 DEF SettleFires
  <2>2. PICK C : C = KeysIn(wire)
    OBVIOUS
  <2>3. ic.settling /\ ic.deleting
    BY <1>3 DEF SettleFires
  <2>4. PICK u : u = FinishSettle(ic, missed)
    OBVIOUS
  <2>5. /\ Orderly(u, {}, C) /\ Waits(u)
        /\ Current(ic) /\ Clean(ic) => Tracks(u) /\ Clean(u)
    BY <1>1, <1>2, <2>2, <2>3, <2>4, FinishSettleClean
  <2>6. OrderInv'
    BY <1>2, <2>1, <2>2, <2>4, <2>5, HereOrder
  <2> QED
    BY <2>1, <2>4, <2>5, <2>6
<1>4. CASE ReplayFires
  <2>1. PICK n \in BOOLEAN : n = FALSE
    OBVIOUS
  <2>2. PICK x : x = [ic EXCEPT !.replayTimer = n]
    OBVIOUS
  <2>3. ic.replayTimer /\ ic' = ReplayBuffered(x)
    BY <1>4, <2>1, <2>2 DEF ReplayFires
  <2>4. x \in Fine(Arrived, Came, Spare) /\ ~x.replayTimer
    BY <1>1, <2>1, <2>2, TimerFine
  <2>5. /\ x.text = ic.text /\ x.viet = ic.viet
        /\ x.pending = ic.pending /\ x.deleting = ic.deleting /\ x.expected = ic.expected
        /\ x.seen = ic.seen /\ x.oldWord = ic.oldWord /\ x.buffered = ic.buffered
        /\ x.settled = ic.settled /\ x.disabled = ic.disabled
    BY ONLY ZenonT(60), <1>1, <2>2 DEF Context
  <2>6. PICK C : C = KeysIn(wire)
    OBVIOUS
  <2>7. /\ Orderly(x, {}, C) /\ (Replaced(ic) <=> Replaced(x))
        /\ Clean(ic) /\ Replaced(ic) => Clean(x)
    BY <1>2, <2>5, <2>6, AlikeKeeps
  <2>8. Clean(ic) => Replaced(ic)
    BY <2>3 DEF Clean, Idle
  <2>9. Current(ic) => Current(x)
    <3>1. Tracks(x) = Tracks(ic)
      BY <2>5, TracksSame
    <3> QED
      BY <2>5, <3>1 DEF Current
  <2>10. PICK u : u = ReplayBuffered(x)
    OBVIOUS
  <2>11. /\ Orderly(u, {}, C) /\ Waits(u)
         /\ Current(x) /\ Clean(x) /\ Replaced(x) => Clean(u)
    BY <1>1, <2>4, <2>7, <2>10, ReplayBufferedKeeps
  <2>12. OrderInv'
    BY <1>2, <2>3, <2>6, <2>10, <2>11, HereOrder
  <2>13. Current(ic) /\ Clean(ic) => Clean(ic')
    BY <2>3, <2>7, <2>8, <2>9, <2>10, <2>11
  <2>14. ~SettleFires
    <3>1. ~ic.deleting
      BY <1>1, <2>3 DEF Fine, BatchInv
    <3> QED
      BY <3>1 DEF SettleFires
  <2> QED
    BY <2>12, <2>13, <2>14
<1>5. CASE SafetyForces
  <2>1. ic.safety /\ ~StillTyping(ic) /\ ic.ticket # "Failed" /\ ic' = ForceCommit(ic)
    BY <1>5 DEF SafetyForces
  <2>2. PICK C : C = KeysIn(wire)
    OBVIOUS
  <2>3. Orderly(ic', {}, C) /\ Waits(ic')
    BY <1>1, <1>2, <2>1, <2>2, ForceCommitKeeps
  <2>4. OrderInv'
    BY <1>2, <2>2, <2>3, HereOrder
  <2>5. ~SettleFires
    <3>1. ~ic.settling
      BY <1>1, <2>1 DEF Fine, BatchInv
    <3> QED
      BY <3>1 DEF SettleFires
  <2> QED
    BY <1>5, <2>4, <2>5
<1> QED
  BY <1>3, <1>4, <1>5

\* Every step keeps the keys in the order in which they were pressed.
LEMMA OrderStep ==
    ASSUME IInv, OrderInv, [Next]_vars
    PROVE  OrderInv'
<1>1. ASSUME NEW eaten \in BOOLEAN, Deliver(eaten) PROVE OrderInv'
  BY <1>1, DeliverOrder
<1> QED
  BY <1>1, PressKeyOrder, OtherOrder, BatchOrder, FocusOrder, TimerOrder
  DEF Next, Desktop, User, Injector, Timers

---------------------------------------------------------------------------
(* The steps, and the screen.                                              *)

\* A clean context stays so while the keys keep their effects.
LEMMA CleanNext ==
    ASSUME effect' = effect, Clean(ic')
    PROVE  Clean(ic)'
BY DEF Clean, Neat, InOrder, Replaced, Shown, Idle

\* A step that shows the word as it was shown, and neither disables the context nor takes
\* from a page what waits for it.
LEMMA Steady ==
    ASSUME TrackInv, UNCHANGED <<app, focus, effect>>, used'.forced = used.forced,
           used'.eaten = used.eaten,
           ic'.disabled => ic.disabled, Parked(ic) => Parked(ic'),
           Tracks(ic) /\ Clean(ic) => Tracks(ic') /\ Clean(ic')
    PROVE  TrackInv'
BY CleanNext DEF TrackInv

\* So one that leaves alone what is compared with the screen.
LEMMA Untouched ==
    ASSUME TrackInv, UNCHANGED <<app, focus, effect>>, used'.forced = used.forced,
           used'.eaten = used.eaten,
           ic'.text = ic.text, ic'.viet = ic.viet, ic'.pending = ic.pending,
           ic'.deleting = ic.deleting, ic'.expected = ic.expected, ic'.seen = ic.seen,
           ic'.oldWord = ic.oldWord,
           ic'.disabled = ic.disabled, ic'.cycle = ic.cycle, ic'.settling = ic.settling,
           ic'.safety = ic.safety, ic'.settled = ic.settled, ic'.buffered = ic.buffered,
           ic'.replayTimer = ic.replayTimer
    PROVE  TrackInv'
<1>1. Tracks(ic') = Tracks(ic) /\ Shown(ic') = Shown(ic)
  BY TracksSame
<1>2. Parked(ic) => Parked(ic')
  BY DEF Parked, Quiet
<1>3. Clean(ic) => Clean(ic')
  BY <1>1 DEF Clean, Replaced, Idle
<1> QED
  BY <1>1, <1>2, <1>3, Steady

\* And one that forgets the word.
LEMMA GoneTracks ==
    ASSUME IInv, TrackInv, UNCHANGED <<app, focus, effect>>, used'.forced = used.forced,
           used'.eaten = used.eaten, ic' \in {Reset(ic), Expired(ic)}
    PROVE  TrackInv'
<1>1. Env /\ ic \in Fine(Arrived, Came, Spare) /\ Came \in Int /\ Spare \in Int
  BY Here
<1>2. Tracks(ic') /\ Parked(ic')
  BY <1>1, ResetParks DEF Env
<1>3. (Reset(ic).disabled <=> ic.disabled) /\ (Expired(ic).disabled <=> ic.disabled)
  BY <1>1, ResetFine, ExpiredFine DEF Env
<1>4. Emptied(ic') /\ ic'.text = ic.text
  BY <1>1, ResetEmpties
<1>5. Clean(ic) => Clean(ic')
  BY <1>4, CleanEmptied
<1> QED
  BY <1>2, <1>3, <1>5, Steady

\* An event that is counted, and neither eats a Backspace nor forces a commit.
LEMMA NotForced ==
    ASSUME IInv, NEW e \in {"backspaces", "lost", "fails", "leaves"}, Use(e)
    PROVE  used'.forced = used.forced /\ used'.eaten = used.eaten
BY DEF IInv, TypeOK, Use

\* There is no word yet.
LEMMA InitTracks ==
    ASSUME Init
    PROVE  TrackInv
<1>1. /\ ic.viet = <<>> /\ ic.disabled = FALSE /\ focus = "here" /\ ic.text = <<>>
      /\ ic.oldWord = <<>> /\ ic.deleting = FALSE
  BY DEF Init
<1>2. ic \in Context(Arrived) /\ ic.seen <= ic.expected
  BY InitInv DEF IInv, TypeOK, KeyInv
<1>3. Tracks(ic)
  BY <1>1, <1>2, Forgotten
<1>4. Clean(ic)
  <2>1. Neat(<<>>)
    BY DEF Neat, InOrder
  <2>2. Shown(ic) = <<>>
    BY <1>1 DEF Shown
  <2> QED
    BY <1>1, <2>1, <2>2 DEF Clean, Replaced
<1> QED
  BY <1>1, <1>3, <1>4 DEF TrackInv

\* A key that is pressed has an effect that no key on the screen has yet.
LEMMA PressKeyTracks ==
    ASSUME IInv, TrackInv, PressKey
    PROVE  TrackInv'
<1>1. /\ ic' = ic /\ UNCHANGED <<app, focus, used>>
      /\ effect' \in {[effect EXCEPT ![pressed + 1] = f] : f \in Effects}
  BY DEF PressKey
<1>2. ic \in Context(Arrived) /\ pressed \in Nat /\ ic.seen <= ic.expected
      /\ effect \in [Keys -> Effects]
  BY ReplacementAssumption DEF IInv, TypeOK, KeyInv
<1>3. \A k \in Arrived : effect'[k] = effect[k]
  <2>1. Arrived \subseteq Keys /\ \A k \in Arrived : k # pressed + 1
    BY <1>2, Here DEF Arrived
  <2> QED
    BY <1>1, <1>2, <2>1
<1>4. PICK K : K = Arrived
  OBVIOUS
<1>5. PICK x, y : x = ic.text /\ y = Shown(ic)
  OBVIOUS
<1>6. x \in Seq(Glyphs(K)) /\ y \in Seq(Glyphs(K))
  BY <1>2, <1>4, <1>5, Typed, TracksIs
<1>7. /\ \A n \in DOMAIN x : x[n] \subseteq K
      /\ \A n \in DOMAIN y : y[n] \subseteq K
  BY <1>6 DEF Glyphs
<1>8. Clean(ic) => Clean(ic)'
  <2>1. ASSUME Neat(x) PROVE Neat(x)'
    BY <1>3, <1>4, <1>7, <2>1 DEF Neat, InOrder
  <2>2. ASSUME Neat(y) PROVE Neat(y)'
    BY <1>3, <1>4, <1>7, <2>2 DEF Neat, InOrder
  <2>3. Neat(ic.text) /\ Neat(Shown(ic)) => Neat(ic.text)' /\ Neat(Shown(ic))'
    <3>1. ic'.text = x /\ Shown(ic') = y
      BY <1>1, <1>5
    <3>2. Neat(x)' => Neat(ic.text)'
      BY <3>1 DEF Neat, InOrder
    <3>3. Neat(y)' => Neat(Shown(ic))'
      BY <3>1 DEF Neat, InOrder
    <3> QED
      BY <1>5, <2>1, <2>2, <3>2, <3>3
  <2>4. Replaced(ic) \/ Idle(ic) => Replaced(ic)' \/ Idle(ic)'
    BY <1>1
  <2> QED
    BY <2>3, <2>4 DEF Clean
<1> QED
  BY <1>1, <1>8 DEF TrackInv

\* Other steps of the user, of the desktop and of the worker that do not touch the context.
LEMMA OtherTracks ==
    ASSUME IInv, TrackInv,
           PressBackspace \/ Lose \/ DeliverElsewhere \/ Recover \/ UNCHANGED vars
    PROVE  TrackInv'
<1>1. ic' = ic /\ UNCHANGED <<app, focus, effect>>
  BY DEF PressBackspace, Lose, DeliverElsewhere, Recover, vars, world
<1>2. used'.forced = used.forced /\ used'.eaten = used.eaten
  <2>1. CASE PressBackspace \/ Lose
    BY <2>1, NotForced DEF PressBackspace, Lose
  <2>2. CASE DeliverElsewhere \/ Recover \/ UNCHANGED vars
    BY <2>2 DEF DeliverElsewhere, Recover, vars, world
  <2> QED
    BY <2>1, <2>2
<1> QED
  BY <1>1, <1>2, Steady

\* Steps of the worker, and timers that only watch.
LEMMA BatchTracks ==
    ASSUME IInv, TrackInv,
           \/ TakeBatch \/ Complete \/ TypeKey \/ TypeTail \/ Fail \/ GraceEnds
           \/ WatchRequest \/ SafetyExtends \/ CycleExpires
    PROVE  TrackInv'
<1>1. CASE ic' \in {Reset(ic), Expired(ic)}
  BY <1>1, BatchSteps, GoneTracks
<1>2. CASE ic' \notin {Reset(ic), Expired(ic)}
  <2>1. /\ ic'.text = ic.text /\ ic'.viet = ic.viet /\ ic'.pending = ic.pending
        /\ ic'.deleting = ic.deleting /\ ic'.expected = ic.expected
        /\ ic'.seen = ic.seen /\ ic'.oldWord = ic.oldWord
        /\ ic'.disabled = ic.disabled /\ ic'.cycle = ic.cycle
        /\ ic'.settling = ic.settling /\ ic'.safety = ic.safety
        /\ ic'.settled = ic.settled /\ ic'.buffered = ic.buffered
        /\ ic'.replayTimer = ic.replayTimer
    BY <1>2, BatchSteps
  <2>2. /\ UNCHANGED <<app, focus, effect>>
        /\ used'.forced = used.forced /\ used'.eaten = used.eaten
    BY BatchSteps
  <2> QED
    BY ONLY TrackInv, <2>1, <2>2, Untouched
<1> QED
  BY <1>1, <1>2

\* A key that comes.
LEMMA DeliverTracks ==
    ASSUME IInv, OrderInv, TrackInv, NEW eaten \in BOOLEAN, Deliver(eaten)
    PROVE  TrackInv'
<1>1. PICK h : h = Head(wire)
  OBVIOUS
<1>2. /\ wire # <<>> /\ wire' = Tail(wire) /\ focus = "here"
      /\ ic' = KeyEvent(ic, h, FALSE, eaten)
      /\ UNCHANGED <<app, effect, again, pressed, ready, focus>>
  BY <1>1 DEF Deliver
<1>3. /\ used'.backspaces = used.backspaces /\ used'.forced = used.forced
      /\ eaten => used'.eaten # 0
      /\ ~eaten => used'.eaten = used.eaten
  BY DEF Deliver, Use, IInv, TypeOK
<1>4. SUFFICES ASSUME used'.eaten = 0, used'.forced = 0
               PROVE  TrackInv'
  BY DEF TrackInv
<1>5. ~eaten /\ Tracks(ic) /\ Clean(ic) /\ ~ic.disabled
  BY <1>2, <1>3, <1>4 DEF TrackInv
<1>6. Clean(ic')
  BY <1>5, DeliverOrder
<1>7. /\ Arrived' \subseteq Keys /\ h \in Arrived' \cup {Loopback, Backspace}
      /\ Came' \in Int /\ Spare' \in Int /\ Spare' <= Came'
      /\ Came' - Pays(h) \in Int /\ Spare' - Weighs(h) \in Int
      /\ ic \in Fine(Arrived', Came' - Pays(h), Spare' - Weighs(h))
  BY <1>1, <1>2, <1>3, ArrivesFine
<1>8. Env
  BY Here
<1>9. PICK u : u = KeyEvent(ic, h, FALSE, FALSE)
  OBVIOUS
<1>10. ic' = u
  BY <1>2, <1>5, <1>9
<1>11. Tracks(u)
  BY <1>5, <1>7, <1>8, <1>9, KeyEventTracks
<1>12. ~u.disabled
  <2>1. Takes(ic, u, h)
    BY <1>7, <1>8, <1>9, KeyEventTakes
  <2> QED
    BY <1>5, <2>1 DEF Takes
<1>13. Clean(ic)'
  BY <1>2, <1>6, CleanNext
<1> QED
  BY <1>2, <1>10, <1>11, <1>12, <1>13 DEF TrackInv

\* The focus goes: a page is disabled.
LEMMA LeftTracks ==
    ASSUME IInv, OrderInv, TrackInv, Deactivate \/ CycleBegins
    PROVE  TrackInv'
<1>1. /\ focus = "here" /\ ic' = Leave([ic EXCEPT !.disabled = app = "page"])
      /\ focus' \in {"away", "cycle"} /\ Use("leaves") /\ app' = app /\ effect' = effect
  BY DEF Deactivate, CycleBegins
<1>2. used'.forced = used.forced /\ used'.eaten = used.eaten
  BY <1>1, NotForced
<1>3. SUFFICES ASSUME used.eaten = 0, used.forced = 0
               PROVE  Tracks(ic') /\ Parked(ic') /\ (ic'.disabled => app = "page")
  <2>1. used.eaten = 0 /\ used.forced = 0 => Clean(ic')
    BY FocusOrder DEF TrackInv
  <2> QED
    BY <1>1, <1>2, <2>1, CleanNext DEF TrackInv
<1>4. Env /\ ic \in Fine(Arrived, Came, Spare) /\ ic \in Context(Arrived)
      /\ Arrived \subseteq Keys /\ Came \in Int /\ Spare \in Int /\ Spare <= Came
  BY Here DEF Fine
<1>5. Tracks(ic) /\ ~ic.cycle
  BY <1>1, <1>3 DEF TrackInv, IInv, FocusInv
<1>6. PICK d \in BOOLEAN : d = (app = "page")
  OBVIOUS
<1>7. PICK x : x = [ic EXCEPT !.disabled = d]
  OBVIOUS
<1>8. ic' = Leave(x)
  BY <1>1, <1>6, <1>7
<1>9. /\ x \in Context(Arrived) /\ x.disabled = d /\ x.text = ic.text /\ x.viet = ic.viet
      /\ x.pending = ic.pending /\ x.deleting = ic.deleting /\ x.expected = ic.expected
      /\ x.seen = ic.seen /\ x.cycle = ic.cycle
  BY ONLY ZenonT(60), <1>4, <1>6, <1>7 DEF Context
<1>10. Agrees(ic, x)
  BY <1>4, <1>7 DEF Context, Agrees
<1>11. x \in Fine(Arrived, Came, Spare)
  BY <1>4, <1>9, <1>10, AgreeFine
<1>12. Tracks(x)
  BY <1>5, <1>9, TracksSame
<1>13. ~x.cycle /\ (x.disabled => app = "page")
  BY <1>5, <1>6, <1>9
<1>14. Tracks(Leave(x)) /\ Parked(Leave(x))
  BY <1>4, <1>11, <1>12, <1>13, LeaveTracks
<1>15. Leave(x).disabled <=> x.disabled
  BY <1>4, <1>11, <1>13, LeaveFine
<1> QED
  BY <1>8, <1>13, <1>14, <1>15

\* The focus comes: what waited finds the context enabled.
LEMMA CameTracks ==
    ASSUME IInv, OrderInv, TrackInv, Activate \/ CycleEnds
    PROVE  TrackInv'
<1>1. /\ ic' \in {Return(ic), ResetPage(Return(ic))}
      /\ focus' = "here" /\ UNCHANGED <<app, used, effect>>
  BY DEF Activate, CycleEnds
<1>2. SUFFICES ASSUME used.eaten = 0, used.forced = 0
               PROVE  TrackInv'
  BY <1>1 DEF TrackInv
<1>3. Env /\ ic \in Fine(Arrived, Came, Spare) /\ Came \in Int /\ Spare \in Int
  BY Here
<1>4. Tracks(ic) /\ Clean(ic) /\ (ic.disabled => app = "page" /\ focus # "here")
  BY <1>2 DEF TrackInv
<1>5. Current(Return(ic)) /\ Current(ResetPage(Return(ic)))
  BY <1>3, <1>4, ReturnTracks DEF Env
<1>6. Clean(ic')
  BY <1>4, FocusOrder
<1> QED
  BY <1>1, <1>5, <1>6, CleanNext DEF Current, TrackInv

\* While a page is away its settle waits; any other commits what is pending.
LEMMA SettleTracks ==
    ASSUME IInv, OrderInv, TrackInv, SettleFires
    PROVE  TrackInv'
<1>1. Env /\ ic \in Fine(Arrived, Came, Spare) /\ Came \in Int /\ Spare \in Int
      /\ Spare <= Came /\ Arrived \subseteq Keys
  BY Here
<1>2. PICK missed \in BOOLEAN : ic' = FinishSettle(ic, missed)
  BY DEF SettleFires
<1>3. ic.settling /\ ic.deleting /\ UNCHANGED <<app, focus, used, effect>>
  BY DEF SettleFires, world
<1>4. SUFFICES ASSUME used.eaten = 0, used.forced = 0
               PROVE  TrackInv'
  BY <1>3 DEF TrackInv
<1>5. CASE app = "page" /\ focus # "here"
  <2>1. ic.cycle
    BY <1>3, <1>4, <1>5 DEF TrackInv, Parked, Quiet
  <2>2. ic' = Reset(ic) \/ ic' = ic
    BY <1>2, <1>5, <2>1 DEF FinishSettle, AwaitsReturn
  <2>3. CASE ic' = Reset(ic)
    BY <1>3, <2>3, GoneTracks
  <2>4. CASE ic' = ic
    BY <1>3, <2>4, Steady
  <2> QED
    BY <2>2, <2>3, <2>4
<1>6. CASE ~(app = "page" /\ focus # "here")
  <2>1. Current(ic) /\ Clean(ic)
    BY <1>4, <1>6 DEF TrackInv, Current
  <2>2. Tracks(ic') /\ Clean(ic')
    <3>1. ~SafetyForces
      <4>1. ~ic.safety
        BY <1>1, <1>3 DEF Fine, BatchInv
      <4> QED
        BY <4>1 DEF SafetyForces
    <3> QED
      BY <2>1, <3>1, TimerOrder
  <2>3. ic'.disabled <=> ic.disabled
    <3>1. Leads(ic, FinishSettle(ic, missed))
      BY <1>1, <1>3, FinishSettleFine
    <3> QED
      BY <1>2, <3>1 DEF Leads
  <2>4. Clean(ic)'
    BY <1>3, <2>2, CleanNext
  <2> QED
    BY <1>3, <1>6, <2>1, <2>2, <2>3, <2>4 DEF TrackInv, Current
<1> QED
  BY <1>5, <1>6

\* A page that is away has nothing to replay.
LEMMA ReplayTracks ==
    ASSUME IInv, OrderInv, TrackInv, ReplayFires
    PROVE  TrackInv'
<1>1. Env /\ ic \in Fine(Arrived, Came, Spare) /\ Came \in Int /\ Spare \in Int
      /\ Spare <= Came /\ Arrived \subseteq Keys /\ ic \in Context(Arrived) /\ BatchInv(ic)
  BY Here DEF Fine
<1>2. ic.replayTimer /\ UNCHANGED <<app, focus, used, effect>>
      /\ ic' = ReplayBuffered([ic EXCEPT !.replayTimer = FALSE])
  BY DEF ReplayFires, world
<1>3. SUFFICES ASSUME used.eaten = 0, used.forced = 0
               PROVE  TrackInv'
  BY <1>2 DEF TrackInv
<1>4. ~(app = "page" /\ focus # "here")
  BY <1>1, <1>2, <1>3 DEF TrackInv, Parked, BatchInv
<1>5. Current(ic) /\ Clean(ic)
  BY <1>3, <1>4 DEF TrackInv, Current
<1>6. PICK n \in BOOLEAN : n = FALSE
  OBVIOUS
<1>7. PICK x : x = [ic EXCEPT !.replayTimer = n]
  OBVIOUS
<1>8. PICK u : u = ReplayBuffered(x)
  OBVIOUS
<1>9. ic' = u
  BY <1>2, <1>6, <1>7, <1>8
<1>10. x \in Fine(Arrived, Came, Spare) /\ ~x.replayTimer
  BY <1>1, <1>2, <1>6, <1>7, TimerFine
<1>11. /\ x.text = ic.text /\ x.viet = ic.viet /\ x.pending = ic.pending
       /\ x.deleting = ic.deleting /\ x.expected = ic.expected /\ x.seen = ic.seen
       /\ x.disabled = ic.disabled
  BY ONLY ZenonT(60), <1>1, <1>7 DEF Context
<1>12. Current(x)
  <2>1. Tracks(x) = Tracks(ic)
    BY <1>11, TracksSame
  <2> QED
    BY <1>5, <1>11, <2>1 DEF Current
<1>13. Tracks(u)
  BY <1>1, <1>8, <1>10, <1>12, ReplayBufferedTracks
<1>14. ~u.disabled
  <2>1. Leads(x, u)
    BY <1>1, <1>8, <1>10, ReplayBufferedFine
  <2> QED
    BY <1>12, <2>1 DEF Leads, Current
<1>15. Clean(ic)'
  <2>1. ~SafetyForces
    <3>1. ~ic.safety
      BY <1>1, <1>2 DEF BatchInv
    <3> QED
      BY <3>1 DEF SafetyForces
  <2>2. Clean(ic')
    BY <1>5, <2>1, TimerOrder
  <2> QED
    BY <1>2, <2>2, CleanNext
<1> QED
  BY <1>2, <1>4, <1>9, <1>13, <1>14, <1>15 DEF TrackInv

\* A commit that was forced ends what is promised.
LEMMA ForcedTracks ==
    ASSUME IInv, SafetyForces
    PROVE  TrackInv'
<1>1. used.forced \in Nat /\ used'.forced = used.forced + 1
  BY DEF IInv, TypeOK, SafetyForces, Use
<1>2. used'.forced # 0
  BY <1>1
<1> QED
  BY <1>2 DEF TrackInv

\* Every step keeps the screen on the word.
LEMMA TrackStep ==
    ASSUME IInv, OrderInv, TrackInv, [Next]_vars
    PROVE  TrackInv'
<1>1. ASSUME NEW eaten \in BOOLEAN, Deliver(eaten) PROVE TrackInv'
  BY <1>1, DeliverTracks
<1> QED
  BY <1>1, PressKeyTracks, OtherTracks, BatchTracks, LeftTracks, CameTracks, SettleTracks,
     ReplayTracks, ForcedTracks
  DEF Next, Desktop, User, Injector, Timers

\* The queue q holds the keys of two others, in order.
Joins(q, x, y) == Rising(q) /\ KeysIn(q) = KeysIn(x) \cup KeysIn(y)

\* So do queues in order, one after the other, where the first is older.
LEMMA RisingJoined ==
    ASSUME NEW S, NEW x \in Seq(S), NEW y \in Seq(S), Rising(x), Rising(y),
           Before(KeysIn(x), KeysIn(y)), NEW q, q = x \o y
    PROVE  Joins(q, x, y)
<1>1. PICK a, b : a = Len(x) /\ b = Len(y)
  OBVIOUS
<1>2. /\ q \in Seq(S) /\ DOMAIN q = 1..(a + b) /\ a \in Nat /\ b \in Nat
      /\ DOMAIN x = 1..a /\ DOMAIN y = 1..b
      /\ \A n \in 1..a : q[n] = x[n]
      /\ \A n \in (a + 1)..(a + b) : q[n] = y[n - a]
  BY <1>1, Joined
<1>3. \A n \in 1..(a + b) : n \in 1..a \/ (n \in (a + 1)..(a + b) /\ n - a \in 1..b)
  BY <1>2
<1>4. ASSUME NEW m \in 1..(a + b), NEW n \in 1..(a + b), m < n, {q[m], q[n]} \subseteq Keys
      PROVE  q[m] < q[n]
  <2>1. CASE n \in 1..a
    <3>1. m \in 1..a
      BY <1>2, <1>4, <2>1
    <3> QED
      BY <1>2, <1>4, <2>1, <3>1 DEF Rising
  <2>2. CASE n \notin 1..a
    <3>1. n \in (a + 1)..(a + b) /\ n - a \in 1..b
      BY <1>3, <2>2
    <3>2. CASE m \in 1..a
      <4>1. q[m] \in KeysIn(x) /\ q[n] \in KeysIn(y)
        BY <1>2, <1>4, <3>1, <3>2 DEF KeysIn
      <4> QED
        BY <4>1 DEF Before
    <3>3. CASE m \notin 1..a
      <4>1. m \in (a + 1)..(a + b) /\ m - a \in 1..b
        BY <1>3, <3>3
      <4>2. m - a < n - a
        BY <1>2, <1>4
      <4>3. q[m] = y[m - a] /\ q[n] = y[n - a]
        BY <1>2, <3>1, <4>1
      <4> QED
        BY <1>2, <1>4, <3>1, <4>1, <4>2, <4>3 DEF Rising
    <3> QED
      BY <3>2, <3>3
  <2> QED
    BY <2>1, <2>2
<1>5. {q[n] : n \in DOMAIN q} = {x[n] : n \in DOMAIN x} \cup {y[n] : n \in DOMAIN y}
  <2>1. ASSUME NEW n \in DOMAIN q
        PROVE  q[n] \in {x[m] : m \in DOMAIN x} \cup {y[m] : m \in DOMAIN y}
    BY <1>2, <1>3
  <2>2. ASSUME NEW n \in DOMAIN x PROVE \E m \in DOMAIN q : q[m] = x[n]
    BY <1>2, <1>3
  <2>3. ASSUME NEW n \in DOMAIN y PROVE \E m \in DOMAIN q : q[m] = y[n]
    <3>1. n + a \in (a + 1)..(a + b) /\ (n + a) - a = n
      BY <1>2
    <3> QED
      BY <1>2, <3>1
  <2>4. PICK X, Y, Z : /\ X = {x[n] : n \in DOMAIN x} /\ Y = {y[n] : n \in DOMAIN y}
                       /\ Z = {q[n] : n \in DOMAIN q}
    OBVIOUS
  <2>5. Z \subseteq X \cup Y
    BY <2>1, <2>4
  <2>6. X \subseteq Z
    BY <2>2, <2>4
  <2>7. Y \subseteq Z
    BY <2>3, <2>4
  <2> QED
    BY <2>4, <2>5, <2>6, <2>7
<1>6. Rising(q)
  BY <1>2, <1>4 DEF Rising
<1>7. KeysIn(q) = KeysIn(x) \cup KeysIn(y)
  BY <1>5 DEF KeysIn
<1> QED
  BY <1>6, <1>7 DEF Joins

\* What waits is in one of three queues, the oldest first.
LEMMA WaitingJoined ==
    ASSUME IInv, OrderInv
    PROVE  /\ Rising(Waiting)
           /\ KeysIn(Waiting) = KeysIn(ic.buffered) \cup KeysIn(ic.settled) \cup KeysIn(wire)
<1>1. PICK b, s, w : b = ic.buffered /\ s = ic.settled /\ w = wire
  OBVIOUS
<1>2. PICK S : S = 0..Backspace
  OBVIOUS
<1>3. b \in Seq(S) /\ s \in Seq(S) /\ w \in Seq(S)
  <2>1. ic \in Context(Keys) /\ w \in Seq(0..Backspace)
    BY <1>1 DEF IInv, TypeOK
  <2>2. b \in Seq(Keys) /\ s \in Seq(Keys \cup {Loopback, Backspace})
    BY <1>1, <2>1, Typed
  <2>3. Keys \cup {Loopback, Backspace} \subseteq S
    BY <1>2, ReplacementAssumption DEF Keys, Loopback, Backspace
  <2>4. PICK A, B : A = Keys /\ B = Keys \cup {Loopback, Backspace}
    OBVIOUS
  <2>5. b \in Seq(A) /\ s \in Seq(B) /\ A \subseteq S /\ B \subseteq S
    BY <2>2, <2>3, <2>4
  <2>6. b \in Seq(S) /\ s \in Seq(S)
    BY ONLY <2>5
  <2> QED
    BY <1>1, <1>2, <2>1, <2>6
<1>4. /\ Rising(b) /\ Rising(s) /\ Rising(w)
      /\ Before(KeysIn(b), KeysIn(s) \cup KeysIn(w))
      /\ Before(KeysIn(s), KeysIn(w))
  BY <1>1 DEF OrderInv, Orderly
<1>5. PICK p, q : p = b \o s /\ q = p \o w
  OBVIOUS
<1>6. /\ Rising(q) /\ KeysIn(q) = KeysIn(b) \cup KeysIn(s) \cup KeysIn(w)
  <2>1. /\ b \in Seq(S) /\ s \in Seq(S) /\ Rising(b) /\ Rising(s) /\ p = b \o s
        /\ Before(KeysIn(b), KeysIn(s))
    BY <1>3, <1>4, <1>5 DEF Before
  <2>2. Joins(p, b, s)
    BY ONLY <2>1, RisingJoined
  <2>3. /\ p \in Seq(S) /\ w \in Seq(S) /\ Rising(p) /\ Rising(w) /\ q = p \o w
        /\ Before(KeysIn(p), KeysIn(w))
    <3>1. p \in Seq(S)
      BY <2>1, Joined
    <3> QED
      BY <1>3, <1>4, <1>5, <2>2, <3>1 DEF Before, Joins
  <2>4. Joins(q, p, w)
    BY ONLY <2>3, RisingJoined
  <2> QED
    BY <2>2, <2>4 DEF Joins
<1>7. Waiting = q
  BY <1>1, <1>5 DEF Waiting
<1> QED
  BY <1>1, <1>6, <1>7

\* The invariants say where the keys are, and in which order they are shown.
LEMMA OrderShown ==
    ASSUME IInv, OrderInv, TrackInv
    PROVE  KeysInOrder
<1>1. /\ Rising(Waiting)
      /\ KeysIn(Waiting) = KeysIn(ic.buffered) \cup KeysIn(ic.settled) \cup KeysIn(wire)
  BY WaitingJoined
<1>2. Before(Served(ic), KeysIn(ic.buffered) \cup KeysIn(ic.settled) \cup KeysIn(wire))
  BY DEF OrderInv, Orderly, Before
<1>3. used.eaten = 0 /\ used.forced = 0 => InOrder(ic.text)
  BY DEF TrackInv, Clean, Neat
<1> QED
  BY <1>1, <1>2, <1>3 DEF KeysInOrder, Before, Served

---------------------------------------------------------------------------
(* The keys that are kept.                                                 *)

\* What the handlers make of the keys: t keeps those of s and those of N, and nothing
\* makes it give them up.
Saves(s, t, N) == Sound(t) /\ Kept(s) \cup N \subseteq Kept(t)

\* Contexts that agree about what makes one give up its keys.
Level(s, t) ==
    /\ t.erased = s.erased /\ t.dropped = s.dropped
    /\ (t.grace <=> s.grace) /\ t.ticket = s.ticket

\* The keys of two texts are in the text that they make, and so are those of a text that
\* loses nothing, and that which key i joins.
LEMMA KeysJoined ==
    ASSUME NEW S, NEW x \in Seq(S), NEW y \in Seq(S)
    PROVE  /\ KeysOf(x) \cup KeysOf(y) \subseteq KeysOf(x \o y)
           /\ \A g \in S : KeysOf(x) \cup g \subseteq KeysOf(Append(x, g))
           /\ x # <<>> => KeysOf(x) \subseteq KeysOf(Front1(x)) \cup Last(x)
           /\ \A p \in DOMAIN x : \A k :
                  KeysOf(x) \cup {k} \subseteq KeysOf([x EXCEPT ![p] = x[p] \cup {k}])
<1>1. KeysOf(x) \cup KeysOf(y) \subseteq KeysOf(x \o y)
  <2>1. PICK q : q = x \o y
    OBVIOUS
  <2>2. /\ DOMAIN x = 1..Len(x) /\ DOMAIN y = 1..Len(y) /\ Len(x) \in Nat /\ Len(y) \in Nat
        /\ DOMAIN q = 1..(Len(x) + Len(y))
        /\ \A n \in 1..Len(x) : q[n] = x[n]
        /\ \A n \in (Len(x) + 1)..(Len(x) + Len(y)) : q[n] = y[n - Len(x)]
    <3>1. /\ q \in Seq(S) /\ Len(q) = Len(x) + Len(y)
          /\ \A n \in 1..Len(x) : q[n] = x[n]
          /\ \A n \in (Len(x) + 1)..(Len(x) + Len(y)) : q[n] = y[n - Len(x)]
      BY <2>1, Joined
    <3> QED
      BY <3>1
  <2>3. ASSUME NEW n \in DOMAIN x PROVE x[n] \subseteq KeysOf(q)
    <3>1. n \in DOMAIN q /\ q[n] = x[n]
      BY <2>2
    <3> QED
      BY <3>1 DEF KeysOf
  <2>4. ASSUME NEW n \in DOMAIN y PROVE y[n] \subseteq KeysOf(q)
    <3>1. PICK m : m = n + Len(x)
      OBVIOUS
    <3>2. m \in (Len(x) + 1)..(Len(x) + Len(y)) /\ m - Len(x) = n /\ m \in DOMAIN q
      BY <2>2, <3>1
    <3>3. q[m] = y[n]
      BY <2>2, <3>2
    <3> QED
      BY <3>2, <3>3 DEF KeysOf
  <2> QED
    BY <2>1, <2>3, <2>4 DEF KeysOf
<1>2. ASSUME NEW g \in S PROVE KeysOf(x) \cup g \subseteq KeysOf(Append(x, g))
  <2>1. PICK q : q = Append(x, g)
    OBVIOUS
  <2>2. /\ DOMAIN x = 1..Len(x) /\ Len(x) \in Nat /\ DOMAIN q = 1..(Len(x) + 1)
        /\ \A n \in 1..Len(x) : q[n] = x[n]
        /\ q[Len(x) + 1] = g
    BY <2>1
  <2>3. (\A n \in DOMAIN x : n \in DOMAIN q /\ q[n] = x[n]) /\ Len(x) + 1 \in DOMAIN q
    BY <2>2
  <2> QED
    BY <2>1, <2>2, <2>3 DEF KeysOf
<1>3. ASSUME x # <<>> PROVE KeysOf(x) \subseteq KeysOf(Front1(x)) \cup Last(x)
  <2>1. PICK q : q = Front1(x)
    OBVIOUS
  <2>2. /\ DOMAIN x = 1..Len(x) /\ Len(x) \in Nat \ {0} /\ DOMAIN q = 1..(Len(x) - 1)
        /\ \A n \in 1..(Len(x) - 1) : q[n] = x[n]
        /\ Last(x) = x[Len(x)]
    BY <1>3, <2>1 DEF Front1, Last
  <2>3. \A n \in DOMAIN x : n = Len(x) \/ (n \in DOMAIN q /\ q[n] = x[n])
    BY <2>2
  <2> QED
    BY <2>1, <2>2, <2>3 DEF KeysOf
<1>4. ASSUME NEW p \in DOMAIN x, NEW k
      PROVE  KeysOf(x) \cup {k} \subseteq KeysOf([x EXCEPT ![p] = x[p] \cup {k}])
  <2>1. PICK q : q = [x EXCEPT ![p] = x[p] \cup {k}]
    OBVIOUS
  <2>2. DOMAIN q = DOMAIN x /\ q[p] = x[p] \cup {k}
        /\ \A n \in DOMAIN x : x[n] \subseteq q[n]
    BY <2>1
  <2> QED
    BY <2>1, <2>2 DEF KeysOf
<1> QED
  BY <1>1, <1>2, <1>3, <1>4

\* A key that is left to the application, and the glyph that a Backspace takes, are not
\* lost.
LEMMA KeysTyped ==
    ASSUME Numbers, NEW K, K \subseteq Keys, NEW x \in Seq(Glyphs(K)),
           NEW i \in K \cup {Loopback, Backspace}
    PROVE  KeysOf(x) \cup ({i} \cap Keys) \subseteq
               KeysOf(TextAfter(x, i)) \cup (IF IsBack(i) /\ x # <<>> THEN Last(x) ELSE {})
<1>1. CASE IsBack(i)
  <2>1. {i} \cap Keys = {}
    BY <1>1, NoLetter DEF IsBack
  <2>2. x # <<>> => KeysOf(x) \subseteq KeysOf(Front1(x)) \cup Last(x)
    BY KeysJoined
  <2> QED
    BY <1>1, <2>1, <2>2 DEF TextAfter
<1>2. CASE ~IsBack(i)
  <2>1. i \in K
    BY <1>2 DEF IsBack
  <2>2. {i} \in Glyphs(K)
    BY <2>1, OneKey
  <2>3. KeysOf(x) \cup {i} \subseteq KeysOf(Append(x, {i}))
    BY <2>2, KeysJoined
  <2> QED
    BY <1>2, <2>3 DEF TextAfter
<1> QED
  BY <1>1, <1>2

\* What a key that is left to the application does to these.
LEMMA RawLevel ==
    ASSUME NEW K, NEW s \in Context(K), NEW i
    PROVE  LET r == Raw(s, i)
           IN  /\ (r.grace <=> s.grace) /\ r.ticket = s.ticket
               /\ r.dropped = s.dropped
               /\ r.erased = IF IsBack(i) /\ s.text # <<>> THEN s.erased \cup Last(s.text)
                             ELSE s.erased
<1>1. PICK x : x = TextAfter(s.text, i)
  OBVIOUS
<1>2. PICK y : y = s.erased \cup Last(s.text)
  OBVIOUS
<1>3. PICK z : z = s.removed + 1
  OBVIOUS
<1>4. PICK t : t = Raw(s, i)
  OBVIOUS
<1>5. \/ t = s /\ (IsBack(i) => s.text = <<>>)
      \/ t = [s EXCEPT !.text = x] /\ ~IsBack(i)
      \/ t = [s EXCEPT !.text = x, !.erased = y, !.removed = z] /\ IsBack(i) /\ s.text # <<>>
  BY <1>1, <1>2, <1>3, <1>4 DEF Raw, Erase, TextAfter
<1>6. CASE t = s /\ (IsBack(i) => s.text = <<>>)
  BY <1>4, <1>6
<1>7. CASE t = [s EXCEPT !.text = x] /\ ~IsBack(i)
  <2>1. /\ t.grace = s.grace /\ t.ticket = s.ticket /\ t.erased = s.erased
        /\ t.dropped = s.dropped
    BY ONLY ZenonT(60), <1>7, s \in Context(K) DEF Context
  <2> QED
    BY <1>4, <1>7, <2>1
<1>8. CASE t = [s EXCEPT !.text = x, !.erased = y, !.removed = z] /\ IsBack(i) /\ s.text # <<>>
  <2>1. t.grace = s.grace /\ t.ticket = s.ticket /\ t.erased = y
    BY ONLY ZenonT(60), <1>8, s \in Context(K) DEF Context
  <2> QED
    BY <1>2, <1>4, <1>8, <2>1
<1> QED
  BY <1>5, <1>6, <1>7, <1>8

\* A new word, a commit and a new replacement.
LEMMA WordLevel ==
    ASSUME NEW K, NEW s \in Context(K), NEW x
    PROVE  Level(s, [s EXCEPT !.viet = x])
<1>1. PICK t : t = [s EXCEPT !.viet = x]
  OBVIOUS
<1>2. /\ t.grace = s.grace /\ t.ticket = s.ticket /\ t.erased = s.erased
      /\ t.dropped = s.dropped
  BY ONLY ZenonT(60), <1>1, s \in Context(K) DEF Context
<1> QED
  BY <1>1, <1>2 DEF Level

\* ... nor does one that arms the guard.
LEMMA LetterLevel ==
    ASSUME NEW K, NEW s \in Context(K), NEW x, NEW t, t = Lettered(s, x)
    PROVE  Level(s, t)
<1>3. PICK g : g = Guarded
  OBVIOUS
<1>1. t = [s EXCEPT !.viet = x, !.armed = g]
  BY <1>3 DEF Lettered
<1>2. /\ t.grace = s.grace /\ t.ticket = s.ticket /\ t.erased = s.erased
      /\ t.dropped = s.dropped
  BY ONLY ZenonT(60), <1>1, s \in Context(K) DEF Context
<1> QED
  BY <1>1, <1>2 DEF Level

\* A commit changes the text only: none of these.
LEMMA PutLevel ==
    ASSUME NEW K, NEW s \in Context(K), NEW g
    PROVE  Level(s, Put(s, g))
<1>1. PICK x : x = s.text \o g
  OBVIOUS
<1>2. PICK t : t = [s EXCEPT !.text = x]
  OBVIOUS
<1>3. /\ t.grace = s.grace /\ t.ticket = s.ticket /\ t.erased = s.erased
      /\ t.dropped = s.dropped
  BY ONLY ZenonT(60), <1>2, s \in Context(K) DEF Context
<1>4. Put(s, g) = IF s.disabled THEN s ELSE t
  BY <1>1, <1>2 DEF Put
<1> QED
  BY <1>3, <1>4 DEF Level

\* A replacement that begins has a batch that waits for the worker.
LEMMA ReplaceLevel ==
    ASSUME NEW K, NEW s \in Context(K), NEW k
    PROVE  LET t == Replace(s, k)
               u == [Replace(s, k) EXCEPT !.oldWord = s.viet, !.repairs = 0,
                                          !.armed = Guarded]
           IN  /\ t.erased = s.erased
               /\ t.dropped = s.dropped /\ (t.grace <=> s.grace) /\ t.ticket = "Queued"
               /\ u.erased = s.erased
               /\ u.dropped = s.dropped /\ (u.grace <=> s.grace) /\ u.ticket = "Queued"
<1>1. PICK n : n = Compose(s.viet, k)
  OBVIOUS
<1>2. PICK d : d = Depth(s.viet, k)
  OBVIOUS
<1>3. PICK p : p = LastN(n, d)
  OBVIOUS
<1>4. PICK o : o = s.outstanding + (d + 1)
  OBVIOUS
<1>5. PICK l : l = d + 1
  OBVIOUS
<1>6. PICK v : v = s.viet
  OBVIOUS
<1>7. PICK r : r = [s EXCEPT !.ticket = "Queued", !.left = l, !.outstanding = o]
  OBVIOUS
<1>8. PICK t : t = [r EXCEPT !.viet = n, !.expected = d, !.seen = 0,
                            !.pending = p, !.deleting = TRUE, !.safety = TRUE]
  OBVIOUS
<1>16. PICK g : g = Guarded
  OBVIOUS
<1>9. PICK u : u = [t EXCEPT !.oldWord = v, !.repairs = 0, !.armed = g]
  OBVIOUS
<1>10. t = Replace(s, k)
  BY <1>1, <1>2, <1>3, <1>4, <1>5, <1>7, <1>8 DEF Replace, Send
<1>11. /\ t.erased = s.erased
       /\ t.dropped = s.dropped /\ t.grace = s.grace /\ t.ticket = "Queued"
       /\ u.erased = s.erased
       /\ u.dropped = s.dropped /\ u.grace = s.grace /\ u.ticket = "Queued"
  BY ONLY ZenonT(60), <1>7, <1>8, <1>9, s \in Context(K) DEF Context
<1>12. u = [Replace(s, k) EXCEPT !.oldWord = s.viet, !.repairs = 0, !.armed = Guarded]
  BY <1>6, <1>9, <1>10, <1>16
<1> QED
  BY <1>10, <1>11, <1>12

\* A replacement that begins shows every key of the text, and its own.
LEMMA BeginsSaves ==
    ASSUME Env, NEW K, K \subseteq Keys, NEW s \in Context(K), s.seen <= s.expected, NEW t,
           Tracks(s), ~s.deleting, NEW k \in K, Depth(s.viet, k) # 0, Begins(s, t, k),
           t.erased = s.erased /\ t.dropped = s.dropped
    PROVE  Kept(s) \cup {k} \subseteq Kept(t)
<1>1. s.text \in Seq(Glyphs(K)) /\ s.viet \in Seq(Glyphs(K))
  BY Typed
<1>2. PICK x : x = s.text
  OBVIOUS
<1>3. PICK v : v = s.viet
  OBVIOUS
<1>4. PICK d : d = Depth(v, k)
  OBVIOUS
<1>5. PICK p : p = Len(x) - d + 1
  OBVIOUS
<1>6. PICK y : y = [x EXCEPT ![p] = x[p] \cup {k}]
  OBVIOUS
<1>7. x \in Seq(Glyphs(K)) /\ v \in Seq(Glyphs(K)) /\ Shown(s) = x
  BY <1>1, <1>2, <1>3 DEF Shown
<1>8. Ends(x, v)
  BY <1>2, <1>3, TracksIs DEF Shown
<1>9. d # 0
  BY <1>3, <1>4
<1>10. p \in DOMAIN x /\ DropN(x, d) \o LastN(Compose(v, k), d) = y
  BY <1>4, <1>5, <1>6, <1>7, <1>8, <1>9, ShownMarked
<1>11. Shown(t) = y
  <2>1. d - 0 = d
    <3>1. d \in 0..Len(v)
      BY <1>4, <1>7, Depths
    <3> QED
      BY <3>1
  <2>2. t.expected - t.seen = d /\ t.pending = LastN(Compose(v, k), d) /\ t.deleting
        /\ t.text = x
    BY <1>2, <1>3, <1>4, <2>1 DEF Begins
  <2> QED
    BY <1>10, <2>2 DEF Shown
<1>12. KeysOf(x) \cup {k} \subseteq KeysOf(y)
  <2>1. \A m \in DOMAIN x : \A j :
            KeysOf(x) \cup {j} \subseteq KeysOf([x EXCEPT ![m] = x[m] \cup {j}])
    BY ONLY <1>7, KeysJoined
  <2>2. KeysOf(x) \cup {k} \subseteq KeysOf([x EXCEPT ![p] = x[p] \cup {k}])
    BY ONLY <1>10, <2>1
  <2> QED
    BY ONLY <1>6, <2>2
<1>13. t.buffered = s.buffered /\ t.settled = s.settled
  BY DEF Begins
<1> QED
  BY <1>7, <1>11, <1>12, <1>13 DEF Kept

\* The keys buffered came before key k, each once: where the buffer has room for every key
\* up to BufferCap it has room for k.
LEMMA Room ==
    ASSUME Numbers, NEW K, K \subseteq Keys, K \subseteq 1..BufferCap, NEW q \in Seq(K),
           Rising(q), NEW k \in K, Before(KeysIn(q), {k})
    PROVE  Len(q) < BufferCap
<1>1. /\ Len(q) \in Nat /\ DOMAIN q = 1..Len(q) /\ BufferCap \in Nat /\ k \in 1..BufferCap
      /\ \A n \in 1..Len(q) : q[n] \in K
  BY DEF Numbers
<1>2. \A n \in 1..Len(q) : q[n] \in 1..(k - 1)
  <2> SUFFICES ASSUME NEW n \in 1..Len(q) PROVE q[n] \in 1..(k - 1)
    OBVIOUS
  <2>1. q[n] \in 1..BufferCap /\ q[n] \in Keys
    BY <1>1
  <2>2. q[n] < k
    BY <1>1, <2>1 DEF Before, KeysIn
  <2> QED
    BY <1>1, <2>1, <2>2
<1>3. q \in [1..Len(q) -> 1..(k - 1)]
  BY <1>1, <1>2
<1>4. IsInjective(q)
  <2> SUFFICES ASSUME NEW m \in DOMAIN q, NEW n \in DOMAIN q, q[m] = q[n], m # n PROVE FALSE
    BY DEF IsInjective
  <2>1. q[m] \in K /\ q[n] \in K /\ q[m] \in 1..(k - 1) /\ m \in Nat /\ n \in Nat
    BY <1>1, <1>2
  <2>2. {q[m], q[n]} \subseteq Keys /\ q[m] \in Nat
    BY <2>1
  <2>3. m < n \/ n < m
    BY <2>1
  <2>4. q[m] < q[n] \/ q[n] < q[m]
    BY <2>2, <2>3 DEF Rising
  <2> QED
    BY <2>2, <2>4
<1>5. q \in Injection(1..Len(q), 1..(k - 1))
  BY <1>3, <1>4 DEF Injection
<1>6. /\ IsFiniteSet(1..(k - 1)) /\ Cardinality(1..(k - 1)) = k - 1
      /\ Cardinality(1..Len(q)) = Len(q)
  <2>1. 1 \in Int /\ k - 1 \in Int /\ Len(q) \in Int
    BY <1>1
  <2>2. /\ IsFiniteSet(1..(k - 1))
        /\ Cardinality(1..(k - 1)) = IF 1 > k - 1 THEN 0 ELSE (k - 1) - 1 + 1
        /\ Cardinality(1..Len(q)) = IF 1 > Len(q) THEN 0 ELSE Len(q) - 1 + 1
    BY <2>1, FS_Interval
  <2> QED
    BY <1>1, <2>2
<1>7. Cardinality(1..Len(q)) <= Cardinality(1..(k - 1))
  BY <1>5, <1>6, FS_Injection
<1> QED
  BY <1>1, <1>6, <1>7

\* A key that finds no replacement under way is not lost.
LEMMA TypeSaves ==
    ASSUME Env, NEW K, K \subseteq Keys, NEW b \in Int, NEW w \in Int,
           NEW i \in K \cup {Loopback, Backspace}, NEW s \in Fine(K, b, w),
           ~s.deleting, ready, Sound(s), Tracks(s)
    PROVE  Saves(s, Type(s, i), {i} \cap Keys)
<1>1. s \in Context(K) /\ s.seen <= s.expected /\ Numbers
  BY DEF Fine, Env
<1>2. s.text \in Seq(Glyphs(K))
  BY <1>1, Typed
<1>3. PICK t : t = Type(s, i)
  OBVIOUS
<1>4. PICK r : r = Raw(s, i)
  OBVIOUS
<1>5. PICK N : N = {i} \cap Keys
  OBVIOUS
<1>6. /\ r \in Context(K) /\ Beside(s, r) /\ r.text = TextAfter(s.text, i)
      /\ r.viet = s.viet
  BY <1>1, <1>4, RawBeside, RawTyped
<1>7. /\ (r.grace <=> s.grace) /\ r.ticket = s.ticket
      /\ r.dropped = s.dropped
      /\ r.erased = IF IsBack(i) /\ s.text # <<>> THEN s.erased \cup Last(s.text)
                    ELSE s.erased
  BY <1>1, <1>4, RawLevel
<1>8. Shown(s) = s.text
  BY DEF Shown
<1>9. ASSUME NEW x,
             t = [r EXCEPT !.viet = x] \/ t = Lettered(r, x)
      PROVE  Saves(s, t, N)
  <2>1. Level(r, t) /\ Beside(r, t) /\ t.text = r.text
    <3>1. CASE t = [r EXCEPT !.viet = x]
      BY <1>6, <3>1, WordLevel, WordBeside
    <3>2. CASE t = Lettered(r, x)
      <4>1. r \in Context(K)
        BY <1>6
      <4> QED
        BY ONLY <4>1, <3>2, LetterLevel, LetterBeside
    <3> QED
      BY <1>9, <3>1, <3>2
  <2>2. /\ t.buffered = s.buffered /\ t.settled = s.settled /\ ~t.deleting
        /\ (t.replayTimer <=> s.replayTimer)
    BY <1>6, <2>1 DEF Beside
  <2>3. Sound(t)
    BY <1>7, <2>1, <2>2 DEF Sound, Level
  <2>4. Shown(t) = TextAfter(s.text, i)
    BY <1>6, <2>1, <2>2 DEF Shown
  <2>5. KeysOf(s.text) \cup N \subseteq
            KeysOf(Shown(t)) \cup (IF IsBack(i) /\ s.text # <<>> THEN Last(s.text) ELSE {})
    BY <1>1, <1>2, <1>5, <2>4, KeysTyped
  <2>6. /\ t.dropped = s.dropped
        /\ t.erased = IF IsBack(i) /\ s.text # <<>> THEN s.erased \cup Last(s.text)
                   ELSE s.erased
    BY <1>7, <2>1 DEF Level
  <2>7. Kept(s) \cup N \subseteq Kept(t)
    BY <1>8, <2>2, <2>5, <2>6 DEF Kept
  <2> QED
    BY <2>3, <2>7 DEF Saves
<1>10. CASE IsBack(i)
  <2>1. PICK x : x = IF s.viet = <<>> THEN s.viet ELSE Front1(s.viet)
    OBVIOUS
  <2>2. t = [r EXCEPT !.viet = x]
    BY <1>3, <1>4, <1>6, <1>10, <2>1 DEF Type, Raw
  <2>3. Saves(s, t, N)
    BY <1>9, <2>2
  <2> QED
    BY <1>3, <1>5, <2>3
<1>11. CASE ~IsBack(i) /\ effect[i] = Separator
  <2>1. t = [r EXCEPT !.viet = <<>>]
    BY <1>3, <1>4, <1>11 DEF Type
  <2>2. Saves(s, t, N)
    BY <1>9, <2>1
  <2> QED
    BY <1>3, <1>5, <2>2
<1>12. CASE ~IsBack(i) /\ effect[i] # Separator /\ Depth(s.viet, i) = 0
  <2>1. PICK x : x = Compose(s.viet, i)
    OBVIOUS
  <2>2. t = Lettered(r, x)
    BY <1>3, <1>4, <1>6, <1>12, <2>1 DEF Type, Lettered
  <2>3. Saves(s, t, N)
    BY <1>9, <2>2
  <2> QED
    BY <1>3, <1>5, <2>3
<1>13. CASE ~IsBack(i) /\ effect[i] # Separator /\ Depth(s.viet, i) # 0
  <2>1. i \in K /\ N = {i}
    BY <1>5, <1>13 DEF IsBack
  <2>2. ~Refused(s)
    BY DEF Sound, Refused
  <2>3. t = [Replace(s, i) EXCEPT !.oldWord = s.viet, !.repairs = 0, !.armed = Guarded]
    BY <1>3, <1>13, <2>2 DEF Type
  <2>4. /\ t.erased = s.erased
        /\ t.dropped = s.dropped /\ (t.grace <=> s.grace) /\ t.ticket = "Queued"
    BY <1>1, <2>3, ReplaceLevel
  <2>5. Begins(s, t, i)
    BY <1>1, <2>3, ReplaceBegins
  <2>6. Kept(s) \cup {i} \subseteq Kept(t)
    BY <1>1, <1>13, <2>1, <2>4, <2>5, BeginsSaves
  <2>7. Sound(t)
    BY <2>4, <2>5 DEF Sound, Begins
  <2> QED
    BY <1>3, <1>5, <2>1, <2>6, <2>7 DEF Saves
<1> QED
  BY <1>10, <1>11, <1>12, <1>13

\* Nor is one that the guard drops lost to the history.
LEMMA DropSaves ==
    ASSUME NEW K, NEW s \in Context(K), NEW i \in again, Sound(s)
    PROVE  Saves(s, Drop(s, i), {i} \cap Keys)
<1>1. PICK t : t = Drop(s, i)
  OBVIOUS
<1>2. /\ t.text = s.text /\ t.viet = s.viet /\ t.pending = s.pending
      /\ t.deleting = s.deleting /\ t.expected = s.expected /\ t.seen = s.seen
      /\ t.buffered = s.buffered /\ t.settled = s.settled
      /\ t.replayTimer = s.replayTimer /\ t.grace = s.grace /\ t.ticket = s.ticket
      /\ t.erased = s.erased /\ t.dropped = s.dropped \cup {i}
  BY <1>1, DropFrame
<1>3. Shown(t) = Shown(s)
  BY <1>2, TracksSame
<1> QED
  BY <1>1, <1>2, <1>3 DEF Saves, Sound, Kept

\* Nor is one that comes during a replacement.
LEMMA WhileDeletingSaves ==
    ASSUME Numbers, NEW K, K \subseteq Keys, K \subseteq 1..BufferCap, NEW s \in Context(K),
           s.seen <= s.expected, s.deleting, NEW i \in K \cup {Loopback, Backspace},
           NEW C, Orderly(s, {i} \cap Keys, C), Sound(s), ~s.replayTimer
    PROVE  Saves(s, WhileDeleting(s, i, FALSE), {i} \cap Keys)
<1>1. PICK t : t = WhileDeleting(s, i, FALSE)
  OBVIOUS
<1>2. PICK N : N = {i} \cap Keys
  OBVIOUS
<1>3. t.settled = s.settled /\ Shown(t) = Shown(s)
  <2>1. FALSE \in BOOLEAN
    OBVIOUS
  <2> QED
    BY <1>1, <2>1, WhileDeletingCases
<1>4. s.buffered \in Seq(K)
  BY Typed
<1>5. PICK q : q = Append(s.buffered, i)
  OBVIOUS
<1>8. CASE Repeats(s, i)
  BY <1>8, DropSaves DEF WhileDeleting, Repeats
<1>6. CASE ~IsBack(i) /\ ~Repeats(s, i)
  <2>1. i \in K /\ i \in Keys /\ N = {i}
    BY <1>2, <1>6 DEF IsBack
  <2>2. Rising(s.buffered) /\ Before(KeysIn(s.buffered), {i})
    BY <1>2, <2>1 DEF Orderly, Before
  <2>3. Len(s.buffered) < BufferCap
    BY <1>4, <2>1, <2>2, Room
  <2>4. t = [s EXCEPT !.buffered = q]
    BY <1>1, <1>5, <1>6, <2>3 DEF WhileDeleting
  <2>5. /\ t.grace = s.grace /\ t.ticket = s.ticket /\ t.erased = s.erased
        /\ t.dropped = s.dropped
        /\ t.replayTimer = s.replayTimer /\ t.buffered = q
    BY ONLY ZenonT(60), <2>4, s \in Context(K) DEF Context
  <2>6. KeysIn(q) = KeysIn(s.buffered) \cup N
    BY <1>2, <1>4, <1>5, <2>1, KeysInQueue
  <2>7. Kept(s) \cup N \subseteq Kept(t)
    BY <1>3, <2>5, <2>6 DEF Kept
  <2> QED
    BY <1>1, <1>2, <2>5, <2>7 DEF Saves, Sound
<1>7. CASE IsBack(i)
  <2>1. N = {}
    BY <1>2, <1>7, NoLetter DEF IsBack
  <2>2. PICK o : o = IF s.outstanding > 0 THEN s.outstanding - 1 ELSE 0
    OBVIOUS
  <2>3. PICK x : x = IF s.text = <<>> THEN s.text ELSE Front1(s.text)
    OBVIOUS
  <2>4. PICK n : n = s.seen + 1
    OBVIOUS
  <2>5. \/ t = [s EXCEPT !.seen = n, !.outstanding = o, !.text = x]
        \/ t = [s EXCEPT !.safety = FALSE, !.retried = FALSE, !.outstanding = o,
                         !.expected = 0, !.seen = 0, !.settling = TRUE]
    BY <1>1, <1>7, <2>2, <2>3, <2>4 DEF WhileDeleting, Repeats
  <2>6. /\ t.grace = s.grace /\ t.ticket = s.ticket /\ t.erased = s.erased
        /\ t.dropped = s.dropped
        /\ t.replayTimer = s.replayTimer /\ t.buffered = s.buffered
    BY ONLY <2>5, s \in Context(K) DEF Context
  <2>7. Kept(s) \cup N \subseteq Kept(t)
    BY <1>3, <2>1, <2>6 DEF Kept
  <2> QED
    BY <1>1, <1>2, <2>6, <2>7 DEF Saves, Sound
<1> QED
  BY <1>6, <1>7, <1>8

\* Nor is one that is held back, buffered or served.
LEMMA DispatchSaves ==
    ASSUME Env, NEW K, K \subseteq Keys, K \subseteq 1..BufferCap, NEW b \in Int, NEW w \in Int,
           NEW i \in K \cup {Loopback, Backspace}, NEW s \in Fine(K, b, w),
           NEW replaying \in BOOLEAN, NEW C, Due(s, i, replaying, C),
           ready, Sound(s), Tracks(s)
    PROVE  Saves(s, KeyEvent(s, i, replaying, FALSE), {i} \cap Keys)
<1>1. PICK t : t = Dispatch(s, i, replaying, FALSE)
  OBVIOUS
<1>2. PICK held \in BOOLEAN : held <=> ~replaying /\ ~AwaitingAnchor(s, i) /\ HoldsBack(s)
  <2>1. \E h \in BOOLEAN : h <=> ~replaying /\ ~AwaitingAnchor(s, i) /\ HoldsBack(s)
    OBVIOUS
  <2> QED
    BY <2>1
<1>3. PICK N : N = {i} \cap Keys
  OBVIOUS
<1>4. s \in Context(K) /\ s.seen <= s.expected /\ BatchInv(s) /\ Numbers
  BY DEF Fine, Env
<1>5. s.settled \in Seq(K \cup {Loopback, Backspace})
  BY <1>4, Typed
<1>6. KeyEvent(s, i, replaying, FALSE) = t
  BY <1>1 DEF KeyEvent, Abort, Sound
<1>7. CASE held
  <2>1. PICK q : q = Append(s.settled, i)
    OBVIOUS
  <2>2. t = [s EXCEPT !.settled = q]
    BY <1>1, <1>2, <1>7, <2>1 DEF Dispatch
  <2>3. /\ t.text = s.text /\ t.viet = s.viet /\ t.pending = s.pending
        /\ t.deleting = s.deleting /\ t.expected = s.expected /\ t.seen = s.seen
        /\ t.settled = q /\ t.buffered = s.buffered /\ t.erased = s.erased
        /\ t.dropped = s.dropped
        /\ t.replayTimer = s.replayTimer /\ t.grace = s.grace /\ t.ticket = s.ticket
    BY ONLY <1>4, <2>2 DEF Context
  <2>4. Shown(t) = Shown(s)
    BY <2>3, TracksSame
  <2>5. KeysIn(q) = KeysIn(s.settled) \cup N
    BY <1>3, <1>5, <2>1, KeysInQueue
  <2>6. Kept(s) \cup N \subseteq Kept(t)
    BY <2>3, <2>4, <2>5 DEF Kept
  <2> QED
    BY <1>3, <1>6, <2>3, <2>6 DEF Saves, Sound
<1>8. CASE ~held
  <2>1. s.settled = <<>> \/ {i} \cap Keys = {} \/ replaying
    <3>1. IsBack(i) => {i} \cap Keys = {}
      BY <1>4, NoLetter DEF IsBack
    <3> QED
      BY <1>2, <1>8, <3>1 DEF AwaitingAnchor, HoldsBack, Due
  <2>2. Orderly(s, {i} \cap Keys, C)
    BY <2>1, DueNext DEF Due
  <2>3. ~s.grace
    BY DEF Sound
  <2>4. CASE s.deleting
    <3>1. t = WhileDeleting(s, i, FALSE)
      BY <1>1, <1>2, <1>8, <2>3, <2>4 DEF Dispatch
    <3>2. ~s.replayTimer
      BY <1>4, <2>4 DEF BatchInv
    <3> QED
      BY <1>4, <1>6, <2>2, <2>4, <3>1, <3>2, WhileDeletingSaves
  <2>5. CASE ~s.deleting
    <3>1. s.outstanding = 0
      BY <1>4, <2>5 DEF BatchInv
    <3>2. (i \in again /\ t = Drop(s, i)) \/ t = Type(s, i)
      BY <1>1, <1>2, <1>8, <2>3, <2>5, <3>1 DEF Dispatch, RepeatsTyping, Repeats
    <3>3. /\ Saves(s, Type(s, i), {i} \cap Keys)
          /\ i \in again => Saves(s, Drop(s, i), {i} \cap Keys)
      BY <1>4, <2>5, TypeSaves, DropSaves
    <3> QED
      BY <1>6, <3>2, <3>3
  <2> QED
    BY <2>4, <2>5
<1> QED
  BY <1>7, <1>8

\* The oldest of the keys held back is not lost when it is served.
LEMMA ReplaySettledSaves ==
    ASSUME Env, NEW K, K \subseteq Keys, K \subseteq 1..BufferCap, NEW b \in Int, NEW w \in Int,
           w <= b, NEW s \in Fine(K, b, w), Waits(s), NEW C, Orderly(s, {}, C),
           ready, Sound(s), Tracks(s)
    PROVE  Saves(s, ReplaySettled(s), {})
<1>1. CASE s.replayTimer \/ s.settled = <<>> \/ s.deleting \/ s.settling
  <2>1. ReplaySettled(s) = s
    BY <1>1 DEF ReplaySettled
  <2> QED
    BY <2>1 DEF Saves
<1>2. CASE ~(s.replayTimer \/ s.settled = <<>> \/ s.deleting \/ s.settling)
  <2>1. PICK h : h = Head(s.settled)
    OBVIOUS
  <2>2. PICK x : x = [s EXCEPT !.settled = Tail(s.settled)]
    OBVIOUS
  <2>3. PICK t : t = KeyEvent(x, h, TRUE, FALSE)
    OBVIOUS
  <2>4. PICK u : u = [t EXCEPT !.replayTimer = TRUE]
    OBVIOUS
  <2>5. s \in Context(K)
    BY DEF Fine
  <2>6. s.settled \in Seq(K \cup {Loopback, Backspace})
    BY <2>5, Typed
  <2>7. ReplaySettled(s)
          = IF ~t.deleting /\ ~t.replayTimer /\ Len(s.settled) > 1 THEN u ELSE t
    BY <1>2, <2>1, <2>2, <2>3, <2>4 DEF ReplaySettled
  <2>8. /\ h \in K \cup {Loopback, Backspace} /\ x \in Fine(K, b - Pays(h), w - Weighs(h))
        /\ ~x.deleting /\ ~x.replayTimer
    BY <1>2, <2>1, <2>2, TakenFine
  <2>9. b - Pays(h) \in Int /\ w - Weighs(h) \in Int
    BY DEF Pays, Weighs
  <2>10. PICK q : q = Tail(s.settled)
    OBVIOUS
  <2>11. /\ x.text = s.text /\ x.viet = s.viet /\ x.pending = s.pending
         /\ x.deleting = s.deleting /\ x.expected = s.expected /\ x.seen = s.seen
         /\ x.oldWord = s.oldWord /\ x.buffered = s.buffered /\ x.settled = q
         /\ x.erased = s.erased
         /\ x.dropped = s.dropped /\ x.grace = s.grace /\ x.ticket = s.ticket
         /\ x.replayTimer = s.replayTimer
    <3>1. x = [s EXCEPT !.settled = q]
      BY <2>2, <2>10
    <3> QED
      BY ONLY <2>5, <3>1 DEF Context
  <2>12. Waits(x)
    BY <1>2, <2>11 DEF Waits
  <2>13. Due(x, h, TRUE, C)
    <3>1. Served(x) = Served(s)
      BY <2>11 DEF Served
    <3>2. s.settled # <<>>
      BY <1>2
    <3>3. Orderly(x, {Head(s.settled)} \cap Keys, C)
      BY ONLY <2>6, <2>10, <2>11, <3>1, <3>2, Orderly(s, {}, C), PopsInOrder
    <3> QED
      BY <2>1, <2>8, <3>3 DEF Due
  <2>14. TRUE \in BOOLEAN /\ FALSE \in BOOLEAN
    OBVIOUS
  <2>15. Waits(t)
    BY <2>3, <2>8, <2>9, <2>12, <2>13, <2>14, KeyEventKeeps
  <2>16. Tracks(x) /\ Shown(x) = Shown(s) /\ Sound(x)
    BY <2>11, TracksSame DEF Sound
  <2>17. Saves(x, t, {h} \cap Keys)
    BY <2>3, <2>8, <2>9, <2>13, <2>14, <2>16, DispatchSaves
  <2>18. KeysIn(s.settled) = KeysIn(q) \cup ({h} \cap Keys)
    BY <1>2, <2>1, <2>6, <2>10, KeysInQueue
  <2>19. Saves(s, t, {})
    <3>1. Kept(s) \subseteq Kept(x) \cup ({h} \cap Keys)
      BY <2>11, <2>16, <2>18 DEF Kept
    <3> QED
      BY <2>17, <3>1 DEF Saves
  <2>20. ASSUME ~t.deleting, ~t.replayTimer PROVE Saves(s, u, {})
    <3>1. t \in Context(K)
      <4>1. t \in Fine(K, b, w)
        BY <2>3, <2>8, KeyEventFine
      <4> QED
        BY <4>1 DEF Fine
    <3>2. /\ u.text = t.text /\ u.viet = t.viet /\ u.pending = t.pending
          /\ u.deleting = t.deleting /\ u.expected = t.expected /\ u.seen = t.seen
          /\ u.buffered = t.buffered /\ u.settled = t.settled
          /\ u.erased = t.erased
          /\ u.dropped = t.dropped /\ u.grace = t.grace /\ u.ticket = t.ticket
      BY ONLY <2>4, <3>1 DEF Context
    <3>3. Shown(u) = Shown(t)
      BY <3>2, TracksSame
    <3>4. t.buffered = <<>>
      BY <2>15, <2>20 DEF Waits
    <3> QED
      BY <2>19, <3>2, <3>3, <3>4 DEF Saves, Sound, Kept
  <2> QED
    BY <2>7, <2>19, <2>20
<1> QED
  BY <1>1, <1>2

---------------------------------------------------------------------------
(* The replay, and the keys that are kept.                                 *)

\* A key of the buffer that is replayed is not lost.
LEMMA ReplayKeySaves ==
    ASSUME Env, NEW K, K \subseteq Keys, NEW b \in Int, NEW w \in Int, NEW k \in K,
           NEW s \in Fine(K, b, w), ~s.deleting, ready, Sound(s), Current(s)
    PROVE  Saves(s, ReplayKey(s, k), {k})
<1>1. s \in Context(K) /\ s.seen <= s.expected /\ Numbers
  BY DEF Fine, Env
<1>2. s.viet \in Seq(Glyphs(K)) /\ s.text \in Seq(Glyphs(K))
  BY <1>1, Typed
<1>3. PICK t : t = ReplayKey(s, k)
  OBVIOUS
<1>4. PICK g : g = <<{k}>>
  OBVIOUS
<1>5. PICK y : y = Append(s.text, {k})
  OBVIOUS
<1>6. g \in Seq(Glyphs(K)) /\ s.text \o g = y /\ {k} \in Glyphs(K)
  BY <1>2, <1>4, <1>5, OneKey
<1>7. Shown(s) = s.text /\ ~s.disabled /\ Tracks(s)
  BY DEF Shown, Current
<1>8. KeysOf(s.text) \cup {k} \subseteq KeysOf(y)
  BY <1>2, <1>5, <1>6, KeysJoined
<1>9. ASSUME Beside(s, t), Level(s, t), t.text = y PROVE Saves(s, t, {k})
  <2>1. /\ t.buffered = s.buffered /\ t.settled = s.settled /\ ~t.deleting
        /\ (t.replayTimer <=> s.replayTimer)
    BY <1>9 DEF Beside
  <2>2. Sound(t)
    BY <1>9, <2>1 DEF Sound, Level
  <2>3. Shown(t) = y
    BY <1>9, <2>1 DEF Shown
  <2>4. Kept(s) \cup {k} \subseteq Kept(t)
    BY <1>7, <1>8, <1>9, <2>1, <2>3 DEF Kept, Level
  <2> QED
    BY <2>2, <2>4 DEF Saves
<1>10. CASE effect[k] = Separator
  <2>1. PICK p : p = Put(s, g)
    OBVIOUS
  <2>2. Beside(s, p) /\ p.text = y /\ Level(s, p)
    BY <1>1, <1>6, <1>7, <2>1, PutBeside, PutLevel
  <2>3. p \in Context(K)
    <3>1. p \in Fine(K, b, w)
      BY <1>6, <2>1, PutFine
    <3> QED
      BY <3>1 DEF Fine
  <2>4. t = [p EXCEPT !.viet = <<>>]
    BY <1>3, <1>4, <1>10, <2>1 DEF ReplayKey
  <2>5. Beside(p, t) /\ t.text = p.text /\ Level(p, t)
    BY <2>3, <2>4, WordBeside, WordLevel
  <2>6. Beside(s, t) /\ Level(s, t) /\ t.text = y
    BY <2>2, <2>5 DEF Beside, Level
  <2> QED
    BY <1>3, <1>9, <2>6
<1>11. CASE effect[k] # Separator /\ Depth(s.viet, k) = 0
  <2>1. PICK x : x = Compose(s.viet, k)
    OBVIOUS
  <2>2. PICK v : v = [s EXCEPT !.viet = x]
    OBVIOUS
  <2>3. Beside(s, v) /\ v.text = s.text /\ (v.disabled <=> s.disabled) /\ Level(s, v)
    BY <1>1, <2>2, WordBeside, WordLevel
  <2>4. v \in Context(K)
    <3>1. x \in Seq(Glyphs(K))
      BY <1>1, <1>2, <2>1, Composed
    <3>2. v \in Fine(K, b, w)
      BY <2>2, <3>1, WordFine
    <3> QED
      BY <3>2 DEF Fine
  <2>5. t = Put(v, g)
    <3>1. t = Commit(v, g)
      BY <1>3, <1>4, <1>11, <2>1, <2>2 DEF ReplayKey
    <3>2. v.ticket # "Failed"
      BY <2>3 DEF Level, Sound
    <3> QED
      BY <3>1, <3>2 DEF Commit
  <2>6. /\ Beside(v, t) /\ Level(v, t) /\ t.text = y
    BY <1>6, <1>7, <2>3, <2>4, <2>5, PutBeside, PutLevel
  <2>7. Beside(s, t) /\ Level(s, t) /\ t.text = y
    BY <2>3, <2>6 DEF Beside, Level
  <2> QED
    BY <1>3, <1>9, <2>7
<1>12. CASE effect[k] # Separator /\ Depth(s.viet, k) # 0
  <2>1. ~Refused(s)
    BY DEF Sound, Refused
  <2>2. t = Replace(s, k)
    BY <1>3, <1>12, <2>1 DEF ReplayKey
  <2>3. /\ t.erased = s.erased
        /\ t.dropped = s.dropped /\ (t.grace <=> s.grace) /\ t.ticket = "Queued"
    BY <1>1, <2>2, ReplaceLevel
  <2>4. Begins(s, t, k)
    BY <1>1, <2>2, ReplaceBegins
  <2>5. Kept(s) \cup {k} \subseteq Kept(t)
    BY <1>1, <1>7, <1>12, <2>3, <2>4, BeginsSaves
  <2>6. Sound(t)
    BY <2>3, <2>4 DEF Sound, Begins
  <2> QED
    BY <1>3, <2>5, <2>6 DEF Saves
<1> QED
  BY <1>10, <1>11, <1>12

\* Nor is one that waits again.
LEMMA RebufferSaves ==
    ASSUME Env, NEW K, K \subseteq Keys, K \subseteq 1..BufferCap, NEW b \in Int, NEW w \in Int,
           NEW s \in Ready(K, b, w), NEW k \in K, NEW M, NEW C, Orderly(s, M, C), k \in M,
           ready, Sound(s), Current(s)
    PROVE  Saves(s, Rebuffer(s, k), {k})
<1>1. s \in Fine(K, b, w) /\ s \in Context(K) /\ ~s.replayTimer /\ Numbers /\ k \in Keys
  BY DEF Ready, Fine, Env
<1>2. CASE ~s.deleting
  <2>1. Saves(s, ReplayKey(s, k), {k})
    BY <1>1, <1>2, ReplayKeySaves
  <2> QED
    BY <1>2, <2>1 DEF Rebuffer
<1>3. CASE s.deleting
  <2>1. PICK t : t = Rebuffer(s, k)
    OBVIOUS
  <2>2. PICK q : q = Append(s.buffered, k)
    OBVIOUS
  <2>3. s.buffered \in Seq(K)
    BY <1>1, Typed
  <2>4. Rising(s.buffered) /\ Before(KeysIn(s.buffered), {k})
    BY DEF Orderly, Before
  <2>5. Len(s.buffered) < BufferCap
    BY <1>1, <2>3, <2>4, Room
  <2>6. t = [s EXCEPT !.buffered = q]
    BY <1>3, <2>1, <2>2, <2>5 DEF Rebuffer
  <2>7. /\ t.text = s.text /\ t.viet = s.viet /\ t.pending = s.pending
        /\ t.deleting = s.deleting /\ t.expected = s.expected /\ t.seen = s.seen
        /\ t.settled = s.settled /\ t.buffered = q /\ t.erased = s.erased
        /\ t.dropped = s.dropped
        /\ t.replayTimer = s.replayTimer /\ t.grace = s.grace /\ t.ticket = s.ticket
    BY ONLY <1>1, <2>6 DEF Context
  <2>8. Shown(t) = Shown(s)
    BY <2>7, TracksSame
  <2>9. KeysIn(q) = KeysIn(s.buffered) \cup {k}
    BY <1>1, <2>2, <2>3, KeysInQueue
  <2>10. Kept(s) \cup {k} \subseteq Kept(t)
    BY <2>7, <2>8, <2>9 DEF Kept
  <2> QED
    BY <1>1, <2>1, <2>7, <2>10 DEF Saves, Sound
<1> QED
  BY <1>2, <1>3

\* The keys of a queue after the first n - 1 are the next and those after it.
LEMMA AfterNext ==
    ASSUME NEW K, NEW q \in Seq(K), NEW n \in 1..Len(q)
    PROVE  After(q, n - 1) \subseteq {q[n]} \cup After(q, n)
<1>1. \A m \in ((n - 1) + 1)..Len(q) : m = n \/ m \in (n + 1)..Len(q)
  OBVIOUS
<1> QED
  BY <1>1 DEF After

\* When the buffer is replayed no key is lost.
LEMMA ReplayBufferedSaves ==
    ASSUME Env, NEW K, K \subseteq Keys, K \subseteq 1..BufferCap, NEW b \in Int, NEW w \in Int,
           w <= b, NEW s \in Fine(K, b, w), ~s.replayTimer, NEW C, Orderly(s, {}, C),
           ready, Sound(s), Current(s)
    PROVE  Saves(s, ReplayBuffered(s), {})
<1>1. s \in Context(K) /\ s.seen <= s.expected /\ BatchInv(s) /\ Solvent(s, b, w)
  BY DEF Fine
<1>2. PICK e : e = <<>>
  OBVIOUS
<1>3. PICK q : q = s.buffered
  OBVIOUS
<1>4. e \in Seq(K) /\ q \in Seq(K)
  BY <1>1, <1>2, <1>3, NoKeys, Typed
<1>5. PICK d : d = [s EXCEPT !.buffered = e]
  OBVIOUS
<1>6. /\ d \in Context(K) /\ d.text = s.text /\ d.viet = s.viet /\ d.pending = s.pending
      /\ d.deleting = s.deleting /\ d.expected = s.expected /\ d.seen = s.seen
      /\ d.disabled = s.disabled /\ d.replayTimer = s.replayTimer
      /\ d.oldWord = s.oldWord /\ d.settled = s.settled /\ d.buffered = e
      /\ d.removed = s.removed /\ d.left = s.left /\ d.erased = s.erased
      /\ d.dropped = s.dropped
      /\ d.tail = s.tail /\ d.grace = s.grace /\ d.outstanding = s.outstanding
      /\ d.ticket = s.ticket /\ d.settling = s.settling /\ d.safety = s.safety
  BY ONLY ZenonT(60), <1>1, <1>4, <1>5 DEF Context
<1>7. d \in Ready(K, b, w)
  <2>1. BatchInv(d)
    BY <1>1, <1>6 DEF BatchInv
  <2>2. Solvent(d, b, w)
    BY <1>1, <1>6, SolventKept
  <2> QED
    BY <1>1, <1>6, <2>1, <2>2 DEF Ready, Fine
<1>8. Rising(q) /\ Orderly(d, After(q, 0), C) /\ After(q, 0) = KeysIn(q)
  <2>1. Rising(q)
    BY <1>3 DEF Orderly
  <2>2. Served(d) = Served(s)
    BY <1>6 DEF Served
  <2>3. Orderly(d, KeysIn(s.buffered), C)
    BY <1>2, <1>6, <2>2, ReplaysInOrder
  <2>4. After(q, 0) = KeysIn(q)
    BY <1>4, <2>1, AfterFirst
  <2> QED
    BY <1>3, <2>1, <2>3, <2>4
<1>9. Current(d) /\ Sound(d) /\ Kept(s) \subseteq Kept(d) \cup After(q, 0)
  <2>1. Shown(d) = Shown(s) /\ Tracks(d) = Tracks(s)
    BY <1>6, TracksSame
  <2>2. Current(d) /\ Sound(d)
    BY <1>2, <1>6, <2>1 DEF Current, Sound
  <2> QED
    BY <1>3, <1>6, <1>8, <2>1, <2>2 DEF Kept
<1>10. PICK t : t = FoldLeft(Rebuffer, d, q)
  OBVIOUS
<1> DEFINE In(n, x) == /\ Orderly(x, After(q, n), C)
                       /\ x.buffered # <<>> => x.deleting
                       /\ Current(x) /\ Sound(x)
                       /\ Kept(s) \subseteq Kept(x) \cup After(q, n)
           P == [n \in 0..Len(q) |-> {x \in Ready(K, b, w) : In(n, x)}]
<1>11. Len(q) \in Nat /\ 0 \in 0..Len(q) /\ Len(q) \in 0..Len(q)
  BY <1>4
<1>12. d \in P[0]
  <2>1. In(0, d)
    BY <1>2, <1>6, <1>8, <1>9
  <2> HIDE DEF In
  <2> QED
    BY <1>7, <1>11, <2>1
<1>13. ASSUME NEW n \in 1..Len(q), NEW x \in P[n - 1] PROVE Rebuffer(x, q[n]) \in P[n]
  <2>1. n - 1 \in 0..Len(q) /\ n \in 0..Len(q)
    BY <1>11
  <2>2. x \in Ready(K, b, w) /\ In(n - 1, x)
    <3> HIDE DEF In
    <3> QED
      BY <1>13, <2>1
  <2>3. PICK k : k = q[n]
    OBVIOUS
  <2>4. PICK M : M = After(q, n - 1)
    OBVIOUS
  <2>5. PICK R : R = After(q, n)
    OBVIOUS
  <2>6. k \in K /\ k \in M /\ R \subseteq M /\ Before({k}, R) /\ M \subseteq {k} \cup R
    BY <1>4, <1>8, <2>3, <2>4, <2>5, AfterFirst, AfterNext
  <2>7. PICK y : y = Rebuffer(x, k)
    OBVIOUS
  <2>8. /\ Orderly(x, M, C) /\ (x.buffered # <<>> => x.deleting)
        /\ Current(x) /\ Sound(x) /\ Kept(s) \subseteq Kept(x) \cup M
    BY <2>2, <2>4
  <2>9. Orderly(y, R, C) /\ (y.buffered # <<>> => y.deleting)
    BY <2>2, <2>6, <2>7, <2>8, RebufferKeeps
  <2>10. y \in Ready(K, b, w) /\ Current(y)
    BY <2>2, <2>6, <2>7, <2>8, RebufferTracks
  <2>11. Saves(x, y, {k})
    BY <2>2, <2>6, <2>7, <2>8, RebufferSaves
  <2>12. In(n, y)
    <3>1. Sound(y) /\ Kept(s) \subseteq Kept(y) \cup R
      BY <2>6, <2>8, <2>11 DEF Saves
    <3> QED
      BY <2>5, <2>9, <2>10, <3>1
  <2> HIDE DEF In
  <2> QED
    BY <2>1, <2>3, <2>7, <2>10, <2>12
<1>14. t \in P[Len(q)]
  <2> HIDE DEF P
  <2> QED
    BY <1>4, <1>10, <1>12, <1>13, FoldedAt
<1>15. t \in Ready(K, b, w) /\ In(Len(q), t)
  <2> HIDE DEF In
  <2> QED
    BY <1>11, <1>14
<1>16. t \in Fine(K, b, w) /\ Orderly(t, {}, C) /\ Waits(t) /\ Current(t) /\ Saves(s, t, {})
  <2>1. After(q, Len(q)) = {}
    BY <1>4, <1>8, AfterFirst
  <2>2. /\ Orderly(t, After(q, Len(q)), C) /\ (t.buffered # <<>> => t.deleting)
        /\ Current(t) /\ Sound(t) /\ Kept(s) \subseteq Kept(t) \cup After(q, Len(q))
    BY <1>15
  <2>3. t \in Fine(K, b, w)
    BY <1>15 DEF Ready
  <2> QED
    BY <2>1, <2>2, <2>3 DEF Waits, Saves
<1>17. PICK u : u = ReplayBuffered(s)
  OBVIOUS
<1>18. u = IF t.deleting THEN t ELSE ReplaySettled(t)
  <2>1. d = [s EXCEPT !.buffered = <<>>]
    BY <1>2, <1>5
  <2> QED
    BY <1>3, <1>10, <1>17, <2>1 DEF ReplayBuffered
<1>19. CASE t.deleting
  BY <1>16, <1>17, <1>18, <1>19
<1>20. CASE ~t.deleting
  <2>1. u = ReplaySettled(t)
    BY <1>18, <1>20
  <2>2. Tracks(t) /\ Sound(t)
    BY <1>16 DEF Current, Saves
  <2>3. Saves(t, u, {})
    BY <1>16, <2>1, <2>2, ReplaySettledSaves
  <2> QED
    BY <1>16, <1>17, <2>3 DEF Saves
<1> QED
  BY <1>19, <1>20

\* The end of a replacement, whose suffix is committed, shows every key.
LEMMA EndSaves ==
    ASSUME Numbers, NEW K, NEW b, NEW w, NEW s \in Context(K), s.seen <= s.expected,
           s.deleting, s.expected = 0, ~s.disabled, NEW x \in Fine(K, b, w), ~x.deleting,
           x.text = s.text, x.buffered = s.buffered, x.settled = s.settled, Level(s, x),
           x.disabled = s.disabled, x.replayTimer = s.replayTimer, Sound(s)
    PROVE  Saves(s, Put(x, s.pending), {})
<1>1. PICK g : g = s.pending
  OBVIOUS
<1>2. PICK t : t = Put(x, g)
  OBVIOUS
<1>3. /\ s.text \in Seq(Glyphs(K)) /\ s.seen \in 0..MaxDelete
  BY Typed
<1>4. x \in Context(K)
  BY DEF Fine
<1>5. /\ Beside(x, t) /\ t.text = s.text \o g /\ Level(x, t)
  BY <1>2, <1>4, PutBeside, PutLevel
<1>6. s.expected - s.seen = 0
  BY <1>3 DEF Numbers
<1>7. Shown(s) = s.text \o g
  BY <1>1, <1>3, <1>6, DropNone DEF Shown
<1>8. /\ ~t.deleting /\ t.buffered = s.buffered /\ t.settled = s.settled
      /\ (t.replayTimer <=> s.replayTimer)
  BY <1>5 DEF Beside
<1>9. Shown(t) = Shown(s)
  BY <1>5, <1>7, <1>8 DEF Shown
<1>10. Level(s, t)
  BY <1>5 DEF Level
<1>11. Kept(s) \subseteq Kept(t)
  BY <1>8, <1>9, <1>10 DEF Kept, Level
<1>12. Sound(t)
  BY <1>8, <1>10 DEF Sound, Level
<1> QED
  BY <1>1, <1>2, <1>11, <1>12 DEF Saves

---------------------------------------------------------------------------
(* The ends of a replacement, and the keys that are kept.                  *)

\* The commit, and what waited for it.
LEMMA SettleCommitSaves ==
    ASSUME Env, NEW K, K \subseteq Keys, K \subseteq 1..BufferCap, NEW b \in Int, NEW w \in Int,
           w <= b, NEW s \in Context(K), Solvent(s, b, w), s.seen <= s.expected,
           s.ticket = "Complete", s.left = 0, s.outstanding = 0, ~s.safety, ~s.replayTimer,
           s.deleting, NEW C, Orderly(s, {}, C), ready, Sound(s), Current(s), s.expected = 0
    PROVE  Saves(s, SettleCommit(s), {})
<1>1. PICK e : e = <<>>
  OBVIOUS
<1>2. PICK x : x = [s EXCEPT !.pending = e, !.settling = FALSE, !.deleting = FALSE]
  OBVIOUS
<1>3. PICK t : t = Put(x, s.pending)
  OBVIOUS
<1>4. PICK v : v = [t EXCEPT !.replayTimer = TRUE]
  OBVIOUS
<1>5. PICK u : u = SettleCommit(s)
  OBVIOUS
<1>6. x = [s EXCEPT !.pending = <<>>, !.settling = FALSE, !.deleting = FALSE]
  BY <1>1, <1>2
<1>7. /\ x \in Fine(K, b, w) /\ ~x.replayTimer /\ ~x.deleting /\ x.ticket = "Complete"
  BY <1>6, EndFine DEF Env
<1>8. u = IF Ordered THEN v ELSE ReplayBuffered(t)
  <2>1. Commit(x, s.pending) = t
    BY <1>3, <1>7 DEF Commit
  <2> QED
    BY <1>4, <1>5, <1>6, <2>1 DEF SettleCommit
<1>9. /\ x.text = s.text /\ x.viet = s.viet /\ x.oldWord = s.oldWord
      /\ x.disabled = s.disabled /\ x.buffered = s.buffered /\ x.settled = s.settled
      /\ x.pending = <<>> /\ x.replayTimer = s.replayTimer /\ Level(s, x)
  <2>1. /\ x.text = s.text /\ x.viet = s.viet /\ x.oldWord = s.oldWord
        /\ x.disabled = s.disabled /\ x.buffered = s.buffered /\ x.settled = s.settled
        /\ x.pending = e /\ x.replayTimer = s.replayTimer /\ x.erased = s.erased
        /\ x.dropped = s.dropped
        /\ x.grace = s.grace /\ x.ticket = s.ticket
    BY ONLY ZenonT(60), <1>2, s \in Context(K) DEF Context
  <2> QED
    BY <1>1, <2>1 DEF Level
<1>10. ~s.disabled
  BY DEF Current
<1>11. Orderly(t, {}, C)
  BY <1>3, <1>7, <1>9, EndKeeps DEF Env
<1>12. Saves(s, t, {})
  BY <1>3, <1>7, <1>9, <1>10, EndSaves DEF Env
<1>13. s.pending \in Seq(Glyphs(K))
  BY Typed
<1>14. t \in Fine(K, b, w) /\ ~t.replayTimer /\ t \in Context(K)
  <2>1. t \in Fine(K, b, w) /\ ~t.replayTimer
    BY <1>3, <1>7, <1>13, PutFine
  <2> QED
    BY <2>1 DEF Fine
<1>15. Current(t)
  BY <1>3, <1>7, <1>9, EndTracks DEF Env
<1>16. CASE Ordered
  <2>1. /\ v.text = t.text /\ v.viet = t.viet /\ v.pending = t.pending
        /\ v.deleting = t.deleting /\ v.expected = t.expected /\ v.seen = t.seen
        /\ v.buffered = t.buffered /\ v.settled = t.settled
        /\ v.erased = t.erased
        /\ v.dropped = t.dropped /\ v.grace = t.grace /\ v.ticket = t.ticket
    BY ONLY ZenonT(60), <1>4, <1>14 DEF Context
  <2>2. Shown(v) = Shown(t)
    BY <2>1, TracksSame
  <2>3. Sound(v) /\ Kept(t) = Kept(v)
    BY <1>12, <1>16, <2>1, <2>2 DEF Saves, Sound, Kept
  <2> QED
    BY <1>5, <1>8, <1>12, <1>16, <2>3 DEF Saves
<1>17. CASE ~Ordered
  <2>1. Sound(t)
    BY <1>12 DEF Saves
  <2>2. Saves(t, ReplayBuffered(t), {})
    BY <1>11, <1>14, <1>15, <2>1, ReplayBufferedSaves
  <2> QED
    BY <1>5, <1>8, <1>12, <1>17, <2>2 DEF Saves
<1> QED
  BY <1>16, <1>17

\* The end of a settle: a missed deletion is repaired only where the old word is intact.
LEMMA FinishSettleSaves ==
    ASSUME Env, NEW K, K \subseteq Keys, K \subseteq 1..BufferCap, NEW b \in Int, NEW w \in Int,
           w <= b, NEW s \in Fine(K, b, w), s.deleting, s.settling, NEW missed \in BOOLEAN,
           NEW C, Orderly(s, {}, C), ready, Sound(s), Tracks(s), Clean(s),
           s.disabled => AwaitsReturn(s)
    PROVE  Saves(s, FinishSettle(s, missed), {})
<1>1. PICK u : u = FinishSettle(s, missed)
  OBVIOUS
<1>2. /\ s \in Context(K) /\ s.seen <= s.expected /\ Solvent(s, b, w)
      /\ s.ticket # "Failed" /\ ~StillTyping(s) => s.ticket = "Complete" /\ s.left = 0
      /\ ~s.replayTimer /\ s.outstanding = 0 /\ ~s.safety /\ s.expected = 0
  BY SettleReady
<1>3. s.ticket # "Failed"
  BY DEF Sound
<1>4. CASE StillTyping(s) \/ AwaitsReturn(s)
  <2>1. u = s
    BY <1>1, <1>3, <1>4 DEF FinishSettle
  <2> QED
    BY <1>1, <2>1 DEF Saves
<1>5. CASE ~(StillTyping(s) \/ AwaitsReturn(s))
  <2>1. s.ticket = "Complete" /\ s.left = 0 /\ Current(s)
    BY <1>2, <1>3, <1>5 DEF Current
  <2>2. CASE u = SettleCommit(s)
    BY <1>1, <1>2, <2>1, <2>2, SettleCommitSaves
  <2>3. CASE u # SettleCommit(s)
    <3>1. PICK n : n = s.repairs + 1
      OBVIOUS
    <3>2. PICK x : x = [s EXCEPT !.repairs = n]
      OBVIOUS
    <3>3. s.repairs < 3 /\ s.oldWord # <<>>
      BY <1>1, <1>3, <1>5, <2>3 DEF FinishSettle
    <3>4. n \in 0..3
      <4>1. s.repairs \in 0..3
        BY <1>2, Typed
      <4> QED
        BY <3>1, <3>3, <4>1
    <3>5. ~WordStillIntact(s)
      BY <1>2, <3>3, NotIntact DEF Env
    <3>6. u = SettleCommit(x)
      <4>1. x = [s EXCEPT !.repairs = @ + 1]
        BY <3>1, <3>2
      <4> QED
        BY <1>1, <1>3, <1>5, <2>3, <3>5, <4>1 DEF FinishSettle
    <3>7. /\ x \in Context(K) /\ x.text = s.text /\ x.viet = s.viet /\ x.pending = s.pending
          /\ x.deleting = s.deleting /\ x.expected = s.expected /\ x.seen = s.seen
          /\ x.oldWord = s.oldWord /\ x.buffered = s.buffered /\ x.settled = s.settled
          /\ x.safety = s.safety /\ x.outstanding = s.outstanding /\ x.ticket = s.ticket
          /\ x.left = s.left /\ x.tail = s.tail /\ x.grace = s.grace
          /\ x.replayTimer = s.replayTimer /\ x.removed = s.removed
          /\ x.disabled = s.disabled /\ x.erased = s.erased /\ x.dropped = s.dropped
      BY ONLY ZenonT(60), <1>2, <3>2, <3>4 DEF Context
    <3>8. Shown(x) = Shown(s) /\ Tracks(x) = Tracks(s)
      BY <3>7, TracksSame
    <3>9. Sound(x) /\ Current(x) /\ Kept(x) = Kept(s) /\ Served(x) = Served(s)
      BY <2>1, <3>7, <3>8 DEF Sound, Current, Kept, Served
    <3>10. Orderly(x, {}, C)
      BY <3>7, <3>9 DEF Orderly
    <3>11. Solvent(x, b, w)
      BY <1>2, <3>7, SolventKept
    <3>12. /\ x.seen <= x.expected /\ x.expected = 0 /\ x.deleting /\ ~x.safety
           /\ x.outstanding = 0 /\ x.ticket = "Complete" /\ x.left = 0 /\ ~x.replayTimer
      BY <1>2, <2>1, <3>7
    <3>13. Saves(x, SettleCommit(x), {})
      BY <3>7, <3>9, <3>10, <3>11, <3>12, SettleCommitSaves
    <3> QED
      BY <1>1, <3>6, <3>9, <3>13 DEF Saves
  <2> QED
    BY <2>2, <2>3
<1> QED
  BY <1>4, <1>5

\* A context is given up where nothing waits, and no key is lost.
LEMMA GivenUpSaves ==
    ASSUME NEW K, NEW s \in Context(K), s.outstanding = 0, ~s.deleting, Sound(s),
           s.buffered = <<>>, s.settled = <<>>, NEW t,
           t \in {Abandon(s), [Abandon(s) EXCEPT !.outstanding = 0, !.retried = FALSE]}
    PROVE  Saves(s, t, {})
<1> DEFINE g == s.grace \/ (s.ticket # "none" /\ s.outstanding > 0)
           o == IF s.ticket = "none" THEN s.outstanding ELSE 0
           x == s.tail \/ (s.ticket = "Running" /\ s.left > 0)
           c == [s EXCEPT !.grace = g, !.outstanding = o, !.tail = x, !.left = 0,
                          !.ticket = "none"]
<1>1. c = Cancel(s)
  BY DEF Cancel
<1> HIDE DEF c
<1>2. c \in Context(K) /\ c.ticket = "none" /\ ~c.grace /\ c.text = s.text
  <2>1. c \in Context(K) /\ Cancelled(s, c)
    BY <1>1, CancelGood
  <2> QED
    BY <2>1 DEF Cancelled, Sound
<1> USE DEF c
<1> HIDE DEF g, o, x
<1>3. c.erased = s.erased /\ c.dropped = s.dropped
  BY ZenonT(60) DEF Context
<1> HIDE DEF c
<1>4. PICK a : a = Abandon(s)
  OBVIOUS
<1>5. a = [c EXCEPT !.viet = <<>>, !.buffered = <<>>, !.settled = <<>>,
         !.replayTimer = FALSE, !.settling = FALSE, !.safety = FALSE, !.deleting = FALSE,
         !.pending = <<>>, !.expected = 0, !.seen = 0]
  BY <1>1, <1>4 DEF Abandon
<1>6. /\ a.buffered = <<>> /\ a.settled = <<>> /\ a.deleting = FALSE
      /\ a.replayTimer = FALSE /\ a.text = c.text /\ a.erased = c.erased
      /\ a.dropped = c.dropped
      /\ a.grace = c.grace /\ a.ticket = c.ticket
  BY ONLY ZenonT(60), <1>2, <1>5 DEF Context
<1>7. /\ t.buffered = <<>> /\ t.settled = <<>> /\ ~t.deleting /\ ~t.replayTimer
      /\ t.text = c.text /\ t.erased = c.erased
      /\ t.dropped = c.dropped /\ (t.grace <=> c.grace)
      /\ t.ticket = c.ticket
  <2>1. CASE t = a
    BY <1>6, <2>1
  <2>2. CASE t = [a EXCEPT !.outstanding = 0, !.retried = FALSE]
    <3>1. /\ t.buffered = a.buffered /\ t.settled = a.settled /\ t.deleting = a.deleting
          /\ t.replayTimer = a.replayTimer /\ t.text = a.text /\ t.erased = a.erased
          /\ t.dropped = a.dropped
          /\ t.grace = a.grace /\ t.ticket = a.ticket
      BY ONLY ZenonT(60), <1>2, <1>5, <2>2 DEF Context
    <3> QED
      BY <1>6, <3>1
  <2> QED
    BY <1>4, <2>1, <2>2
<1>8. Shown(t) = Shown(s)
  BY <1>2, <1>7 DEF Shown
<1>9. Kept(s) \subseteq Kept(t) /\ Sound(t)
  BY <1>2, <1>3, <1>7, <1>8 DEF Kept, Sound
<1> QED
  BY <1>9 DEF Saves

\* A replacement whose anchor is back is committed at once when the focus is lost.
LEMMA FlushSaves ==
    ASSUME Env, NEW K, K \subseteq Keys, K \subseteq 1..BufferCap, NEW b \in Int, NEW w \in Int,
           w <= b, NEW s \in Fine(K, b, w), NEW C, Orderly(s, {}, C), ready, Sound(s),
           Tracks(s), s.disabled => app = "page"
    PROVE  Saves(s, Flush(s), {})
<1>1. PICK u : u = Flush(s)
  OBVIOUS
<1>2. CASE ~(s.deleting /\ s.expected = 0 /\ ~HeldOnWayland(s) /\ ~StillTyping(s))
  <2>1. u = s
    BY <1>1, <1>2 DEF Flush
  <2> QED
    BY <1>1, <2>1 DEF Saves
<1>3. CASE s.deleting /\ s.expected = 0 /\ ~HeldOnWayland(s) /\ ~StillTyping(s)
  <2>1. PICK e : e = <<>>
    OBVIOUS
  <2>2. PICK x : x = [s EXCEPT !.deleting = FALSE, !.settling = FALSE, !.pending = e]
    OBVIOUS
  <2>3. PICK g : g = s.pending
    OBVIOUS
  <2>4. PICK t : t = Commit(x, g)
    OBVIOUS
  <2>5. u = ReplayBuffered(t)
    BY <1>1, <1>3, <2>1, <2>2, <2>3, <2>4 DEF Flush
  <2>6. /\ s \in Context(K) /\ s.seen <= s.expected /\ Solvent(s, b, w)
        /\ s.ticket = "Complete" /\ s.left = 0
        /\ ~s.replayTimer /\ s.outstanding = 0 /\ ~s.safety
    <3>1. s.ticket # "Failed"
      BY DEF Sound
    <3> QED
      BY <1>3, <3>1, SettleReady
  <2>7. Current(s) /\ ~s.disabled
    BY <1>3 DEF HeldOnWayland, Current
  <2>8. e \in Seq(Glyphs(K)) /\ g \in Seq(Glyphs(K))
    BY <2>1, <2>3, <2>6, NoKeys, Typed
  <2>9. /\ x \in Context(K) /\ x.ticket = s.ticket /\ x.erased = s.erased
        /\ x.dropped = s.dropped
        /\ x.settled = s.settled /\ x.grace = s.grace /\ x.text = s.text
        /\ x.disabled = s.disabled /\ x.viet = s.viet /\ x.oldWord = s.oldWord
        /\ x.buffered = s.buffered /\ x.pending = e /\ x.deleting = FALSE
        /\ x.replayTimer = s.replayTimer
    BY ONLY ZenonT(60), <2>2, <2>6, <2>8 DEF Context
  <2>10. x = [s EXCEPT !.pending = <<>>, !.settling = FALSE, !.deleting = FALSE]
    BY <2>1, <2>2, <2>6 DEF Context
  <2>11. x \in Fine(K, b, w) /\ ~x.deleting /\ x.pending = <<>> /\ Level(s, x)
    <3>1. x \in Fine(K, b, w)
      BY <2>6, <2>10, EndFine DEF Env
    <3> QED
      BY <2>1, <2>9, <3>1 DEF Level
  <2>12. t = Put(x, s.pending)
    BY <2>3, <2>4, <2>6, <2>9 DEF Commit
  <2>13. Orderly(t, {}, C)
    BY <1>3, <2>6, <2>9, <2>11, <2>12, EndKeeps DEF Env
  <2>14. t \in Fine(K, b, w) /\ ~t.replayTimer
    BY <2>3, <2>6, <2>8, <2>9, <2>11, <2>12, PutFine
  <2>15. Current(t)
    BY <1>3, <2>6, <2>7, <2>9, <2>11, <2>12, EndTracks DEF Env
  <2>16. Saves(s, t, {})
    BY <1>3, <2>6, <2>7, <2>9, <2>11, <2>12, EndSaves DEF Env
  <2>17. Saves(t, u, {})
    <3>1. Sound(t)
      BY <2>16 DEF Saves
    <3> QED
      BY <2>5, <2>13, <2>14, <2>15, <3>1, ReplayBufferedSaves
  <2> QED
    BY <1>1, <2>16, <2>17 DEF Saves
<1> QED
  BY <1>2, <1>3

\* A browser that gives up the focus keeps the keys that wait for its replacement.
LEMMA LeaveSaves ==
    ASSUME Env, NEW K, K \subseteq Keys, K \subseteq 1..BufferCap, NEW b \in Int, NEW w \in Int,
           w <= b, NEW s \in Fine(K, b, w), NEW C, Orderly(s, {}, C), Waits(s), ready, Sound(s),
           Tracks(s), s.disabled => app = "page", Browser,
           Held(Flush(s)) \/ Flush(s).settled = <<>>
    PROVE  Saves(s, Leave(s), {})
<1>1. PICK t : t = Flush(s)
  OBVIOUS
<1>2. PICK r : r = Leave(s)
  OBVIOUS
<1>3. Waits(t) /\ Saves(s, t, {})
  BY <1>1, FlushKeeps, FlushSaves
<1>4. t \in Fine(K, b, w)
  BY <1>1, FlushFine
<1>5. t \in Context(K) /\ BatchInv(t)
  BY <1>4 DEF Fine
<1>6. CASE Held(t)
  <2>1. r = [t EXCEPT !.cycle = TRUE]
    BY <1>1, <1>2, <1>6 DEF Leave
  <2>2. /\ r.text = t.text /\ r.viet = t.viet /\ r.pending = t.pending
        /\ r.buffered = t.buffered /\ r.settled = t.settled
        /\ r.deleting = t.deleting /\ r.expected = t.expected /\ r.seen = t.seen
        /\ r.replayTimer = t.replayTimer /\ r.erased = t.erased
        /\ r.dropped = t.dropped /\ r.grace = t.grace
        /\ r.ticket = t.ticket
    BY ONLY ZenonT(60), <1>5, <2>1 DEF Context
  <2>3. Shown(r) = Shown(t)
    BY <2>2, TracksSame
  <2>4. Sound(r) /\ Kept(r) = Kept(t)
    BY <1>3, <2>2, <2>3 DEF Saves, Sound, Kept
  <2> QED
    BY <1>2, <1>3, <2>4 DEF Saves
<1>7. CASE ~Held(t)
  <2>1. r = Abandon(t)
    BY <1>1, <1>2, <1>7 DEF Leave
  <2>2. ~t.deleting /\ t.settled = <<>> /\ ~Ordered
    BY <1>1, <1>7 DEF Held, Browser, Ordered
  <2>3. t.buffered = <<>> /\ Sound(t)
    BY <1>3, <2>2 DEF Waits, Saves, Sound
  <2>4. t.outstanding = 0
    BY <1>5, <2>2 DEF BatchInv
  <2>5. Saves(t, r, {})
    BY <1>5, <2>1, <2>2, <2>3, <2>4, GivenUpSaves
  <2> QED
    BY <1>2, <1>3, <2>5 DEF Saves
<1> QED
  BY <1>6, <1>7

\* The focus comes back: what is given up then is what the loss gave up.
LEMMA ReturnSaves ==
    ASSUME NEW K, NEW b, NEW w, NEW s \in Fine(K, b, w), Sound(s),
           app = "page" => Parked(s)
    PROVE  Saves(s, ResetPage(Return(s)), {})
<1>1. PICK v : v = IF s.cycle THEN s.viet ELSE <<>>
  OBVIOUS
<1>2. PICK x : x = Return(s)
  OBVIOUS
<1>3. PICK r : r = ResetPage(x)
  OBVIOUS
<1>4. s \in Context(K) /\ BatchInv(s)
  BY DEF Fine
<1>5. x = [s EXCEPT !.viet = v, !.cycle = FALSE, !.disabled = FALSE]
  BY <1>1, <1>2, <1>4 DEF Return, Context
<1>6. /\ x.text = s.text /\ x.pending = s.pending
      /\ x.buffered = s.buffered /\ x.settled = s.settled
      /\ x.deleting = s.deleting /\ x.expected = s.expected /\ x.seen = s.seen
      /\ x.replayTimer = s.replayTimer /\ x.erased = s.erased
      /\ x.dropped = s.dropped /\ x.grace = s.grace
      /\ x.ticket = s.ticket /\ x.outstanding = s.outstanding
  BY ONLY ZenonT(60), <1>4, <1>5 DEF Context
<1>7. Shown(x) = Shown(s)
  BY <1>6 DEF Shown
<1>8. Sound(x) /\ Kept(x) = Kept(s)
  BY <1>6, <1>7 DEF Sound, Kept
<1>9. CASE r = x
  BY <1>2, <1>3, <1>8, <1>9 DEF Saves
<1>10. CASE r # x
  <2>1. app = "page" /\ ~s.deleting
        /\ r = [Abandon(x) EXCEPT !.outstanding = 0, !.retried = FALSE]
    BY <1>3, <1>6, <1>10 DEF ResetPage
  <2>2. s.buffered = <<>> /\ s.settled = <<>>
    BY <2>1 DEF Parked, Quiet
  <2>3. s.outstanding = 0
    BY <1>4, <2>1 DEF BatchInv
  <2>4. x \in Context(K)
    <3>1. v \in Seq(Glyphs(K))
      BY <1>1, <1>4, NoKeys, Typed
    <3> QED
      BY ONLY ZenonT(60), <1>4, <1>5, <3>1 DEF Context
  <2>5. Saves(x, r, {})
    BY <1>6, <1>8, <2>1, <2>2, <2>3, <2>4, GivenUpSaves
  <2> QED
    BY <1>2, <1>3, <1>8, <2>5 DEF Saves
<1> QED
  BY <1>9, <1>10

---------------------------------------------------------------------------
(* The steps, and the keys that are kept.                                  *)

\* A fault is counted for good.
LEMMA FaultsCount ==
    ASSUME IInv, Faultless', pressed' \in {pressed, pressed + 1},
           \/ used' = used
           \/ \E e \in {"backspaces", "eaten", "lost", "fails", "forced", "leaves"} : Use(e)
    PROVE  /\ Faultless
           /\ ~Use("eaten") /\ ~Use("fails") /\ ~Use("forced")
           /\ "genuine" \in Losses => ~Use("leaves")
<1>1. /\ used \in [backspaces : Nat, eaten : Nat, lost : Nat, fails : Nat, forced : Nat,
                   leaves : Nat]
      /\ pressed \in Nat /\ BufferCap \in Nat
  BY ReplacementAssumption DEF IInv, TypeOK
<1>2. /\ used'.eaten = 0 /\ used'.fails = 0 /\ used'.forced = 0
      /\ "genuine" \in Losses => used'.leaves = 0
      /\ pressed' <= BufferCap
  BY DEF Faultless
<1>3. /\ used.eaten \in Nat /\ used.fails \in Nat /\ used.forced \in Nat
      /\ used.leaves \in Nat
  BY <1>1
<1>4. /\ Use("eaten") => used'.eaten = used.eaten + 1
      /\ Use("fails") => used'.fails = used.fails + 1
      /\ Use("forced") => used'.forced = used.forced + 1
      /\ Use("leaves") => used'.leaves = used.leaves + 1
  BY <1>1 DEF Use
<1>5. /\ ~Use("eaten") /\ ~Use("fails") /\ ~Use("forced")
      /\ "genuine" \in Losses => ~Use("leaves")
  BY <1>2, <1>3, <1>4
<1>6. /\ used'.eaten = used.eaten /\ used'.fails = used.fails /\ used'.forced = used.forced
      /\ used'.leaves = used.leaves \/ Use("leaves")
  <2>1. used' = used \/ Use("backspaces") \/ Use("lost") \/ Use("leaves")
    BY <1>5
  <2>2. ASSUME Use("backspaces") \/ Use("lost")
        PROVE  /\ used'.eaten = used.eaten /\ used'.fails = used.fails
               /\ used'.forced = used.forced /\ used'.leaves = used.leaves
    BY <1>1, <2>2 DEF Use
  <2>3. ASSUME Use("leaves")
        PROVE  /\ used'.eaten = used.eaten /\ used'.fails = used.fails
               /\ used'.forced = used.forced
    BY <1>1, <2>3 DEF Use
  <2> QED
    BY <2>1, <2>2, <2>3
<1>7. pressed <= BufferCap
  BY <1>1, <1>2
<1>8. "genuine" \in Losses => used.leaves = 0
  BY <1>2, <1>5, <1>6
<1>9. Faultless
  BY <1>2, <1>6, <1>7, <1>8 DEF Faultless
<1> QED
  BY <1>5, <1>9

\* The keys that came are those pressed that are not on their way.
LEMMA ComingKeys ==
    ASSUME NEW p \in 0..MaxKeys, NEW q
    PROVE  (1..p) \ {q[n] : n \in DOMAIN q} = (1..p) \ KeysIn(q)
<1>1. 1..p \subseteq Keys
  BY ReplacementAssumption DEF Keys
<1> QED
  BY <1>1 DEF KeysIn

\* So after a step.
LEMMA ArrivedNext ==
    ASSUME pressed' \in 0..MaxKeys
    PROVE  Arrived' = (1..pressed') \ KeysIn(wire')
BY ComingKeys DEF Arrived, Coming

\* Before the first fault no key is lost, and the buffer has room for all that came.
LEMMA KeptSoFar ==
    ASSUME IInv, KeptInv, Faultless
    PROVE  /\ ready /\ focus # "away" /\ Sound(ic) /\ Arrived \subseteq Kept(ic)
           /\ Arrived = (1..pressed) \ KeysIn(wire) /\ Arrived \subseteq 1..BufferCap
<1>1. /\ ready /\ focus # "away" /\ Sound(ic) /\ Arrived \subseteq Kept(ic)
  BY DEF KeptInv
<1>2. Arrived = (1..pressed) \ KeysIn(wire)
  BY ComingKeys DEF IInv, TypeOK, Arrived, Coming
<1>3. Arrived \subseteq 1..BufferCap
  <2>1. pressed \in Nat /\ BufferCap \in Nat /\ pressed <= BufferCap
    BY ReplacementAssumption DEF IInv, TypeOK, Faultless
  <2>2. 1..pressed \subseteq 1..BufferCap
    BY <2>1
  <2> QED
    BY <1>2, <2>2
<1> QED
  BY <1>1, <1>2, <1>3

\* A step keeps every key where the context saves those it had, and the one that came.
LEMMA KeptNext ==
    ASSUME app' = app, again \subseteq again', ready', focus' # "away",
           Arrived \subseteq Kept(ic), NEW N,
           Arrived' \subseteq Arrived \cup N, Saves(ic, ic', N)
    PROVE  KeptInv'
<1>1. Sound(ic)'
  BY DEF Saves, Sound, Ordered
<1>2. Kept(ic') \subseteq Kept(ic)'
  BY DEF Kept, Shown
<1> QED
  BY <1>1, <1>2 DEF Saves, KeptInv

\* No key has come yet.
LEMMA InitKept ==
    ASSUME Init
    PROVE  KeptInv
<1>1. /\ pressed = 0 /\ ready /\ focus = "here" /\ ic.grace = FALSE /\ ic.ticket = "none"
      /\ ic.replayTimer = FALSE
  BY DEF Init
<1>2. Arrived = {}
  BY <1>1 DEF Arrived
<1> QED
  BY <1>1, <1>2 DEF KeptInv, Sound

\* A key that is pressed has yet to come.
LEMMA PressKeyKept ==
    ASSUME IInv, KeptInv, PressKey
    PROVE  KeptInv'
<1>1. SUFFICES ASSUME Faultless'
               PROVE  KeptInv'
  BY DEF KeptInv
<1>2. PICK k : k = pressed + 1
  OBVIOUS
<1>3. /\ pressed' = k /\ wire' = Append(wire, k) /\ pressed < MaxKeys
      /\ UNCHANGED <<app, ic, ready, focus, used>> /\ again \subseteq again'
  BY <1>2 DEF PressKey
<1>4. Faultless
  BY <1>1, <1>2, <1>3, FaultsCount
<1>5. /\ ready /\ focus # "away" /\ Sound(ic) /\ Arrived \subseteq Kept(ic)
      /\ Arrived = (1..pressed) \ KeysIn(wire)
  BY <1>4, KeptSoFar
<1>6. wire \in Seq(0..Backspace) /\ pressed \in 0..MaxKeys /\ MaxKeys \in Nat
  BY ReplacementAssumption DEF IInv, TypeOK
<1>7. k \in Keys /\ k \in 0..Backspace /\ k \in 0..MaxKeys /\ 1..k \subseteq (1..pressed) \cup {k}
  BY <1>2, <1>3, <1>6 DEF Keys, Backspace
<1>8. KeysIn(wire') = KeysIn(wire) \cup {k}
  <2>1. PICK S : S = 0..Backspace
    OBVIOUS
  <2>2. wire \in Seq(S) /\ k \in S
    BY <1>6, <1>7, <2>1
  <2>3. KeysIn(Append(wire, k)) = KeysIn(wire) \cup ({k} \cap Keys)
    BY ONLY <2>2, KeysInQueue
  <2> QED
    BY <1>3, <1>7, <2>3
<1>9. Arrived' = (1..k) \ KeysIn(wire')
  <2>1. pressed' \in 0..MaxKeys
    BY <1>3, <1>7
  <2> QED
    BY ONLY <1>3, <2>1, ArrivedNext
<1>10. Arrived' \subseteq Arrived
  BY <1>5, <1>7, <1>8, <1>9
<1>11. Saves(ic, ic', {})
  BY <1>3, <1>5 DEF Saves
<1> QED
  BY <1>3, <1>5, <1>10, <1>11, KeptNext

\* So far no key is lost, and as many as had come have come after a step that presses none.
LEMMA KeptBefore ==
    ASSUME IInv, OrderInv, KeptInv, Faultless', pressed' = pressed,
           wire' = wire \/ KeysIn(wire') = KeysIn(wire),
           \/ used' = used
           \/ \E e \in {"backspaces", "eaten", "lost", "fails", "forced", "leaves"} : Use(e)
    PROVE  /\ Faultless /\ ready /\ focus # "away" /\ Sound(ic) /\ Arrived \subseteq Kept(ic)
           /\ Arrived \subseteq 1..BufferCap /\ Arrived' = Arrived
           /\ ~Use("eaten") /\ ~Use("fails") /\ ~Use("forced")
           /\ "genuine" \in Losses => ~Use("leaves")
<1>1. pressed' \in {pressed, pressed + 1}
  OBVIOUS
<1>2. /\ Faultless
      /\ ~Use("eaten") /\ ~Use("fails") /\ ~Use("forced")
      /\ "genuine" \in Losses => ~Use("leaves")
  BY <1>1, FaultsCount
<1>3. /\ ready /\ focus # "away" /\ Sound(ic) /\ Arrived \subseteq Kept(ic)
      /\ Arrived = (1..pressed) \ KeysIn(wire) /\ Arrived \subseteq 1..BufferCap
  BY <1>2, KeptSoFar
<1>4. Arrived' = (1..pressed) \ KeysIn(wire')
  BY ComingKeys DEF IInv, TypeOK, Arrived, Coming
<1> QED
  BY <1>2, <1>3, <1>4

\* Steps of the user, of the desktop and of the worker that do not touch the context.
LEMMA OtherKept ==
    ASSUME IInv, OrderInv, KeptInv,
           PressBackspace \/ Lose \/ DeliverElsewhere \/ Recover \/ UNCHANGED vars
    PROVE  KeptInv'
<1>1. SUFFICES ASSUME Faultless'
               PROVE  KeptInv'
  BY DEF KeptInv
<1>2. /\ UNCHANGED <<app, ic, again, pressed, focus>> /\ (ready => ready')
      /\ used' = used \/ Use("backspaces") \/ Use("lost")
  BY DEF PressBackspace, Lose, DeliverElsewhere, Recover, vars, world
<1>3. /\ \/ wire' = wire \/ wire' = Append(wire, Backspace)
         \/ Lose /\ wire # <<>> /\ wire' = Tail(wire) /\ Head(wire) = Loopback
         \/ DeliverElsewhere
  BY DEF PressBackspace, Lose, Recover, vars, world
<1>4. ~DeliverElsewhere
  <2>1. Faultless
    BY <1>1, <1>2, FaultsCount
  <2>2. focus # "away"
    BY <2>1 DEF KeptInv
  <2> QED
    BY <2>2 DEF DeliverElsewhere
<1>5. wire' = wire \/ KeysIn(wire') = KeysIn(wire)
  <2>1. {Loopback} \cap Keys = {}
    BY ReplacementAssumption DEF Loopback, Keys
  <2> QED
    BY <1>3, <1>4, <2>1, WireKeys
<1>6. /\ ready /\ focus # "away" /\ Sound(ic) /\ Arrived \subseteq Kept(ic)
      /\ Arrived' = Arrived
  BY <1>1, <1>2, <1>5, KeptBefore
<1>7. Saves(ic, ic', {}) /\ Arrived' \subseteq Arrived \cup {}
  BY <1>2, <1>6 DEF Saves
<1> QED
  BY <1>2, <1>6, <1>7, KeptNext

\* Steps of the worker, and timers that only watch: those that give up the keys need a fault.
LEMMA BatchKept ==
    ASSUME IInv, OrderInv, KeptInv,
           \/ TakeBatch \/ Complete \/ TypeKey \/ TypeTail \/ Fail \/ GraceEnds
           \/ WatchRequest \/ SafetyExtends \/ CycleExpires
    PROVE  KeptInv'
<1>1. SUFFICES ASSUME Faultless'
               PROVE  KeptInv'
  BY DEF KeptInv
<1>2. /\ UNCHANGED <<app, again, focus, pressed>> /\ (~Fail => ready' = ready)
      /\ used' = used \/ (Fail /\ Use("fails"))
  BY DEF TakeBatch, Complete, TypeKey, TypeTail, Fail, GraceEnds, WatchRequest, SafetyExtends,
         CycleExpires, world
<1>3. wire' = wire \/ KeysIn(wire') = KeysIn(wire)
  BY BatchSteps, WireKeys
<1>4. /\ ready /\ focus # "away" /\ Sound(ic) /\ Arrived \subseteq Kept(ic)
      /\ Arrived' = Arrived /\ ~Use("fails")
  BY <1>1, <1>2, <1>3, KeptBefore
<1>5. ic \in Context(Arrived)
  BY Here DEF Fine
<1>6. ~Fail /\ ~GraceEnds /\ ~WatchRequest /\ ~CycleExpires
  BY <1>4 DEF Fail, GraceEnds, WatchRequest, CycleExpires, Sound
<1>7. PICK n : n = ic.left - 1
  OBVIOUS
<1>8. \/ \E x \in Tickets \ {"Failed"} : ic' = [ic EXCEPT !.ticket = x]
      \/ ic' = [ic EXCEPT !.left = n]
      \/ ic' = [ic EXCEPT !.tail = FALSE]
      \/ ic' = [ic EXCEPT !.retried = TRUE]
  BY <1>4, <1>6, <1>7
  DEF TakeBatch, Complete, TypeKey, TypeTail, SafetyExtends, Sound, Tickets
<1> DEFINE Alike(y) ==
             /\ y.text = ic.text /\ y.pending = ic.pending /\ y.deleting = ic.deleting
             /\ y.expected = ic.expected /\ y.seen = ic.seen
             /\ y.settled = ic.settled /\ y.buffered = ic.buffered
             /\ y.replayTimer = ic.replayTimer /\ y.grace = ic.grace
             /\ y.erased = ic.erased /\ y.dropped = ic.dropped /\ y.ticket # "Failed"
<1>9. Alike(ic')
  <2>1. ic.ticket # "Failed"
    BY <1>4 DEF Sound
  <2>2. \A x \in Tickets \ {"Failed"} : Alike([ic EXCEPT !.ticket = x])
    BY <1>5 DEF Context
  <2>3. Alike([ic EXCEPT !.left = n])
    BY <1>5, <2>1 DEF Context
  <2>4. Alike([ic EXCEPT !.tail = FALSE])
    BY <1>5, <2>1 DEF Context
  <2>5. Alike([ic EXCEPT !.retried = TRUE])
    BY <1>5, <2>1 DEF Context
  <2> HIDE DEF Alike
  <2> QED
    BY <1>8, <2>2, <2>3, <2>4, <2>5
<1>10. Shown(ic') = Shown(ic)
  BY <1>9 DEF Shown
<1>11. Saves(ic, ic', {})
  BY <1>4, <1>9, <1>10 DEF Saves, Sound, Kept
<1>12. /\ Arrived' \subseteq Arrived \cup {} /\ ready' /\ focus' # "away" /\ app' = app
       /\ again \subseteq again'
  BY <1>2, <1>4, <1>6
<1> QED
  BY <1>4, <1>11, <1>12, KeptNext

\* A key that comes is kept.
LEMMA DeliverKept ==
    ASSUME IInv, OrderInv, TrackInv, KeptInv, NEW eaten \in BOOLEAN, Deliver(eaten)
    PROVE  KeptInv'
<1>1. SUFFICES ASSUME Faultless'
               PROVE  KeptInv'
  BY DEF KeptInv
<1>2. PICK h : h = Head(wire)
  OBVIOUS
<1>3. PICK C : C = KeysIn(wire')
  OBVIOUS
<1>4. /\ wire # <<>> /\ wire' = Tail(wire) /\ focus = "here"
      /\ ic' = KeyEvent(ic, h, FALSE, eaten)
      /\ UNCHANGED <<app, effect, again, pressed, ready, focus>>
      /\ used' = used \/ Use("eaten")
      /\ eaten => Use("eaten")
  BY <1>2 DEF Deliver
<1>5. Faultless /\ ~eaten /\ used' = used
  <2>1. Faultless /\ ~Use("eaten")
    BY <1>1, <1>4, FaultsCount
  <2> QED
    BY <1>4, <2>1
<1>6. /\ ready /\ Sound(ic) /\ Arrived \subseteq Kept(ic)
      /\ Arrived = (1..pressed) \ KeysIn(wire)
  BY <1>5, KeptSoFar
<1>7. Tracks(ic)
  BY <1>5 DEF Faultless, TrackInv
<1>8. Arrived' = (1..pressed) \ C
  <2>1. pressed' \in 0..MaxKeys /\ pressed' = pressed
    BY <1>4 DEF IInv, TypeOK
  <2> QED
    BY ONLY <1>3, <2>1, ArrivedNext
<1>9. /\ KeysIn(wire) = C \cup ({h} \cap Keys) /\ Before({h} \cap Keys, C)
  BY <1>2, <1>3, <1>4, WireKeys
<1>10. /\ Arrived' \subseteq Keys /\ h \in Arrived' \cup {Loopback, Backspace}
       /\ Came' - Pays(h) \in Int /\ Spare' - Weighs(h) \in Int
       /\ ic \in Fine(Arrived', Came' - Pays(h), Spare' - Weighs(h))
  BY <1>2, <1>4, <1>5, ArrivesFine
<1>11. PICK K, b, w : K = Arrived' /\ b = Came' - Pays(h) /\ w = Spare' - Weighs(h)
  OBVIOUS
<1>12. K \subseteq 1..BufferCap
  <2>1. pressed \in Nat /\ BufferCap \in Nat /\ pressed <= BufferCap
    BY <1>5, ReplacementAssumption DEF IInv, TypeOK, Faultless
  <2>2. 1..pressed \subseteq 1..BufferCap
    BY <2>1
  <2> QED
    BY <1>8, <1>11, <2>2
<1>13. /\ K \subseteq Keys /\ h \in K \cup {Loopback, Backspace} /\ b \in Int /\ w \in Int
       /\ ic \in Fine(K, b, w) /\ Env
  BY <1>10, <1>11, Here
<1>14. Due(ic, h, FALSE, C) /\ FALSE \in BOOLEAN
  BY <1>9 DEF OrderInv, Due
<1>15. PICK t : t = KeyEvent(ic, h, FALSE, FALSE)
  OBVIOUS
<1>16. Saves(ic, t, {h} \cap Keys)
  BY ONLY <1>6, <1>7, <1>12, <1>13, <1>14, <1>15, DispatchSaves
<1>17. Arrived' \subseteq Arrived \cup ({h} \cap Keys)
  BY <1>6, <1>8, <1>9
<1>18. ic' = t /\ ready' /\ focus' # "away" /\ app' = app /\ again' = again
  BY <1>4, <1>5, <1>6, <1>15
<1>19. again \subseteq again'
  BY <1>18
<1> QED
  BY <1>6, <1>16, <1>17, <1>18, <1>19, KeptNext

\* A browser gives up the focus to take it again, and takes it.
LEMMA FocusKept ==
    ASSUME IInv, OrderInv, TrackInv, KeptInv,
           Deactivate \/ CycleBegins \/ Activate \/ CycleEnds
    PROVE  KeptInv'
<1>1. SUFFICES ASSUME Faultless'
               PROVE  KeptInv'
  BY DEF KeptInv
<1>2. /\ UNCHANGED <<app, again>> /\ pressed' = pressed /\ wire' = wire /\ ready' = ready
      /\ used' = used \/ Use("leaves")
      /\ Deactivate => "genuine" \in Losses /\ Use("leaves")
  BY DEF Deactivate, CycleBegins, Activate, CycleEnds
<1>3. /\ Faultless /\ ready /\ focus # "away" /\ Sound(ic) /\ Arrived \subseteq Kept(ic)
      /\ Arrived \subseteq 1..BufferCap /\ Arrived' = Arrived /\ ~Deactivate
  BY <1>1, <1>2, KeptBefore
<1>4. ~Activate
  BY <1>3 DEF Activate
<1>5. Env /\ ic \in Fine(Arrived, Came, Spare) /\ ic \in Context(Arrived)
      /\ Arrived \subseteq Keys /\ Came \in Int /\ Spare \in Int /\ Spare <= Came
  BY Here DEF Fine
<1>6. Orderly(ic, {}, KeysIn(wire)) /\ Waits(ic)
  BY DEF OrderInv
<1>7. /\ Tracks(ic) /\ (ic.disabled => app = "page" /\ focus # "here")
      /\ app = "page" /\ focus # "here" => Parked(ic)
  BY <1>3 DEF Faultless, TrackInv
<1>8. Saves(ic, ic', {})
  <2>1. CASE CycleBegins
    <3>1. PICK d \in BOOLEAN : d = (app = "page")
      OBVIOUS
    <3>2. PICK x : x = [ic EXCEPT !.disabled = d]
      OBVIOUS
    <3>3. /\ ic' = Leave(x) /\ focus = "here" /\ Browser
          /\ Held(Flush(ic)) \/ Flush(ic).settled = <<>>
      BY <2>1, <3>1, <3>2 DEF CycleBegins
    <3>4. /\ x \in Context(Arrived) /\ x.disabled = d /\ x.text = ic.text /\ x.viet = ic.viet
          /\ x.pending = ic.pending /\ x.deleting = ic.deleting /\ x.expected = ic.expected
          /\ x.seen = ic.seen /\ x.oldWord = ic.oldWord /\ x.buffered = ic.buffered
          /\ x.settled = ic.settled /\ x.replayTimer = ic.replayTimer
          /\ x.erased = ic.erased
          /\ x.dropped = ic.dropped /\ x.grace = ic.grace /\ x.ticket = ic.ticket
      BY ONLY ZenonT(60), <1>5, <3>1, <3>2 DEF Context
    <3>5. Agrees(ic, x)
      BY <1>5, <3>2 DEF Context, Agrees
    <3>6. x \in Fine(Arrived, Came, Spare)
      BY <1>5, <3>4, <3>5, AgreeFine
    <3>7. Shown(x) = Shown(ic) /\ Tracks(x) = Tracks(ic)
      BY <3>4, TracksSame
    <3>8. Orderly(x, {}, KeysIn(wire)) /\ Waits(x)
      <4>1. Orderly(x, {}, KeysIn(wire))
        BY <1>6, <3>4, AlikeKeeps
      <4> QED
        BY <1>6, <3>4, <4>1 DEF Waits
    <3>9. Sound(x) /\ Kept(x) = Kept(ic)
      BY <1>3, <3>4, <3>7 DEF Sound, Kept
    <3>10. Held(Flush(x)) \/ Flush(x).settled = <<>>
      <4>1. CASE app = "page"
        <5>1. Flush(x) = x /\ Flush(ic) = ic
          BY <3>4, <4>1 DEF Flush, HeldOnWayland
        <5> QED
          BY <3>3, <3>4, <5>1 DEF Held
      <4>2. CASE app # "page"
        <5>1. ~ic.disabled /\ d = FALSE /\ ic.disabled \in BOOLEAN
          BY <1>5, <1>7, <3>1, <4>2 DEF Context
        <5>2. x = ic
          BY <1>5, <3>2, <5>1 DEF Context
        <5> QED
          BY <3>3, <5>2
      <4> QED
        BY <4>1, <4>2
    <3>11. PICK C : C = KeysIn(wire)
      OBVIOUS
    <3>12. Orderly(x, {}, C) /\ Tracks(x) /\ (x.disabled => app = "page")
      BY <1>7, <3>1, <3>4, <3>7, <3>8, <3>11
    <3>13. Saves(x, Leave(x), {})
      BY ONLY <1>3, <1>5, <3>3, <3>6, <3>8, <3>9, <3>10, <3>12, LeaveSaves
    <3> QED
      BY <3>3, <3>9, <3>13 DEF Saves
  <2>2. CASE CycleEnds
    <3>1. ic' = ResetPage(Return(ic)) /\ (app = "page" => Parked(ic))
      BY <1>7, <2>2 DEF CycleEnds
    <3>2. Saves(ic, ResetPage(Return(ic)), {})
      BY ONLY <1>3, <1>5, <3>1, ReturnSaves
    <3> QED
      BY <3>1, <3>2
  <2> QED
    BY <1>3, <1>4, <2>1, <2>2
<1>9. /\ ready' /\ focus' # "away" /\ Arrived' \subseteq Arrived \cup {}
      /\ again \subseteq again'
  <2>1. focus' # "away"
    BY <1>3, <1>4 DEF CycleBegins, CycleEnds
  <2> QED
    BY <1>2, <1>3, <2>1
<1> QED
  BY <1>2, <1>3, <1>8, <1>9, KeptNext

\* The end of a settle, and of a pause of the replay; a forced commit is a fault.
LEMMA TimerKept ==
    ASSUME IInv, OrderInv, TrackInv, KeptInv, SettleFires \/ ReplayFires \/ SafetyForces
    PROVE  KeptInv'
<1>1. SUFFICES ASSUME Faultless'
               PROVE  KeptInv'
  BY DEF KeptInv
<1>2. /\ UNCHANGED <<app, again>> /\ pressed' = pressed /\ wire' = wire /\ ready' = ready
      /\ focus' = focus
      /\ used' = used \/ Use("forced")
      /\ SafetyForces => Use("forced")
  BY DEF SettleFires, ReplayFires, SafetyForces, world
<1>3. /\ Faultless /\ ready /\ focus # "away" /\ Sound(ic) /\ Arrived \subseteq Kept(ic)
      /\ Arrived \subseteq 1..BufferCap /\ Arrived' = Arrived /\ ~SafetyForces
  BY <1>1, <1>2, KeptBefore
<1>4. Env /\ ic \in Fine(Arrived, Came, Spare) /\ ic \in Context(Arrived) /\ BatchInv(ic)
      /\ Arrived \subseteq Keys /\ Came \in Int /\ Spare \in Int /\ Spare <= Came
  BY Here DEF Fine
<1>5. PICK C : C = KeysIn(wire)
  OBVIOUS
<1>6. Orderly(ic, {}, C)
  BY <1>5 DEF OrderInv
<1>7. /\ Tracks(ic) /\ Clean(ic) /\ (ic.disabled => app = "page" /\ focus # "here")
      /\ app = "page" /\ focus # "here" => Parked(ic)
  BY <1>3 DEF Faultless, TrackInv
<1>8. Saves(ic, ic', {})
  <2>1. CASE SettleFires
    <3>1. PICK missed \in BOOLEAN : ic' = FinishSettle(ic, missed)
      BY <2>1 DEF SettleFires
    <3>2. ic.settling /\ ic.deleting
      BY <2>1 DEF SettleFires
    <3>3. ic.disabled => AwaitsReturn(ic)
      BY <1>7, <3>2 DEF Parked, Quiet, AwaitsReturn
    <3>4. Saves(ic, FinishSettle(ic, missed), {})
      BY ONLY <1>3, <1>4, <1>6, <1>7, <3>2, <3>3, missed \in BOOLEAN, FinishSettleSaves
    <3> QED
      BY <3>1, <3>4
  <2>2. CASE ReplayFires
    <3>1. PICK n \in BOOLEAN : n = FALSE
      OBVIOUS
    <3>2. PICK x : x = [ic EXCEPT !.replayTimer = n]
      OBVIOUS
    <3>3. ic.replayTimer /\ ic' = ReplayBuffered(x)
      BY <2>2, <3>1, <3>2 DEF ReplayFires
    <3>4. x \in Fine(Arrived, Came, Spare) /\ ~x.replayTimer
      BY <1>4, <3>1, <3>2, TimerFine
    <3>5. /\ x.text = ic.text /\ x.viet = ic.viet
          /\ x.pending = ic.pending /\ x.deleting = ic.deleting /\ x.expected = ic.expected
          /\ x.seen = ic.seen /\ x.oldWord = ic.oldWord /\ x.buffered = ic.buffered
          /\ x.settled = ic.settled /\ x.disabled = ic.disabled
          /\ x.erased = ic.erased
          /\ x.dropped = ic.dropped /\ x.grace = ic.grace /\ x.ticket = ic.ticket
      BY ONLY ZenonT(60), <1>4, <3>2 DEF Context
    <3>6. Shown(x) = Shown(ic) /\ Tracks(x) = Tracks(ic)
      BY <3>5, TracksSame
    <3>7. Orderly(x, {}, C)
      BY <1>6, <3>5, AlikeKeeps
    <3>8. Current(x)
      <4>1. ~ic.disabled
        BY <1>7, <3>3, <1>4 DEF Parked, BatchInv
      <4> QED
        BY <1>7, <3>5, <3>6, <4>1 DEF Current
    <3>9. Sound(x) /\ Kept(x) = Kept(ic)
      BY <1>3, <3>4, <3>5, <3>6 DEF Sound, Kept
    <3>10. Saves(x, ReplayBuffered(x), {})
      BY ONLY <1>3, <1>4, <3>4, <3>7, <3>8, <3>9, ReplayBufferedSaves
    <3> QED
      BY <3>3, <3>9, <3>10 DEF Saves
  <2> QED
    BY <1>3, <2>1, <2>2
<1>9. /\ ready' /\ focus' # "away" /\ Arrived' \subseteq Arrived \cup {}
      /\ again \subseteq again'
  BY <1>2, <1>3
<1> QED
  BY <1>2, <1>3, <1>8, <1>9, KeptNext

\* Every step keeps every key that came, where nothing fails.
LEMMA KeptStep ==
    ASSUME IInv, OrderInv, TrackInv, KeptInv, [Next]_vars
    PROVE  KeptInv'
<1>1. ASSUME NEW eaten \in BOOLEAN, Deliver(eaten) PROVE KeptInv'
  BY <1>1, DeliverKept
<1> QED
  BY <1>1, PressKeyKept, OtherKept, BatchKept, FocusKept, TimerKept
  DEF Next, Desktop, User, Injector, Timers

\* What is shown is made of the keys of the text and of what is pending.
LEMMA ShownKeys ==
    ASSUME NEW K, NEW s \in Context(K), s.seen <= s.expected
    PROVE  KeysOf(Shown(s)) \subseteq KeysOf(s.text) \cup KeysOf(s.pending)
<1>1. PICK x, g, d : x = s.text /\ g = s.pending /\ d = DropN(s.text, s.expected - s.seen)
  OBVIOUS
<1>2. x \in Seq(Glyphs(K)) /\ g \in Seq(Glyphs(K)) /\ s.expected - s.seen \in Nat
  BY <1>1, Typed, TracksIs
<1>3. d \in Seq(Glyphs(K))
  BY <1>1, <1>2, DropNone
<1>4. KeysOf(d) \subseteq KeysOf(x)
  <2>1. PICK n : n = Len(x) - (s.expected - s.seen)
    OBVIOUS
  <2>2. d = SubSeq(x, 1, n) /\ n \in Int /\ n <= Len(x) /\ Len(x) \in Nat
    BY <1>1, <1>2, <2>1 DEF DropN
  <2>3. \A m \in DOMAIN d : m \in DOMAIN x /\ d[m] = x[m]
    BY <1>2, <2>2
  <2> QED
    BY <2>3 DEF KeysOf
<1>5. KeysOf(d \o g) \subseteq KeysOf(d) \cup KeysOf(g)
  <2>1. PICK S : S = Glyphs(K)
    OBVIOUS
  <2>2. d \in Seq(S) /\ g \in Seq(S)
    BY <1>2, <1>3, <2>1
  <2> QED
    BY ONLY <2>2, TextKeys
<1> QED
  BY <1>1, <1>4, <1>5 DEF Shown

\* A key that is kept is on the screen, waits, or was deleted by the user.
LEMMA KeptShown ==
    ASSUME IInv, OrderInv, KeptInv
    PROVE  NoKeyLost
<1>1. SUFFICES ASSUME Faultless, NEW k \in 1..pressed
               PROVE  k \in KeysOf(ic.text) \cup KeysOf(ic.pending) \cup ic.erased
                          \cup (ic.dropped \cap again) \cup KeysIn(Waiting)
  BY DEF NoKeyLost
<1>2. Arrived \subseteq Kept(ic) /\ Arrived = (1..pressed) \ KeysIn(wire)
  BY <1>1, KeptSoFar
<1>3. KeysOf(Shown(ic)) \subseteq KeysOf(ic.text) \cup KeysOf(ic.pending)
  BY ShownKeys DEF IInv, TypeOK
<1> QED
  BY <1>1, <1>2, <1>3, WaitingJoined DEF Kept

---------------------------------------------------------------------------
(* The theorems.                                                           *)

\* The keys wait in order, and the screen shows the word: the three parts of the invariant
\* hold together.
LEMMA ScreenInvariance == Spec => [](IInv /\ OrderInv /\ TrackInv)
<1>1. Init => IInv /\ OrderInv /\ TrackInv
  BY InitInv, InitOrder, InitTracks
<1>2. IInv /\ OrderInv /\ TrackInv /\ [Next]_vars => (IInv /\ OrderInv /\ TrackInv)'
  BY Step, OrderStep, TrackStep
<1> QED
  BY <1>1, <1>2, PTL DEF Spec

\* Whatever is lost, fails or takes the focus away, the screen shows the word that the
\* engine composes, less what has yet to be deleted and with what waits to be committed,
\* until an application eats a Backspace or a commit is forced.  It does in a blind browser
\* too: a repair is begun only where the old word is shown, and a replacement that deleted
\* what it should shows it no more.
THEOREM ScreenConverges == Spec => []Converges
<1>1. IInv /\ OrderInv /\ TrackInv => Converges
  BY DEF TrackInv, Converges
<1> QED
  BY <1>1, ScreenInvariance, PTL

\* Keys take effect in the order in which they were pressed, whichever queue they wait in,
\* and the text shows them so, but for a letter that changes a glyph shown already.
THEOREM OrderKept == Spec => []KeysInOrder
<1>1. IInv /\ OrderInv /\ TrackInv => KeysInOrder
  BY OrderShown
<1> QED
  BY <1>1, ScreenInvariance, PTL

\* The four parts of the invariant hold together.
LEMMA KeptInvariance == Spec => [](IInv /\ OrderInv /\ TrackInv /\ KeptInv)
<1>1. Init => IInv /\ OrderInv /\ TrackInv /\ KeptInv
  BY InitInv, InitOrder, InitTracks, InitKept
<1>2. IInv /\ OrderInv /\ TrackInv /\ KeptInv /\ [Next]_vars
        => (IInv /\ OrderInv /\ TrackInv /\ KeptInv)'
  BY Step, OrderStep, TrackStep, KeptStep
<1> QED
  BY <1>1, <1>2, PTL DEF Spec

\* No key is lost but to the re-delivery guard: whatever has been pressed is shown, waits in a
\* queue, was deleted by the user or repeated the letter that had armed the guard, for as
\* long as no Backspace was eaten, no batch failed, no commit was forced, the focus was not
\* lost for good and no more keys came than the buffer holds.  Loopbacks may be lost, and a
\* browser may cycle its focus, at any moment.  (handlePendingUinputBackspace(), keyEvent()
\* and the replays.)
THEOREM NothingLost == Spec => []NoKeyLost
<1>1. IInv /\ OrderInv /\ TrackInv /\ KeptInv => NoKeyLost
  BY KeptShown
<1> QED
  BY <1>1, KeptInvariance, PTL

-----------------------------------------------------------------------------
(***************************************************************************)
(* The tickets.  What the engine may conclude from a ticket it polls, for  *)
(* every injector that implements InjectionService.                        *)
(***************************************************************************)
CONSTANT TicketCount

VARIABLES status, turn, typed   \* of any such injector

Service == INSTANCE InjectionService WITH MaxTickets <- TicketCount

Statuses == {"Free", "Queued"} \cup Service!Ended

ServiceTypeOK ==
    /\ status \in [Service!Tickets -> Statuses]
    /\ turn \in Service!Tickets \cup {Service!None}
    /\ typed \in [Service!Tickets -> {"none", "some", "all"}]

BeforeEnded(t) == \A u \in 1..(t - 1) : status[u] \in Service!Ended

\* Why ServiceSafe is inductive: a turn is only given when those before it ended.
TurnInv == turn # Service!None => BeforeEnded(turn)

ServiceInv == ServiceTypeOK /\ Service!ServiceSafe /\ TurnInv

\* A ticket that ended stays ended, and a settled one is Complete only if it
\* was before or all of it was typed: what a step may do to the statuses.
LEMMA StepKeepsEnded ==
    ASSUME TicketCount \in Nat, ServiceTypeOK, [Service!ServiceNext]_(Service!svars)
    PROVE  \A t \in Service!Tickets : BeforeEnded(t) => BeforeEnded(t)'
<1>1. \A u \in Service!Tickets : status[u] \in Service!Ended => status'[u] \in Service!Ended
  <2>1. ASSUME NEW t \in Service!Tickets, Service!Accept(t)
        PROVE  \A u \in Service!Tickets : status[u] \in Service!Ended => status'[u] \in Service!Ended
    BY <2>1 DEF Service!Accept, ServiceTypeOK, Service!Ended
  <2>2. CASE Service!Settle
    BY <2>2 DEF Service!Settle, Service!MayBecome, ServiceTypeOK, Service!Ended
  <2>3. CASE UNCHANGED status
    BY <2>3
  <2>4. QED
    BY <2>1, <2>2, <2>3 DEF Service!ServiceNext, Service!Take, Service!Type, Service!svars
<1>2. \A t \in Service!Tickets : \A u \in 1..(t - 1) : u \in Service!Tickets
  BY DEF Service!Tickets
<1>3. QED
  BY <1>1, <1>2 DEF BeforeEnded

\* Every step of the service keeps its invariant.
LEMMA ServiceInvNext ==
    ASSUME TicketCount \in Nat, ServiceInv, [Service!ServiceNext]_(Service!svars)
    PROVE  ServiceInv'
<1> USE DEF ServiceInv
<1>1. \A t \in Service!Tickets : BeforeEnded(t) => BeforeEnded(t)'
  BY StepKeepsEnded
<1>2. \A t \in Service!Tickets : /\ status[t] = "Complete" => typed[t] = "all"
                                 /\ typed[t] # "none" => BeforeEnded(t)
  BY DEF Service!ServiceSafe, BeforeEnded
<1>3. ASSUME NEW t \in Service!Tickets, Service!Accept(t)
      PROVE  ServiceInv'
  <2>1. ServiceTypeOK'
    BY <1>3 DEF Service!Accept, ServiceTypeOK, Statuses
  <2>2. \A u \in Service!Tickets : /\ status'[u] = "Complete" => typed'[u] = "all"
                                   /\ typed'[u] # "none" => BeforeEnded(u)'
    BY <1>1, <1>2, <1>3 DEF Service!Accept, ServiceTypeOK
  <2>3. TurnInv'
    BY <1>1, <1>3 DEF Service!Accept, ServiceTypeOK, TurnInv
  <2>4. QED
    BY <2>1, <2>2, <2>3 DEF Service!ServiceSafe, BeforeEnded
<1>4. ASSUME NEW t \in Service!Tickets, Service!Take(t)
      PROVE  ServiceInv'
  <2>1. ServiceTypeOK'
    BY <1>4 DEF Service!Take, ServiceTypeOK
  <2>2. TurnInv'
    BY <1>1, <1>4 DEF Service!Take, TurnInv, BeforeEnded
  <2>3. Service!ServiceSafe'
    BY <1>4 DEF Service!Take, Service!ServiceSafe
  <2>4. QED
    BY <2>1, <2>2, <2>3
<1>5. ASSUME NEW t \in Service!Tickets, Service!Type(t)
      PROVE  ServiceInv'
  <2>1. PICK much \in {"some", "all"} : typed' = [typed EXCEPT ![t] = much]
    BY <1>5 DEF Service!Type
  <2>2. ServiceTypeOK'
    BY <1>5, <2>1 DEF Service!Type, ServiceTypeOK
  <2>3. BeforeEnded(t)'
    <3>1. t # Service!None
      BY DEF Service!Tickets, Service!None
    <3>2. QED
      BY <1>1, <1>5, <3>1 DEF Service!Type, TurnInv
  <2>4. \A u \in Service!Tickets : /\ status'[u] = "Complete" => typed'[u] = "all"
                                   /\ typed'[u] # "none" => BeforeEnded(u)'
    BY <1>1, <1>2, <1>5, <2>1, <2>3 DEF Service!Type, ServiceTypeOK
  <2>5. TurnInv'
    BY <1>1, <1>5 DEF Service!Type, TurnInv, BeforeEnded
  <2>6. QED
    BY <2>2, <2>4, <2>5 DEF Service!ServiceSafe, BeforeEnded
<1>6. CASE Service!Settle
  <2>1. ServiceTypeOK'
    BY <1>6 DEF Service!Settle, ServiceTypeOK, Statuses
  <2>2. \A u \in Service!Tickets : status'[u] = "Complete" => typed[u] = "all"
    BY <1>2, <1>6 DEF Service!Settle, Service!MayBecome
  <2>3. \A u \in Service!Tickets : /\ status'[u] = "Complete" => typed'[u] = "all"
                                   /\ typed'[u] # "none" => BeforeEnded(u)'
    BY <1>1, <1>2, <1>6, <2>2 DEF Service!Settle
  <2>4. TurnInv'
    BY <1>1, <1>6 DEF Service!Settle, ServiceTypeOK, TurnInv, BeforeEnded
  <2>5. QED
    BY <2>1, <2>3, <2>4 DEF Service!ServiceSafe, BeforeEnded
<1>7. CASE UNCHANGED Service!svars
  BY <1>7 DEF Service!svars, ServiceTypeOK, Service!ServiceSafe, TurnInv, BeforeEnded
<1>8. QED
  BY <1>3, <1>4, <1>5, <1>6, <1>7 DEF Service!ServiceNext

\* The engine expects a deletion on the screen only when its ticket is
\* Complete (engine.cpp, watchUinputRequest), and deletes in another way when
\* a ticket ended before its turn: all of a Complete batch was typed, and
\* nothing of one was typed before every earlier one had ended.
THEOREM TicketsAreTrue ==
    ASSUME TicketCount \in Nat
    PROVE  Service!ServiceSpec => []Service!ServiceSafe
<1>1. Service!ServiceInit => ServiceInv
  BY DEF Service!ServiceInit, ServiceInv, ServiceTypeOK, Service!ServiceSafe, TurnInv,
         BeforeEnded, Statuses, Service!Ended
<1>2. ServiceInv /\ [Service!ServiceNext]_(Service!svars) => ServiceInv'
  BY ServiceInvNext
<1>3. ServiceInv => Service!ServiceSafe
  BY DEF ServiceInv
<1>4. QED
  BY <1>1, <1>2, <1>3, PTL DEF Service!ServiceSpec
==============================================================================
