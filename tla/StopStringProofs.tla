---------------------------- MODULE StopStringProofs ----------------------------
(***************************************************************************)
(* Proofs about StopStringStream, for chunks of any length over any        *)
(* alphabet and any list of stop strings: the deltas join to the text up   *)
(* to the first stop string, and nothing more is held back than may become *)
(* one.                                                                    *)
(***************************************************************************)
EXTENDS StopStringStream, SequenceTheorems, WellFoundedInduction, TLAPS

(* s stands in the text after pos characters.                              *)
Stands(text, s, pos) ==
    pos + Len(s) <= Len(text) /\ \A i \in 1..Len(s) : text[pos + i] = s[i]

(* The text ends with the first k characters of s.                         *)
EndsWith(text, s, k) ==
    k <= Len(text) /\ \A i \in 1..k : text[Len(text) - k + i] = s[i]

(* Everything else the invariants say of a stream is about these shapes:   *)
(* running, with exactly the possible start of a stop string held back; or *)
(* finished, by a stop string or by the flush.                             *)
TextTyped(Characters) ==
    /\ stopStrings \in Seq(Seq(Characters)) /\ \A i \in DOMAIN stopStrings : stopStrings[i] # <<>>
    /\ include \in BOOLEAN /\ isFinished \in BOOLEAN
    /\ full \in Seq(Characters)
Running ==
    ~isFinished =>
        /\ decoded = full /\ stopReason = <<>>
        /\ emittedLen = Len(full) - Holdback(full, stopStrings)
        /\ out = UpTo(full, emittedLen)
        /\ \A i \in DOMAIN stopStrings : \A pos \in 0..Len(full) : ~Stands(full, stopStrings[i], pos)
Finished == isFinished => ReturnedTextIsExact /\ NoStopStringMissed

TextInv(Characters) == TextTyped(Characters) /\ Running /\ Finished

--------------------------------------------------------------------------------
(* A set of numbers that is not empty has a least member.                  *)
LEMMA LeastNumber ==
    ASSUME NEW T, T \subseteq Nat, T # {}
    PROVE  \E x \in T : \A y \in T : x <= y
<1>1. IsWellFoundedOn(OpToRel(<, Nat), Nat)
  BY NatLessThanWellFounded
<1>2. PICK x \in T : \A y \in T : ~(<<y, x>> \in OpToRel(<, Nat))
  BY <1>1, WFMin
<1>3. ASSUME NEW y \in T
      PROVE  x <= y
  <2>1. ~(<<y, x>> \in OpToRel(<, Nat))
    BY <1>2
  <2>2. ~(y < x)
    BY <2>1, SMT DEF OpToRel
  <2> QED BY <2>2
<1> QED BY <1>3

(* A set of numbers up to n that is not empty has a greatest one, and Max  *)
(* is it: the least-number principle, turned round.                        *)
LEMMA GreatestNumber ==
    ASSUME NEW n \in Nat, NEW T, T \subseteq 0..n, T # {}
    PROVE  Max(T) \in T /\ \A y \in T : y <= Max(T)
<1> DEFINE U == {n - y : y \in T}
<1>1. U \subseteq Nat /\ U # {}
  <2>1. \A y \in T : n - y \in Nat
    OBVIOUS
  <2>2. \A u \in U : u \in Nat
    BY <2>1
  <2> QED BY <2>2
<1>2. PICK u \in U : \A v \in U : u <= v
  <2> HIDE DEF U
  <2> QED BY <1>1, LeastNumber
<1>3. PICK x \in T : u = n - x
  BY <1>2
<1>4. ASSUME NEW y \in T
      PROVE  y <= x
  <2>1. n - y \in U
    OBVIOUS
  <2>2. n - x <= n - y
    BY <1>2, <1>3, <2>1
  <2>3. x \in Nat /\ y \in Nat
    OBVIOUS
  <2> QED BY <2>2, <2>3
<1>5. x \in T /\ \A y \in T : x >= y
  BY <1>4
<1>6. Max(T) \in T /\ \A y \in T : Max(T) >= y
  BY <1>5 DEF Max
<1> QED BY <1>6

(* The max(a, b) of the code. *)
LEMMA MaxOfTwo ==
    ASSUME NEW x \in Int, NEW y \in Int
    PROVE  Max({x, y}) = IF x >= y THEN x ELSE y
<1>1. \E z \in {x, y} : \A v \in {x, y} : z >= v
  OBVIOUS
<1>2. Max({x, y}) \in {x, y} /\ \A v \in {x, y} : Max({x, y}) >= v
  BY <1>1 DEF Max
<1> QED BY <1>2

(* Occurrences and suffixes, character by character.                       *)
LEMMA OccurrenceStands ==
    ASSUME NEW C, NEW text \in Seq(C), NEW s \in Seq(C), NEW pos \in Nat
    PROVE  OccursAt(text, s, pos) <=> Stands(text, s, pos)
<1> DEFINE part == SubSeq(text, pos + 1, pos + Len(s))
<1>1. CASE pos + Len(s) <= Len(text)
  <2>1. /\ part \in Seq(C) /\ Len(part) = Len(s)
        /\ \A i \in 1..Len(s) : part[i] = text[pos + i]
    BY <1>1
  <2> HIDE DEF part
  <2>2. part = s <=> \A i \in 1..Len(s) : part[i] = s[i]
    BY <2>1, SeqEqual
  <2>3. part = s <=> \A i \in 1..Len(s) : text[pos + i] = s[i]
    BY <2>1, <2>2
  <2> QED BY <1>1, <2>3 DEF OccursAt, Stands, part
<1>2. CASE ~(pos + Len(s) <= Len(text))
  BY <1>2 DEF OccursAt, Stands
<1> QED BY <1>1, <1>2

(* endswith, as the library defines it, by positions. *)
LEMMA SuffixEnds ==
    ASSUME NEW C, NEW text \in Seq(C), NEW p \in Seq(C)
    PROVE  IsSuffix(p, text) <=> EndsWith(text, p, Len(p))
<1> DEFINE n == Len(text)
           k == Len(p)
           rp == Reverse(p)
           rt == Reverse(text)
<1>1. /\ n \in Nat /\ k \in Nat
      /\ rp \in Seq(C) /\ Len(rp) = k /\ \A i \in 1..k : rp[i] = p[k - i + 1]
      /\ rt \in Seq(C) /\ Len(rt) = n /\ \A i \in 1..n : rt[i] = text[n - i + 1]
  BY DEF Reverse
<1> HIDE DEF rp, rt
<1>2. CASE k <= n
  <2> DEFINE a == SubSeq(rp, 1, k)
             b == SubSeq(rt, 1, k)
  <2>1. /\ a \in Seq(C) /\ Len(a) = k /\ \A i \in 1..k : a[i] = rp[i]
        /\ b \in Seq(C) /\ Len(b) = k /\ \A i \in 1..k : b[i] = rt[i]
    BY <1>1, <1>2
  <2> HIDE DEF a, b
  <2>2. a = b <=> \A i \in 1..k : a[i] = b[i]
    BY <2>1, SeqEqual
  <2>3. a = b <=> \A i \in 1..k : p[k - i + 1] = text[n - i + 1]
    <3>1. \A i \in 1..k : i \in 1..n
      BY <1>1, <1>2
    <3>2. \A i \in 1..k : a[i] = p[k - i + 1] /\ b[i] = text[n - i + 1]
      BY <1>1, <2>1, <3>1
    <3> QED BY <2>2, <3>2
  <2>4. (\A i \in 1..k : p[k - i + 1] = text[n - i + 1]) <=> \A i \in 1..k : text[n - k + i] = p[i]
    <3>1. ASSUME \A i \in 1..k : p[k - i + 1] = text[n - i + 1], NEW i \in 1..k
          PROVE  text[n - k + i] = p[i]
      <4> DEFINE j == k - i + 1
      <4>1. j \in 1..k /\ k - j + 1 = i /\ n - j + 1 = n - k + i
        BY <1>1
      <4> HIDE DEF j
      <4> QED BY <3>1, <4>1
    <3>2. ASSUME \A i \in 1..k : text[n - k + i] = p[i], NEW i \in 1..k
          PROVE  p[k - i + 1] = text[n - i + 1]
      <4> DEFINE j == k - i + 1
      <4>1. j \in 1..k /\ n - k + j = n - i + 1
        BY <1>1
      <4> HIDE DEF j
      <4>2. text[n - k + j] = p[j]
        BY <3>2, <4>1
      <4> QED BY <4>1, <4>2 DEF j
    <3> QED BY <3>1, <3>2
  <2>5. IsPrefix(rp, rt) <=> a = b
    BY <1>1, <1>2 DEF IsPrefix, a, b
  <2> QED BY <1>2, <2>3, <2>4, <2>5 DEF IsSuffix, EndsWith, rp, rt
<1>3. CASE ~(k <= n)
  BY <1>1, <1>3 DEF IsSuffix, IsPrefix, EndsWith, rp, rt
<1> QED BY <1>2, <1>3

(* The part held back is the longest suffix that begins a stop string.     *)
LEMMA HoldbackFacts ==
    ASSUME NEW C, NEW text \in Seq(C), NEW stops \in Seq(Seq(C))
    PROVE  /\ Holdback(text, stops) \in 0..Len(text)
           /\ Holdback(text, stops) > 0 =>
                \E i \in DOMAIN stops : /\ Holdback(text, stops) < Len(stops[i])
                                        /\ EndsWith(text, stops[i], Holdback(text, stops))
           /\ \A k \in 1..Len(text) : \A i \in DOMAIN stops :
                k < Len(stops[i]) /\ EndsWith(text, stops[i], k) => k <= Holdback(text, stops)
<1> DEFINE lens == {k \in 1..Len(text) :
                      \E i \in DOMAIN stops :
                        k < Len(stops[i]) /\ IsSuffix(UpTo(stops[i], k), text)}
<1>1. Len(text) \in Nat /\ \A i \in DOMAIN stops : stops[i] \in Seq(C) /\ Len(stops[i]) \in Nat
  OBVIOUS
<1>2. ASSUME NEW k \in 1..Len(text), NEW i \in DOMAIN stops, k < Len(stops[i])
      PROVE  IsSuffix(UpTo(stops[i], k), text) <=> EndsWith(text, stops[i], k)
  <2> DEFINE p == UpTo(stops[i], k)
  <2>1. p \in Seq(C) /\ Len(p) = k /\ \A j \in 1..k : p[j] = stops[i][j]
    BY <1>1, <1>2 DEF UpTo
  <2> HIDE DEF p
  <2>2. IsSuffix(p, text) <=> EndsWith(text, p, k)
    BY <2>1, SuffixEnds
  <2>3. EndsWith(text, p, k) <=> EndsWith(text, stops[i], k)
    BY <2>1 DEF EndsWith
  <2> QED BY <2>2, <2>3 DEF p
<1>3. lens \cup {0} \subseteq 0..Len(text) /\ lens \cup {0} # {}
  BY <1>1
<1>4. Holdback(text, stops) = Max(lens \cup {0})
  BY DEF Holdback
<1>5. lens = {k \in 1..Len(text) : \E i \in DOMAIN stops : k < Len(stops[i]) /\ EndsWith(text, stops[i], k)}
  BY <1>2
<1> HIDE DEF lens
<1>6. /\ Holdback(text, stops) \in lens \cup {0}
      /\ \A y \in lens \cup {0} : y <= Holdback(text, stops)
  BY <1>1, <1>3, <1>4, GreatestNumber
<1>7. Holdback(text, stops) \in 0..Len(text)
  BY <1>3, <1>6
<1>8. ASSUME Holdback(text, stops) > 0
      PROVE  Holdback(text, stops) \in lens
  BY <1>6, <1>7, <1>8
<1> QED BY <1>5, <1>6, <1>7, <1>8

(* The match that wins is one of the earliest.                             *)
LEMMA WinnerFacts ==
    ASSUME NEW ms, ms \subseteq Nat \X Nat, ms # {}
    PROVE  Winner(ms) \in ms /\ \A n \in ms : Winner(ms)[1] <= n[1]
<1> DEFINE places == {n[1] : n \in ms}
<1>1. places \subseteq Nat /\ places # {}
  OBVIOUS
<1>2. PICK x \in places : \A y \in places : x <= y
  <2> HIDE DEF places
  <2> QED BY <1>1, LeastNumber
<1> DEFINE listed == {j \in Nat : <<x, j>> \in ms}
<1>3. listed \subseteq Nat /\ listed # {}
  <2>1. PICK n \in ms : n[1] = x
    BY <1>2
  <2>2. n = <<x, n[2]>> /\ n[2] \in Nat
    BY <2>1
  <2> QED BY <2>1, <2>2
<1>4. PICK j \in listed : \A i \in listed : j <= i
  <2> HIDE DEF listed
  <2> QED BY <1>3, LeastNumber
<1> DEFINE m == <<x, j>>
<1>5. m \in ms /\ m[1] = x /\ m[2] = j
  BY <1>4
<1>6. ASSUME NEW n \in ms
      PROVE  m[1] < n[1] \/ (m[1] = n[1] /\ m[2] <= n[2])
  <2>1. n = <<n[1], n[2]>> /\ n[1] \in Nat /\ n[2] \in Nat /\ x \in Nat
    BY <1>1, <1>2
  <2>2. x <= n[1]
    BY <1>2
  <2>3. x = n[1] => j <= n[2]
    BY <1>4, <2>1
  <2> QED BY <1>5, <2>1, <2>2, <2>3
<1> HIDE DEF m
<1>7. /\ Winner(ms) \in ms
      /\ \A n \in ms : \/ Winner(ms)[1] < n[1]
                       \/ Winner(ms)[1] = n[1] /\ Winner(ms)[2] <= n[2]
  BY <1>5, <1>6 DEF Winner
<1>8. \A n \in ms : n[1] \in Nat
  OBVIOUS
<1> QED BY <1>7, <1>8

--------------------------------------------------------------------------------
(* Nothing that has been returned turns out to belong to a stop string:    *)
(* what is held back grows by no more than the chunk.                      *)
LEMMA HoldsEnough ==
    ASSUME NEW C, NEW text \in Seq(C), NEW chunk \in Seq(C), NEW stops \in Seq(Seq(C))
    PROVE  Len(text) - Holdback(text, stops) <= Len(text \o chunk) - Holdback(text \o chunk, stops)
<1> DEFINE longer == text \o chunk
           h == Holdback(longer, stops)
           k == h - Len(chunk)
<1>1. /\ Len(text) \in Nat /\ Len(chunk) \in Nat /\ longer \in Seq(C)
      /\ Len(longer) = Len(text) + Len(chunk)
      /\ \A i \in 1..Len(text) : longer[i] = text[i]
  BY ConcatProperties
<1> HIDE DEF longer
<1>2. /\ h \in 0..Len(longer) /\ Holdback(text, stops) \in 0..Len(text)
      /\ h > 0 => \E i \in DOMAIN stops : h < Len(stops[i]) /\ EndsWith(longer, stops[i], h)
      /\ \A n \in 1..Len(text) : \A i \in DOMAIN stops :
           n < Len(stops[i]) /\ EndsWith(text, stops[i], n) => n <= Holdback(text, stops)
  BY <1>1, HoldbackFacts
<1> HIDE DEF h
<1>3. CASE h <= Len(chunk)
  BY <1>1, <1>2, <1>3 DEF longer, h
<1>4. CASE h > Len(chunk)
  <2>1. h \in Nat /\ h <= Len(text) + Len(chunk) /\ k \in 1..Len(text) /\ k <= h
    <3>1. h \in Nat /\ h <= Len(text) + Len(chunk)
      BY <1>1, <1>2
    <3> QED BY <1>1, <1>4, <3>1
  <2>2. PICK i \in DOMAIN stops : h < Len(stops[i]) /\ EndsWith(longer, stops[i], h)
    BY <1>1, <1>2, <1>4
  <2>3. stops[i] \in Seq(C) /\ Len(stops[i]) \in Nat
    OBVIOUS
  <2>4. k < Len(stops[i])
    BY <1>1, <2>1, <2>2, <2>3
  <2>5. ASSUME NEW j \in 1..k
        PROVE  text[Len(text) - k + j] = stops[i][j]
    <3>1. j \in 1..h /\ Len(text) - k + j \in 1..Len(text)
          /\ Len(longer) - h + j = Len(text) - k + j
      BY <1>1, <2>1
    <3>2. longer[Len(longer) - h + j] = stops[i][j]
      BY <2>2, <3>1 DEF EndsWith
    <3> QED BY <1>1, <3>1, <3>2
  <2>6. EndsWith(text, stops[i], k)
    BY <1>1, <2>1, <2>5 DEF EndsWith
  <2>7. k <= Holdback(text, stops)
    BY <1>2, <2>1, <2>4, <2>6
  <2> QED BY <1>1, <1>2, <2>7 DEF longer, h
<1> QED BY <1>1, <1>2, <1>3, <1>4

(* With no stop string in the text so far, one that stands in the longer   *)
(* text ends in the chunk, and so starts no earlier than what is held.     *)
LEMMA NewStopIsHeld ==
    ASSUME NEW C, NEW text \in Seq(C), NEW chunk \in Seq(C), NEW stops \in Seq(Seq(C)),
           NEW i \in DOMAIN stops, NEW pos \in 0..Len(text \o chunk),
           \A p \in 0..Len(text) : ~Stands(text, stops[i], p),
           Stands(text \o chunk, stops[i], pos)
    PROVE  /\ pos + Len(stops[i]) > Len(text)
           /\ pos >= Len(text) - Holdback(text, stops)
           /\ pos >= SearchStart(stops[i], Len(text) - Holdback(text, stops))
<1> DEFINE longer == text \o chunk
           s == stops[i]
           e == Len(text) - Holdback(text, stops)
           k == Len(text) - pos
<1>1. /\ Len(text) \in Nat /\ Len(chunk) \in Nat /\ longer \in Seq(C)
      /\ Len(longer) = Len(text) + Len(chunk)
      /\ \A j \in 1..Len(text) : longer[j] = text[j]
      /\ s \in Seq(C) /\ Len(s) \in Nat /\ pos \in Nat
  BY ConcatProperties
<1>2. Stands(longer, s, pos)
  OBVIOUS
<1> HIDE DEF longer, s
<1>3. /\ Holdback(text, stops) \in 0..Len(text)
      /\ \A n \in 1..Len(text) : n < Len(s) /\ EndsWith(text, s, n) => n <= Holdback(text, stops)
  BY HoldbackFacts DEF s
<1>4. pos + Len(s) > Len(text)
  <2> SUFFICES ASSUME pos + Len(s) <= Len(text)
               PROVE  FALSE
    BY <1>1
  <2>1. \A j \in 1..Len(s) : pos + j \in 1..Len(text)
    BY <1>1
  <2>2. Stands(text, s, pos) /\ pos \in 0..Len(text)
    BY <1>1, <1>2, <2>1 DEF Stands
  <2> QED BY <2>2 DEF s
<1>5. pos >= e
  <2>1. CASE pos >= Len(text)
    BY <1>1, <1>3, <2>1
  <2>2. CASE pos < Len(text)
    <3>1. k \in 1..Len(text) /\ k < Len(s)
      BY <1>1, <1>4, <2>2
    <3>2. ASSUME NEW j \in 1..k
          PROVE  text[Len(text) - k + j] = s[j]
      <4>1. j \in 1..Len(s) /\ pos + j \in 1..Len(text) /\ Len(text) - k + j = pos + j
        BY <1>1, <3>1
      <4>2. longer[pos + j] = s[j]
        BY <1>2, <4>1 DEF Stands
      <4> QED BY <1>1, <4>1, <4>2
    <3>3. EndsWith(text, s, k)
      BY <1>1, <3>1, <3>2 DEF EndsWith
    <3>4. k <= Holdback(text, stops)
      BY <1>3, <3>1, <3>3
    <3> QED BY <1>1, <1>3, <3>4
  <2> QED BY <1>1, <2>1, <2>2
<1>6. SearchStart(s, e) <= pos
  <2>1. e \in Int /\ e - (Len(s) - 1) \in Int /\ e <= Len(text)
    BY <1>1, <1>3
  <2>2. SearchStart(s, e) \in {0, e - (Len(s) - 1)}
    BY <2>1, MaxOfTwo DEF SearchStart
  <2>3. e - (Len(s) - 1) <= pos
    BY <1>1, <1>4, <2>1
  <2> QED BY <1>1, <2>2, <2>3
<1> QED BY <1>4, <1>5, <1>6, <1>1, <1>3, SMT DEF s

--------------------------------------------------------------------------------
(* Beginnings of a text.                                                   *)
LEMMA UpToFacts ==
    ASSUME NEW C, NEW text \in Seq(C), NEW n \in 0..Len(text)
    PROVE  /\ UpTo(text, n) \in Seq(C) /\ Len(UpTo(text, n)) = n
           /\ \A i \in 1..n : UpTo(text, n)[i] = text[i]
           /\ IsPrefix(UpTo(text, n), text)
<1>1. UpTo(text, n) \in Seq(C) /\ Len(UpTo(text, n)) = n /\ \A i \in 1..n : UpTo(text, n)[i] = text[i]
  BY DEF UpTo
<1>2. SubSeq(UpTo(text, n), 1, n) = UpTo(text, n)
  BY <1>1, SubSeqFull
<1> QED BY <1>1, <1>2 DEF IsPrefix, UpTo

(* The beginning of a text and what comes next make the longer beginning. *)
LEMMA UpToExtends ==
    ASSUME NEW C, NEW text \in Seq(C), NEW n \in 0..Len(text), NEW m \in n..Len(text)
    PROVE  UpTo(text, n) \o SubSeq(text, n + 1, m) = UpTo(text, m)
BY ConcatAdjacentSubSeq DEF UpTo

(* A chunk that is appended leaves the beginnings as they were. *)
LEMMA UpToOfLonger ==
    ASSUME NEW C, NEW text \in Seq(C), NEW chunk \in Seq(C), NEW n \in 0..Len(text)
    PROVE  UpTo(text \o chunk, n) = UpTo(text, n)
<1> DEFINE longer == text \o chunk
<1>1. /\ longer \in Seq(C) /\ n \in 0..Len(longer)
      /\ \A i \in 1..Len(text) : longer[i] = text[i]
  BY ConcatProperties
<1> HIDE DEF longer
<1>2. /\ UpTo(longer, n) \in Seq(C) /\ Len(UpTo(longer, n)) = n
      /\ \A i \in 1..n : UpTo(longer, n)[i] = longer[i]
      /\ UpTo(text, n) \in Seq(C) /\ Len(UpTo(text, n)) = n
      /\ \A i \in 1..n : UpTo(text, n)[i] = text[i]
  BY <1>1, UpToFacts
<1>3. \A i \in 1..n : UpTo(longer, n)[i] = UpTo(text, n)[i]
  BY <1>1, <1>2
<1> QED BY <1>2, <1>3, SeqEqual DEF longer

(* What occurs in a beginning of the text stands in the text, and ends     *)
(* there.                                                                  *)
LEMMA OccursInBeginning ==
    ASSUME NEW C, NEW text \in Seq(C), NEW n \in 0..Len(text), NEW s \in Seq(C),
           Occurs(UpTo(text, n), s)
    PROVE  \E pos \in 0..Len(text) : pos + Len(s) <= n /\ Stands(text, s, pos)
<1>1. /\ UpTo(text, n) \in Seq(C) /\ Len(UpTo(text, n)) = n
      /\ \A i \in 1..n : UpTo(text, n)[i] = text[i]
  BY UpToFacts
<1>2. PICK pos \in 0..n : OccursAt(UpTo(text, n), s, pos)
  BY <1>1 DEF Occurs
<1>3. Stands(UpTo(text, n), s, pos)
  BY <1>1, <1>2, OccurrenceStands
<1>4. pos + Len(s) <= n /\ pos \in 0..Len(text) /\ Len(s) \in Nat
  BY <1>1, <1>3 DEF Stands
<1>5. \A i \in 1..Len(s) : pos + i \in 1..n
  BY <1>4
<1>6. Stands(text, s, pos)
  BY <1>1, <1>3, <1>4, <1>5 DEF Stands
<1> QED BY <1>4, <1>6

(* Where a stop string stands, the text up to its end ends with it. *)
LEMMA StandsAtTheEnd ==
    ASSUME NEW C, NEW text \in Seq(C), NEW s \in Seq(C), NEW pos \in 0..Len(text), Stands(text, s, pos)
    PROVE  /\ pos + Len(s) \in 0..Len(text)
           /\ IsSuffix(s, UpTo(text, pos + Len(s)))
           /\ UpTo(text, pos) \o s = UpTo(text, pos + Len(s))
<1> DEFINE n == pos + Len(s)
<1>1. n \in 0..Len(text) /\ Len(s) \in Nat /\ n \in pos..Len(text)
  BY DEF Stands
<1>2. /\ UpTo(text, n) \in Seq(C) /\ Len(UpTo(text, n)) = n
      /\ \A i \in 1..n : UpTo(text, n)[i] = text[i]
  BY <1>1, UpToFacts
<1>3. ASSUME NEW i \in 1..Len(s)
      PROVE  UpTo(text, n)[Len(UpTo(text, n)) - Len(s) + i] = s[i]
  <2>1. n - Len(s) + i = pos + i /\ pos + i \in 1..n
    BY <1>1
  <2>2. text[pos + i] = s[i]
    BY DEF Stands
  <2>3. UpTo(text, n)[pos + i] = text[pos + i]
    BY <1>2, <2>1
  <2> HIDE DEF n
  <2> QED BY <1>2, <2>1, <2>2, <2>3
<1>4. EndsWith(UpTo(text, n), s, Len(s))
  BY <1>1, <1>2, <1>3 DEF EndsWith
<1>5. IsSuffix(s, UpTo(text, n))
  BY <1>2, <1>4, SuffixEnds
<1>6. SubSeq(text, pos + 1, n) = s
  BY OccurrenceStands DEF OccursAt
<1>7. UpTo(text, pos) \o SubSeq(text, pos + 1, n) = UpTo(text, n)
  BY <1>1, UpToExtends
<1> QED BY <1>1, <1>5, <1>6, <1>7

--------------------------------------------------------------------------------
(* What the invariant says of a stream that goes on.                       *)
LEMMA RunningIsExact ==
    ASSUME NEW C, TextTyped(C), Running, ~isFinished
    PROVE  ReturnedTextIsExact /\ NoStopStringMissed
<1> DEFINE h == Holdback(full, stopStrings)
<1>1. /\ full \in Seq(C) /\ Len(full) \in Nat /\ stopStrings \in Seq(Seq(C))
      /\ \A i \in DOMAIN stopStrings : stopStrings[i] \in Seq(C) /\ Len(stopStrings[i]) \in Nat
      /\ stopReason = <<>> /\ emittedLen = Len(full) - h /\ out = UpTo(full, emittedLen)
      /\ \A i \in DOMAIN stopStrings : \A pos \in 0..Len(full) : ~Stands(full, stopStrings[i], pos)
  BY DEF TextTyped, Running
<1>2. /\ h \in 0..Len(full)
      /\ h > 0 => \E i \in DOMAIN stopStrings : h < Len(stopStrings[i]) /\ EndsWith(full, stopStrings[i], h)
  BY <1>1, HoldbackFacts
<1> HIDE DEF h
<1>3. emittedLen \in 0..Len(full)
  BY <1>1, <1>2
<1>4. Len(out) = emittedLen /\ out \in Seq(C) /\ IsPrefix(out, full)
  BY <1>1, <1>3, UpToFacts
<1>5. OnlyStopPrefixesAreHeld
  <2> DEFINE tail == From(full, Len(out))
  <2> SUFFICES ASSUME tail # <<>>
               PROVE  \E i \in DOMAIN stopStrings : IsStrictPrefix(tail, stopStrings[i])
    BY <1>4 DEF OnlyStopPrefixesAreHeld
  <2>1. /\ tail \in Seq(C) /\ Len(tail) = h
        /\ \A i \in 1..h : tail[i] = full[Len(full) - h + i]
    <3>1. Len(out) + 1 \in Int /\ Len(full) \in Int /\ \A i \in (Len(out) + 1)..Len(full) : full[i] \in C
      BY <1>1, <1>3, <1>4
    <3>2. /\ tail \in Seq(C)
          /\ Len(tail) = IF Len(out) + 1 <= Len(full) THEN Len(full) - (Len(out) + 1) + 1 ELSE 0
          /\ \A i \in 1..(Len(full) - (Len(out) + 1) + 1) : tail[i] = full[Len(out) + 1 + i - 1]
      BY <3>1, SubSeqProperties DEF From
    <3> HIDE DEF tail
    <3>3. Len(tail) = h
      BY <1>1, <1>2, <1>3, <1>4, <3>2
    <3>4. ASSUME NEW i \in 1..h
          PROVE  tail[i] = full[Len(full) - h + i]
      <4>0. Len(full) \in Nat /\ h \in Nat /\ Len(out) = Len(full) - h
        <5>1. Len(full) \in Nat /\ emittedLen = Len(full) - h
          BY <1>1 DEF h
        <5>2. h \in 0..Len(full)
          BY <1>2
        <5>3. Len(out) = emittedLen
          BY <1>4
        <5> QED BY <5>1, <5>2, <5>3
      <4> DEFINE n == Len(full)
                 k == Len(out)
      <4>2. n \in Nat /\ k = n - h
        BY <4>0
      <4> HIDE DEF n, k
      <4>1. i \in 1..(n - (k + 1) + 1) /\ k + 1 + i - 1 = n - h + i
        BY <4>0, <4>2
      <4> QED BY <3>2, <4>1 DEF n, k
    <3> QED BY <3>2, <3>3, <3>4
  <2> HIDE DEF tail
  <2>2. h > 0
    BY <1>2, <2>1, EmptySeq
  <2>3. PICK i \in DOMAIN stopStrings : h < Len(stopStrings[i]) /\ EndsWith(full, stopStrings[i], h)
    BY <1>2, <2>2
  <2>4. \A j \in 1..h : tail[j] = stopStrings[i][j]
    BY <2>1, <2>3 DEF EndsWith
  <2>5. /\ SubSeq(tail, 1, h) = tail
        /\ UpTo(stopStrings[i], h) \in Seq(C) /\ Len(UpTo(stopStrings[i], h)) = h
        /\ \A j \in 1..h : UpTo(stopStrings[i], h)[j] = stopStrings[i][j]
    <3>1. h \in 0..Len(stopStrings[i])
      BY <1>1, <1>2, <2>3
    <3> QED BY <1>1, <2>1, <3>1, SubSeqFull, UpToFacts
  <2>6. tail = UpTo(stopStrings[i], h)
    BY <2>1, <2>4, <2>5, SeqEqual
  <2>7. Len(tail) # Len(stopStrings[i])
    BY <1>1, <1>2, <2>1, <2>3
  <2> QED BY <1>1, <1>2, <2>1, <2>3, <2>5, <2>6, <2>7 DEF IsStrictPrefix, IsPrefix, UpTo
<1>6. ASSUME NEW i \in DOMAIN stopStrings
      PROVE  ~Occurs(full, stopStrings[i]) /\ ~Occurs(out, stopStrings[i])
  <2>1. ~Occurs(full, stopStrings[i])
    BY <1>1, OccurrenceStands DEF Occurs
  <2>2. ~Occurs(out, stopStrings[i])
    BY <1>1, <1>3, OccursInBeginning
  <2> QED BY <2>1, <2>2
<1> QED BY <1>1, <1>5, <1>6 DEF ReturnedTextIsExact, CutIsAtTheStopString, FlushReturnsAll, NoStopStringMissed

(* A stop string cuts the stream where the earliest one starts.            *)
LEMMA CutIsExact ==
    ASSUME NEW C, TextTyped(C), Running, ~isFinished, NEW chunk \in Seq(C),
           StopMatches(decoded \o chunk, stopStrings, emittedLen) # {},
           StopAt(decoded \o chunk, Winner(StopMatches(decoded \o chunk, stopStrings, emittedLen))),
           full' = full \o chunk, UNCHANGED <<stopStrings, include>>
    PROVE  TextInv(C)'
<1> DEFINE text == full \o chunk
           ms == StopMatches(text, stopStrings, emittedLen)
           m == Winner(ms)
           s == stopStrings[m[2]]
           pos == m[1]
<1>1. /\ full \in Seq(C) /\ Len(full) \in Nat /\ stopStrings \in Seq(Seq(C))
      /\ \A i \in DOMAIN stopStrings : stopStrings[i] \in Seq(C) /\ Len(stopStrings[i]) \in Nat
                                       /\ stopStrings[i] # <<>>
      /\ decoded = full /\ emittedLen = Len(full) - Holdback(full, stopStrings)
      /\ out = UpTo(full, emittedLen)
      /\ \A i \in DOMAIN stopStrings : \A p \in 0..Len(full) : ~Stands(full, stopStrings[i], p)
      /\ Holdback(full, stopStrings) \in 0..Len(full)
  BY HoldbackFacts DEF TextTyped, Running
<1>2. text \in Seq(C) /\ Len(text) = Len(full) + Len(chunk) /\ Len(text) \in Nat
  BY <1>1, ConcatProperties
<1>3. emittedLen \in 0..Len(full) /\ emittedLen \in 0..Len(text)
  BY <1>1, <1>2
<1>4. out = UpTo(text, emittedLen)
  BY <1>1, <1>3, UpToOfLonger
<1>5. \A i \in DOMAIN stopStrings : \A p \in 0..Len(text) :
        Stands(text, stopStrings[i], p) =>
            <<p, i>> \in ms /\ p >= emittedLen /\ p + Len(stopStrings[i]) > Len(full)
  <2> SUFFICES ASSUME NEW i \in DOMAIN stopStrings, NEW p \in 0..Len(text), Stands(text, stopStrings[i], p)
               PROVE  <<p, i>> \in ms /\ p >= emittedLen /\ p + Len(stopStrings[i]) > Len(full)
    OBVIOUS
  <2>1. /\ p + Len(stopStrings[i]) > Len(full) /\ p >= emittedLen
        /\ p >= SearchStart(stopStrings[i], emittedLen)
    BY <1>1, NewStopIsHeld
  <2>2. OccursAt(text, stopStrings[i], p)
    <3>1. stopStrings[i] \in Seq(C) /\ p \in Nat
      BY <1>1, <1>2
    <3> HIDE DEF text
    <3> QED BY <1>2, <3>1, OccurrenceStands
  <2> QED BY <2>1, <2>2 DEF StopMatches
<1>6. /\ ms # {} /\ ms \subseteq Nat \X Nat
      /\ \A n \in ms : n[1] \in 0..Len(text) /\ n[2] \in DOMAIN stopStrings
                       /\ OccursAt(text, stopStrings[n[2]], n[1])
  <2>1. ms # {}
    BY <1>1
  <2>2. \A n \in ms : n \in (0..Len(text)) \X DOMAIN stopStrings
                      /\ OccursAt(text, stopStrings[n[2]], n[1])
    BY DEF StopMatches
  <2>3. 0..Len(text) \subseteq Nat /\ DOMAIN stopStrings \subseteq Nat
    BY <1>1
  <2> HIDE DEF ms
  <2> QED BY <2>1, <2>2, <2>3
<1>7. m \in ms /\ \A n \in ms : m[1] <= n[1]
  <2> HIDE DEF ms
  <2> QED BY <1>6, WinnerFacts
<1>8. StopAt(text, m)
  BY <1>1
<1> HIDE DEF m, ms, text
<1>9. /\ s \in Seq(C) /\ Len(s) \in Nat /\ s # <<>> /\ pos \in 0..Len(text) /\ Stands(text, s, pos)
  BY <1>1, <1>2, <1>6, <1>7, OccurrenceStands
<1>10. /\ pos >= emittedLen /\ pos + Len(s) > Len(full) /\ Len(s) > 0
  BY <1>1, <1>5, <1>6, <1>7, <1>9, EmptySeq
<1> DEFINE cut == IF include THEN pos + Len(s) ELSE pos
<1>11. /\ pos + Len(s) \in 0..Len(text)
       /\ IsSuffix(s, UpTo(text, pos + Len(s)))
       /\ UpTo(text, pos) \o s = UpTo(text, pos + Len(s))
  BY <1>2, <1>9, StandsAtTheEnd
<1>12. cut \in 0..Len(text) /\ cut \in emittedLen..Len(text) /\ Max({emittedLen, cut}) = cut
  <2>1. cut \in Int /\ emittedLen \in Int /\ cut >= emittedLen
    BY <1>2, <1>3, <1>9, <1>10
  <2>2. cut \in 0..Len(text)
    BY <1>9, <1>11
  <2> HIDE DEF cut
  <2> QED BY <1>2, <1>3, <2>1, <2>2, MaxOfTwo
<1>13. /\ out' = UpTo(text, cut) /\ isFinished' = TRUE /\ stopReason' = s
       /\ decoded' = UpTo(text, cut)
  <2>1. out' = out \o SubSeq(text, emittedLen + 1, cut) /\ isFinished' = TRUE /\ stopReason' = s
        /\ decoded' = UpTo(text, cut)
    BY <1>8, <1>12 DEF StopAt, Return
  <2> QED BY <1>2, <1>3, <1>4, <1>12, <2>1, UpToExtends
<1> DEFINE shown == IF include THEN out' ELSE out' \o s
<1>14. shown = UpTo(text, pos + Len(s))
  BY <1>11, <1>13
<1>15. full' = text /\ include' = include /\ stopStrings' = stopStrings
  BY DEF text
<1>16. CutIsAtTheStopString'
  <2>1. IsPrefix(UpTo(text, pos + Len(s)), text)
    BY <1>2, <1>11, UpToFacts
  <2> HIDE DEF s
  <2> QED BY <1>11, <1>13, <1>14, <1>15, <2>1 DEF CutIsAtTheStopString
<1>17. ReturnedTextIsExact'
  BY <1>9, <1>13, <1>16 DEF ReturnedTextIsExact, OnlyStopPrefixesAreHeld, FlushReturnsAll
<1>18. ASSUME NEW i \in DOMAIN stopStrings, ~include, Occurs(UpTo(text, cut), stopStrings[i])
       PROVE  FALSE
  <2>1. PICK p \in 0..Len(text) : p + Len(stopStrings[i]) <= cut /\ Stands(text, stopStrings[i], p)
    BY <1>1, <1>2, <1>12, <1>18, OccursInBeginning
  <2>2. <<p, i>> \in ms
    BY <1>5, <2>1
  <2>3. pos <= p
    <3>1. <<p, i>>[1] = p
      OBVIOUS
    <3> QED BY <1>7, <2>2, <3>1
  <2>4. Len(stopStrings[i]) \in Nat /\ Len(stopStrings[i]) > 0
    BY <1>1, EmptySeq
  <2> QED BY <1>9, <1>18, <2>1, <2>3, <2>4
<1>19. NoStopStringMissed'
  BY <1>9, <1>13, <1>15, <1>18 DEF NoStopStringMissed
<1>20. TextTyped(C)' /\ Running'
  BY <1>2, <1>13, <1>15 DEF TextTyped, Running
<1> QED BY <1>17, <1>19, <1>20 DEF TextInv, Finished

(* Without one the stream goes on, or ends, with none in its text.         *)
LEMMA NoCut ==
    ASSUME NEW C, TextTyped(C), Running, ~isFinished, NEW chunk \in Seq(C),
           StopMatches(decoded \o chunk, stopStrings, emittedLen) = {}
    PROVE  /\ decoded = full /\ full \o chunk \in Seq(C)
           /\ \A i \in DOMAIN stopStrings : \A p \in 0..Len(full \o chunk) :
                ~Stands(full \o chunk, stopStrings[i], p)
           /\ emittedLen \in 0..Len(full \o chunk)
           /\ out = UpTo(full \o chunk, emittedLen)
           /\ Len(full \o chunk) - Holdback(full \o chunk, stopStrings) \in emittedLen..Len(full \o chunk)
<1> DEFINE text == full \o chunk
<1>1. /\ full \in Seq(C) /\ Len(full) \in Nat /\ stopStrings \in Seq(Seq(C))
      /\ \A i \in DOMAIN stopStrings : stopStrings[i] \in Seq(C)
      /\ decoded = full /\ emittedLen = Len(full) - Holdback(full, stopStrings)
      /\ out = UpTo(full, emittedLen)
      /\ \A i \in DOMAIN stopStrings : \A p \in 0..Len(full) : ~Stands(full, stopStrings[i], p)
      /\ Holdback(full, stopStrings) \in 0..Len(full)
  BY HoldbackFacts DEF TextTyped, Running
<1>2. text \in Seq(C) /\ Len(text) = Len(full) + Len(chunk) /\ Len(text) \in Nat
  BY <1>1, ConcatProperties
<1>3. emittedLen \in 0..Len(full) /\ emittedLen \in 0..Len(text)
  BY <1>1, <1>2
<1>4. out = UpTo(text, emittedLen)
  BY <1>1, <1>3, UpToOfLonger
<1>5. ASSUME NEW i \in DOMAIN stopStrings, NEW p \in 0..Len(text), Stands(text, stopStrings[i], p)
      PROVE  FALSE
  <2>1. p >= SearchStart(stopStrings[i], emittedLen)
    BY <1>1, <1>5, NewStopIsHeld
  <2>2. OccursAt(text, stopStrings[i], p)
    <3>1. stopStrings[i] \in Seq(C) /\ p \in Nat /\ Stands(text, stopStrings[i], p)
      BY <1>1, <1>2, <1>5
    <3> HIDE DEF text
    <3> QED BY <1>2, <3>1, OccurrenceStands
  <2>3. <<p, i>> \in StopMatches(text, stopStrings, emittedLen)
    BY <2>1, <2>2 DEF StopMatches
  <2> QED BY <1>1, <2>3
<1>6. Len(text) - Holdback(text, stopStrings) >= emittedLen
  BY <1>1, HoldsEnough
<1>7. Holdback(text, stopStrings) \in 0..Len(text)
  BY <1>1, <1>2, HoldbackFacts
<1> HIDE DEF text
<1>8. Len(text) - Holdback(text, stopStrings) \in emittedLen..Len(text)
  BY <1>2, <1>3, <1>6, <1>7
<1> QED BY <1>1, <1>2, <1>3, <1>4, <1>5, <1>8 DEF text

(* A step with one more chunk keeps the invariant: no stop string was      *)
(* missed, and only what may begin one is held back (vllm.py:78).          *)
LEMMA StepTextKeeps ==
    ASSUME NEW C, TextInv(C), NEW chunk \in Seq(C), StepText(chunk)
    PROVE  TextInv(C)'
<1> DEFINE text == full \o chunk
           safe == Len(text) - Holdback(text, stopStrings)
<1>1. /\ TextTyped(C) /\ Running /\ ~isFinished /\ decoded = full /\ stopReason = <<>>
      /\ full' = text /\ UNCHANGED <<stopStrings, include>>
  BY DEF StepText, TextInv, Running
<1>2. CASE StopMatches(decoded \o chunk, stopStrings, emittedLen) # {}
  <2>1. StopAt(decoded \o chunk, Winner(StopMatches(decoded \o chunk, stopStrings, emittedLen)))
    BY <1>2 DEF StepText
  <2> QED BY <1>1, <1>2, <2>1, CutIsExact
<1>3. CASE StopMatches(decoded \o chunk, stopStrings, emittedLen) = {}
  <2>1. /\ text \in Seq(C)
        /\ \A i \in DOMAIN stopStrings : \A p \in 0..Len(text) : ~Stands(text, stopStrings[i], p)
        /\ emittedLen \in 0..Len(text) /\ out = UpTo(text, emittedLen)
        /\ safe \in emittedLen..Len(text)
    BY <1>1, <1>3, NoCut
  <2>2. /\ decoded' = text /\ UNCHANGED <<isFinished, stopReason>>
        /\ \/ safe > emittedLen /\ emittedLen' = safe /\ out' = out \o SubSeq(text, emittedLen + 1, safe)
           \/ ~(safe > emittedLen) /\ UNCHANGED <<emittedLen, out>>
    BY <1>1, <1>3 DEF StepText, Return
  <2> HIDE DEF text, safe
  <2>3. emittedLen' = safe /\ out' = UpTo(text, safe)
    <3>1. CASE safe > emittedLen
      BY <2>1, <2>2, <3>1, UpToExtends
    <3>2. CASE ~(safe > emittedLen)
      <4>1. safe = emittedLen
        BY <2>1, <3>2
      <4> QED BY <2>1, <2>2, <3>2, <4>1
    <3> QED BY <3>1, <3>2
  <2>4. Running'
    BY <1>1, <2>1, <2>2, <2>3 DEF Running, safe
  <2> QED BY <1>1, <2>1, <2>2, <2>4 DEF TextInv, TextTyped, Finished
<1> QED BY <1>2, <1>3

(* The last chunk keeps the invariant: what was held back is returned      *)
(* (vllm.py:141).                                                          *)
LEMMA FinishTextKeeps ==
    ASSUME NEW C, TextInv(C), NEW chunk \in Seq(C), FinishText(chunk)
    PROVE  TextInv(C)'
<1> DEFINE text == full \o chunk
<1>1. /\ TextTyped(C) /\ Running /\ ~isFinished /\ decoded = full /\ stopReason = <<>>
      /\ full' = text /\ UNCHANGED <<stopStrings, include>>
      /\ \A i \in DOMAIN stopStrings : stopStrings[i] \in Seq(C)
  BY DEF FinishText, TextInv, Running, TextTyped
<1>2. CASE StopMatches(decoded \o chunk, stopStrings, emittedLen) # {}
  <2>1. StopAt(decoded \o chunk, Winner(StopMatches(decoded \o chunk, stopStrings, emittedLen)))
    BY <1>2 DEF FinishText
  <2> QED BY <1>1, <1>2, <2>1, CutIsExact
<1>3. CASE StopMatches(decoded \o chunk, stopStrings, emittedLen) = {}
  <2>1. /\ text \in Seq(C)
        /\ \A i \in DOMAIN stopStrings : \A p \in 0..Len(text) : ~Stands(text, stopStrings[i], p)
        /\ emittedLen \in 0..Len(text) /\ out = UpTo(text, emittedLen)
    BY <1>1, <1>3, NoCut
  <2>2. /\ out' = out \o SubSeq(text, emittedLen + 1, Len(text))
        /\ isFinished' = TRUE /\ stopReason' = <<>>
    BY <1>1, <1>3 DEF FinishText, Return
  <2> HIDE DEF text
  <2>3. out' = text
    <3>1. out' = UpTo(text, Len(text))
      <4>1. Len(text) \in emittedLen..Len(text)
        BY <2>1
      <4> QED BY <2>1, <2>2, <4>1, UpToExtends
    <3> QED BY <2>1, <3>1, SubSeqFull DEF UpTo
  <2>4. \A i \in DOMAIN stopStrings : ~Occurs(text, stopStrings[i])
    BY <1>1, <2>1, OccurrenceStands DEF Occurs
  <2>5. ReturnedTextIsExact' /\ NoStopStringMissed'
    BY <1>1, <2>2, <2>3, <2>4 DEF ReturnedTextIsExact, CutIsAtTheStopString, OnlyStopPrefixesAreHeld,
                                  FlushReturnsAll, NoStopStringMissed
  <2> QED BY <1>1, <2>1, <2>2, <2>5 DEF TextInv, TextTyped, Running, Finished
<1> QED BY <1>2, <1>3

(* Every step keeps the invariant of the text. *)
LEMMA TextStaysExact ==
    ASSUME NEW C, TextInv(C), [TextNext(C)]_textVars
    PROVE  TextInv(C)'
<1>1. CASE UNCHANGED textVars
  BY <1>1 DEF textVars, TextInv, TextTyped, Running, Finished, ReturnedTextIsExact, NoStopStringMissed,
              CutIsAtTheStopString, OnlyStopPrefixesAreHeld, FlushReturnsAll
<1>2. CASE TextNext(C)
  BY <1>2, StepTextKeeps, FinishTextKeeps DEF TextNext
<1> QED BY <1>1, <1>2

(* The invariant of the text holds of a new stream. *)
LEMMA TextInitHolds ==
    ASSUME NEW C, StopLists \subseteq Seq(Seq(C)), TextInit
    PROVE  TextInv(C)
<1>1. /\ stopStrings \in Seq(Seq(C)) /\ \A i \in DOMAIN stopStrings : stopStrings[i] # <<>>
      /\ include \in BOOLEAN /\ isFinished = FALSE
      /\ decoded = <<>> /\ full = <<>> /\ out = <<>> /\ emittedLen = 0 /\ stopReason = <<>>
  BY StopStringAssumption DEF TextInit
<1>2. <<>> \in Seq(C) /\ Len(<<>>) = 0
  BY EmptySeq
<1>3. Holdback(<<>>, stopStrings) = 0
  <2>1. Holdback(<<>>, stopStrings) \in 0..Len(<<>>)
    BY <1>1, <1>2, HoldbackFacts
  <2> QED BY <1>2, <2>1
<1>4. UpTo(<<>>, 0) = <<>>
  BY SubSeqEmpty DEF UpTo
<1>5. ASSUME NEW i \in DOMAIN stopStrings, NEW pos \in 0..Len(<<>>), Stands(<<>>, stopStrings[i], pos)
      PROVE  FALSE
  <2>1. stopStrings[i] \in Seq(C) /\ Len(stopStrings[i]) \in Nat /\ Len(stopStrings[i]) > 0
    BY <1>1, EmptySeq
  <2> QED BY <1>2, <1>5, <2>1 DEF Stands
<1>6. TextTyped(C) /\ Finished
  BY <1>1, <1>2 DEF TextTyped, Finished
<1>7. Running
  BY <1>1, <1>2, <1>3, <1>4, <1>5 DEF Running
<1> QED BY <1>6, <1>7 DEF TextInv

(* The invariant says what the two properties of the run say. *)
LEMMA InvIsExact ==
    ASSUME NEW C, TextInv(C)
    PROVE  ReturnedTextIsExact /\ NoStopStringMissed
BY RunningIsExact DEF TextInv, Finished

(* The deltas join to the text up to the first stop string, and come as    *)
(* early as the stop strings allow, wherever the chunk borders fall.       *)
THEOREM ReturnedTextStaysExact ==
    ASSUME NEW CONSTANT Characters, StopLists \subseteq Seq(Seq(Characters))
    PROVE  TextSpec(Characters) => []ReturnedTextIsExact
<1>1. TextInit => TextInv(Characters)
  BY TextInitHolds
<1>2. TextInv(Characters) /\ [TextNext(Characters)]_textVars => TextInv(Characters)'
  BY TextStaysExact
<1>3. TextInv(Characters) => ReturnedTextIsExact
  BY InvIsExact
<1> QED BY <1>1, <1>2, <1>3, PTL DEF TextSpec

(* No stop string is ever inside the text returned, or decoded unnoticed.  *)
THEOREM NoStopStringIsMissed ==
    ASSUME NEW CONSTANT Characters, StopLists \subseteq Seq(Seq(Characters))
    PROVE  TextSpec(Characters) => []NoStopStringMissed
<1>1. TextInit => TextInv(Characters)
  BY TextInitHolds
<1>2. TextInv(Characters) /\ [TextNext(Characters)]_textVars => TextInv(Characters)'
  BY TextStaysExact
<1>3. TextInv(Characters) => NoStopStringMissed
  BY InvIsExact
<1> QED BY <1>1, <1>2, <1>3, PTL DEF TextSpec
================================================================================
