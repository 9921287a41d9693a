-------------------------------- MODULE MergeFacts --------------------------------
(***************************************************************************)
(* What the proofs about the merge engines rest on, whatever their state:  *)
(* whose turn it is, the lists of groups that two of them go over, and the *)
(* groups that the other two link.                                         *)
(***************************************************************************)
EXTENDS MergePairs, Integers, Sequences, FiniteSets, FiniteSetTheorems,
        SequenceTheorems, WellFoundedInduction, TLAPS

(* A triple of numbers is its three members. *)
LEMMA TripleIs ==
    ASSUME NEW n \in Nat, NEW t \in Triples(n)
    PROVE  /\ t = <<t[1], t[2], t[3]>>
           /\ t[1] \in 0..n /\ t[2] \in 0..n /\ t[3] \in 0..n
           /\ t[1] < t[2] /\ t[2] < t[3]
BY DEF Triples

(* The pairs that may be fused or dropped. *)
Open(in, bounds, B) == {t \in Admitted(in) : Adjacent(bounds, t) /\ t \notin B}

(* A pair of adjacent groups is known by where it begins. *)
LEMMA AdjacentUnique ==
    ASSUME NEW n \in Nat, NEW bounds, bounds \subseteq 0..n,
           NEW s \in Triples(n), NEW t \in Triples(n), Adjacent(bounds, s),
           Adjacent(bounds, t), s[1] = t[1]
    PROVE  s = t
<1>1. /\ s = <<s[1], s[2], s[3]>> /\ s[1] < s[2] /\ s[2] < s[3]
      /\ t = <<t[1], t[2], t[3]>> /\ t[1] < t[2] /\ t[2] < t[3]
      /\ s[1] \in Nat /\ s[2] \in Nat /\ s[3] \in Nat /\ t[1] \in Nat
      /\ t[2] \in Nat /\ t[3] \in Nat
  BY TripleIs
<1>2. /\ \A b \in bounds : ~(s[1] < b /\ b < s[2]) /\ ~(s[2] < b /\ b < s[3])
      /\ \A b \in bounds : ~(t[1] < b /\ b < t[2]) /\ ~(t[2] < b /\ b < t[3])
      /\ s[2] \in bounds /\ s[3] \in bounds /\ t[2] \in bounds
      /\ t[3] \in bounds
  BY DEF Adjacent
<1>3. s[2] = t[2]
  BY <1>1, <1>2
<1>4. s[3] = t[3]
  BY <1>1, <1>2, <1>3
<1> QED BY <1>1, <1>3, <1>4

(* The turn is an open pair that no other open pair from p on precedes. *)
LEMMA TurnIsFirst ==
    ASSUME NEW in, in.leaves \in Nat, NEW bounds, bounds \subseteq 0..in.leaves,
           NEW B, NEW p \in Nat,
           NEW t \in Open(in, bounds, B), t[1] >= p,
           \A s \in Open(in, bounds, B) : s[1] >= p => t[1] <= s[1]
    PROVE  Turn(in, bounds, B, p) = t
<1> DEFINE open == Open(in, bounds, B)
           ahead == {s \in open : s[1] >= p}
           first == CHOOSE s \in ahead : \A r \in ahead : s[1] <= r[1]
<1>1. t \in ahead
  OBVIOUS
<1>2. Turn(in, bounds, B, p) = first
  BY <1>1 DEF Turn, Open
<1>3. \A s \in open : s \in Triples(in.leaves) /\ Adjacent(bounds, s) /\ s[1] \in Nat
  BY TripleIs DEF Open, Admitted
<1>4. first \in ahead /\ \A r \in ahead : first[1] <= r[1]
  <2>1. \A r \in ahead : t[1] <= r[1]
    OBVIOUS
  <2> HIDE DEF ahead
  <2> QED BY <1>1, <2>1
<1> HIDE DEF first
<1>5. first[1] = t[1] /\ first \in open
  BY <1>1, <1>3, <1>4
<1>6. first = t
  BY <1>3, <1>5, AdjacentUnique
<1> QED BY <1>2, <1>6

(* The turn is the first of all open pairs when none is from p on. *)
LEMMA TurnWraps ==
    ASSUME NEW in, in.leaves \in Nat, NEW bounds, bounds \subseteq 0..in.leaves,
           NEW B, NEW p \in Nat,
           NEW t \in Open(in, bounds, B),
           \A s \in Open(in, bounds, B) : s[1] < p /\ t[1] <= s[1]
    PROVE  Turn(in, bounds, B, p) = t
<1>1. \A s \in Open(in, bounds, B) : s[1] \in Nat
  BY TripleIs DEF Open, Admitted
<1>2. Turn(in, bounds, B, 0) = t
  <2>1. t[1] >= 0 /\ \A s \in Open(in, bounds, B) : t[1] <= s[1]
    BY <1>1
  <2> QED BY <2>1, TurnIsFirst
<1>3. Turn(in, bounds, B, p) = Turn(in, bounds, B, 0)
  <2> DEFINE open == Open(in, bounds, B)
             ahead(r) == {s \in open : s[1] >= r}
             pool(r) == IF ahead(r) # {} THEN ahead(r) ELSE open
  <2>1. ahead(p) = {} /\ ahead(0) = open
    BY <1>1
  <2>2. pool(p) = pool(0)
    BY <2>1
  <2>3. \A r : Turn(in, bounds, B, r) =
            IF pool(r) = {} THEN None ELSE CHOOSE s \in pool(r) : \A x \in pool(r) : s[1] <= x[1]
    BY DEF Turn, Open
  <2> HIDE DEF pool
  <2> QED BY <2>2, <2>3
<1> QED BY <1>2, <1>3

(* There is no turn when nothing is open. *)
LEMMA TurnNone ==
    ASSUME NEW in, NEW bounds, NEW B, NEW p, Open(in, bounds, B) = {}
    PROVE  Turn(in, bounds, B, p) = None
BY DEF Turn, Open

(* The turn depends on what is open, and on what of it is ahead.           *)
LEMMA TurnsAgree ==
    ASSUME NEW in, NEW bounds, NEW B, NEW p, NEW q,
           \/ \A t \in Open(in, bounds, B) : t[1] >= p <=> t[1] >= q
           \/ \A t \in Open(in, bounds, B) : ~(t[1] >= p) /\ t[1] >= q
    PROVE  Turn(in, bounds, B, p) = Turn(in, bounds, B, q)
<1> DEFINE open == Open(in, bounds, B)
           ahead(r) == {t \in open : t[1] >= r}
           pool(r) == IF ahead(r) # {} THEN ahead(r) ELSE open
<1>1. pool(p) = pool(q)
  <2> HIDE DEF open
  <2>1. CASE \A t \in open : t[1] >= p <=> t[1] >= q
    <3>1. ahead(p) = ahead(q)
      BY <2>1
    <3> QED BY <3>1
  <2>2. CASE \A t \in open : ~(t[1] >= p) /\ t[1] >= q
    <3>1. ahead(p) = {} /\ ahead(q) = open
      BY <2>2
    <3> QED BY <3>1
  <2> QED BY <2>1, <2>2 DEF open
<1>2. \A r : Turn(in, bounds, B, r) =
          IF pool(r) = {} THEN None ELSE CHOOSE t \in pool(r) : \A x \in pool(r) : t[1] <= x[1]
  BY DEF Turn, Open
<1> HIDE DEF pool
<1> QED BY <1>1, <1>2

--------------------------------------------------------------------------------
(* Groups that follow each other from one leaf to another.                 *)
Chain(s, from, to) ==
    /\ s \in Seq(Nat \X Nat)
    /\ \A i \in 1..Len(s) : s[i][1] < s[i][2]
    /\ \A i \in 1..Len(s) : i > 1 => s[i][1] = s[i - 1][2]
    /\ \A i, j \in 1..Len(s) : i < j => s[i][2] <= s[j][1]
    /\ s = <<>> => from = to
    /\ s # <<>> => s[1][1] = from /\ s[Len(s)][2] = to

(* Groups left behind, and the groups of the pass from a cursor on.        *)
Joined(behind, groups, k) == behind \o SubSeq(groups, k, Len(groups))
Beginnings(groups) == {groups[i][1] : i \in DOMAIN groups}
Starts(behind, groups, k) ==
    {behind[i][1] : i \in 1..Len(behind)} \cup {groups[i][1] : i \in k..Len(groups)}

(* Their boundaries, the leaf that the cursor has come to, and the pair of *)
(* a group and the one after it.                                           *)
BoundsOf(behind, groups, k, n) == Beginnings(Joined(behind, groups, k)) \cup {n}
PositionOf(groups, k, n) == IF k <= Len(groups) THEN groups[k][1] ELSE n
KeyOf(groups, k) == <<groups[k][1], groups[k][2], groups[k + 1][2]>>

(* The groups of the pass partition the leaves, and those left behind the  *)
(* leaves before the cursor.                                               *)
ListsOf(behind, groups, k, n) ==
    /\ n \in Nat \ {0}
    /\ k \in 1..(Len(groups) + 1)
    /\ Chain(groups, 0, n)
    /\ Chain(behind, 0, PositionOf(groups, k, n))

(* Groups that partition the leaves. *)
PartitionOf(groups, n) ==
    /\ \A i \in DOMAIN groups :
          /\ groups[i][1] < groups[i][2]
          /\ groups[i][1] = IF i = 1 THEN 0 ELSE groups[i - 1][2]
    /\ groups # <<>> => groups[Len(groups)][2] = n

(* Boundaries are numbers, and lie in order between the ends of the chain. *)
LEMMA ChainFacts ==
    ASSUME NEW s, NEW from \in Nat, NEW to \in Nat, Chain(s, from, to)
    PROVE  /\ Len(s) \in Nat /\ DOMAIN s = 1..Len(s)
           /\ \A i \in 1..Len(s) : /\ s[i] = <<s[i][1], s[i][2]>>
                                   /\ s[i][1] \in Nat /\ s[i][2] \in Nat
                                   /\ from <= s[i][1] /\ s[i][2] <= to
           /\ from <= to
<1>1. /\ Len(s) \in Nat /\ DOMAIN s = 1..Len(s)
      /\ \A i \in 1..Len(s) : s[i] \in Nat \X Nat
  BY DEF Chain
<1>2. \A i \in 1..Len(s) : s[i] = <<s[i][1], s[i][2]>> /\ s[i][1] \in Nat /\ s[i][2] \in Nat
  BY <1>1
<1>3. ASSUME NEW i \in 1..Len(s)
      PROVE  from <= s[i][1] /\ s[i][2] <= to
  <2>1. s # <<>> /\ 1 \in 1..Len(s) /\ Len(s) \in 1..Len(s)
    BY <1>1
  <2>2. s[1][1] = from /\ s[Len(s)][2] = to
    BY <2>1 DEF Chain
  <2>3. /\ s[1][1] < s[1][2] /\ s[Len(s)][1] < s[Len(s)][2] /\ s[i][1] < s[i][2]
        /\ 1 < i => s[1][2] <= s[i][1]
        /\ i < Len(s) => s[i][2] <= s[Len(s)][1]
    BY <2>1 DEF Chain
  <2>4. /\ s[1][1] \in Nat /\ s[1][2] \in Nat /\ s[i][1] \in Nat
        /\ s[i][2] \in Nat
        /\ s[Len(s)][1] \in Nat /\ s[Len(s)][2] \in Nat
    BY <1>2, <2>1
  <2>5. i = 1 \/ 1 < i
    BY <1>1
  <2>6. i = Len(s) \/ i < Len(s)
    BY <1>1
  <2>7. from <= s[i][1]
    BY <2>2, <2>3, <2>4, <2>5
  <2>8. s[i][2] <= to
    BY <2>2, <2>3, <2>4, <2>6
  <2> QED BY <2>7, <2>8
<1>4. from <= to
  <2>1. CASE s = <<>>
    BY <2>1 DEF Chain
  <2>2. CASE s # <<>>
    <3>1. 1 \in 1..Len(s)
      BY <1>1, <2>2, EmptySeq DEF Chain
    <3>2. from <= s[1][1] /\ s[1][1] < s[1][2] /\ s[1][2] <= to
      BY <1>3, <3>1 DEF Chain
    <3>3. s[1][1] \in Nat /\ s[1][2] \in Nat
      BY <1>2, <3>1
    <3> QED BY <3>2, <3>3
  <2> QED BY <2>1, <2>2
<1> QED BY <1>1, <1>2, <1>3, <1>4

(* A chain goes on with a group that begins where it ends. *)
LEMMA ChainGrows ==
    ASSUME NEW s, NEW from \in Nat, NEW x \in Nat, NEW y \in Nat, x < y,
           Chain(s, from, x)
    PROVE  Chain(Append(s, <<x, y>>), from, y)
<1> DEFINE n == Len(s)
           r == Append(s, <<x, y>>)
<1>1. n \in Nat /\ s \in Seq(Nat \X Nat) /\ <<x, y>> \in Nat \X Nat
  BY DEF Chain
<1>2. /\ r \in Seq(Nat \X Nat) /\ Len(r) = n + 1
      /\ \A i \in 1..n : r[i] = s[i]
      /\ r[n + 1] = <<x, y>>
  BY <1>1, AppendProperties
<1>3. \A i \in 1..n : s[i][1] \in Nat /\ s[i][2] \in Nat /\ s[i][2] <= x
  BY ChainFacts
<1>4. /\ \A i \in 1..n : s[i][1] < s[i][2]
      /\ \A i \in 1..n : i > 1 => s[i][1] = s[i - 1][2]
      /\ \A i, j \in 1..n : i < j => s[i][2] <= s[j][1]
      /\ s = <<>> => from = x
      /\ s # <<>> => s[1][1] = from /\ s[n][2] = x
  BY DEF Chain
<1>5. n = 0 <=> s = <<>>
  BY <1>1, EmptySeq
<1>6. r[n + 1][1] = x /\ r[n + 1][2] = y
  BY <1>2
<1>7. r # <<>>
  BY <1>1, <1>2, EmptySeq
<1> HIDE DEF n, r
<1>8. ASSUME NEW i \in 1..(n + 1)
      PROVE  r[i][1] < r[i][2]
  <2>1. CASE i \in 1..n
    BY <1>2, <1>4, <2>1
  <2>2. CASE i = n + 1
    BY <1>6, <2>2
  <2> QED BY <1>1, <2>1, <2>2
<1>9. ASSUME NEW i \in 1..(n + 1), i > 1
      PROVE  r[i][1] = r[i - 1][2]
  <2>1. CASE i \in 1..n
    <3>1. i - 1 \in 1..n /\ r[i] = s[i] /\ r[i - 1] = s[i - 1]
      BY <1>1, <1>2, <1>9, <2>1
    <3> QED BY <1>4, <1>9, <2>1, <3>1
  <2>2. CASE i = n + 1
    <3>1. i - 1 = n /\ n \in 1..n /\ s # <<>>
      BY <1>1, <1>5, <1>9, <2>2
    <3> QED BY <1>2, <1>4, <1>6, <2>2, <3>1
  <2> QED BY <1>1, <2>1, <2>2
<1>10. ASSUME NEW i \in 1..(n + 1), NEW j \in 1..(n + 1), i < j
       PROVE  r[i][2] <= r[j][1]
  <2>1. i \in 1..n
    BY <1>1, <1>10
  <2>2. CASE j \in 1..n
    BY <1>2, <1>4, <1>10, <2>1, <2>2
  <2>3. CASE j = n + 1
    BY <1>2, <1>3, <1>6, <2>1, <2>3
  <2> QED BY <1>1, <2>2, <2>3
<1>11. r[1][1] = from
  <2>1. CASE n = 0
    BY <1>4, <1>5, <1>6, <2>1
  <2>2. CASE n # 0
    BY <1>1, <1>2, <1>4, <1>5, <2>2
  <2> QED BY <2>1, <2>2
<1>12. r[Len(r)][2] = y
  BY <1>2, <1>6
<1> QED
  BY <1>2, <1>7, <1>8, <1>9, <1>10, <1>11, <1>12 DEF Chain, r

(* Both parts are in the groups, in their order. *)
LEMMA GroupsStart ==
    ASSUME NEW A \in Seq(Nat \X Nat), NEW C \in Seq(Nat \X Nat),
           NEW k \in 1..(Len(C) + 1)
    PROVE  /\ Joined(A, C, k) \in Seq(Nat \X Nat)
           /\ Len(Joined(A, C, k)) = Len(A) + Len(C) - k + 1
           /\ \A i \in 1..Len(A) : Joined(A, C, k)[i] = A[i]
           /\ \A i \in k..Len(C) : Joined(A, C, k)[Len(A) + i - k + 1] = C[i]
           /\ Beginnings(Joined(A, C, k)) = Starts(A, C, k)
<1> DEFINE S == SubSeq(C, k, Len(C))
           G == Joined(A, C, k)
           a == Len(A)
           c == Len(C)
<1>1. a \in Nat /\ c \in Nat /\ k \in Nat /\ k >= 1 /\ k <= c + 1
  OBVIOUS
<1>2. /\ S \in Seq(Nat \X Nat) /\ Len(S) = c - k + 1
      /\ \A i \in 1..(c - k + 1) : S[i] = C[k + i - 1]
  <2>1. \A i \in k..c : i \in 1..c
    BY <1>1
  <2>2. /\ S \in Seq(Nat \X Nat)
        /\ Len(S) = IF k <= c THEN c - k + 1 ELSE 0
        /\ \A i \in 1..(c - k + 1) : S[i] = C[k + i - 1]
    BY <1>1, <2>1, SubSeqProperties
  <2> QED BY <1>1, <2>2
<1>3. /\ G \in Seq(Nat \X Nat) /\ Len(G) = a + Len(S)
      /\ \A i \in 1..(a + Len(S)) : G[i] = IF i <= a THEN A[i] ELSE S[i - a]
  BY <1>2, ConcatProperties DEF Joined
<1>4. DOMAIN G = 1..Len(G)
  BY <1>3
<1> HIDE DEF S, G, a, c
<1>5. Len(G) = a + c - k + 1
  BY <1>1, <1>2, <1>3
<1>6. \A i \in 1..a : i \in 1..Len(G) /\ G[i] = A[i]
  BY <1>1, <1>2, <1>3
<1>7. ASSUME NEW i \in k..c
      PROVE  a + i - k + 1 \in 1..Len(G) /\ G[a + i - k + 1] = C[i]
  <2> DEFINE j == a + i - k + 1
  <2>1. /\ j \in 1..(a + Len(S)) /\ ~(j <= a) /\ j - a = i - k + 1
        /\ i - k + 1 \in 1..(c - k + 1)
        /\ k + (i - k + 1) - 1 = i
    BY <1>1, <1>2
  <2> HIDE DEF j
  <2>2. G[j] = S[i - k + 1]
    BY <1>3, <2>1
  <2>3. S[i - k + 1] = C[i]
    BY <1>2, <2>1
  <2> QED BY <1>3, <2>1, <2>2, <2>3 DEF j
<1>8. ASSUME NEW i \in 1..Len(G)
      PROVE  i \in 1..a \/ \E m \in k..c : i = a + m - k + 1
  <2>1. CASE i <= a
    BY <2>1, <1>1, <1>5
  <2>2. CASE i > a
    <3>1. i - a + k - 1 \in k..c /\ i = a + (i - a + k - 1) - k + 1
      BY <2>2, <1>1, <1>5
    <3> QED BY <3>1
  <2> QED BY <2>1, <2>2, <1>1, <1>5
<1>9. {G[i][1] : i \in DOMAIN G} = {A[i][1] : i \in 1..a} \cup {C[i][1] : i \in k..c}
  <2>1. ASSUME NEW i \in DOMAIN G
        PROVE  (\E m \in 1..a : G[i] = A[m]) \/ (\E m \in k..c : G[i] = C[m])
    <3>1. i \in 1..a \/ \E m \in k..c : i = a + m - k + 1
      BY <1>4, <1>8
    <3>2. CASE i \in 1..a
      BY <1>6, <3>2
    <3>3. CASE \E m \in k..c : i = a + m - k + 1
      BY <1>7, <3>3
    <3> QED BY <3>1, <3>2, <3>3
  <2>2. \A m \in 1..a : \E i \in DOMAIN G : G[i] = A[m]
    BY <1>4, <1>6
  <2>3. \A m \in k..c : \E i \in DOMAIN G : G[i] = C[m]
    BY <1>4, <1>7
  <2>4. \A x \in {G[i][1] : i \in DOMAIN G} : x \in {A[i][1] : i \in 1..a} \cup {C[i][1] : i \in k..c}
    BY <2>1
  <2>5. \A x \in {A[i][1] : i \in 1..a} \cup {C[i][1] : i \in k..c} : x \in {G[i][1] : i \in DOMAIN G}
    BY <2>2, <2>3
  <2> QED BY <2>4, <2>5
<1> QED
  BY <1>3, <1>5, <1>6, <1>7, <1>9 DEF Starts, Beginnings, G, a, c

--------------------------------------------------------------------------------
(* The boundaries are where groups begin, and the end of the last one.     *)
LEMMA BoundsAre ==
    ASSUME NEW nxt \in Seq(Nat \X Nat), NEW current \in Seq(Nat \X Nat), NEW n,
           NEW cursor \in 1..(Len(current) + 1)
    PROVE  BoundsOf(nxt, current, cursor, n) = Starts(nxt, current, cursor) \cup {n}
BY GroupsStart DEF BoundsOf

(* The next group and the one after it: no boundary is inside them, and    *)
(* every other boundary is behind or ahead.                                *)
LEMMA NoBoundInside ==
    ASSUME NEW nxt, NEW current, NEW cursor, NEW n,
           ListsOf(nxt, current, cursor, n)
    PROVE  /\ PositionOf(current, cursor, n) \in Nat
           /\ PositionOf(current, cursor, n) <= n /\ Len(current) \in Nat
           /\ n \in Nat
           /\ BoundsOf(nxt, current, cursor, n) \subseteq 0..n
           /\ n \in BoundsOf(nxt, current, cursor, n)
           /\ \A i \in 1..Len(nxt) : nxt[i][1] < PositionOf(current, cursor, n) /\ nxt[i][1] \in Nat
           /\ \A k \in cursor..Len(current) :
                /\ k \in 1..Len(current) /\ k \in Nat
                /\ current[k][1] \in Nat /\ current[k][2] \in Nat
                /\ current[k][1] < current[k][2] /\ current[k][2] <= n
                /\ current[k][1] \in BoundsOf(nxt, current, cursor, n)
                /\ current[k][2] \in BoundsOf(nxt, current, cursor, n)
                /\ \A b \in BoundsOf(nxt, current, cursor, n) : b <= current[k][1] \/ b >= current[k][2]
                /\ k < Len(current) => current[k + 1][1] = current[k][2]
                /\ k = Len(current) => current[k][2] = n
           /\ cursor <= Len(current) =>
                /\ current[cursor] = <<PositionOf(current, cursor, n), current[cursor][2]>>
                /\ current[cursor][2] \in Nat /\ current[cursor][2] <= n
                /\ PositionOf(current, cursor, n) < current[cursor][2]
                /\ PositionOf(current, cursor, n) \in BoundsOf(nxt, current, cursor, n)
                /\ current[cursor][2] \in BoundsOf(nxt, current, cursor, n)
                /\ \A b \in BoundsOf(nxt, current, cursor, n) : b <= PositionOf(current, cursor, n) \/ b >= current[cursor][2]
           /\ cursor = Len(current) => current[cursor][2] = n
           /\ cursor < Len(current) =>
                /\ current[cursor + 1] = <<current[cursor][2], current[cursor + 1][2]>>
                /\ current[cursor + 1][2] \in Nat /\ current[cursor + 1][2] <= n
                /\ current[cursor][2] < current[cursor + 1][2]
                /\ current[cursor + 1][2] \in BoundsOf(nxt, current, cursor, n)
                /\ \A b \in BoundsOf(nxt, current, cursor, n) : b <= current[cursor][2] \/ b >= current[cursor + 1][2]
<1>1. /\ current \in Seq(Nat \X Nat) /\ nxt \in Seq(Nat \X Nat)
      /\ cursor \in 1..(Len(current) + 1) /\ n \in Nat
  BY DEF ListsOf, Chain
<1>2. BoundsOf(nxt, current, cursor, n) = Starts(nxt, current, cursor) \cup {n}
  BY <1>1, BoundsAre
<1> DEFINE c == Len(current)
<1>3. /\ c \in Nat /\ n \in Nat /\ cursor \in Nat /\ cursor >= 1
      /\ cursor <= c + 1
      /\ \A i \in 1..c : /\ current[i] = <<current[i][1], current[i][2]>>
                         /\ current[i][1] \in Nat /\ current[i][2] \in Nat
                         /\ current[i][1] < current[i][2] /\ current[i][2] <= n
      /\ \A i \in 1..c : i > 1 => current[i][1] = current[i - 1][2]
      /\ \A i, j \in 1..c : i < j => current[i][2] <= current[j][1]
      /\ c > 0 => current[c][2] = n
  <2>1. Chain(current, 0, n)
    BY DEF ListsOf
  <2>2. c > 0 => current # <<>>
    BY EmptySeq
  <2>3. /\ c \in Nat /\ n \in Nat /\ cursor \in Nat /\ cursor >= 1
        /\ cursor <= c + 1
    BY <1>1
  <2>4. \A i \in 1..c : /\ current[i] = <<current[i][1], current[i][2]>>
                        /\ current[i][1] \in Nat /\ current[i][2] \in Nat
                        /\ current[i][2] <= n
    BY <2>1, <2>3, ChainFacts
  <2>5. /\ \A i \in 1..c : current[i][1] < current[i][2]
        /\ \A i \in 1..c : i > 1 => current[i][1] = current[i - 1][2]
        /\ \A i, j \in 1..c : i < j => current[i][2] <= current[j][1]
        /\ c > 0 => current[c][2] = n
    BY <2>1, <2>2 DEF Chain
  <2> QED BY <2>3, <2>4, <2>5
<1>4. PositionOf(current, cursor, n) \in Nat /\ PositionOf(current, cursor, n) <= n /\ (cursor <= c => PositionOf(current, cursor, n) = current[cursor][1])
  BY <1>1, <1>3 DEF PositionOf
<1>5. \A i \in 1..Len(nxt) : nxt[i][1] \in Nat /\ nxt[i][1] < PositionOf(current, cursor, n)
  <2>1. Chain(nxt, 0, PositionOf(current, cursor, n))
    BY DEF ListsOf
  <2>2. /\ \A i \in 1..Len(nxt) : nxt[i][1] \in Nat /\ nxt[i][2] \in Nat /\ nxt[i][2] <= PositionOf(current, cursor, n)
        /\ \A i \in 1..Len(nxt) : nxt[i][1] < nxt[i][2]
    BY <1>4, <2>1, ChainFacts DEF Chain
  <2> QED BY <1>4, <2>2
<1> HIDE DEF c
<1>6. \A b \in BoundsOf(nxt, current, cursor, n) :
        \/ b \in Nat /\ b < PositionOf(current, cursor, n)
        \/ b = n
        \/ \E i \in cursor..c : b = current[i][1]
  BY <1>2, <1>5 DEF Starts, c
<1>7. \A i \in cursor..c : i \in 1..c /\ current[i][1] \in BoundsOf(nxt, current, cursor, n)
  BY <1>2, <1>3 DEF Starts, c
<1>8. n \in BoundsOf(nxt, current, cursor, n)
  BY <1>2
<1>9. BoundsOf(nxt, current, cursor, n) \subseteq 0..n
  <2> SUFFICES ASSUME NEW b \in BoundsOf(nxt, current, cursor, n) PROVE b \in 0..n
    OBVIOUS
  <2>2. CASE b \in Nat /\ b < PositionOf(current, cursor, n)
    BY <1>3, <1>4, <2>2
  <2>3. CASE \E i \in cursor..c : b = current[i][1]
    <3>1. PICK i \in 1..c : b = current[i][1]
      BY <1>7, <2>3
    <3>2. b \in Nat /\ b < current[i][2] /\ current[i][2] <= n /\ current[i][2] \in Nat
      BY <1>3, <3>1
    <3> QED BY <1>3, <3>2
  <2>4. CASE b = n
    BY <1>3, <2>4
  <2> QED BY <1>6, <2>2, <2>3, <2>4
<1>10. ASSUME NEW k \in cursor..c
       PROVE  /\ current[k][2] \in BoundsOf(nxt, current, cursor, n)
              /\ \A b \in BoundsOf(nxt, current, cursor, n) : b <= current[k][1] \/ b >= current[k][2]
  <2>1. k \in 1..c /\ k \in Nat
    BY <1>7, <1>3
  <2>2. ASSUME k = c PROVE current[k][2] \in BoundsOf(nxt, current, cursor, n)
    BY <1>3, <1>8, <2>1, <2>2
  <2>3. ASSUME k < c PROVE current[k][2] \in BoundsOf(nxt, current, cursor, n)
    <3>1. k + 1 \in cursor..c /\ k + 1 \in 1..c /\ k + 1 > 1 /\ (k + 1) - 1 = k
      BY <1>3, <2>1, <2>3
    <3>2. current[k + 1][1] = current[k][2]
      BY <1>3, <3>1
    <3> QED BY <1>7, <3>1, <3>2
  <2>4. current[k][2] \in BoundsOf(nxt, current, cursor, n)
    BY <2>1, <2>2, <2>3, <1>3
  <2>5. ASSUME NEW b \in BoundsOf(nxt, current, cursor, n)
        PROVE  b <= current[k][1] \/ b >= current[k][2]
    <3>1. PositionOf(current, cursor, n) <= current[k][1]
      <4>1. CASE k = cursor
        BY <1>3, <1>4, <4>1, <2>1
      <4>2. CASE cursor < k
        <5>1. cursor \in 1..c
          BY <1>3, <2>1, <4>2
        <5>2. current[cursor][1] < current[cursor][2] /\ current[cursor][2] <= current[k][1]
          BY <1>3, <2>1, <4>2, <5>1
        <5> QED BY <1>3, <1>4, <2>1, <5>1, <5>2
      <4> QED BY <4>1, <4>2, <1>3, <2>1
    <3>2. CASE b \in Nat /\ b < PositionOf(current, cursor, n)
      BY <3>1, <3>2, <1>3, <1>4, <2>1
    <3>3. CASE b = n
      BY <1>3, <2>1, <3>3
    <3>4. CASE \E i \in cursor..c : b = current[i][1]
      <4>1. PICK i \in cursor..c : b = current[i][1]
        BY <3>4
      <4>2. i \in 1..c /\ i \in Nat
        BY <1>3, <1>7
      <4>3. CASE i = k
        BY <4>1, <4>3, <1>3, <2>1
      <4>4. CASE i < k
        <5>1. current[i][1] < current[i][2] /\ current[i][2] <= current[k][1]
          BY <1>3, <2>1, <4>2, <4>4
        <5> QED BY <1>3, <2>1, <4>1, <4>2, <5>1
      <4>5. CASE k < i
        BY <1>3, <2>1, <4>1, <4>2, <4>5
      <4> QED BY <4>2, <2>1, <4>3, <4>4, <4>5
    <3> QED BY <1>6, <3>2, <3>3, <3>4
  <2> QED BY <2>4, <2>5
<1>11. ASSUME cursor <= c
       PROVE  /\ current[cursor] = <<PositionOf(current, cursor, n), current[cursor][2]>>
              /\ current[cursor][2] \in Nat /\ current[cursor][2] <= n
              /\ PositionOf(current, cursor, n) < current[cursor][2]
              /\ PositionOf(current, cursor, n) \in BoundsOf(nxt, current, cursor, n)
              /\ current[cursor][2] \in BoundsOf(nxt, current, cursor, n)
              /\ \A b \in BoundsOf(nxt, current, cursor, n) : b <= PositionOf(current, cursor, n) \/ b >= current[cursor][2]
  <2>1. cursor \in cursor..c /\ cursor \in 1..c
    BY <1>3, <1>11
  <2> QED BY <1>3, <1>4, <1>7, <1>10, <1>11, <2>1
<1>12. ASSUME cursor < c
       PROVE  /\ current[cursor + 1] = <<current[cursor][2], current[cursor + 1][2]>>
              /\ current[cursor + 1][2] \in Nat /\ current[cursor + 1][2] <= n
              /\ current[cursor][2] < current[cursor + 1][2]
              /\ current[cursor + 1][2] \in BoundsOf(nxt, current, cursor, n)
              /\ \A b \in BoundsOf(nxt, current, cursor, n) : b <= current[cursor][2] \/ b >= current[cursor + 1][2]
  <2>1. cursor + 1 \in cursor..c /\ cursor + 1 \in 1..c /\ cursor + 1 > 1 /\ (cursor + 1) - 1 = cursor
    BY <1>3, <1>12
  <2>2. current[cursor + 1][1] = current[cursor][2]
    BY <1>3, <2>1
  <2> QED BY <1>3, <1>10, <2>1, <2>2
<1>13. cursor = c => current[cursor][2] = n
  BY <1>3
<1>14. ASSUME NEW k \in cursor..c
       PROVE  /\ k < c => current[k + 1][1] = current[k][2]
              /\ k = c => current[k][2] = n
  <2>1. k < c => k + 1 \in 1..c /\ k + 1 > 1 /\ (k + 1) - 1 = k
    BY <1>3, <1>14
  <2> QED BY <1>3, <1>7, <2>1
<1>15. \A k \in cursor..c :
         /\ k \in 1..c /\ k \in Nat
         /\ current[k][1] \in Nat /\ current[k][2] \in Nat
         /\ current[k][1] < current[k][2] /\ current[k][2] <= n
         /\ current[k][1] \in BoundsOf(nxt, current, cursor, n)
         /\ current[k][2] \in BoundsOf(nxt, current, cursor, n)
         /\ \A b \in BoundsOf(nxt, current, cursor, n) : b <= current[k][1] \/ b >= current[k][2]
         /\ k < c => current[k + 1][1] = current[k][2]
         /\ k = c => current[k][2] = n
  BY <1>3, <1>7, <1>10, <1>14
<1> QED
  BY <1>3, <1>4, <1>5, <1>8, <1>9, <1>11, <1>12, <1>13, <1>15 DEF c

(* Two groups ahead that are next to each other are a pair.                *)
LEMMA KeyIsAPair ==
    ASSUME NEW nxt, NEW current, NEW cursor, NEW n,
           ListsOf(nxt, current, cursor, n),
           NEW k \in cursor..Len(current), k < Len(current)
    PROVE  /\ KeyOf(current, k) \in Triples(n)
           /\ Adjacent(BoundsOf(nxt, current, cursor, n), KeyOf(current, k))
           /\ KeyOf(current, k)[1] = current[k][1]
           /\ KeyOf(current, k)[2] = current[k][2]
           /\ KeyOf(current, k)[3] = current[k + 1][2]
<1>1. k + 1 \in cursor..Len(current) /\ k \in Nat /\ n \in Nat
  BY NoBoundInside DEF ListsOf
<1>2. /\ current[k][1] \in Nat /\ current[k][2] \in Nat
      /\ current[k + 1][2] \in Nat
      /\ current[k][1] < current[k][2] /\ current[k][2] < current[k + 1][2]
      /\ current[k + 1][2] <= n /\ current[k + 1][1] = current[k][2]
      /\ {current[k][1], current[k][2], current[k + 1][2]} \subseteq BoundsOf(nxt, current, cursor, n)
      /\ \A b \in BoundsOf(nxt, current, cursor, n) : b <= current[k][1] \/ b >= current[k][2]
      /\ \A b \in BoundsOf(nxt, current, cursor, n) : b <= current[k][2] \/ b >= current[k + 1][2]
      /\ BoundsOf(nxt, current, cursor, n) \subseteq 0..n
  BY <1>1, NoBoundInside
<1>3. KeyOf(current, k) \in Triples(n)
  BY <1>1, <1>2 DEF KeyOf, Triples
<1>4. Adjacent(BoundsOf(nxt, current, cursor, n), KeyOf(current, k))
  <2> DEFINE x == current[k][1]
             y == current[k][2]
             z == current[k + 1][2]
  <2>1. /\ x \in Nat /\ y \in Nat /\ z \in Nat
        /\ {x, y, z} \subseteq BoundsOf(nxt, current, cursor, n)
        /\ KeyOf(current, k)[1] = x /\ KeyOf(current, k)[2] = y
        /\ KeyOf(current, k)[3] = z
    BY <1>2 DEF KeyOf
  <2>2. ASSUME NEW b \in BoundsOf(nxt, current, cursor, n)
        PROVE  ~(x < b /\ b < y) /\ ~(y < b /\ b < z)
    <3>1. b \in Nat /\ (b <= x \/ b >= y) /\ (b <= y \/ b >= z)
      BY <1>1, <1>2
    <3> HIDE DEF x, y, z
    <3> QED BY <2>1, <3>1
  <2> HIDE DEF x, y, z
  <2> QED BY <2>1, <2>2 DEF Adjacent
<1> QED BY <1>3, <1>4 DEF KeyOf

(* The only pair that begins with a group ahead is that with the next one, *)
(* and what comes before a group is the boundary of the one before it.     *)
LEMMA PairsAhead ==
    ASSUME NEW nxt, NEW current, NEW cursor, NEW n,
           ListsOf(nxt, current, cursor, n),
           NEW k \in cursor..Len(current), NEW t \in Triples(n),
           Adjacent(BoundsOf(nxt, current, cursor, n), t)
    PROVE  /\ t[1] = current[k][1] => k < Len(current) /\ t = KeyOf(current, k)
           /\ t[2] = current[k][2] => t[1] = current[k][1]
           /\ t[3] = current[k][2] => t[2] = current[k][1]
<1> DEFINE x == current[k][1]
           y == current[k][2]
<1>1. /\ t = <<t[1], t[2], t[3]>> /\ t[1] \in Nat /\ t[2] \in Nat
      /\ t[3] \in Nat
      /\ t[1] < t[2] /\ t[2] < t[3] /\ t[3] <= n /\ n \in Nat
  BY TripleIs, NoBoundInside
<1>2. /\ t[1] \in BoundsOf(nxt, current, cursor, n)
      /\ t[2] \in BoundsOf(nxt, current, cursor, n)
      /\ t[3] \in BoundsOf(nxt, current, cursor, n)
      /\ \A b \in BoundsOf(nxt, current, cursor, n) : ~(t[1] < b /\ b < t[2]) /\ ~(t[2] < b /\ b < t[3])
  BY DEF Adjacent
<1>3. /\ k \in Nat /\ Len(current) \in Nat /\ k <= Len(current) /\ x \in Nat
      /\ y \in Nat /\ x < y
      /\ x \in BoundsOf(nxt, current, cursor, n)
      /\ y \in BoundsOf(nxt, current, cursor, n)
      /\ \A b \in BoundsOf(nxt, current, cursor, n) : b <= x \/ b >= y
      /\ k < Len(current) => k + 1 \in cursor..Len(current) /\ current[k + 1][1] = y
      /\ k = Len(current) => y = n
  BY NoBoundInside DEF ListsOf
<1> HIDE DEF x, y
<1>4. ASSUME t[1] = x
      PROVE  k < Len(current) /\ t = KeyOf(current, k)
  <2>1. t[2] = y
    BY <1>1, <1>2, <1>3, <1>4
  <2>2. k < Len(current)
    BY <1>1, <1>3, <2>1
  <2> DEFINE z == current[k + 1][2]
  <2>3. z \in Nat /\ y < z /\ z \in BoundsOf(nxt, current, cursor, n) /\ \A b \in BoundsOf(nxt, current, cursor, n) : b <= y \/ b >= z
    BY <1>3, <2>2, NoBoundInside
  <2> HIDE DEF z
  <2>4. t[3] = z
    BY <1>1, <1>2, <1>3, <2>1, <2>3
  <2> QED BY <1>1, <1>4, <2>1, <2>2, <2>4 DEF KeyOf, x, y, z
<1>5. t[2] = y => t[1] = x
  BY <1>1, <1>2, <1>3
<1>6. t[3] = y => t[2] = x
  BY <1>1, <1>2, <1>3
<1> QED BY <1>4, <1>5, <1>6 DEF x, y

--------------------------------------------------------------------------------
(* Keeping the group at the cursor, and fusing it with the next one. *)
KeepAt(behind, groups, k, behind1, groups1, k1) ==
    behind1 = Append(behind, groups[k]) /\ groups1 = groups /\ k1 = k + 1

FuseAt(behind, groups, k, behind1, groups1, k1) ==
    behind1 = Append(behind, <<groups[k][1], groups[k + 1][2]>>) /\ groups1 = groups /\ k1 = k + 2

(* Keeping the group at the cursor changes no boundary.                    *)
LEMMA KeepFacts ==
    ASSUME NEW nxt, NEW current, NEW cursor, NEW n,
           ListsOf(nxt, current, cursor, n), cursor <= Len(current),
           NEW nxt1, NEW cursor1, NEW current1,
           KeepAt(nxt, current, cursor, nxt1, current1, cursor1)
    PROVE  /\ BoundsOf(nxt1, current1, cursor1, n) = BoundsOf(nxt, current, cursor, n)
           /\ PositionOf(current1, cursor1, n) = current[cursor][2]
           /\ cursor1 \in 1..(Len(current1) + 1)
           /\ Chain(nxt1, 0, PositionOf(current1, cursor1, n))
           /\ cursor1 <= Len(current1) => current1[cursor1][1] = current[cursor][2]
<1> DEFINE c == Len(current)
<1>1. /\ current \in Seq(Nat \X Nat) /\ nxt \in Seq(Nat \X Nat) /\ c \in Nat
      /\ cursor \in Nat /\ cursor >= 1 /\ cursor <= c /\ cursor \in 1..(c + 1)
      /\ cursor \in cursor..c
  <2>1. current \in Seq(Nat \X Nat) /\ nxt \in Seq(Nat \X Nat) /\ cursor \in 1..(Len(current) + 1)
    BY DEF ListsOf, Chain
  <2> QED BY <2>1
<1>2. /\ cursor1 = cursor + 1 /\ nxt1 = Append(nxt, current[cursor])
      /\ current1 = current
      /\ cursor + 1 \in 1..(c + 1)
  BY <1>1 DEF KeepAt
<1>3. /\ current[cursor] = <<PositionOf(current, cursor, n), current[cursor][2]>>
      /\ PositionOf(current, cursor, n) \in Nat /\ current[cursor][2] \in Nat
      /\ PositionOf(current, cursor, n) < current[cursor][2]
      /\ current[cursor] \in Nat \X Nat /\ current[cursor] = current[cursor]
      /\ current[cursor][1] = PositionOf(current, cursor, n)
  BY <1>1, NoBoundInside
<1>4. /\ nxt1 \in Seq(Nat \X Nat) /\ Len(nxt1) = Len(nxt) + 1
      /\ Len(nxt) \in Nat
      /\ \A i \in 1..Len(nxt) : nxt1[i] = nxt[i]
      /\ nxt1[Len(nxt) + 1] = current[cursor]
  BY <1>1, <1>2, <1>3, AppendProperties
<1>5. PositionOf(current1, cursor1, n) = current[cursor][2] /\ (cursor1 <= Len(current1) => current1[cursor1][1] = current[cursor][2])
  <2>1. CASE cursor < c
    <3>1. \A k \in cursor..c : k < c => current[k + 1][1] = current[k][2]
      BY NoBoundInside
    <3>2. cursor + 1 <= c
      BY <1>1, <2>1
    <3>3. current[cursor + 1][1] = current[cursor][2]
      BY <1>1, <2>1, <3>1
    <3> QED BY <1>2, <3>2, <3>3 DEF PositionOf
  <2>2. CASE cursor = c
    <3>1. current[cursor][2] = n /\ ~(cursor + 1 <= c)
      BY <1>1, <2>2, NoBoundInside
    <3> QED BY <1>2, <3>1 DEF PositionOf
  <2> QED BY <1>1, <2>1, <2>2
<1>6. Chain(nxt1, 0, PositionOf(current1, cursor1, n))
  <2>1. Chain(nxt, 0, PositionOf(current, cursor, n))
    BY DEF ListsOf
  <2>2. Chain(Append(nxt, <<PositionOf(current, cursor, n), current[cursor][2]>>), 0, current[cursor][2])
    BY <1>3, <2>1, ChainGrows
  <2> QED BY <1>2, <1>3, <1>5, <2>2
<1>7. BoundsOf(nxt1, current1, cursor1, n) = BoundsOf(nxt, current, cursor, n)
  <2>1. BoundsOf(nxt, current, cursor, n) = Starts(nxt, current, cursor) \cup {n}
    BY <1>1, BoundsAre
  <2>2. Beginnings(Joined(nxt1, current1, cursor1)) = Starts(nxt1, current, cursor + 1)
    <3>1. Joined(nxt1, current1, cursor1) = Joined(nxt1, current, cursor + 1)
      BY <1>2 DEF Joined
    <3>2. cursor + 1 \in 1..(Len(current) + 1)
      BY <1>2
    <3> QED BY <1>1, <1>4, <3>1, <3>2, GroupsStart
  <2>3. BoundsOf(nxt1, current1, cursor1, n) = Starts(nxt1, current, cursor + 1) \cup {n}
    BY <1>2, <2>2 DEF BoundsOf, Beginnings
  <2>4. {nxt1[i][1] : i \in 1..Len(nxt1)} = {nxt[i][1] : i \in 1..Len(nxt)} \cup {PositionOf(current, cursor, n)}
    <3>1. 1..Len(nxt1) = 1..Len(nxt) \cup {Len(nxt) + 1}
      BY <1>4
    <3>2. nxt1[Len(nxt) + 1][1] = PositionOf(current, cursor, n)
      BY <1>3, <1>4
    <3>3. \A i \in 1..Len(nxt) : nxt1[i][1] = nxt[i][1]
      BY <1>4
    <3>4. ASSUME NEW x \in {nxt1[i][1] : i \in 1..Len(nxt1)}
          PROVE  x \in {nxt[i][1] : i \in 1..Len(nxt)} \cup {PositionOf(current, cursor, n)}
      <4>1. PICK i \in 1..Len(nxt1) : x = nxt1[i][1]
        BY <3>4
      <4>2. i \in 1..Len(nxt) \/ i = Len(nxt) + 1
        BY <3>1
      <4> QED BY <3>2, <3>3, <4>1, <4>2
    <3>5. PositionOf(current, cursor, n) \in {nxt1[i][1] : i \in 1..Len(nxt1)}
      BY <3>1, <3>2
    <3>6. ASSUME NEW i \in 1..Len(nxt)
          PROVE  nxt[i][1] \in {nxt1[j][1] : j \in 1..Len(nxt1)}
      BY <3>1, <3>3
    <3> QED BY <3>4, <3>5, <3>6
  <2>5. {current[i][1] : i \in cursor..c} = {PositionOf(current, cursor, n)} \cup {current[i][1] : i \in (cursor + 1)..c}
    <3>1. cursor..c = {cursor} \cup (cursor + 1)..c
      BY <1>1
    <3> QED BY <1>3, <3>1
  <2> HIDE DEF c
  <2> QED BY <2>1, <2>3, <2>4, <2>5 DEF Starts, c
<1> QED BY <1>2, <1>5, <1>6, <1>7

(* Fusing the group at the cursor with the next one takes away the         *)
(* boundary between them, and nothing else.                                *)
LEMMA FuseFacts ==
    ASSUME NEW nxt, NEW current, NEW cursor, NEW n,
           ListsOf(nxt, current, cursor, n), cursor < Len(current),
           NEW nxt1, NEW cursor1, NEW current1,
           FuseAt(nxt, current, cursor, nxt1, current1, cursor1)
    PROVE  /\ BoundsOf(nxt1, current1, cursor1, n) = BoundsOf(nxt, current, cursor, n) \ {current[cursor][2]}
           /\ PositionOf(current1, cursor1, n) = current[cursor + 1][2]
           /\ cursor1 \in 1..(Len(current1) + 1)
           /\ Chain(nxt1, 0, PositionOf(current1, cursor1, n))
           /\ cursor1 <= Len(current1) => current1[cursor1][1] = current[cursor + 1][2]
<1> DEFINE c == Len(current)
<1>1. /\ current \in Seq(Nat \X Nat) /\ nxt \in Seq(Nat \X Nat) /\ c \in Nat
      /\ cursor \in Nat /\ cursor >= 1 /\ cursor < c /\ cursor \in 1..(c + 1)
      /\ cursor \in cursor..c /\ cursor + 1 \in cursor..c
  <2>1. current \in Seq(Nat \X Nat) /\ nxt \in Seq(Nat \X Nat) /\ cursor \in 1..(Len(current) + 1)
    BY DEF ListsOf, Chain
  <2>2. cursor < c
    OBVIOUS
  <2> QED BY <2>1, <2>2
<1>2. /\ current1 = current /\ cursor + 2 \in 1..(c + 1) /\ cursor1 = cursor + 2
      /\ nxt1 = Append(nxt, <<current[cursor][1], current[cursor + 1][2]>>)
  BY <1>1 DEF FuseAt
<1>3. /\ current[cursor] = <<PositionOf(current, cursor, n), current[cursor][2]>>
      /\ PositionOf(current, cursor, n) \in Nat /\ current[cursor][2] \in Nat
      /\ PositionOf(current, cursor, n) < current[cursor][2]
      /\ current[cursor + 1] = <<current[cursor][2], current[cursor + 1][2]>>
      /\ current[cursor + 1][2] \in Nat
      /\ current[cursor][2] < current[cursor + 1][2]
      /\ current[cursor + 1][2] <= n /\ n \in Nat
      /\ current[cursor][1] = PositionOf(current, cursor, n)
      /\ current[cursor + 1][1] = current[cursor][2]
  <2>1. cursor <= Len(current) /\ cursor < Len(current)
    BY <1>1
  <2>2. /\ current[cursor] = <<PositionOf(current, cursor, n), current[cursor][2]>>
        /\ PositionOf(current, cursor, n) \in Nat /\ current[cursor][2] \in Nat
        /\ PositionOf(current, cursor, n) < current[cursor][2]
    BY <2>1, NoBoundInside
  <2>3. /\ current[cursor + 1] = <<current[cursor][2], current[cursor + 1][2]>>
        /\ current[cursor + 1][2] \in Nat
        /\ current[cursor][2] < current[cursor + 1][2]
        /\ current[cursor + 1][2] <= n /\ n \in Nat
    BY <2>1, NoBoundInside
  <2>4. current[cursor][1] = PositionOf(current, cursor, n) /\ current[cursor + 1][1] = current[cursor][2]
    BY <2>2, <2>3
  <2> QED BY <2>2, <2>3, <2>4
<1>4. <<current[cursor][1], current[cursor + 1][2]>> \in Nat \X Nat /\ PositionOf(current, cursor, n) < current[cursor + 1][2]
  BY <1>3
<1>5. /\ nxt1 \in Seq(Nat \X Nat) /\ Len(nxt1) = Len(nxt) + 1
      /\ Len(nxt) \in Nat
      /\ \A i \in 1..Len(nxt) : nxt1[i] = nxt[i]
      /\ nxt1[Len(nxt) + 1] = <<current[cursor][1], current[cursor + 1][2]>>
  <2> DEFINE g == <<current[cursor][1], current[cursor + 1][2]>>
  <2>1. g \in Nat \X Nat /\ nxt1 = Append(nxt, g)
    BY <1>2, <1>4
  <2> HIDE DEF g
  <2>2. /\ nxt1 \in Seq(Nat \X Nat) /\ Len(nxt1) = Len(nxt) + 1
        /\ Len(nxt) \in Nat
        /\ \A i \in 1..Len(nxt) : nxt1[i] = nxt[i]
        /\ nxt1[Len(nxt) + 1] = g
    BY <1>1, <2>1, AppendProperties
  <2> QED BY <2>2 DEF g
<1>6. PositionOf(current1, cursor1, n) = current[cursor + 1][2] /\ (cursor1 <= Len(current1) => current1[cursor1][1] = current[cursor + 1][2])
  <2>1. CASE cursor + 1 < c
    <3> DEFINE k == cursor + 1
    <3>1. k \in cursor..c /\ k < c /\ k + 1 = cursor + 2 /\ cursor + 2 <= c
      BY <1>1, <2>1
    <3>2. current[cursor + 1] = current[k]
      OBVIOUS
    <3> HIDE DEF k
    <3>3. current[k + 1][1] = current[k][2]
      BY <3>1, NoBoundInside
    <3> QED BY <1>2, <3>1, <3>2, <3>3 DEF PositionOf
  <2>2. CASE cursor + 1 = c
    <3>1. current[cursor + 1][2] = n /\ ~(cursor + 2 <= c)
      BY <1>1, <2>2, NoBoundInside
    <3> QED BY <1>2, <3>1 DEF PositionOf
  <2> QED BY <1>1, <2>1, <2>2
<1>7. Chain(nxt1, 0, PositionOf(current1, cursor1, n))
  <2>1. Chain(nxt, 0, PositionOf(current, cursor, n))
    BY DEF ListsOf
  <2>2. Chain(Append(nxt, <<PositionOf(current, cursor, n), current[cursor + 1][2]>>), 0, current[cursor + 1][2])
    BY <1>3, <1>4, <2>1, ChainGrows
  <2> QED BY <1>2, <1>3, <1>6, <2>2
<1>8. BoundsOf(nxt1, current1, cursor1, n) = BoundsOf(nxt, current, cursor, n) \ {current[cursor][2]}
  <2> DEFINE Behind == {nxt[i][1] : i \in 1..Len(nxt)}
             Rest == {current[i][1] : i \in (cursor + 2)..c}
  <2>1. BoundsOf(nxt, current, cursor, n) = Starts(nxt, current, cursor) \cup {n}
    BY <1>1, BoundsAre
  <2>2. Beginnings(Joined(nxt1, current1, cursor1)) = Starts(nxt1, current, cursor + 2)
    <3>1. Joined(nxt1, current1, cursor1) = Joined(nxt1, current, cursor + 2)
      BY <1>2 DEF Joined
    <3>2. cursor + 2 \in 1..(Len(current) + 1)
      BY <1>2
    <3> QED BY <1>1, <1>5, <3>1, <3>2, GroupsStart
  <2>3. BoundsOf(nxt1, current1, cursor1, n) = Starts(nxt1, current, cursor + 2) \cup {n}
    BY <1>2, <2>2 DEF BoundsOf, Beginnings
  <2>4. {nxt1[i][1] : i \in 1..Len(nxt1)} = Behind \cup {PositionOf(current, cursor, n)}
    <3>1. 1..Len(nxt1) = 1..Len(nxt) \cup {Len(nxt) + 1}
      BY <1>5
    <3>2. nxt1[Len(nxt) + 1][1] = PositionOf(current, cursor, n)
      BY <1>3, <1>5
    <3>3. \A i \in 1..Len(nxt) : nxt1[i][1] = nxt[i][1]
      BY <1>5
    <3>4. ASSUME NEW x \in {nxt1[i][1] : i \in 1..Len(nxt1)}
          PROVE  x \in Behind \cup {PositionOf(current, cursor, n)}
      <4>1. PICK i \in 1..Len(nxt1) : x = nxt1[i][1]
        BY <3>4
      <4>2. i \in 1..Len(nxt) \/ i = Len(nxt) + 1
        BY <3>1
      <4> QED BY <3>2, <3>3, <4>1, <4>2
    <3>5. PositionOf(current, cursor, n) \in {nxt1[i][1] : i \in 1..Len(nxt1)}
      BY <3>1, <3>2
    <3>6. ASSUME NEW i \in 1..Len(nxt)
          PROVE  nxt[i][1] \in {nxt1[j][1] : j \in 1..Len(nxt1)}
      BY <3>1, <3>3
    <3> QED BY <3>4, <3>5, <3>6
  <2>5. {current[i][1] : i \in cursor..c} = {PositionOf(current, cursor, n), current[cursor][2]} \cup Rest
    <3>1. cursor..c = {cursor, cursor + 1} \cup (cursor + 2)..c
      <4> HIDE DEF c
      <4>1. /\ \A i \in cursor..c : i \in {cursor, cursor + 1} \cup (cursor + 2)..c
            /\ \A i \in (cursor + 2)..c : i \in cursor..c
        BY <1>1
      <4> QED BY <1>1, <4>1
    <3>2. current[cursor][1] = PositionOf(current, cursor, n) /\ current[cursor + 1][1] = current[cursor][2]
      BY <1>3
    <3> HIDE DEF c
    <3> QED BY <3>1, <3>2
  <2>6. ASSUME NEW x \in Behind \cup {PositionOf(current, cursor, n)} \cup Rest \cup {n}
        PROVE  x # current[cursor][2]
    <3>1. CASE x \in Behind
      <4>1. x \in Nat /\ x < PositionOf(current, cursor, n)
        BY <3>1, NoBoundInside
      <4> QED BY <1>3, <4>1
    <3>2. CASE x \in Rest
      <4>1. PICK i \in (cursor + 2)..c : x = current[i][1]
        BY <3>2
      <4>2. /\ i \in 1..c /\ cursor + 1 \in 1..c /\ cursor + 1 < i
        BY <1>1, <4>1
      <4>3. i \in cursor..c
        BY <1>1, <4>1
      <4>4. current[cursor + 1][2] <= current[i][1] /\ current[i][1] \in Nat
        BY <4>2, <4>3, NoBoundInside DEF ListsOf, Chain
      <4> QED BY <1>3, <4>1, <4>4
    <3>3. CASE x \in {PositionOf(current, cursor, n), n}
      BY <1>3, <3>3
    <3> QED BY <3>1, <3>2, <3>3
  <2>7. BoundsOf(nxt, current, cursor, n) = Behind \cup {PositionOf(current, cursor, n), current[cursor][2]} \cup Rest \cup {n}
    BY <2>1, <2>5 DEF Starts
  <2>8. BoundsOf(nxt1, current1, cursor1, n) = Behind \cup {PositionOf(current, cursor, n)} \cup Rest \cup {n}
    BY <2>3, <2>4 DEF Starts
  <2> HIDE DEF Behind, Rest
  <2> QED BY <2>6, <2>7, <2>8
<1> QED BY <1>2, <1>6, <1>7, <1>8

(* The chain behind the cursor and the chain ahead of it are one.          *)
LEMMA GroupsPartition ==
    ASSUME NEW nxt, NEW current, NEW cursor, NEW n,
           ListsOf(nxt, current, cursor, n)
    PROVE  PartitionOf(Joined(nxt, current, cursor), n)
<1> DEFINE a == Len(nxt)
           c == Len(current)
           k == cursor
<1>1. /\ current \in Seq(Nat \X Nat) /\ nxt \in Seq(Nat \X Nat)
      /\ cursor \in 1..(Len(current) + 1)
      /\ Chain(current, 0, n) /\ Chain(nxt, 0, PositionOf(current, cursor, n))
  BY DEF ListsOf, Chain
<1>2. /\ Joined(nxt, current, cursor) \in Seq(Nat \X Nat)
      /\ Len(Joined(nxt, current, cursor)) = a + c - k + 1
      /\ \A i \in 1..a : Joined(nxt, current, cursor)[i] = nxt[i]
      /\ \A i \in k..c : Joined(nxt, current, cursor)[a + i - k + 1] = current[i]
  <2>1. Joined(nxt, current, cursor) = Joined(nxt, current, cursor)
    BY DEF Joined
  <2> QED BY <1>1, <2>1, GroupsStart
<1>3. /\ \A i \in 1..a : nxt[i][1] < nxt[i][2]
      /\ \A i \in 1..a : i > 1 => nxt[i][1] = nxt[i - 1][2]
      /\ a = 0 => PositionOf(current, cursor, n) = 0
      /\ a > 0 => nxt[1][1] = 0 /\ nxt[a][2] = PositionOf(current, cursor, n)
  BY <1>1, EmptySeq DEF Chain
<1>4. /\ \A i \in 1..c : current[i][1] < current[i][2]
      /\ \A i \in 1..c : i > 1 => current[i][1] = current[i - 1][2]
      /\ c > 0 => current[c][2] = n
  BY <1>1, EmptySeq DEF Chain
<1>5. PositionOf(current, cursor, n) = IF k <= c THEN current[k][1] ELSE n
  BY DEF PositionOf
<1>6. a \in Nat /\ c \in Nat /\ k \in Nat /\ k >= 1 /\ k <= c + 1
  BY <1>1
<1>7. DOMAIN Joined(nxt, current, cursor) = 1..Len(Joined(nxt, current, cursor)) /\ (Joined(nxt, current, cursor) # <<>> => Len(Joined(nxt, current, cursor)) > 0)
  BY <1>2, EmptySeq
<1> HIDE DEF a, c, k
<1>8. ASSUME NEW i \in 1..Len(Joined(nxt, current, cursor))
      PROVE  /\ Joined(nxt, current, cursor)[i][1] < Joined(nxt, current, cursor)[i][2]
             /\ Joined(nxt, current, cursor)[i][1] = IF i = 1 THEN 0 ELSE Joined(nxt, current, cursor)[i - 1][2]
  <2>1. CASE i <= a
    <3>1. i \in 1..a /\ i \in Nat /\ Joined(nxt, current, cursor)[i] = nxt[i] /\ (i = 1 \/ i > 1)
      BY <1>2, <1>6, <2>1
    <3>2. CASE i = 1
      <4>1. a > 0 /\ nxt[i][1] = 0
        BY <1>3, <1>6, <3>1, <3>2
      <4> QED BY <1>3, <3>1, <3>2, <4>1
    <3>3. CASE i > 1
      <4>1. i - 1 \in 1..a /\ i # 1
        BY <1>6, <3>1, <3>3
      <4>2. Joined(nxt, current, cursor)[i - 1] = nxt[i - 1]
        BY <1>2, <4>1
      <4> QED BY <1>3, <3>1, <3>3, <4>1, <4>2
    <3> QED BY <3>1, <3>2, <3>3
  <2>2. CASE i > a
    <3> DEFINE m == i - a + k - 1
    <3>1. m \in k..c /\ m \in 1..c /\ i = a + m - k + 1
      <4>1. i \in Nat /\ i > a /\ i <= a + c - k + 1
        BY <1>2, <1>6, <2>2
      <4> QED BY <1>6, <4>1
    <3>2. CASE m = k
      <4>1. i = a + 1 /\ k <= c
        BY <1>6, <3>1, <3>2
      <4>2. Joined(nxt, current, cursor)[i] = current[k]
        BY <1>2, <3>1, <3>2
      <4>3. a = 0 \/ (a > 0 /\ i - 1 = a /\ a \in 1..a)
        BY <1>6, <4>1
      <4>4. a > 0 => Joined(nxt, current, cursor)[i - 1][2] = PositionOf(current, cursor, n)
        BY <1>2, <1>3, <4>1, <4>3
      <4> QED BY <1>3, <1>4, <1>5, <1>6, <3>1, <3>2, <4>1, <4>2, <4>3, <4>4
    <3>3. CASE m # k
      <4>1. m - 1 \in k..c /\ i - 1 = a + (m - 1) - k + 1 /\ i # 1 /\ m > 1
        BY <1>6, <2>2, <3>1, <3>3
      <4> HIDE DEF m
      <4>2. Joined(nxt, current, cursor)[i] = current[m] /\ Joined(nxt, current, cursor)[i - 1] = current[m - 1]
        BY <1>2, <3>1, <4>1
      <4> QED BY <1>4, <3>1, <4>1, <4>2
    <3> QED BY <3>2, <3>3
  <2> QED BY <1>2, <1>6, <2>1, <2>2
<1>9. ASSUME Len(Joined(nxt, current, cursor)) > 0
      PROVE  Joined(nxt, current, cursor)[Len(Joined(nxt, current, cursor))][2] = n
  <2>1. CASE k <= c
    <3>1. c \in k..c /\ c > 0 /\ Len(Joined(nxt, current, cursor)) = a + c - k + 1
      BY <1>2, <1>6, <2>1
    <3> QED BY <1>2, <1>4, <3>1
  <2>2. CASE k = c + 1
    <3>1. Len(Joined(nxt, current, cursor)) = a /\ a \in 1..a /\ a > 0
      BY <1>2, <1>6, <1>9, <2>2
    <3> QED BY <1>2, <1>3, <1>5, <1>6, <2>2, <3>1
  <2> QED BY <1>6, <2>1, <2>2
<1> QED BY <1>7, <1>8, <1>9 DEF PartitionOf

(* Every leaf is a group at first. *)
LEMMA ListsBegin ==
    ASSUME NEW n \in Nat \ {0}, NEW current,
           current = [k \in 1..n |-> <<k - 1, k>>],
           NEW nxt, nxt = <<>>, NEW cursor, cursor = 1
    PROVE  /\ ListsOf(nxt, current, cursor, n)
           /\ BoundsOf(nxt, current, cursor, n) = 0..n
           /\ PositionOf(current, cursor, n) = 0
<1>1. /\ n \in Nat /\ n > 0
      /\ current = [i \in 1..n |-> <<i - 1, i>>] /\ nxt = <<>> /\ cursor = 1
  OBVIOUS
<1>2. /\ current \in Seq(Nat \X Nat) /\ Len(current) = n
      /\ \A i \in 1..n : current[i][1] = i - 1 /\ current[i][2] = i
  <2>1. \A i \in 1..n : <<i - 1, i>> \in Nat \X Nat
    BY <1>1
  <2>2. current \in [1..n -> Nat \X Nat]
    BY <1>1, <2>1
  <2>3. current \in Seq(Nat \X Nat) /\ Len(current) = n
    BY <1>1, <2>2
  <2> QED BY <1>1, <2>3
<1>3. Chain(current, 0, n)
  <2>1. \A i \in 1..n : current[i][1] < current[i][2]
    BY <1>1, <1>2
  <2>2. ASSUME NEW i \in 1..n, i > 1
        PROVE  current[i][1] = current[i - 1][2]
    <3>1. i - 1 \in 1..n
      BY <1>1, <2>2
    <3> QED BY <1>2, <3>1
  <2>3. \A i, j \in 1..n : i < j => current[i][2] <= current[j][1]
    BY <1>1, <1>2
  <2>4. current # <<>>
    <3>1. Len(<<>>) = 0
      OBVIOUS
    <3>2. Len(current) = n /\ n # 0
      BY <1>1, <1>2
    <3> QED BY <3>1, <3>2
  <2>5. current[1][1] = 0 /\ current[Len(current)][2] = n
    BY <1>1, <1>2
  <2> QED BY <1>2, <2>1, <2>2, <2>3, <2>4, <2>5 DEF Chain
<1>4. PositionOf(current, cursor, n) = 0 /\ cursor \in 1..(Len(current) + 1)
  BY <1>1, <1>2 DEF PositionOf
<1>5. Chain(nxt, 0, PositionOf(current, cursor, n))
  BY <1>1, <1>4, EmptySeq DEF Chain
<1>6. BoundsOf(nxt, current, cursor, n) = 0..n
  <2>1. nxt \in Seq(Nat \X Nat)
    BY <1>1, EmptySeq
  <2>2. BoundsOf(nxt, current, cursor, n) = Starts(nxt, current, cursor) \cup {n}
    <3>1. current \in Seq(Nat \X Nat) /\ cursor \in 1..(Len(current) + 1)
      BY <1>2, <1>4
    <3> QED BY ONLY <2>1, <3>1, BoundsAre
  <2>3. Starts(nxt, current, cursor) = {current[i][1] : i \in 1..n}
    <3>1. {nxt[i][1] : i \in 1..Len(nxt)} = {}
      BY <1>1, EmptySeq
    <3> QED BY <1>1, <1>2, <3>1 DEF Starts
  <2>4. ASSUME NEW x \in 0..n
        PROVE  x \in {current[i][1] : i \in 1..n} \cup {n}
    <3>1. CASE x < n
      <4>1. x + 1 \in 1..n /\ (x + 1) - 1 = x
        BY <1>1, <3>1
      <4>2. current[x + 1][1] = x
        BY <1>2, <4>1
      <4> QED BY <4>1, <4>2
    <3> QED BY <1>1, <3>1
  <2>5. \A i \in 1..n : current[i][1] \in 0..n
    BY <1>1, <1>2
  <2>6. n \in 0..n
    BY <1>1
  <2> QED BY <2>2, <2>3, <2>4, <2>5, <2>6
<1> QED BY <1>1, <1>3, <1>4, <1>5, <1>6 DEF ListsOf

(* The next pass goes over what the last one left behind. *)
LEMMA ListsNextPass ==
    ASSUME NEW nxt, NEW current, NEW cursor, NEW n,
           ListsOf(nxt, current, cursor, n), cursor > Len(current),
           NEW nxt1, nxt1 = <<>>, NEW cursor1, cursor1 = 1, NEW current1,
           current1 = nxt
    PROVE  /\ ListsOf(nxt1, current1, cursor1, n)
           /\ BoundsOf(nxt1, current1, cursor1, n) = BoundsOf(nxt, current, cursor, n)
           /\ PositionOf(current, cursor, n) = n
           /\ PositionOf(current1, cursor1, n) = 0
           /\ current1[cursor1][1] = 0 /\ Joined(nxt, current, cursor) = nxt
           /\ Joined(nxt1, current1, cursor1) = nxt
<1>1. /\ cursor > Len(current) /\ current1 = nxt /\ nxt1 = <<>> /\ cursor1 = 1
  OBVIOUS
<1>2. /\ Len(current) \in Nat /\ cursor = Len(current) + 1 /\ n \in Nat /\ n > 0
      /\ PositionOf(current, cursor, n) = n
  BY <1>1 DEF ListsOf, Chain, PositionOf
<1>3. Chain(nxt, 0, n) /\ nxt \in Seq(Nat \X Nat) /\ Len(nxt) \in Nat /\ nxt # <<>>
  BY <1>2 DEF ListsOf, Chain
<1>4. Len(nxt) > 0 /\ 1 \in 1..Len(nxt) /\ cursor1 \in 1..(Len(current1) + 1)
  BY <1>1, <1>3, EmptySeq
<1>5. PositionOf(current1, cursor1, n) = 0
  BY <1>1, <1>3, <1>4 DEF PositionOf, Chain
<1>6. Chain(nxt1, 0, PositionOf(current1, cursor1, n))
  BY <1>1, <1>5, EmptySeq DEF Chain
<1>7. BoundsOf(nxt1, current1, cursor1, n) = BoundsOf(nxt, current, cursor, n)
  <2>1. BoundsOf(nxt, current, cursor, n) = Starts(nxt, current, cursor) \cup {n}
    BY BoundsAre DEF ListsOf, Chain
  <2>2. {current[i][1] : i \in cursor..Len(current)} = {}
    BY <1>2
  <2>3. nxt1 \in Seq(Nat \X Nat) /\ current1 \in Seq(Nat \X Nat)
    BY <1>1, <1>3, EmptySeq
  <2>4. BoundsOf(nxt1, current1, cursor1, n) = Starts(nxt1, current1, cursor1) \cup {n}
    BY ONLY <1>4, <2>3, BoundsAre
  <2>5. Starts(nxt1, current1, cursor1) = {nxt[i][1] : i \in 1..Len(nxt)}
    <3>1. {nxt1[i][1] : i \in 1..Len(nxt1)} = {}
      BY <1>1, EmptySeq
    <3>2. {current1[i][1] : i \in cursor1..Len(current1)} = {nxt[i][1] : i \in 1..Len(nxt)}
      BY <1>1
    <3> QED BY <3>1, <3>2 DEF Starts
  <2>6. Starts(nxt, current, cursor) = {nxt[i][1] : i \in 1..Len(nxt)}
    BY <2>2 DEF Starts
  <2> QED BY <2>1, <2>4, <2>5, <2>6
<1>8. current1[cursor1][1] = 0
  BY <1>1, <1>3, <1>4 DEF Chain
<1>9. Joined(nxt, current, cursor) = nxt
  <2>1. SubSeq(current, cursor, Len(current)) = <<>>
    BY <1>2 DEF ListsOf, Chain
  <2> QED BY <1>3, <2>1 DEF Joined
<1>10. Joined(nxt1, current1, cursor1) = nxt
  <2>1. SubSeq(nxt, 1, Len(nxt)) = nxt
    BY <1>3
  <2>2. <<>> \o nxt = nxt
    BY <1>3
  <2> QED BY <1>1, <2>1, <2>2 DEF Joined
<1> QED BY <1>1, <1>2, <1>3, <1>4, <1>5, <1>6, <1>7, <1>8, <1>9, <1>10
     DEF ListsOf

--------------------------------------------------------------------------------
(* The group at the cursor and the next one may be fused.                  *)
Ready(in, groups, k, B) ==
    k < Len(groups) /\ KeyOf(groups, k) \in Admitted(in) /\ KeyOf(groups, k) \notin B

OpenAt(in, behind, groups, k, B) == Open(in, BoundsOf(behind, groups, k, in.leaves), B)
TurnAt(in, behind, groups, k, B) ==
    Turn(in, BoundsOf(behind, groups, k, in.leaves), B, PositionOf(groups, k, in.leaves))

(* Open pairs are pairs of groups. *)
LEMMA OpenIs ==
    ASSUME NEW in, in.leaves \in Nat, NEW bounds, NEW B,
           NEW t \in Open(in, bounds, B)
    PROVE  /\ t \in Triples(in.leaves) /\ Adjacent(bounds, t) /\ t \notin B
           /\ t \in Admitted(in)
           /\ t[1] \in Nat /\ t[2] \in Nat /\ t[3] \in Nat /\ t[1] < t[2]
           /\ t[2] < t[3]
           /\ t[1] < in.leaves /\ t[3] <= in.leaves /\ t = <<t[1], t[2], t[3]>>
           /\ t[1] \in bounds /\ t # None
<1>1. t \in Triples(in.leaves) /\ Adjacent(bounds, t) /\ t \notin B /\ t \in Admitted(in)
  BY DEF Open, Admitted
<1>2. /\ t = <<t[1], t[2], t[3]>> /\ t[1] \in 0..in.leaves
      /\ t[2] \in 0..in.leaves
      /\ t[3] \in 0..in.leaves /\ t[1] < t[2] /\ t[2] < t[3]
  BY <1>1, TripleIs
<1>3. t[1] \in bounds
  BY <1>1 DEF Adjacent
<1>4. t # None
  <2>1. \A a, b, c : <<a, b, c>> # <<>>
    OBVIOUS
  <2> QED BY <1>2, <2>1 DEF None
<1> QED BY <1>1, <1>2, <1>3, <1>4

(* What is ready at the cursor is open, and nothing else that begins there *)
(* is.                                                                     *)
LEMMA ReadyIsOpen ==
    ASSUME NEW in, NEW nxt, NEW current, NEW cursor,
           ListsOf(nxt, current, cursor, in.leaves), NEW B,
           cursor <= Len(current)
    PROVE  /\ Ready(in, current, cursor, B) => KeyOf(current, cursor) \in OpenAt(in, nxt, current, cursor, B)
           /\ \A t \in OpenAt(in, nxt, current, cursor, B) :
                t[1] = PositionOf(current, cursor, in.leaves) => Ready(in, current, cursor, B) /\ t = KeyOf(current, cursor)
<1> DEFINE n == in.leaves
<1>1. cursor \in cursor..Len(current) /\ PositionOf(current, cursor, n) = current[cursor][1] /\ n \in Nat
  BY NoBoundInside DEF ListsOf, PositionOf
<1>2. ASSUME Ready(in, current, cursor, B)
      PROVE  KeyOf(current, cursor) \in OpenAt(in, nxt, current, cursor, B)
  <2>1. cursor < Len(current) /\ KeyOf(current, cursor) \in Admitted(in) /\ KeyOf(current, cursor) \notin B
    BY <1>2 DEF Ready
  <2>2. Adjacent(BoundsOf(nxt, current, cursor, n), KeyOf(current, cursor))
    BY <1>1, <2>1, KeyIsAPair
  <2> QED BY <2>1, <2>2 DEF OpenAt, Open
<1>3. ASSUME NEW t \in OpenAt(in, nxt, current, cursor, B),
             t[1] = PositionOf(current, cursor, n)
      PROVE  Ready(in, current, cursor, B) /\ t = KeyOf(current, cursor)
  <2>1. t \in Triples(n) /\ Adjacent(BoundsOf(nxt, current, cursor, n), t) /\ t \notin B /\ t \in Admitted(in)
    BY <1>1, OpenIs DEF OpenAt
  <2>2. cursor < Len(current) /\ t = KeyOf(current, cursor)
    BY <1>1, <1>3, <2>1, PairsAhead
  <2> QED BY <2>1, <2>2 DEF Ready
<1> QED BY <1>2, <1>3

(* The turn is the pair at the cursor, if it is ready. *)
LEMMA TurnOfReady ==
    ASSUME NEW in, NEW nxt, NEW current, NEW cursor,
           ListsOf(nxt, current, cursor, in.leaves), NEW B,
           Ready(in, current, cursor, B)
    PROVE  /\ TurnAt(in, nxt, current, cursor, B) = KeyOf(current, cursor)
           /\ KeyOf(current, cursor) # None
           /\ KeyOf(current, cursor)[2] = current[cursor][2]
           /\ KeyOf(current, cursor)[3] = current[cursor + 1][2]
<1> DEFINE n == in.leaves
           K == KeyOf(current, cursor)
           P == PositionOf(current, cursor, n)
           bounds == BoundsOf(nxt, current, cursor, n)
<1>1. cursor <= Len(current) /\ P = current[cursor][1] /\ n \in Nat /\ P \in Nat /\ bounds \subseteq 0..n
  <2>1. n \in Nat /\ P \in Nat /\ bounds \subseteq 0..n /\ Len(current) \in Nat
    BY NoBoundInside
  <2>2. cursor <= Len(current)
    BY <2>1 DEF Ready, ListsOf
  <2> QED BY <2>1, <2>2 DEF PositionOf
<1>2. K \in Open(in, bounds, B)
  BY <1>1, ReadyIsOpen DEF OpenAt
<1>3. K[1] = P /\ K[2] = current[cursor][2] /\ K[3] = current[cursor + 1][2] /\ K # None
  BY <1>1 DEF KeyOf, None
<1> HIDE DEF K, P, bounds, n
<1>4. K[1] >= P /\ \A s \in Open(in, bounds, B) : s[1] >= P => K[1] <= s[1]
  BY <1>1, <1>3, OpenIs DEF n
<1>5. Turn(in, bounds, B, P) = K
  <2>1. in.leaves \in Nat /\ bounds \subseteq 0..in.leaves
    BY <1>1 DEF n
  <2>2. K[1] >= P /\ P \in Nat /\ K \in Open(in, bounds, B)
    BY <1>1, <1>2, <1>4
  <2>3. \A s \in Open(in, bounds, B) : s[1] >= P => K[1] <= s[1]
    BY <1>4
  <2> QED BY ONLY <2>1, <2>2, <2>3, TurnIsFirst
<1> QED BY <1>3, <1>5 DEF TurnAt, K, P, bounds, n

(* What is not ready at the cursor leaves the turn to what is ahead of it. *)
LEMMA TurnPasses ==
    ASSUME NEW in, NEW nxt, NEW current, NEW cursor,
           ListsOf(nxt, current, cursor, in.leaves), NEW B,
           cursor <= Len(current), ~Ready(in, current, cursor, B)
    PROVE  /\ \A t \in OpenAt(in, nxt, current, cursor, B) :
                t[1] >= PositionOf(current, cursor, in.leaves) <=> t[1] >= current[cursor][2]
           /\ TurnAt(in, nxt, current, cursor, B) =
                Turn(in, BoundsOf(nxt, current, cursor, in.leaves), B, current[cursor][2])
<1> DEFINE n == in.leaves
           P == PositionOf(current, cursor, n)
           bounds == BoundsOf(nxt, current, cursor, n)
           y == current[cursor][2]
<1>1. /\ n \in Nat /\ P \in Nat /\ y \in Nat /\ P < y
      /\ \A b \in bounds : b <= P \/ b >= y
  BY NoBoundInside DEF ListsOf
<1> HIDE DEF y
<1>2. ASSUME NEW t \in Open(in, bounds, B)
      PROVE  t[1] >= P <=> t[1] >= y
  <2>1. t[1] # P
    BY ReadyIsOpen DEF OpenAt
  <2>2. t[1] \in bounds /\ t[1] \in Nat
    BY <1>1, OpenIs
  <2> HIDE DEF P, bounds
  <2> QED BY <1>1, <2>1, <2>2
<1>3. Turn(in, bounds, B, P) = Turn(in, bounds, B, y)
  BY <1>2, TurnsAgree
<1> QED BY <1>2, <1>3 DEF OpenAt, TurnAt, y

(* At the end of the pass everything open is behind. *)
LEMMA TurnEnds ==
    ASSUME NEW in, NEW nxt, NEW current, NEW cursor,
           ListsOf(nxt, current, cursor, in.leaves), NEW B,
           cursor > Len(current)
    PROVE  /\ PositionOf(current, cursor, in.leaves) = in.leaves
           /\ \A t \in OpenAt(in, nxt, current, cursor, B) : ~(t[1] >= in.leaves) /\ t[1] >= 0
           /\ TurnAt(in, nxt, current, cursor, B) = Turn(in, BoundsOf(nxt, current, cursor, in.leaves), B, 0)
<1> DEFINE n == in.leaves
           bounds == BoundsOf(nxt, current, cursor, n)
<1>1. n \in Nat /\ PositionOf(current, cursor, n) = n
  BY DEF ListsOf, Chain, PositionOf
<1>2. ASSUME NEW t \in Open(in, bounds, B)
      PROVE  ~(t[1] >= n) /\ t[1] >= 0
  <2>1. t[1] \in Nat /\ t[1] < n
    BY <1>1, OpenIs
  <2> QED BY <1>1, <2>1
<1>3. Turn(in, bounds, B, n) = Turn(in, bounds, B, 0)
  BY <1>2, TurnsAgree
<1> QED BY <1>1, <1>2, <1>3 DEF OpenAt, TurnAt
--------------------------------------------------------------------------------
(* The reference engine.  What is blocked is a pair of groups as they are, *)
(* and the one that ends before the next group is not of this pass; a pass *)
(* that has fused nothing has left nothing open behind it.                 *)
BlocksOf(behind, groups, k, n, B) ==
    /\ \A t \in B : t \in Triples(n) /\ Adjacent(BoundsOf(behind, groups, k, n), t)
    /\ k <= Len(groups) => \A t \in B : t[2] = groups[k][1] => k > 1 /\ t = KeyOf(groups, k - 1)

ReferenceHolds(in, behind, groups, k, count, B) ==
    /\ IsInput(in)
    /\ ListsOf(behind, groups, k, in.leaves)
    /\ count \in Nat
    /\ BlocksOf(behind, groups, k, in.leaves, B)
    /\ count = 0 => \A t \in OpenAt(in, behind, groups, k, B) : t[1] >= PositionOf(groups, k, in.leaves)

(* The blocks that a fusion releases, _release_neighbor_blocks.            *)
ReleasedBy(groups, k) == {KeyOf(groups, i) : i \in {j \in {k - 1, k, k + 1} : j > 0 /\ j < Len(groups)}}
Releases(groups, k, B, B1) == B1 = B \ ReleasedBy(groups, k)

(* They are those of pairs that have the boundary it takes away.           *)
LEMMA ReleasedFacts ==
    ASSUME NEW n, NEW nxt, NEW current, NEW cursor,
           ListsOf(nxt, current, cursor, n), NEW B,
           BlocksOf(nxt, current, cursor, n, B), cursor < Len(current), NEW t \in B
    PROVE  t \in ReleasedBy(current, cursor) <=>
           ~Adjacent(BoundsOf(nxt, current, cursor, n) \ {current[cursor][2]}, t)
<1> DEFINE bounds == BoundsOf(nxt, current, cursor, n)
           y == current[cursor][2]
<1>1. /\ cursor \in cursor..Len(current) /\ cursor + 1 \in cursor..Len(current)
      /\ cursor < Len(current) /\ cursor \in Nat /\ cursor >= 1
      /\ Len(current) \in Nat
  BY NoBoundInside DEF ListsOf
<1>2. t \in Triples(n) /\ Adjacent(bounds, t)
  BY DEF BlocksOf
<1>3. current[cursor + 1][1] = y
  BY <1>1, NoBoundInside
<1>4. ASSUME t \in ReleasedBy(current, cursor)
      PROVE  ~Adjacent(bounds \ {y}, t)
  <2>1. PICK j \in {cursor - 1, cursor, cursor + 1} : t = KeyOf(current, j) /\ j > 0 /\ j < Len(current)
    BY <1>4 DEF ReleasedBy
  <2>2. y \in {t[1], t[2], t[3]}
    <3>1. CASE j = cursor - 1
      <4>1. j + 1 = cursor
        BY <1>1, <3>1
      <4> QED BY <2>1, <4>1 DEF KeyOf
    <3>2. CASE j = cursor
      BY <1>3, <2>1, <3>2 DEF KeyOf
    <3>3. CASE j = cursor + 1
      BY <1>3, <2>1, <3>3 DEF KeyOf
    <3> QED BY <2>1, <3>1, <3>2, <3>3
  <2> HIDE DEF bounds, y
  <2> QED BY <2>2 DEF Adjacent
<1>5. ASSUME ~Adjacent(bounds \ {y}, t)
      PROVE  t \in ReleasedBy(current, cursor)
  <2>1. y \in {t[1], t[2], t[3]}
    BY <1>2, <1>5 DEF Adjacent
  <2>2. CASE t[1] = y
    <3>1. cursor + 1 < Len(current) /\ t = KeyOf(current, cursor + 1)
      BY <1>1, <1>2, <1>3, <2>2, PairsAhead
    <3> QED BY <1>1, <3>1 DEF ReleasedBy
  <2>3. CASE t[2] = y
    <3>1. t[1] = current[cursor][1]
      BY <1>1, <1>2, <1>3, <2>3, PairsAhead
    <3>2. t = KeyOf(current, cursor)
      BY <1>1, <1>2, <3>1, PairsAhead
    <3> QED BY <1>1, <3>2 DEF ReleasedBy
  <2>4. CASE t[3] = y
    <3>1. t[2] = current[cursor][1]
      BY <1>1, <1>2, <1>3, <2>4, PairsAhead
    <3>2. cursor > 1 /\ t = KeyOf(current, cursor - 1)
      BY <1>1, <3>1 DEF BlocksOf
    <3> QED BY <1>1, <3>2 DEF ReleasedBy
  <2> QED BY <2>1, <2>2, <2>3, <2>4
<1> QED BY <1>4, <1>5

(* Every leaf for itself: nothing is blocked, and nothing is behind.       *)
LEMMA ReferenceBegins ==
    ASSUME NEW in, IsInput(in), NEW current,
           current = [k \in 1..in.leaves |-> <<k - 1, k>>],
           NEW nxt, nxt = <<>>, NEW cursor, cursor = 1
    PROVE  /\ ReferenceHolds(in, nxt, current, cursor, 0, {})
           /\ BoundsOf(nxt, current, cursor, in.leaves) = 0..in.leaves
           /\ PositionOf(current, cursor, in.leaves) = 0
<1>1. in.leaves \in Nat \ {0} /\ in.leaves \in Nat
  BY DEF IsInput
<1>2. /\ ListsOf(nxt, current, cursor, in.leaves)
      /\ BoundsOf(nxt, current, cursor, in.leaves) = 0..in.leaves
      /\ PositionOf(current, cursor, in.leaves) = 0
  BY <1>1, ListsBegin
<1>3. \A t \in OpenAt(in, nxt, current, cursor, {}) : t[1] >= 0
  BY ONLY <1>1, OpenIs DEF OpenAt
<1>4. BlocksOf(nxt, current, cursor, in.leaves, {})
  BY DEF BlocksOf
<1> QED BY <1>2, <1>3, <1>4 DEF ReferenceHolds

(* Keeping a group that is not to be fused, blocked now or not.            *)
LEMMA ReferenceKeeps ==
    ASSUME NEW in, NEW nxt, NEW current, NEW cursor, NEW count, NEW B,
           ReferenceHolds(in, nxt, current, cursor, count, B), cursor <= Len(current),
           NEW nxt1, NEW cursor1, NEW current1,
           KeepAt(nxt, current, cursor, nxt1, current1, cursor1), NEW B1,
           \/ B1 = B /\ ~Ready(in, current, cursor, B)
           \/ B1 = B \cup {KeyOf(current, cursor)} /\ Ready(in, current, cursor, B)
    PROVE  /\ ReferenceHolds(in, nxt1, current1, cursor1, count, B1)
           /\ BoundsOf(nxt1, current1, cursor1, in.leaves) = BoundsOf(nxt, current, cursor, in.leaves)
           /\ TurnAt(in, nxt1, current1, cursor1, B1) =
                Turn(in, BoundsOf(nxt, current, cursor, in.leaves), B1, current[cursor][2])
           /\ B1 = B => TurnAt(in, nxt1, current1, cursor1, B1) = TurnAt(in, nxt, current, cursor, B)
<1> DEFINE n == in.leaves
           bounds == BoundsOf(nxt, current, cursor, n)
           y == current[cursor][2]
<1>1. ListsOf(nxt, current, cursor, n) /\ IsInput(in) /\ count \in Nat /\ BlocksOf(nxt, current, cursor, n, B)
  BY DEF ReferenceHolds
<1>2. /\ BoundsOf(nxt1, current1, cursor1, n) = bounds
      /\ PositionOf(current1, cursor1, n) = y
      /\ cursor1 \in 1..(Len(current1) + 1)
      /\ Chain(nxt1, 0, PositionOf(current1, cursor1, n))
      /\ (cursor1 <= Len(current1) => current1[cursor1][1] = y)
  BY <1>1, KeepFacts
<1>3. ListsOf(nxt1, current1, cursor1, n) /\ cursor1 = cursor + 1 /\ current1 = current
  BY <1>1, <1>2 DEF ListsOf, KeepAt
<1>4. ~Ready(in, current, cursor, B1)
  BY DEF Ready
<1>5. /\ cursor \in cursor..Len(current) /\ cursor \in Nat /\ cursor >= 1
      /\ Len(current) \in Nat
  BY <1>1, NoBoundInside DEF ListsOf
<1>6. ASSUME NEW t \in B1
      PROVE  t \in Triples(n) /\ Adjacent(bounds, t)
  <2>1. Ready(in, current, cursor, B) => KeyOf(current, cursor) \in Triples(n) /\ Adjacent(bounds, KeyOf(current, cursor))
    BY <1>1, <1>5, KeyIsAPair DEF Ready
  <2>2. \A s \in B : s \in Triples(n) /\ Adjacent(bounds, s)
    BY <1>1 DEF BlocksOf
  <2> QED BY <2>1, <2>2
<1>7. ASSUME cursor1 <= Len(current1), NEW t \in B1, t[2] = current1[cursor1][1]
      PROVE  cursor1 > 1 /\ t = KeyOf(current1, cursor1 - 1)
  <2>1. t[2] = current[cursor][2]
    BY <1>2, <1>7
  <2>2. t[1] = current[cursor][1]
    BY <1>1, <1>5, <1>6, <2>1, PairsAhead
  <2>3. t = KeyOf(current, cursor)
    BY <1>1, <1>5, <1>6, <2>2, PairsAhead
  <2>4. cursor1 - 1 = cursor /\ cursor1 > 1
    BY <1>3, <1>5
  <2> QED BY <1>3, <2>3, <2>4
<1>8. BlocksOf(nxt1, current1, cursor1, n, B1)
  BY <1>2, <1>6, <1>7 DEF BlocksOf
<1>9. /\ \A t \in Open(in, bounds, B1) : t[1] >= PositionOf(current, cursor, n) <=> t[1] >= y
      /\ TurnAt(in, nxt, current, cursor, B1) = Turn(in, bounds, B1, y)
  BY <1>1, <1>4, TurnPasses DEF OpenAt
<1>10. ASSUME count = 0, NEW t \in OpenAt(in, nxt1, current1, cursor1, B1)
       PROVE  t[1] >= PositionOf(current1, cursor1, n)
  <2>1. t \in Open(in, bounds, B1) /\ t \in Open(in, bounds, B)
    BY <1>2 DEF OpenAt, Open
  <2>2. t[1] >= PositionOf(current, cursor, n)
    BY <1>10, <2>1 DEF ReferenceHolds, OpenAt
  <2> QED BY <1>2, <1>9, <2>1, <2>2
<1>11. TurnAt(in, nxt1, current1, cursor1, B1) = Turn(in, bounds, B1, y)
  BY <1>2 DEF TurnAt
<1>12. ReferenceHolds(in, nxt1, current1, cursor1, count, B1)
  BY <1>1, <1>3, <1>8, <1>10 DEF ReferenceHolds
<1> QED BY <1>2, <1>9, <1>11, <1>12

(* Fusing two groups. *)
FusedTurn(in, behind, groups, k, B, behind1, groups1, k1, B1) ==
    LET bounds1 == BoundsOf(behind1, groups1, k1, in.leaves)
    IN  /\ bounds1 = BoundsOf(behind, groups, k, in.leaves) \ {groups[k][2]}
        /\ B1 = {t \in B : Adjacent(bounds1, t)}
        /\ TurnAt(in, behind1, groups1, k1, B1) = Turn(in, bounds1, B1, groups[k + 1][2])

(* A fusion keeps them, releases the blocks of what it changes, and leaves *)
(* the turn to the pairs after the fused group.                            *)
LEMMA ReferenceFuses ==
    ASSUME NEW in, NEW nxt, NEW current, NEW cursor, NEW count, NEW B,
           ReferenceHolds(in, nxt, current, cursor, count, B), Ready(in, current, cursor, B),
           NEW nxt1, NEW cursor1, NEW current1,
           FuseAt(nxt, current, cursor, nxt1, current1, cursor1),
           NEW count1 \in Nat, count1 # 0, NEW B1,
           Releases(current, cursor, B, B1)
    PROVE  /\ ReferenceHolds(in, nxt1, current1, cursor1, count1, B1)
           /\ FusedTurn(in, nxt, current, cursor, B, nxt1, current1, cursor1, B1)
<1> DEFINE n == in.leaves
           bounds == BoundsOf(nxt, current, cursor, n)
           bounds1 == BoundsOf(nxt1, current1, cursor1, n)
           y == current[cursor][2]
           z == current[cursor + 1][2]
<1>1. /\ ListsOf(nxt, current, cursor, n) /\ IsInput(in) /\ count \in Nat
      /\ BlocksOf(nxt, current, cursor, n, B)
      /\ cursor < Len(current)
  BY DEF ReferenceHolds, Ready
<1>2. /\ bounds1 = bounds \ {y} /\ PositionOf(current1, cursor1, n) = z
      /\ cursor1 \in 1..(Len(current1) + 1)
      /\ Chain(nxt1, 0, PositionOf(current1, cursor1, n))
      /\ (cursor1 <= Len(current1) => current1[cursor1][1] = z)
  BY <1>1, FuseFacts
<1>3. ListsOf(nxt1, current1, cursor1, n) /\ current1 = current
  BY <1>1, <1>2 DEF ListsOf, FuseAt
<1>4. B1 = {t \in B : Adjacent(bounds1, t)}
  <2>1. \A t \in B : t \in ReleasedBy(current, cursor) <=> ~Adjacent(bounds \ {y}, t)
    BY <1>1, ReleasedFacts
  <2> QED BY <1>2, <2>1 DEF Releases
<1>5. ASSUME cursor1 <= Len(current1), NEW t \in B1, t[2] = current1[cursor1][1]
      PROVE  FALSE
  <2>1. /\ t \in Triples(n) /\ Adjacent(bounds, t) /\ Adjacent(bounds1, t)
    BY <1>1, <1>4 DEF BlocksOf
  <2>2. cursor + 1 \in cursor..Len(current) /\ current[cursor + 1][1] = y
    <3>1. Len(current) \in Nat
      BY <1>1, NoBoundInside
    <3>2. cursor < Len(current) /\ cursor \in Nat /\ cursor \in cursor..Len(current)
      BY <1>1, <3>1 DEF ListsOf
    <3> QED BY <1>1, <3>1, <3>2, NoBoundInside
  <2>3. t[1] = y
    BY <1>1, <1>2, <1>5, <2>1, <2>2, PairsAhead
  <2> QED BY <1>2, <2>1, <2>3 DEF Adjacent
<1>6. BlocksOf(nxt1, current1, cursor1, n, B1)
  BY <1>1, <1>4, <1>5 DEF BlocksOf
<1>7. count1 \in Nat /\ count1 # 0
  BY <1>1
<1>8. ReferenceHolds(in, nxt1, current1, cursor1, count1, B1)
  BY <1>1, <1>3, <1>6, <1>7 DEF ReferenceHolds
<1>9. TurnAt(in, nxt1, current1, cursor1, B1) = Turn(in, bounds1, B1, z)
  BY <1>2 DEF TurnAt
<1> QED BY <1>2, <1>4, <1>8, <1>9 DEF FusedTurn

(* A new pass has the groups that the last one left, and begins at 0.      *)
LEMMA ReferenceGoesOn ==
    ASSUME NEW in, NEW nxt, NEW current, NEW cursor, NEW count, NEW B,
           ReferenceHolds(in, nxt, current, cursor, count, B), cursor > Len(current),
           NEW nxt1, nxt1 = <<>>, NEW cursor1, cursor1 = 1, NEW current1,
           current1 = nxt
    PROVE  /\ ReferenceHolds(in, nxt1, current1, cursor1, 0, B)
           /\ BoundsOf(nxt1, current1, cursor1, in.leaves) = BoundsOf(nxt, current, cursor, in.leaves)
           /\ TurnAt(in, nxt1, current1, cursor1, B) = TurnAt(in, nxt, current, cursor, B)
           /\ count = 0 => TurnAt(in, nxt, current, cursor, B) = None
<1> DEFINE n == in.leaves
           bounds == BoundsOf(nxt, current, cursor, n)
<1>1. /\ ListsOf(nxt, current, cursor, n) /\ IsInput(in) /\ count \in Nat
      /\ BlocksOf(nxt, current, cursor, n, B)
      /\ n \in Nat
  BY DEF ReferenceHolds, IsInput
<1>2. /\ ListsOf(nxt1, current1, cursor1, n)
      /\ BoundsOf(nxt1, current1, cursor1, n) = bounds
      /\ PositionOf(current, cursor, n) = n
      /\ PositionOf(current1, cursor1, n) = 0
      /\ current1[cursor1][1] = 0
  BY <1>1, ListsNextPass
<1>3. /\ \A t \in Open(in, bounds, B) : ~(t[1] >= n) /\ t[1] >= 0
      /\ TurnAt(in, nxt, current, cursor, B) = Turn(in, bounds, B, 0)
  BY <1>1, TurnEnds DEF OpenAt
<1>4. BlocksOf(nxt1, current1, cursor1, n, B)
  <2>1. \A t \in B : t \in Triples(n) /\ Adjacent(bounds, t)
    BY <1>1 DEF BlocksOf
  <2>2. \A t \in B : t[2] # 0
    <3>1. \A t \in B : t[1] \in 0..n /\ t[2] \in 0..n /\ t[1] < t[2]
      BY <1>1, <2>1, TripleIs
    <3> QED BY <1>1, <3>1
  <2> QED BY <1>2, <2>1, <2>2 DEF BlocksOf
<1>5. ReferenceHolds(in, nxt1, current1, cursor1, 0, B)
  <2>1. \A t \in OpenAt(in, nxt1, current1, cursor1, B) : t[1] >= PositionOf(current1, cursor1, n)
    BY <1>2, <1>3 DEF OpenAt
  <2> QED BY <1>1, <1>2, <1>4, <2>1 DEF ReferenceHolds
<1>6. TurnAt(in, nxt1, current1, cursor1, B) = Turn(in, bounds, B, 0)
  BY <1>2 DEF TurnAt
<1>7. ASSUME count = 0
      PROVE  TurnAt(in, nxt, current, cursor, B) = None
  <2>1. \A t \in Open(in, bounds, B) : t[1] >= n
    BY <1>2, <1>7 DEF ReferenceHolds, OpenAt
  <2>2. Open(in, bounds, B) = {}
    BY <1>3, <2>1
  <2> QED BY <2>2, TurnNone DEF TurnAt
<1> QED BY <1>2, <1>3, <1>5, <1>6, <1>7
--------------------------------------------------------------------------------
(* Groups that are linked: S is where they begin, and E where each ends.   *)
GroupsOf(S, E, n) ==
    /\ n \in Nat \ {0}
    /\ S \subseteq 0..(n - 1) /\ 0 \in S
    /\ \A s \in S : /\ E[s] \in Nat /\ s < E[s] /\ E[s] \in S \cup {n}
                    /\ \A b \in S : ~(s < b /\ b < E[s])

PairAt(E, s) == <<s, E[s], E[E[s]]>>

(* A set of numbers that is not empty has a least one. *)
LEMMA LeastNumber ==
    ASSUME NEW T, T \subseteq Nat, T # {}
    PROVE  \E x \in T : \A y \in T : x <= y
<1>1. IsWellFoundedOn(OpToRel(<, Nat), Nat)
  BY NatLessThanWellFounded
<1>2. PICK x \in T : \A y \in T : ~(<<y, x>> \in OpToRel(<, Nat))
  BY <1>1, WFMin
<1>3. ASSUME NEW y \in T
      PROVE  x <= y
  <2>1. ~(<<y, x>> \in OpToRel(<, Nat))
    BY <1>2
  <2>2. ~(y < x)
    BY <2>1, SMT DEF OpToRel
  <2> QED BY <2>2
<1> QED BY <1>3

(* The numbers of groups, and no boundary is inside one of them. *)
LEMMA GroupFacts ==
    ASSUME NEW S, NEW E, NEW n, GroupsOf(S, E, n), NEW s \in S
    PROVE  /\ n \in Nat /\ s \in Nat /\ E[s] \in Nat /\ s < E[s] /\ s < n
           /\ E[s] <= n
           /\ s \in S \cup {n} /\ E[s] \in S \cup {n}
           /\ S \cup {n} \subseteq 0..n /\ n \notin S
           /\ E[s] # n => E[s] \in S
           /\ \A b \in S \cup {n} : b \in Nat /\ (b <= s \/ b >= E[s])
<1>1. /\ n \in Nat /\ n > 0 /\ S \subseteq 0..(n - 1)
      /\ E[s] \in Nat /\ s < E[s] /\ E[s] \in S \cup {n} /\ \A b \in S : ~(s < b /\ b < E[s])
  BY DEF GroupsOf
<1>2. /\ s \in Nat /\ s < n /\ \A b \in S : b \in Nat /\ b < n
  BY <1>1
<1> QED BY <1>1, <1>2

(* A group that another one follows is a pair with it. *)
LEMMA PairOfGroup ==
    ASSUME NEW S, NEW E, NEW n, GroupsOf(S, E, n), NEW s \in S, E[s] \in S
    PROVE  /\ PairAt(E, s) \in Triples(n) /\ Adjacent(S \cup {n}, PairAt(E, s))
           /\ PairAt(E, s) # None
           /\ PairAt(E, s)[1] = s /\ PairAt(E, s)[2] = E[s]
           /\ PairAt(E, s)[3] = E[E[s]]
<1> DEFINE y == E[s]
           z == E[y]
           B == S \cup {n}
<1>1. /\ n \in Nat /\ s \in Nat /\ y \in Nat /\ s < y /\ s < n /\ y <= n
      /\ {s, y} \subseteq B
      /\ \A b \in B : b \in Nat /\ (b <= s \/ b >= y)
  BY GroupFacts
<1>2. z \in Nat /\ y < z /\ z <= n /\ z \in B /\ \A b \in B : b <= y \/ b >= z
  BY GroupFacts
<1>3. PairAt(E, s) = <<s, y, z>>
  BY DEF PairAt
<1> HIDE DEF y, z, B
<1>4. <<s, y, z>> \in Triples(n)
  BY <1>1, <1>2 DEF Triples
<1>5. \A b \in B : ~(s < b /\ b < y) /\ ~(y < b /\ b < z)
  BY <1>1, <1>2
<1>6. Adjacent(B, <<s, y, z>>)
  BY <1>1, <1>2, <1>5 DEF Adjacent
<1>7. <<s, y, z>> # None
  BY DEF None
<1> QED BY <1>3, <1>4, <1>6, <1>7 DEF B, y, z

(* There are no other pairs. *)
LEMMA PairIs ==
    ASSUME NEW S, NEW E, NEW n, GroupsOf(S, E, n), NEW t \in Triples(n),
           Adjacent(S \cup {n}, t)
    PROVE  t[1] \in S /\ E[t[1]] = t[2] /\ t[2] \in S /\ E[t[2]] = t[3] /\ t = PairAt(E, t[1])
<1> DEFINE B == S \cup {n}
<1>1. /\ t = <<t[1], t[2], t[3]>> /\ t[1] \in Nat /\ t[2] \in Nat
      /\ t[3] \in Nat
      /\ t[1] < t[2] /\ t[2] < t[3] /\ t[3] <= n /\ n \in Nat
  BY TripleIs DEF GroupsOf
<1>2. /\ t[1] \in B /\ t[2] \in B /\ t[3] \in B
      /\ \A b \in B : ~(t[1] < b /\ b < t[2]) /\ ~(t[2] < b /\ b < t[3])
  BY DEF Adjacent
<1>3. t[1] \in S /\ t[2] \in S
  BY <1>1, <1>2
<1>4. E[t[1]] = t[2]
  <2>1. /\ E[t[1]] \in Nat /\ t[1] < E[t[1]] /\ E[t[1]] \in B
        /\ \A b \in B : b <= t[1] \/ b >= E[t[1]]
    BY <1>3, GroupFacts
  <2> QED BY <1>1, <1>2, <2>1
<1>5. E[t[2]] = t[3]
  <2>1. /\ E[t[2]] \in Nat /\ t[2] < E[t[2]] /\ E[t[2]] \in B
        /\ \A b \in B : b <= t[2] \/ b >= E[t[2]]
    BY <1>3, GroupFacts
  <2> QED BY <1>1, <1>2, <2>1
<1>6. PairAt(E, t[1]) = <<t[1], t[2], t[3]>>
  BY <1>4, <1>5 DEF PairAt
<1> QED BY <1>1, <1>3, <1>4, <1>5, <1>6

(* Two groups do not end at the same leaf. *)
LEMMA OneBefore ==
    ASSUME NEW S, NEW E, NEW n, GroupsOf(S, E, n), NEW r \in S, NEW s \in S,
           E[r] = E[s]
    PROVE  r = s
<1>1. /\ r \in Nat /\ s \in Nat /\ r < E[r] /\ s < E[s] /\ E[s] \in Nat
      /\ (s <= r \/ s >= E[r]) /\ (r <= s \/ r >= E[s])
  BY GroupFacts
<1> QED BY <1>1

(* A group takes in the one after it. *)
TakesIn(S, E, s, E1) == \A r \in S \ {E[s]} : E1[r] = IF r = s THEN E[E[s]] ELSE E[r]

(* A group that takes in the next one: there is one boundary less. *)
LEMMA GroupsFuse ==
    ASSUME NEW S, NEW E, NEW n, GroupsOf(S, E, n), NEW s \in S, E[s] \in S,
           NEW E1, TakesIn(S, E, s, E1)
    PROVE  /\ GroupsOf(S \ {E[s]}, E1, n)
           /\ (S \ {E[s]}) \cup {n} = (S \cup {n}) \ {E[s]}
           /\ s \in S \ {E[s]} /\ E1[s] = E[E[s]]
           /\ E[E[s]] \in (S \ {E[s]}) \cup {n}
           /\ E[s] # s /\ E[s] # 0
<1> DEFINE v == E[s]
           S1 == S \ {v}
<1>0. \A r \in S1 : E1[r] = IF r = s THEN E[v] ELSE E[r]
  BY DEF TakesIn
<1>1. /\ n \in Nat /\ n > 0 /\ S \subseteq 0..(n - 1) /\ 0 \in S /\ n \notin S
      /\ s \in Nat /\ v \in Nat /\ s < v /\ v \in S
      /\ E[v] \in Nat /\ v < E[v] /\ E[v] \in S \cup {n}
  <2>1. /\ n \in Nat /\ n > 0 /\ S \subseteq 0..(n - 1) /\ 0 \in S
    BY DEF GroupsOf
  <2>2. s \in Nat /\ s < E[s] /\ E[s] \in Nat /\ n \notin S
    BY GroupFacts
  <2>3. E[v] \in Nat /\ v < E[v] /\ E[v] \in S \cup {n}
    BY GroupFacts
  <2> QED BY <2>1, <2>2, <2>3
<1>2. S1 \subseteq 0..(n - 1) /\ 0 \in S1 /\ s \in S1 /\ v # s /\ v # 0 /\ S1 = S \ {v}
  <2>1. S1 = S \ {v}
    OBVIOUS
  <2>2. v # s /\ v # 0
    BY <1>1
  <2> QED BY ONLY <1>1, <2>1, <2>2
<1>3. ASSUME NEW r \in S1
      PROVE  /\ E1[r] \in Nat /\ r < E1[r] /\ E1[r] \in S1 \cup {n}
             /\ \A b \in S1 : ~(r < b /\ b < E1[r])
  <2>1. /\ r \in S /\ r # v /\ r \in Nat /\ E[r] \in Nat /\ r < E[r]
        /\ E[r] \in S \cup {n}
        /\ \A b \in S : b \in Nat /\ (b <= r \/ b >= E[r])
    BY <1>2, GroupFacts
  <2>2. CASE r = s
    <3>1. E1[r] = E[v]
      BY <1>0, <2>2
    <3>2. \A b \in S : b <= v \/ b >= E[v]
      BY <1>1, GroupFacts
    <3>3. \A b \in S1 : ~(r < b /\ b < E[v])
      BY <1>1, <1>2, <2>1, <2>2, <3>2
    <3> QED BY <1>1, <1>2, <2>1, <2>2, <3>1, <3>3
  <2>3. CASE r # s
    <3>1. E1[r] = E[r]
      BY <1>0, <2>3
    <3>2. E[r] # v
      BY <2>1, <2>3, OneBefore
    <3>3. \A b \in S1 : ~(r < b /\ b < E[r])
      BY <1>2, <2>1
    <3> QED BY <1>2, <2>1, <3>1, <3>2, <3>3
  <2> QED BY <2>2, <2>3
<1>4. GroupsOf(S1, E1, n)
  BY <1>1, <1>2, <1>3 DEF GroupsOf
<1>5. S1 \cup {n} = (S \cup {n}) \ {v}
  BY <1>1, <1>2
<1>6. E1[s] = E[v] /\ E[v] \in S1 \cup {n}
  BY <1>0, <1>1, <1>2
<1> QED BY <1>2, <1>4, <1>5, <1>6

(* The pairs that are left when a boundary goes. *)
LEMMA AdjacentWithout ==
    ASSUME NEW B, NEW v, NEW t, Adjacent(B, t)
    PROVE  Adjacent(B \ {v}, t) <=> v \notin {t[1], t[2], t[3]}
BY DEF Adjacent

(* Their number. *)
LEMMA GroupsCount ==
    ASSUME NEW S, NEW n \in Nat \ {0}, S \subseteq 0..(n - 1)
    PROVE  /\ IsFiniteSet(S) /\ Cardinality(S) \in Nat /\ Cardinality(S) <= n
           /\ \A v \in S : Cardinality(S \ {v}) = Cardinality(S) - 1
           /\ Cardinality(0..(n - 1)) = n
<1>1. IsFiniteSet(0..(n - 1)) /\ Cardinality(0..(n - 1)) = n
  <2>1. 0 \in Int /\ n - 1 \in Int /\ ~(0 > n - 1) /\ (n - 1) - 0 + 1 = n
    OBVIOUS
  <2> QED BY <2>1, FS_Interval
<1>2. IsFiniteSet(S) /\ Cardinality(S) <= n
  BY <1>1, FS_Subset
<1>3. Cardinality(S) \in Nat
  BY <1>2, FS_CardinalityType
<1>4. \A v \in S : Cardinality(S \ {v}) = Cardinality(S) - 1
  BY <1>2, FS_RemoveElement
<1> QED BY <1>1, <1>2, <1>3, <1>4

--------------------------------------------------------------------------------
(* A group and the next one may be fused. *)
LinkReady(in, S, E, s, B) == E[s] \in S /\ PairAt(E, s) \in Admitted(in) /\ PairAt(E, s) \notin B

TurnOn(in, S, B, p) == Turn(in, S \cup {in.leaves}, B, p)
OpenOn(in, S, B) == Open(in, S \cup {in.leaves}, B)

(* The turn at a group is its pair when that is open, and otherwise what   *)
(* it is at the next group.                                                *)
LEMMA LinkTurn ==
    ASSUME NEW in, NEW S, NEW E, GroupsOf(S, E, in.leaves), NEW s \in S, NEW B
    PROVE  /\ LinkReady(in, S, E, s, B) => PairAt(E, s) \in OpenOn(in, S, B) /\ TurnOn(in, S, B, s) = PairAt(E, s)
           /\ ~LinkReady(in, S, E, s, B) =>
                /\ \A t \in OpenOn(in, S, B) : t[1] >= s <=> t[1] >= E[s]
                /\ TurnOn(in, S, B, s) = TurnOn(in, S, B, E[s])
<1> DEFINE n == in.leaves
           bounds == S \cup {n}
<1>1. /\ n \in Nat /\ bounds \subseteq 0..n /\ s \in Nat /\ E[s] \in Nat
      /\ s < E[s]
      /\ \A b \in bounds : b \in Nat /\ (b <= s \/ b >= E[s])
  BY GroupFacts
<1> DEFINE y == E[s]
<1>2. ASSUME LinkReady(in, S, E, s, B)
      PROVE  PairAt(E, s) \in Open(in, bounds, B) /\ Turn(in, bounds, B, s) = PairAt(E, s)
  <2> DEFINE K == PairAt(E, s)
  <2>1. E[s] \in S /\ K \in Admitted(in) /\ K \notin B
    BY <1>2 DEF LinkReady
  <2>2. Adjacent(bounds, K) /\ K[1] = s
    BY <2>1, PairOfGroup
  <2> HIDE DEF K, bounds, n
  <2>3. K \in Open(in, bounds, B) /\ K[1] >= s /\ s \in Nat
    BY <1>1, <2>1, <2>2 DEF Open
  <2>4. \A r \in Open(in, bounds, B) : r[1] >= s => K[1] <= r[1]
    BY <1>1, <2>2, OpenIs DEF n
  <2>5. in.leaves \in Nat /\ bounds \subseteq 0..in.leaves
    BY <1>1 DEF n
  <2>6. Turn(in, bounds, B, s) = K
    BY ONLY <2>3, <2>4, <2>5, TurnIsFirst
  <2> QED BY <2>3, <2>6 DEF K
<1>3. ASSUME ~LinkReady(in, S, E, s, B)
      PROVE  /\ \A t \in Open(in, bounds, B) : t[1] >= s <=> t[1] >= y
             /\ Turn(in, bounds, B, s) = Turn(in, bounds, B, y)
  <2>1. ASSUME NEW t \in Open(in, bounds, B)
        PROVE  t[1] >= s <=> t[1] >= y
    <3>1. /\ t \in Triples(n) /\ Adjacent(bounds, t) /\ t \notin B
          /\ t \in Admitted(in)
          /\ t[1] \in bounds /\ t[1] \in Nat
      BY <1>1, OpenIs
    <3>2. E[t[1]] \in S /\ t = PairAt(E, t[1])
      BY <3>1, PairIs
    <3>3. t[1] # s
      BY <1>3, <3>1, <3>2 DEF LinkReady
    <3>4. t[1] <= s \/ t[1] >= y
      BY <1>1, <3>1
    <3> HIDE DEF y, bounds, n
    <3> QED BY <1>1, <3>1, <3>3, <3>4 DEF y
  <2>2. Turn(in, bounds, B, s) = Turn(in, bounds, B, y)
    BY <2>1, TurnsAgree
  <2> QED BY <2>1, <2>2
<1> QED BY <1>2, <1>3 DEF TurnOn, OpenOn

(* From the end and from the start the turn is the same. *)
LEMMA LinkEnds ==
    ASSUME NEW in, in.leaves \in Nat, NEW S, NEW B
    PROVE  /\ \A t \in OpenOn(in, S, B) : ~(t[1] >= in.leaves) /\ t[1] >= 0
           /\ TurnOn(in, S, B, in.leaves) = TurnOn(in, S, B, 0)
<1>1. ASSUME NEW t \in OpenOn(in, S, B)
      PROVE  ~(t[1] >= in.leaves) /\ t[1] >= 0
  <2>1. t[1] \in Nat /\ t[1] < in.leaves
    BY OpenIs DEF OpenOn
  <2> QED BY <2>1
<1>2. TurnOn(in, S, B, in.leaves) = TurnOn(in, S, B, 0)
  <2>1. \A t \in Open(in, S \cup {in.leaves}, B) : ~(t[1] >= in.leaves) /\ t[1] >= 0
    BY <1>1 DEF OpenOn
  <2> QED BY <2>1, TurnsAgree DEF TurnOn
<1> QED BY <1>1, <1>2
--------------------------------------------------------------------------------
(* Arrays that link the groups: the group after each, and the one before.  *)
Links(S, E, after, before, n) ==
    /\ GroupsOf(S, E, n)
    /\ E \in [0..(n - 1) -> Nat] /\ after \in [0..(n - 1) -> Int]
    /\ before \in [0..(n - 1) -> Int]
    /\ \A s \in S : after[s] = IF E[s] = n THEN -1 ELSE E[s]
    /\ before[0] = -1
    /\ \A s \in S \ {0} : before[s] \in S /\ E[before[s]] = s

(* What a walk from slot 0 visits. *)
WalksOf(after) ==
    {S \in SUBSET DOMAIN after : 0 \in S /\ \A s \in S : after[s] = -1 \/ after[s] \in S}
Reached(after) == {s \in DOMAIN after : \A S \in WalksOf(after) : s \in S}

(* It visits the groups and nothing else: of the groups that a walk does   *)
(* not visit, none is the first.                                           *)
LEMMA ReachedIs ==
    ASSUME NEW S, NEW E, NEW after, NEW before, NEW n,
           Links(S, E, after, before, n)
    PROVE  Reached(after) = S
<1>1. /\ DOMAIN after = 0..(n - 1) /\ S \subseteq 0..(n - 1) /\ 0 \in S
      /\ n \in Nat
      /\ \A s \in S : after[s] = -1 \/ after[s] \in S
      /\ \A s \in S \ {0} : before[s] \in S /\ after[before[s]] = s /\ before[s] < s
  <2>1. /\ DOMAIN after = 0..(n - 1) /\ S \subseteq 0..(n - 1) /\ 0 \in S
        /\ n \in Nat /\ GroupsOf(S, E, n)
        /\ \A s \in S : after[s] = IF E[s] = n THEN -1 ELSE E[s]
        /\ \A s \in S \ {0} : before[s] \in S /\ E[before[s]] = s
    BY DEF Links, GroupsOf
  <2>2. \A s \in S : s < E[s] /\ E[s] \in S \cup {n} /\ s < n /\ n \notin S
    BY <2>1, GroupFacts
  <2> QED BY <2>1, <2>2
<1>2. S \in WalksOf(after)
  BY <1>1 DEF WalksOf
<1>3. ASSUME NEW W \in WalksOf(after), NEW x \in S, x \notin W
      PROVE  FALSE
  <2> DEFINE Missed == S \ W
  <2>1. Missed \subseteq Nat /\ Missed # {}
    <3>1. \A z \in S : z \in Nat
      BY <1>1
    <3>2. x \in Missed
      BY <1>3
    <3> QED BY <3>1, <3>2
  <2>2. PICK y \in Missed : \A z \in Missed : y <= z
    BY <2>1, LeastNumber
  <2>3. y \in S \ {0} /\ y \notin W /\ y \in Nat
    BY <1>1, <2>2 DEF WalksOf
  <2>4. /\ before[y] \in S /\ after[before[y]] = y /\ before[y] < y
        /\ before[y] \in Nat
    <3>1. before[y] \in S /\ after[before[y]] = y /\ before[y] < y
      BY <1>1, <2>3
    <3>2. \A z \in S : z \in Nat
      BY <1>1
    <3> QED BY <3>1, <3>2
  <2>5. before[y] \in W
    BY <2>2, <2>3, <2>4
  <2>6. y = -1 \/ y \in W
    BY <2>4, <2>5 DEF WalksOf
  <2> QED BY <2>3, <2>6
<1>4. \A x \in Reached(after) : x \in S
  BY <1>2 DEF Reached
<1>5. \A x \in S : x \in Reached(after)
  BY <1>1, <1>3 DEF Reached
<1> QED BY <1>4, <1>5

(* Every leaf for itself. *)
UnitLinks(E, after, before, n) ==
    /\ E = [s \in 0..(n - 1) |-> s + 1]
    /\ after = [s \in 0..(n - 1) |-> IF s = n - 1 THEN -1 ELSE s + 1]
    /\ before = [s \in 0..(n - 1) |-> s - 1]

(* At first every leaf is a group, linked with the leaves beside it. *)
LEMMA LinksBegin ==
    ASSUME NEW n \in Nat \ {0}, NEW E, NEW after, NEW before,
           UnitLinks(E, after, before, n)
    PROVE  Links(0..(n - 1), E, after, before, n) /\ 0..(n - 1) \cup {n} = 0..n
<1> DEFINE S == 0..(n - 1)
<1> USE DEF UnitLinks
<1>1. GroupsOf(S, E, n)
  <2>1. \A s \in S : E[s] \in Nat /\ s < E[s] /\ E[s] \in S \cup {n}
    OBVIOUS
  <2>2. \A s \in S : \A b \in S : ~(s < b /\ b < E[s])
    OBVIOUS
  <2>3. S \subseteq 0..(n - 1) /\ 0 \in S
    OBVIOUS
  <2> QED BY <2>1, <2>2, <2>3 DEF GroupsOf
<1>2. /\ E \in [S -> Nat] /\ after \in [S -> Int] /\ before \in [S -> Int]
      /\ \A s \in S : after[s] = IF E[s] = n THEN -1 ELSE E[s]
      /\ before[0] = -1
  OBVIOUS
<1>3. \A s \in S \ {0} : before[s] \in S /\ E[before[s]] = s
  OBVIOUS
<1>4. 0..(n - 1) \cup {n} = 0..n
  OBVIOUS
<1> QED BY <1>1, <1>2, <1>3, <1>4 DEF Links

(* A group takes in the one after it, and the links follow. *)
FuseLinks(E, after, before, s, E1, after1, before1) ==
    /\ E1 = [E EXCEPT ![s] = E[after[s]]]
    /\ after1 = [after EXCEPT ![s] = after[after[s]]]
    /\ before1 = IF after[after[s]] = -1 THEN before ELSE [before EXCEPT ![after[after[s]]] = s]

(* The link of a group leads to the next one, and from the last to none. *)
LEMMA LinksAfter ==
    ASSUME NEW S, NEW E, NEW after, NEW before, NEW n,
           Links(S, E, after, before, n), NEW s \in S
    PROVE  /\ after[s] = -1 \/ after[s] \in S
           /\ after[s] = -1 <=> E[s] = n
           /\ after[s] = -1 <=> E[s] \notin S
           /\ after[s] # -1 => after[s] = E[s]
<1>1. GroupsOf(S, E, n) /\ after[s] = IF E[s] = n THEN -1 ELSE E[s]
  BY DEF Links
<1>2. E[s] \in Nat /\ E[s] \in S \cup {n} /\ n \notin S
  BY <1>1, GroupFacts
<1> QED BY <1>1, <1>2

(* What a fusion leaves of the links: those of the groups that are left. *)
LinksFused(S, E, after, s, E1, after1, before1, n) ==
    /\ Links(S \ {after[s]}, E1, after1, before1, n)
    /\ (S \ {after[s]}) \cup {n} = (S \cup {n}) \ {after[s]}
    /\ after[s] \in S /\ after[s] = E[s] /\ s \in S \ {after[s]}
    /\ after1[s] = after[after[s]]

(* A fusion in place relinks the groups that are left. *)
LEMMA LinksFuse ==
    ASSUME NEW S, NEW E, NEW after, NEW before, NEW n,
           Links(S, E, after, before, n),
           NEW s \in S, after[s] # -1,
           NEW E1, NEW after1, NEW before1,
           FuseLinks(E, after, before, s, E1, after1, before1)
    PROVE  LinksFused(S, E, after, s, E1, after1, before1, n)
<1> DEFINE v == after[s]
           w == after[v]
           S1 == S \ {v}
<1>1. GroupsOf(S, E, n) /\ v \in S /\ v = E[s] /\ S \subseteq 0..(n - 1) /\ n \in Nat
  BY LinksAfter DEF Links, GroupsOf
<1>2. /\ E \in [0..(n - 1) -> Nat] /\ after \in [0..(n - 1) -> Int]
      /\ before \in [0..(n - 1) -> Int]
      /\ \A r \in S : after[r] = IF E[r] = n THEN -1 ELSE E[r]
      /\ before[0] = -1 /\ \A r \in S \ {0} : before[r] \in S /\ E[before[r]] = r
  BY DEF Links
<1>3. /\ E1 = [E EXCEPT ![s] = E[v]] /\ after1 = [after EXCEPT ![s] = w]
      /\ before1 = IF w = -1 THEN before ELSE [before EXCEPT ![w] = s]
  BY DEF FuseLinks
<1>4. w = -1 \/ (w \in S /\ w = E[v])
  BY <1>1, LinksAfter
<1>5. s \in 0..(n - 1) /\ v \in 0..(n - 1) /\ E[v] \in Nat /\ w \in Int
  BY <1>1, <1>2
<1> HIDE DEF v, w
<1>6. \A r \in S1 : E1[r] = IF r = s THEN E[v] ELSE E[r]
  BY <1>1, <1>2, <1>3
<1>7. /\ GroupsOf(S1, E1, n) /\ S1 \cup {n} = (S \cup {n}) \ {v}
      /\ s \in S1 /\ E1[s] = E[v] /\ v # s /\ v # 0
  <2>1. TakesIn(S, E, s, E1)
    BY <1>1, <1>6 DEF TakesIn
  <2>2. E[s] \in S
    BY <1>1
  <2>3. /\ GroupsOf(S \ {E[s]}, E1, n)
        /\ (S \ {E[s]}) \cup {n} = (S \cup {n}) \ {E[s]}
        /\ s \in S \ {E[s]} /\ E1[s] = E[E[s]] /\ E[s] # s /\ E[s] # 0
    BY <1>1, <2>1, <2>2, GroupsFuse, Z3
  <2> QED BY <1>1, <2>3
<1>8. /\ E1 \in [0..(n - 1) -> Nat] /\ after1 \in [0..(n - 1) -> Int]
      /\ before1 \in [0..(n - 1) -> Int]
  <2>1. E1 \in [0..(n - 1) -> Nat] /\ after1 \in [0..(n - 1) -> Int]
    BY <1>2, <1>3, <1>5
  <2>2. CASE w = -1
    BY <1>2, <1>3, <2>1, <2>2
  <2>3. CASE w # -1
    <3>1. before1 = [before EXCEPT ![w] = s]
      BY <1>3, <2>3
    <3>2. s \in Int
      BY <1>5
    <3> QED BY <1>2, <2>1, <3>1, <3>2
  <2> QED BY <2>2, <2>3
<1>9. after1[s] = w
  BY <1>2, <1>3, <1>5
<1>10. ASSUME NEW r \in S1
       PROVE  after1[r] = IF E1[r] = n THEN -1 ELSE E1[r]
  <2>1. CASE r = s
    <3>1. w = IF E[v] = n THEN -1 ELSE E[v]
      BY <1>1, <1>2 DEF w
    <3> QED BY <1>7, <1>9, <2>1, <3>1
  <2>2. CASE r # s
    <3>1. r \in S /\ r \in 0..(n - 1)
      BY <1>1
    <3>2. after1[r] = after[r] /\ E1[r] = E[r]
      BY <1>2, <1>3, <2>2, <3>1
    <3> QED BY <1>2, <3>1, <3>2
  <2> QED BY <2>1, <2>2
<1>11. w # 0 /\ w # v
  <2>1. v \in Nat /\ v < E[v]
    BY <1>1, GroupFacts
  <2> QED BY <1>4, <2>1
<1>12. before1[0] = -1
  BY <1>1, <1>2, <1>3, <1>4, <1>11
<1>13. ASSUME NEW r \in S1 \ {0}
       PROVE  before1[r] \in S1 /\ E1[before1[r]] = r
  <2>1. r \in S \ {0} /\ r # v /\ r \in 0..(n - 1)
    BY <1>1
  <2>2. CASE r = w
    <3>1. w # -1
      BY <2>1, <2>2
    <3>2. before1[r] = s
      BY <1>2, <1>3, <2>1, <2>2, <3>1
    <3> QED BY <1>4, <1>7, <2>2, <3>1, <3>2
  <2>3. CASE r # w
    <3>1. before1[r] = before[r]
      BY <1>2, <1>3, <2>1, <2>3
    <3>2. before[r] \in S /\ E[before[r]] = r
      BY <1>2, <2>1
    <3>3. before[r] # v
      <4>1. w = IF E[v] = n THEN -1 ELSE E[v]
        BY <1>1, <1>2 DEF w
      <4>2. r # n
        BY <1>1, <2>1
      <4> QED BY <2>3, <3>2, <4>1, <4>2
    <3>4. before[r] # s
      BY <1>1, <2>1, <3>2
    <3>5. E1[before[r]] = E[before[r]]
      BY <1>6, <3>2, <3>3, <3>4
    <3> QED BY <3>1, <3>2, <3>3, <3>5
  <2> QED BY <2>2, <2>3
<1>14. Links(S1, E1, after1, before1, n)
  BY <1>7, <1>8, <1>10, <1>12, <1>13 DEF Links
<1> QED BY <1>1, <1>7, <1>9, <1>14 DEF v, w, LinksFused

(* The blocks that a fusion releases are those of pairs that have the      *)
(* boundary it takes away.                                                 *)
ReleasedOn(E, after, before, s) ==
    LET v == after[s]
    IN  {<<s, E[s], E[v]>>}
        \cup {<<before[s], E[before[s]], E[s]>> : p \in {before[s]} \ {-1}}
        \cup {<<E[s], E[v], E[w]>> : w \in {after[v]} \ {-1}}

(* The blocks released are those of pairs that have the boundary that the  *)
(* fusion takes away.                                                      *)
LEMMA ReleasedLinks ==
    ASSUME NEW S, NEW E, NEW after, NEW before, NEW n,
           Links(S, E, after, before, n),
           NEW s \in S, after[s] # -1, NEW t \in Triples(n),
           Adjacent(S \cup {n}, t)
    PROVE  t \in ReleasedOn(E, after, before, s) <=> ~Adjacent((S \cup {n}) \ {after[s]}, t)
<1> DEFINE v == after[s]
<1>1. GroupsOf(S, E, n) /\ v \in S /\ v = E[s] /\ S \subseteq 0..(n - 1) /\ n \in Nat
  BY LinksAfter DEF Links, GroupsOf
<1>2. /\ t[1] \in S /\ E[t[1]] = t[2] /\ t[2] \in S /\ E[t[2]] = t[3]
      /\ t = <<t[1], t[2], t[3]>>
  BY <1>1, PairIs, TripleIs
<1>3. /\ before[0] = -1 /\ \A r \in S \ {0} : before[r] \in S /\ E[before[r]] = r
      /\ after[v] = -1 \/ (after[v] = E[v] /\ after[v] \in S)
      /\ after[v] = -1 => E[v] \notin S
      /\ \A r \in S : r \in Nat /\ E[r] \in Nat /\ r < E[r]
  <2>1. /\ before[0] = -1 /\ \A r \in S \ {0} : before[r] \in S /\ E[before[r]] = r
    BY DEF Links
  <2>2. /\ after[v] = -1 \/ (after[v] = E[v] /\ after[v] \in S)
        /\ after[v] = -1 => E[v] \notin S
    BY <1>1, LinksAfter
  <2>3. \A r \in S : r \in Nat /\ E[r] \in Nat /\ r < E[r]
    BY <1>1, GroupFacts
  <2> QED BY <2>1, <2>2, <2>3
<1> HIDE DEF v
<1>4. t \in ReleasedOn(E, after, before, s) <=>
        \/ t = <<s, v, E[v]>>
        \/ before[s] # -1 /\ t = <<before[s], E[before[s]], v>>
        \/ after[v] # -1 /\ t = <<v, E[v], E[after[v]]>>
  BY <1>1 DEF ReleasedOn, v
<1>5. ASSUME t \in ReleasedOn(E, after, before, s)
      PROVE  v \in {t[1], t[2], t[3]}
  BY <1>4, <1>5
<1>6. ASSUME v \in {t[1], t[2], t[3]}
      PROVE  t \in ReleasedOn(E, after, before, s)
  <2>1. CASE v = t[1]
    <3>1. after[v] = E[v] /\ after[v] # -1
      BY <1>2, <1>3, <2>1
    <3> QED BY <1>2, <1>4, <2>1, <3>1
  <2>2. CASE v = t[2]
    <3>1. t[1] = s
      BY <1>1, <1>2, <2>2, OneBefore
    <3> QED BY <1>2, <1>4, <2>2, <3>1
  <2>3. CASE v = t[3]
    <3>1. t[2] = s
      BY <1>1, <1>2, <2>3, OneBefore
    <3>2. s # 0 /\ before[s] \in S /\ E[before[s]] = s
      BY <1>2, <1>3, <3>1
    <3>3. before[s] = t[1]
      BY <1>1, <1>2, <3>1, <3>2, OneBefore
    <3>4. before[s] # -1
      BY <1>3, <3>2
    <3> QED BY <1>1, <1>2, <1>4, <2>3, <3>1, <3>2, <3>3, <3>4
  <2> QED BY <1>6, <2>1, <2>2, <2>3
<1>7. Adjacent((S \cup {n}) \ {v}, t) <=> v \notin {t[1], t[2], t[3]}
  BY AdjacentWithout
<1> QED BY <1>5, <1>6, <1>7 DEF v
--------------------------------------------------------------------------------
(* The fast engine: p is its slot of the pass, or -1.                      *)
SlotPosition(p, n) == IF p = -1 THEN n ELSE p

(* What holds of the fast engine: links of the groups, a slot to go on     *)
(* from, blocks of adjacent groups, and, as long as a pass has fused       *)
(* nothing, no open pair behind it.                                        *)
FastHolds(in, S, E, after, before, p, count, B) ==
    /\ IsInput(in)
    /\ Links(S, E, after, before, in.leaves)
    /\ p \in S \cup {-1}
    /\ count \in Nat
    /\ \A t \in B : t \in Triples(in.leaves) /\ Adjacent(S \cup {in.leaves}, t)
    /\ count = 0 => \A t \in OpenOn(in, S, B) : t[1] >= SlotPosition(p, in.leaves)

(* It holds when the call starts. *)
LEMMA FastBegins ==
    ASSUME NEW in, IsInput(in), NEW E, NEW after, NEW before,
           UnitLinks(E, after, before, in.leaves)
    PROVE  /\ FastHolds(in, 0..(in.leaves - 1), E, after, before, 0, 0, {})
           /\ 0..(in.leaves - 1) \cup {in.leaves} = 0..in.leaves
<1>1. in.leaves \in Nat \ {0} /\ in.leaves \in Nat
  BY DEF IsInput
<1> DEFINE n == in.leaves
<1>2. Links(0..(n - 1), E, after, before, n) /\ 0..(n - 1) \cup {n} = 0..n
  BY <1>1, LinksBegin
<1>3. \A t \in OpenOn(in, 0..(n - 1), {}) : t[1] >= SlotPosition(0, n)
  BY ONLY <1>1, LinkEnds DEF SlotPosition
<1>4. 0 \in 0..(n - 1)
  BY <1>1
<1> QED BY <1>2, <1>3, <1>4 DEF FastHolds

(* The pair at the slot, if any. *)
LEMMA FastTurn ==
    ASSUME NEW in, NEW S, NEW E, NEW after, NEW before, NEW p, NEW count, NEW B,
           FastHolds(in, S, E, after, before, p, count, B), p # -1
    PROVE  /\ p \in S /\ GroupsOf(S, E, in.leaves)
           /\ SlotPosition(p, in.leaves) = p
           /\ SlotPosition(after[p], in.leaves) = E[p]
           /\ after[p] \in S \cup {-1}
           /\ after[p] # -1 => after[p] = E[p]
           /\ LinkReady(in, S, E, p, B) =>
                /\ after[p] # -1
                /\ TurnOn(in, S, B, p) = PairAt(E, p) /\ PairAt(E, p) # None
                /\ PairAt(E, p)[2] = E[p] /\ PairAt(E, p)[3] = E[E[p]]
           /\ ~LinkReady(in, S, E, p, B) => TurnOn(in, S, B, p) = TurnOn(in, S, B, E[p])
<1>1. p \in S /\ Links(S, E, after, before, in.leaves) /\ SlotPosition(p, in.leaves) = p
  BY DEF FastHolds, SlotPosition
<1>2. GroupsOf(S, E, in.leaves)
  BY <1>1 DEF Links
<1>3. /\ after[p] = -1 \/ after[p] \in S
      /\ after[p] = -1 <=> E[p] = in.leaves
      /\ after[p] = -1 <=> E[p] \notin S
      /\ after[p] # -1 => after[p] = E[p]
  BY <1>1, LinksAfter
<1>4. SlotPosition(after[p], in.leaves) = E[p]
  BY <1>3 DEF SlotPosition
<1>5. ASSUME NEW s \in S, LinkReady(in, S, E, s, B)
      PROVE  /\ TurnOn(in, S, B, s) = PairAt(E, s) /\ PairAt(E, s) # None
             /\ PairAt(E, s)[2] = E[s] /\ PairAt(E, s)[3] = E[E[s]]
             /\ E[s] \in S
  <2>1. E[s] \in S
    BY <1>5 DEF LinkReady
  <2>2. TurnOn(in, S, B, s) = PairAt(E, s)
    BY ONLY <1>2, <1>5, LinkTurn
  <2>3. PairAt(E, s) # None /\ PairAt(E, s)[2] = E[s] /\ PairAt(E, s)[3] = E[E[s]]
    <3>1. \A a, b, c : <<a, b, c>> # <<>>
      OBVIOUS
    <3> QED BY ONLY <3>1 DEF PairAt, None
  <2> QED BY <2>1, <2>2, <2>3
<1>6. ~LinkReady(in, S, E, p, B) => TurnOn(in, S, B, p) = TurnOn(in, S, B, E[p])
  BY <1>1, <1>2, LinkTurn
<1> QED BY ONLY <1>1, <1>2, <1>3, <1>4, <1>5, <1>6

(* The walk goes on from a pair that is not to be fused, blocked now or    *)
(* not.                                                                    *)
LEMMA FastKeeps ==
    ASSUME NEW in, NEW S, NEW E, NEW after, NEW before, NEW p, NEW count, NEW B,
           FastHolds(in, S, E, after, before, p, count, B), p # -1, NEW B1,
           \/ B1 = B /\ ~LinkReady(in, S, E, p, B)
           \/ B1 = B \cup {PairAt(E, p)} /\ LinkReady(in, S, E, p, B)
    PROVE  /\ FastHolds(in, S, E, after, before, after[p], count, B1)
           /\ B1 = B => TurnOn(in, S, B1, SlotPosition(after[p], in.leaves)) = TurnOn(in, S, B, p)
<1> DEFINE n == in.leaves
<1>1. /\ p \in S /\ GroupsOf(S, E, n) /\ SlotPosition(p, n) = p
      /\ SlotPosition(after[p], n) = E[p] /\ after[p] \in S \cup {-1}
  BY FastTurn
<1>2. ~LinkReady(in, S, E, p, B1)
  BY DEF LinkReady
<1>3. \A t \in OpenOn(in, S, B1) : t[1] >= p <=> t[1] >= E[p]
  BY <1>1, <1>2, LinkTurn
<1>4. \A t \in OpenOn(in, S, B1) : t \in OpenOn(in, S, B)
  BY DEF OpenOn, Open
<1>5. \A t \in B1 : t \in Triples(n) /\ Adjacent(S \cup {n}, t)
  <2>1. \A t \in B : t \in Triples(n) /\ Adjacent(S \cup {n}, t)
    BY DEF FastHolds
  <2>2. LinkReady(in, S, E, p, B) => PairAt(E, p) \in Triples(n) /\ Adjacent(S \cup {n}, PairAt(E, p))
    BY <1>1, PairOfGroup DEF LinkReady
  <2> QED BY <2>1, <2>2
<1>6. count = 0 => \A t \in OpenOn(in, S, B1) : t[1] >= SlotPosition(after[p], n)
  BY <1>1, <1>3, <1>4 DEF FastHolds
<1>7. FastHolds(in, S, E, after, before, after[p], count, B1)
  BY <1>1, <1>5, <1>6 DEF FastHolds
<1>8. B1 = B => TurnOn(in, S, B1, E[p]) = TurnOn(in, S, B, p)
  BY <1>1, <1>2, LinkTurn
<1> QED BY <1>1, <1>7, <1>8

(* Fusing the group of the slot with the next one. *)
FastFused(in, S, E, after, before, p, B, E1, after1, before1, count1) ==
    /\ FastHolds(in, S \ {E[p]}, E1, after1, before1, after[E[p]], count1,
                 B \ ReleasedOn(E, after, before, p))
    /\ (S \ {E[p]}) \cup {in.leaves} = (S \cup {in.leaves}) \ {E[p]}
    /\ B \ ReleasedOn(E, after, before, p) =
         {t \in B : Adjacent((S \ {E[p]}) \cup {in.leaves}, t)}
    /\ after[p] = E[p] /\ E[p] \in S
    /\ SlotPosition(after[E[p]], in.leaves) = E[E[p]]

(* It holds after a fusion. *)
LEMMA FastFuses ==
    ASSUME NEW in, NEW S, NEW E, NEW after, NEW before, NEW p, NEW count, NEW B,
           FastHolds(in, S, E, after, before, p, count, B), p # -1, after[p] # -1,
           NEW E1, NEW after1, NEW before1,
           FuseLinks(E, after, before, p, E1, after1, before1),
           NEW count1 \in Nat, count1 # 0
    PROVE  FastFused(in, S, E, after, before, p, B, E1, after1, before1, count1)
<1> DEFINE n == in.leaves
           v == after[p]
           S1 == S \ {v}
           B1 == B \ ReleasedOn(E, after, before, p)
<1>1. /\ p \in S /\ Links(S, E, after, before, n) /\ IsInput(in)
      /\ \A t \in B : t \in Triples(n) /\ Adjacent(S \cup {n}, t)
  BY DEF FastHolds
<1>2. /\ Links(S1, E1, after1, before1, n)
      /\ S1 \cup {n} = (S \cup {n}) \ {v}
      /\ v \in S /\ v = E[p] /\ p \in S1 /\ after1[p] = after[v]
  <2>1. Links(S, E, after, before, n)
    BY <1>1
  <2>2. p \in S /\ after[p] # -1 /\ FuseLinks(E, after, before, p, E1, after1, before1)
    BY <1>1
  <2>3. LinksFused(S, E, after, p, E1, after1, before1, n)
    BY ONLY <2>1, <2>2, LinksFuse
  <2> QED BY <2>3 DEF LinksFused
<1>3. after1[p] = -1 \/ after1[p] \in S1
  BY <1>2, LinksAfter
<1>4. \A t \in B : t \in ReleasedOn(E, after, before, p) <=> ~Adjacent((S \cup {n}) \ {v}, t)
  BY <1>1, ReleasedLinks
<1>5. B1 = {t \in B : Adjacent(S1 \cup {n}, t)}
  BY <1>2, <1>4
<1>6. FastHolds(in, S1, E1, after1, before1, after[v], count1, B1)
  <2>1. after[v] \in S1 \cup {-1}
    BY <1>2, <1>3
  <2>2. \A t \in B1 : t \in Triples(n) /\ Adjacent(S1 \cup {n}, t)
    BY <1>1, <1>5
  <2> HIDE DEF S1, B1, v
  <2> QED BY <1>1, <1>2, <2>1, <2>2 DEF FastHolds
<1>7. SlotPosition(after[v], n) = E[v]
  <2>1. after[v] = -1 <=> E[v] = n
    BY <1>1, <1>2, LinksAfter
  <2>2. after[v] # -1 => after[v] = E[v]
    BY <1>1, <1>2, LinksAfter
  <2> QED BY <2>1, <2>2 DEF SlotPosition
<1> QED BY <1>2, <1>5, <1>6, <1>7 DEF FastFused

(* The end of a pass: nothing is ahead, and in a pass that has fused       *)
(* nothing, nothing behind.                                                *)
LEMMA FastGoesOn ==
    ASSUME NEW in, NEW S, NEW E, NEW after, NEW before, NEW p, NEW count, NEW B,
           FastHolds(in, S, E, after, before, p, count, B), p = -1 \/ after[p] = -1
    PROVE  /\ FastHolds(in, S, E, after, before, 0, 0, B)
           /\ TurnOn(in, S, B, SlotPosition(p, in.leaves)) = TurnOn(in, S, B, SlotPosition(0, in.leaves))
           /\ count = 0 => TurnOn(in, S, B, SlotPosition(p, in.leaves)) = None
<1> DEFINE n == in.leaves
<1>1. /\ Links(S, E, after, before, n) /\ IsInput(in) /\ n \in Nat /\ 0 \in S
      /\ \A t \in B : t \in Triples(n) /\ Adjacent(S \cup {n}, t)
  BY DEF FastHolds, IsInput, Links, GroupsOf
<1>2. SlotPosition(0, n) = 0
  BY DEF SlotPosition
<1>3. /\ \A t \in OpenOn(in, S, B) : ~(t[1] >= n) /\ t[1] >= 0
      /\ TurnOn(in, S, B, n) = TurnOn(in, S, B, 0)
  BY <1>1, LinkEnds
<1>4. FastHolds(in, S, E, after, before, 0, 0, B)
  BY <1>1, <1>2, <1>3 DEF FastHolds
<1>5. /\ TurnOn(in, S, B, SlotPosition(p, n)) = TurnOn(in, S, B, n)
      /\ \A t \in OpenOn(in, S, B) : t[1] >= SlotPosition(p, n) => t[1] >= n
  <2>1. CASE p = -1
    BY <2>1 DEF SlotPosition
  <2>2. CASE p # -1
    <3>1. after[p] = -1
      BY <2>2
    <3>2. p \in S /\ GroupsOf(S, E, n) /\ SlotPosition(p, n) = p /\ SlotPosition(after[p], n) = E[p]
      BY <2>2, FastTurn
    <3>3. E[p] = n
      BY <3>1, <3>2 DEF SlotPosition
    <3>4. n \notin S
      BY <3>2, GroupFacts
    <3>5. ~LinkReady(in, S, E, p, B)
      BY <3>3, <3>4 DEF LinkReady
    <3>6. /\ \A t \in OpenOn(in, S, B) : t[1] >= p <=> t[1] >= E[p]
          /\ TurnOn(in, S, B, p) = TurnOn(in, S, B, E[p])
      BY <3>2, <3>5, LinkTurn
    <3> QED BY <3>2, <3>3, <3>6
  <2> QED BY <2>1, <2>2
<1>6. ASSUME count = 0
      PROVE  TurnOn(in, S, B, SlotPosition(p, n)) = None
  <2>1. \A t \in OpenOn(in, S, B) : t[1] >= SlotPosition(p, n)
    BY <1>6 DEF FastHolds
  <2>2. OpenOn(in, S, B) = {}
    BY <1>3, <1>5, <2>1
  <2> QED BY <2>2, TurnNone DEF TurnOn, OpenOn
<1> QED BY <1>2, <1>3, <1>4, <1>5, <1>6

--------------------------------------------------------------------------------
(* The inline loop.  J are its blocked positions, and place is where the   *)
(* group of a position is among the groups now.                            *)
KeysAt(groups, J) == {KeyOf(groups, j) : j \in J}
Place(remap, m, k, j) == IF j < k THEN remap[j] ELSE m + j - k + 1

(* Position p of the groups as they are holds the group at position j of   *)
(* the pass, with the same neighbour, and was left behind if j was passed. *)
PlacedAt(G, groups, m, k, j, p) ==
    /\ p \in 1..(Len(G) - 1)
    /\ G[p] = groups[j] /\ G[p + 1] = groups[j + 1]
    /\ j < k => p <= m
    /\ j < k - 1 => p < m

(* Every blocked position has a place. *)
PlacesOf(behind, groups, k, remap, J) ==
    /\ remap \in Seq(Nat) /\ Len(remap) = k - 1
    /\ \A j \in J :
          /\ j \in 1..(Len(groups) - 1)
          /\ PlacedAt(Joined(behind, groups, k), groups, Len(behind), k, j,
                      Place(remap, Len(behind), k, j))

(* Which group a pair is of says where it is.                              *)
LEMMA KeysApart ==
    ASSUME NEW groups, NEW n \in Nat, Chain(groups, 0, n),
           NEW i \in 1..(Len(groups) - 1), NEW j \in 1..(Len(groups) - 1),
           KeyOf(groups, i) = KeyOf(groups, j)
    PROVE  i = j
<1>1. Len(groups) \in Nat /\ \A r \in 1..Len(groups) : groups[r][1] \in Nat /\ groups[r][2] \in Nat
  BY ChainFacts
<1>2. /\ \A r \in 1..Len(groups) : groups[r][1] < groups[r][2]
      /\ \A r, q \in 1..Len(groups) : r < q => groups[r][2] <= groups[q][1]
  BY DEF Chain
<1>3. groups[i][1] = groups[j][1]
  BY DEF KeyOf
<1>4. i \in 1..Len(groups) /\ j \in 1..Len(groups)
  BY <1>1
<1> QED BY <1>1, <1>2, <1>3, <1>4

(* The blocked pairs are the pairs of the blocked positions.               *)
LEMMA BlocksAreKeys ==
    ASSUME NEW behind, NEW groups, NEW k, NEW remap, NEW J,
           PlacesOf(behind, groups, k, remap, J)
    PROVE  KeysAt(Joined(behind, groups, k), {Place(remap, Len(behind), k, j) : j \in J}) = KeysAt(groups, J)
<1> DEFINE G == Joined(behind, groups, k)
           P(j) == Place(remap, Len(behind), k, j)
<1>1. \A j \in J : KeyOf(G, P(j)) = KeyOf(groups, j)
  BY DEF PlacesOf, PlacedAt, KeyOf
<1> HIDE DEF G, P
<1>2. {KeyOf(G, p) : p \in {P(j) : j \in J}} = {KeyOf(groups, j) : j \in J}
  BY <1>1
<1> QED BY <1>2 DEF KeysAt, G, P

(* Keeping a group changes no group, and so no place.                      *)
RemapKeep(remap, m, remap1) == remap1 = Append(remap, m + 1)
RemapFuse(remap, m, remap1) == remap1 = remap \o <<m + 1, m + 1>>

(* The groups as they are: those left behind, and those of the pass from   *)
(* the cursor on.                                                          *)
JoinsOf(A, C, k) ==
    /\ Joined(A, C, k) \in Seq(Nat \X Nat)
    /\ Len(Joined(A, C, k)) = Len(A) + Len(C) - k + 1
    /\ \A i \in 1..Len(A) : Joined(A, C, k)[i] = A[i]
    /\ \A i \in k..Len(C) : Joined(A, C, k)[Len(A) + i - k + 1] = C[i]

(* Joined is that list. *)
LEMMA JoinedIs ==
    ASSUME NEW A \in Seq(Nat \X Nat), NEW C \in Seq(Nat \X Nat),
           NEW k \in 1..(Len(C) + 1)
    PROVE  JoinsOf(A, C, k)
BY GroupsStart DEF JoinsOf

(* Keeping a group leaves the list as it is. *)
LEMMA JoinedKeep ==
    ASSUME NEW behind, NEW groups, NEW k, NEW n, ListsOf(behind, groups, k, n),
           k <= Len(groups),
           NEW behind1, NEW groups1, NEW k1,
           KeepAt(behind, groups, k, behind1, groups1, k1)
    PROVE  Joined(behind1, groups1, k1) = Joined(behind, groups, k) /\ Len(behind1) = Len(behind) + 1
<1> DEFINE G == Joined(behind, groups, k)
           G1 == Joined(behind1, groups1, k1)
           m == Len(behind)
           c == Len(groups)
<1>1. /\ behind \in Seq(Nat \X Nat) /\ groups \in Seq(Nat \X Nat)
      /\ k \in 1..(c + 1)
      /\ k \in 1..c /\ k + 1 \in 1..(c + 1) /\ m \in Nat /\ c \in Nat
      /\ k \in Nat
      /\ groups[k] \in Nat \X Nat
  <2>1. behind \in Seq(Nat \X Nat) /\ groups \in Seq(Nat \X Nat) /\ k \in 1..(c + 1)
    BY DEF ListsOf, Chain
  <2> QED BY <2>1
<1>2. behind1 = Append(behind, groups[k]) /\ groups1 = groups /\ k1 = k + 1
  BY DEF KeepAt
<1>3. /\ behind1 \in Seq(Nat \X Nat) /\ Len(behind1) = m + 1
      /\ \A i \in 1..m : behind1[i] = behind[i]
      /\ behind1[m + 1] = groups[k]
  BY <1>1, <1>2, AppendProperties
<1>4. /\ G \in Seq(Nat \X Nat) /\ Len(G) = m + c - k + 1
      /\ \A i \in 1..m : G[i] = behind[i]
      /\ \A i \in k..c : G[m + i - k + 1] = groups[i]
  <2>1. JoinsOf(behind, groups, k)
    BY <1>1, JoinedIs
  <2> QED BY <2>1 DEF JoinsOf
<1>5. /\ Joined(behind1, groups, k + 1) \in Seq(Nat \X Nat)
      /\ Len(Joined(behind1, groups, k + 1)) = (m + 1) + c - (k + 1) + 1
      /\ \A i \in 1..(m + 1) : Joined(behind1, groups, k + 1)[i] = behind1[i]
      /\ \A i \in (k + 1)..c : Joined(behind1, groups, k + 1)[(m + 1) + i - (k + 1) + 1] = groups[i]
  <2>1. JoinsOf(behind1, groups, k + 1)
    BY <1>1, <1>3, JoinedIs
  <2> QED BY <1>3, <2>1 DEF JoinsOf
<1>6. G1 = Joined(behind1, groups, k + 1)
  BY <1>2
<1> HIDE DEF G, G1, m, c
<1>7. Len(G1) = Len(G) /\ G1 \in Seq(Nat \X Nat)
  BY <1>1, <1>4, <1>5, <1>6
<1>8. ASSUME NEW i \in 1..Len(G)
      PROVE  G1[i] = G[i]
  <2>1. CASE i <= m
    <3>1. i \in 1..m /\ i \in 1..(m + 1)
      BY <1>1, <1>4, <2>1
    <3> QED BY <1>3, <1>4, <1>5, <1>6, <3>1
  <2>2. CASE i = m + 1
    <3>1. k \in k..c /\ m + k - k + 1 = m + 1 /\ m + 1 \in 1..(m + 1)
      BY <1>1
    <3>2. G[m + 1] = groups[k]
      BY <1>4, <3>1
    <3> QED BY <1>3, <1>5, <1>6, <2>2, <3>1, <3>2
  <2>3. CASE i > m + 1
    <3> DEFINE j == i - m + k - 1
    <3>1. /\ j \in k..c /\ j \in (k + 1)..c /\ m + j - k + 1 = i
          /\ (m + 1) + j - (k + 1) + 1 = i
      BY <1>1, <1>4, <2>3
    <3> HIDE DEF j
    <3> QED BY <1>4, <1>5, <1>6, <3>1
  <2>4. i \in Int /\ m \in Int
    BY <1>1, <1>4
  <2> QED BY ONLY <2>1, <2>2, <2>3, <2>4
<1>9. G1 = G
  BY <1>4, <1>7, <1>8, SeqEqual
<1> QED BY <1>3, <1>9 DEF G, G1, m

(* Keeping a group leaves every blocked pair in its place. *)
LEMMA PlacesKeep ==
    ASSUME NEW behind, NEW groups, NEW k, NEW n, ListsOf(behind, groups, k, n),
           k <= Len(groups),
           NEW behind1, NEW groups1, NEW k1,
           KeepAt(behind, groups, k, behind1, groups1, k1),
           NEW remap, NEW J, PlacesOf(behind, groups, k, remap, J),
           NEW remap1, RemapKeep(remap, Len(behind), remap1),
           NEW J1, J1 = J \/ (J1 = J \cup {k} /\ k < Len(groups))
    PROVE  PlacesOf(behind1, groups1, k1, remap1, J1)
<1> DEFINE G == Joined(behind, groups, k)
           m == Len(behind)
           c == Len(groups)
<1>1. /\ Joined(behind1, groups1, k1) = G /\ Len(behind1) = m + 1
      /\ groups1 = groups /\ k1 = k + 1
  <2>1. Joined(behind1, groups1, k1) = Joined(behind, groups, k) /\ Len(behind1) = Len(behind) + 1
    BY JoinedKeep
  <2> QED BY <2>1 DEF KeepAt
<1>2. /\ behind \in Seq(Nat \X Nat) /\ groups \in Seq(Nat \X Nat)
      /\ m \in Nat /\ c \in Nat /\ k \in Nat /\ k \in 1..(c + 1) /\ k <= c
      /\ k >= 1
  BY DEF ListsOf, Chain
<1>3. /\ Len(G) = m + c - k + 1
      /\ \A i \in k..c : G[m + i - k + 1] = groups[i]
  <2>1. JoinsOf(behind, groups, k)
    BY <1>2, JoinedIs
  <2> QED BY <2>1 DEF JoinsOf
<1>4. /\ remap \in Seq(Nat) /\ Len(remap) = k - 1
      /\ \A j \in J : /\ j \in 1..(c - 1)
                      /\ PlacedAt(G, groups, m, k, j, Place(remap, m, k, j))
  BY DEF PlacesOf
<1> HIDE DEF G, m, c
<1>5. /\ remap1 \in Seq(Nat) /\ Len(remap1) = k
      /\ \A j \in 1..(k - 1) : remap1[j] = remap[j]
      /\ remap1[k] = m + 1
  <2>1. remap1 = Append(remap, m + 1) /\ m + 1 \in Nat
    BY <1>2 DEF RemapKeep, m
  <2>2. /\ remap1 \in Seq(Nat) /\ Len(remap1) = (k - 1) + 1
        /\ \A j \in 1..(k - 1) : remap1[j] = remap[j]
        /\ remap1[(k - 1) + 1] = m + 1
    BY <1>4, <2>1, AppendProperties
  <2> QED BY <1>2, <2>2
<1>6. ASSUME NEW j \in J
      PROVE  /\ j \in 1..(c - 1)
             /\ PlacedAt(G, groups, m + 1, k + 1, j, Place(remap1, m + 1, k + 1, j))
  <2> DEFINE p == Place(remap, m, k, j)
  <2>1. j \in 1..(c - 1) /\ PlacedAt(G, groups, m, k, j, p) /\ j \in Nat /\ j >= 1
    BY <1>4
  <2>2. Place(remap1, m + 1, k + 1, j) = p
    <3>1. CASE j < k
      BY <1>2, <1>5, <2>1, <3>1 DEF Place
    <3>2. CASE j = k
      BY <1>2, <1>5, <3>2 DEF Place
    <3>3. CASE j > k
      BY <1>2, <2>1, <3>3 DEF Place
    <3> QED BY <1>2, <2>1, <3>1, <3>2, <3>3
  <2>3. j = k => p = m + 1
    BY <1>2 DEF Place
  <2> HIDE DEF p
  <2>4. p \in Nat
    BY <2>1 DEF PlacedAt
  <2>5. PlacedAt(G, groups, m + 1, k + 1, j, p)
    BY <1>2, <2>1, <2>3, <2>4 DEF PlacedAt
  <2> QED BY <2>1, <2>2, <2>5
<1>7. ASSUME k < c
      PROVE  /\ k \in 1..(c - 1)
             /\ PlacedAt(G, groups, m + 1, k + 1, k, Place(remap1, m + 1, k + 1, k))
  <2>1. Place(remap1, m + 1, k + 1, k) = m + 1
    BY <1>2, <1>5 DEF Place
  <2>2. /\ k \in 1..(c - 1) /\ m + 1 \in 1..(Len(G) - 1)
        /\ k \in k..c /\ k + 1 \in k..c
        /\ m + k - k + 1 = m + 1 /\ m + (k + 1) - k + 1 = (m + 1) + 1
    BY <1>2, <1>3, <1>7
  <2>3. G[m + 1] = groups[k] /\ G[(m + 1) + 1] = groups[k + 1]
    BY <1>3, <2>2
  <2>4. ~(k < (k + 1) - 1) /\ m + 1 <= m + 1
    BY <1>2
  <2>5. PlacedAt(G, groups, m + 1, k + 1, k, m + 1)
    BY <2>2, <2>3, <2>4 DEF PlacedAt
  <2> QED BY <2>1, <2>2, <2>5
<1>8. /\ Len(remap1) = (k + 1) - 1
      /\ \A j \in J1 : /\ j \in 1..(c - 1)
                       /\ PlacedAt(G, groups, m + 1, k + 1, j, Place(remap1, m + 1, k + 1, j))
  BY <1>2, <1>5, <1>6, <1>7 DEF c
<1> QED BY <1>1, <1>5, <1>8 DEF PlacesOf, G, m, c

(* Fusing two groups releases the positions next to them.                  *)
LEMMA PlacesFuse ==
    ASSUME NEW behind, NEW groups, NEW k, NEW n, ListsOf(behind, groups, k, n),
           k < Len(groups),
           NEW behind1, NEW groups1, NEW k1,
           FuseAt(behind, groups, k, behind1, groups1, k1),
           NEW remap, NEW J, PlacesOf(behind, groups, k, remap, J),
           NEW remap1, RemapFuse(remap, Len(behind), remap1)
    PROVE  /\ PlacesOf(behind1, groups1, k1, remap1, J \ {k - 1, k, k + 1})
           /\ Len(behind1) = Len(behind) + 1
<1> DEFINE G == Joined(behind, groups, k)
           G1 == Joined(behind1, groups, k + 2)
           m == Len(behind)
           c == Len(groups)
           x == <<groups[k][1], groups[k + 1][2]>>
<1>1. groups1 = groups /\ k1 = k + 2 /\ behind1 = Append(behind, x)
  BY DEF FuseAt
<1>2. /\ behind \in Seq(Nat \X Nat) /\ groups \in Seq(Nat \X Nat)
      /\ m \in Nat /\ c \in Nat /\ k \in Nat /\ k \in 1..(c + 1) /\ k < c
      /\ k >= 1
      /\ k + 2 \in 1..(c + 1) /\ x \in Nat \X Nat
  <2>1. /\ behind \in Seq(Nat \X Nat) /\ groups \in Seq(Nat \X Nat)
        /\ k \in 1..(c + 1) /\ k < c
    BY DEF ListsOf, Chain
  <2>2. m \in Nat /\ c \in Nat /\ k \in Nat /\ k \in 1..c /\ k + 1 \in 1..c /\ k + 2 \in 1..(c + 1)
    BY <2>1
  <2>3. groups[k] \in Nat \X Nat /\ groups[k + 1] \in Nat \X Nat
    BY <2>1, <2>2
  <2> QED BY <2>1, <2>2, <2>3
<1>3. /\ Len(G) = m + c - k + 1
      /\ \A i \in 1..m : G[i] = behind[i]
      /\ \A i \in k..c : G[m + i - k + 1] = groups[i]
  <2>1. JoinsOf(behind, groups, k)
    BY <1>2, JoinedIs
  <2> QED BY <2>1 DEF JoinsOf
<1>4. /\ behind1 \in Seq(Nat \X Nat) /\ Len(behind1) = m + 1
      /\ \A i \in 1..m : behind1[i] = behind[i]
  BY <1>1, <1>2, AppendProperties
<1>5. /\ Len(G1) = (m + 1) + c - (k + 2) + 1
      /\ \A i \in 1..(m + 1) : G1[i] = behind1[i]
      /\ \A i \in (k + 2)..c : G1[(m + 1) + i - (k + 2) + 1] = groups[i]
  <2>1. JoinsOf(behind1, groups, k + 2)
    BY <1>2, <1>4, JoinedIs
  <2> QED BY <1>4, <2>1 DEF JoinsOf
<1>6. /\ remap \in Seq(Nat) /\ Len(remap) = k - 1
      /\ \A j \in J : /\ j \in 1..(c - 1)
                      /\ PlacedAt(G, groups, m, k, j, Place(remap, m, k, j))
  BY DEF PlacesOf
<1> HIDE DEF G, G1, m, c, x
<1>7. /\ remap1 \in Seq(Nat) /\ Len(remap1) = k + 1
      /\ \A j \in 1..(k - 1) : remap1[j] = remap[j]
  <2>1. remap1 = remap \o <<m + 1, m + 1>> /\ <<m + 1, m + 1>> \in Seq(Nat) /\ Len(<<m + 1, m + 1>>) = 2
    BY <1>2 DEF RemapFuse, m
  <2>2. /\ remap1 \in Seq(Nat) /\ Len(remap1) = (k - 1) + 2
        /\ \A j \in 1..((k - 1) + 2) : remap1[j] = IF j <= k - 1 THEN remap[j] ELSE <<m + 1, m + 1>>[j - (k - 1)]
    BY <1>6, <2>1, ConcatProperties
  <2>3. (k - 1) + 2 = k + 1 /\ \A j \in 1..(k - 1) : j \in 1..((k - 1) + 2) /\ j <= k - 1
    BY <1>2
  <2> QED BY <2>2, <2>3
<1>8. ASSUME NEW j \in J, j \notin {k - 1, k, k + 1}
      PROVE  /\ j \in 1..(c - 1)
             /\ PlacedAt(G1, groups, m + 1, k + 2, j, Place(remap1, m + 1, k + 2, j))
  <2> DEFINE p == Place(remap, m, k, j)
             q == Place(remap1, m + 1, k + 2, j)
  <2>0. /\ j < k - 1 => q = remap1[j] /\ p = remap[j]
        /\ j >= k + 2 => q = (m + 1) + j - (k + 2) + 1
    <3>1. j \in Nat
      BY <1>2, <1>6
    <3>2. j < k - 1 => j < k + 2 /\ j < k
      BY <1>2, <3>1
    <3>3. j >= k + 2 => ~(j < k + 2)
      BY <1>2, <3>1
    <3> QED BY <3>2, <3>3 DEF Place
  <2>1. /\ j \in 1..(c - 1) /\ j \in Nat /\ j >= 1 /\ j <= c - 1
        /\ p \in 1..(Len(G) - 1) /\ G[p] = groups[j] /\ G[p + 1] = groups[j + 1]
        /\ (j < k - 1 => p < m)
    BY <1>2, <1>6 DEF PlacedAt
  <2> HIDE DEF p, q
  <2>2. CASE j < k - 1
    <3>1. q = p
      <4>1. j \in 1..(k - 1)
        BY <1>2, <2>1, <2>2
      <4>2. remap1[j] = remap[j]
        BY <1>7, <4>1
      <4> QED BY <2>0, <2>2, <4>2
    <3>2. p < m /\ p \in Nat /\ p >= 1
      BY <2>1, <2>2
    <3>3. p \in 1..m /\ p + 1 \in 1..m /\ p \in 1..(m + 1) /\ p + 1 \in 1..(m + 1) /\ p < m + 1 /\ p <= m + 1
      BY ONLY <1>2, <3>2
    <3>4. G1[p] = G[p] /\ G1[p + 1] = G[p + 1]
      BY <1>3, <1>4, <1>5, <3>3
    <3>5. p \in 1..(Len(G1) - 1)
      BY <1>2, <1>5, <3>2
    <3>6. PlacedAt(G1, groups, m + 1, k + 2, j, p)
      BY <2>1, <3>3, <3>4, <3>5 DEF PlacedAt
    <3> QED BY <2>1, <3>1, <3>6 DEF q
  <2>3. CASE j >= k + 2
    <3>1. q = (m + 1) + j - (k + 2) + 1
      BY <2>0, <2>3
    <3>2. j \in Nat /\ j <= c - 1
      BY <2>1
    <3>3. /\ j \in (k + 2)..c /\ j + 1 \in (k + 2)..c
          /\ q + 1 = (m + 1) + (j + 1) - (k + 2) + 1
          /\ ~(j < k + 2) /\ ~(j < (k + 2) - 1)
      BY ONLY <1>2, <2>3, <3>1, <3>2
    <3>4. G1[q] = groups[j] /\ G1[q + 1] = groups[j + 1]
      BY <1>5, <3>1, <3>3
    <3>5. q \in 1..(Len(G1) - 1)
      <4>1. Len(G1) = (m + 1) + c - (k + 2) + 1
        BY <1>5
      <4> QED BY ONLY <1>2, <3>1, <3>2, <2>3, <4>1
    <3>6. PlacedAt(G1, groups, m + 1, k + 2, j, q)
      BY <3>3, <3>4, <3>5 DEF PlacedAt
    <3> QED BY <2>1, <3>6 DEF q
  <2>4. j < k - 1 \/ j >= k + 2
    BY <1>2, <1>8, <2>1
  <2> QED BY <2>2, <2>3, <2>4
<1>9. Len(remap1) = (k + 2) - 1
  BY <1>2, <1>7
<1> QED BY <1>1, <1>4, <1>7, <1>8, <1>9 DEF PlacesOf, G1, m, c

(* The next pass knows each group by its place.                            *)
LEMMA PlacesNext ==
    ASSUME NEW behind, NEW groups, NEW k, NEW n, ListsOf(behind, groups, k, n),
           k > Len(groups),
           NEW remap, NEW J, PlacesOf(behind, groups, k, remap, J),
           NEW behind1, behind1 = <<>>, NEW k1, k1 = 1, NEW remap1,
           remap1 = <<>>,
           NEW J1, J1 = {remap[j] : j \in J}
    PROVE  PlacesOf(behind1, behind, k1, remap1, J1) /\ KeysAt(behind, J1) = KeysAt(groups, J)
<1> DEFINE G == Joined(behind, groups, k)
           m == Len(behind)
<1>1. /\ Joined(behind, groups, k) = behind
      /\ Joined(behind1, behind, k1) = behind
      /\ m \in Nat /\ behind \in Seq(Nat \X Nat) /\ k \in Nat
      /\ Len(groups) \in Nat
  <2>1. Joined(behind, groups, k) = behind /\ Joined(behind1, behind, k1) = behind
    BY ListsNextPass
  <2> QED BY <2>1 DEF ListsOf, Chain
<1>2. ASSUME NEW j \in J
      PROVE  /\ Place(remap, m, k, j) = remap[j]
             /\ remap[j] \in 1..(m - 1) /\ remap[j] \in Nat
             /\ behind[remap[j]] = groups[j]
             /\ behind[remap[j] + 1] = groups[j + 1]
  <2>1. /\ j \in 1..(Len(groups) - 1)
        /\ PlacedAt(behind, groups, m, k, j, Place(remap, m, k, j))
    BY <1>1 DEF PlacesOf
  <2>2. Place(remap, m, k, j) = remap[j]
    BY <1>1, <2>1 DEF Place
  <2> QED BY <2>1, <2>2 DEF PlacedAt
<1>3. ASSUME NEW p \in J1
      PROVE  p \in 1..(m - 1) /\ PlacedAt(behind, behind, 0, 1, p, Place(remap1, 0, 1, p))
  <2>1. p \in 1..(m - 1) /\ p \in Nat /\ p >= 1
    BY <1>2
  <2>2. Place(remap1, 0, 1, p) = p
    BY <2>1 DEF Place
  <2> QED BY <2>1, <2>2 DEF PlacedAt
<1>4. PlacesOf(behind1, behind, k1, remap1, J1)
  BY <1>1, <1>3 DEF PlacesOf
<1>5. \A j \in J : KeyOf(behind, remap[j]) = KeyOf(groups, j)
  BY <1>2 DEF KeyOf
<1>6. KeysAt(behind, J1) = KeysAt(groups, J)
  BY <1>5 DEF KeysAt
<1> QED BY <1>4, <1>6

(* Blocked pairs are fewer than the leaves.                                *)
LEMMA BlocksCount ==
    ASSUME NEW n \in Nat \ {0}, NEW bounds, bounds \subseteq 0..n,
           NEW B, \A t \in B : t \in Triples(n) /\ Adjacent(bounds, t)
    PROVE  IsFiniteSet(B) /\ Cardinality(B) \in Nat /\ Cardinality(B) <= n - 1
<1> DEFINE T == 1..(n - 1)
           f == [t \in B |-> t[2]]
<1>1. \A t \in B : t[2] \in T
  <2>1. \A t \in B : t[1] \in 0..n /\ t[2] \in 0..n /\ t[3] \in 0..n /\ t[1] < t[2] /\ t[2] < t[3]
    BY TripleIs
  <2> QED BY <2>1
<1>2. ASSUME NEW s \in B, NEW t \in B, s[2] = t[2]
      PROVE  s = t
  <2>1. /\ s = <<s[1], s[2], s[3]>> /\ s[1] \in Nat /\ s[2] \in Nat
        /\ s[3] \in Nat /\ s[1] < s[2] /\ s[2] < s[3]
        /\ t = <<t[1], t[2], t[3]>> /\ t[1] \in Nat /\ t[2] \in Nat
        /\ t[3] \in Nat /\ t[1] < t[2] /\ t[2] < t[3]
    BY TripleIs
  <2>2. Adjacent(bounds, s) /\ Adjacent(bounds, t)
    OBVIOUS
  <2>3. s[1] = t[1]
    BY <1>2, <2>1, <2>2 DEF Adjacent
  <2>4. s[3] = t[3]
    BY <1>2, <2>1, <2>2 DEF Adjacent
  <2> QED BY ONLY <1>2, <2>1, <2>3, <2>4
<1>3. f \in Injection(B, T)
  BY <1>1, <1>2 DEF Injection, IsInjective
<1>4. IsFiniteSet(T) /\ Cardinality(T) = n - 1
  <2>1. 1 \in Int /\ n - 1 \in Int
    OBVIOUS
  <2>2. IsFiniteSet(1..(n - 1)) /\ Cardinality(1..(n - 1)) = IF 1 > n - 1 THEN 0 ELSE (n - 1) - 1 + 1
    BY <2>1, FS_Interval
  <2> QED BY <2>2
<1> HIDE DEF T, f
<1>5. IsFiniteSet(B) /\ Cardinality(B) <= Cardinality(T)
  BY <1>3, <1>4, FS_Injection
<1>6. Cardinality(B) \in Nat
  BY <1>5, FS_CardinalityType
<1> QED BY <1>4, <1>5, <1>6

(* A draw for every fused pair releases at most as many blocks as there    *)
(* are leaves, and each block took one draw.                               *)
Fewer(behind, groups, k, n) == n - (Len(behind) + Len(groups) - k + 1)

(* What holds of the inline loop: its groups and blocked pairs are as the  *)
(* reference engine's, its positions have places, and it has drawn no more *)
(* than once for a pair between two fusions.                               *)
InlineHolds(in, behind, groups, k, fused, remap, J, draws) ==
    /\ fused \in BOOLEAN
    /\ ReferenceHolds(in, behind, groups, k, IF fused THEN 1 ELSE 0, KeysAt(groups, J))
    /\ PlacesOf(behind, groups, k, remap, J)
    /\ draws \in Nat
    /\ draws <= Fewer(behind, groups, k, in.leaves) * in.leaves + Cardinality(KeysAt(groups, J))

(* What the loop refuses is what the reference engine refuses. *)
Plain(in) == in.cuts = {} /\ in.legal = Triples(in.leaves)

(* A position it fuses is a pair that the reference engine fuses. *)
LEMMA InlineReady ==
    ASSUME NEW in, NEW behind, NEW groups, NEW k, NEW fused, NEW remap, NEW J,
           NEW draws,
           InlineHolds(in, behind, groups, k, fused, remap, J, draws), Plain(in)
    PROVE  /\ Ready(in, groups, k, KeysAt(groups, J)) <=>
                k < Len(groups) /\ k \notin J /\ <<groups[k][1], groups[k + 1][2]>> \in in.table
           /\ k < Len(groups) /\ k \notin J => KeyOf(groups, k) \notin KeysAt(groups, J)
<1>1. /\ ListsOf(behind, groups, k, in.leaves) /\ in.leaves \in Nat
      /\ k \in Nat /\ k >= 1 /\ Len(groups) \in Nat
      /\ Chain(groups, 0, in.leaves)
      /\ \A j \in J : j \in 1..(Len(groups) - 1)
  <2>1. ListsOf(behind, groups, k, in.leaves) /\ IsInput(in)
    BY DEF InlineHolds, ReferenceHolds
  <2>2. Len(groups) \in Nat
    BY <2>1, NoBoundInside
  <2> QED BY <2>1, <2>2 DEF ListsOf, IsInput, InlineHolds, PlacesOf
<1>2. ASSUME k < Len(groups)
      PROVE  /\ KeyOf(groups, k) \in KeysAt(groups, J) <=> k \in J
             /\ KeyOf(groups, k) \in Triples(in.leaves)
  <2>1. k \in 1..(Len(groups) - 1) /\ k \in k..Len(groups)
    BY <1>1, <1>2
  <2>2. KeyOf(groups, k) \in Triples(in.leaves)
    BY <1>1, <1>2, <2>1, KeyIsAPair
  <2>3. ASSUME KeyOf(groups, k) \in KeysAt(groups, J)
        PROVE  k \in J
    <3>1. PICK j \in J : KeyOf(groups, k) = KeyOf(groups, j)
      BY <2>3 DEF KeysAt
    <3>2. k = j
      BY <1>1, <2>1, <3>1, KeysApart
    <3> QED BY <3>1, <3>2
  <2> QED BY <2>2, <2>3 DEF KeysAt
<1>3. KeyOf(groups, k)[1] = groups[k][1] /\ KeyOf(groups, k)[3] = groups[k + 1][2]
  BY DEF KeyOf
<1> QED BY <1>2, <1>3 DEF Ready, Admitted, Resolves, Plain

(* There is room for a draw. *)
LEMMA InlineRoom ==
    ASSUME NEW in, NEW behind, NEW groups, NEW k, NEW fused, NEW remap, NEW J,
           NEW draws,
           InlineHolds(in, behind, groups, k, fused, remap, J, draws), k < Len(groups),
           \A t \in Triples(in.leaves) : in.tape >= in.leaves * t[3]
    PROVE  draws < in.tape
<1> DEFINE n == in.leaves
           F == Fewer(behind, groups, k, n)
           C == Cardinality(KeysAt(groups, J))
<1>1. /\ ListsOf(behind, groups, k, n) /\ n \in Nat \ {0} /\ n \in Nat
      /\ in.tape \in Nat
      /\ k \in Nat /\ k >= 1 /\ Len(groups) \in Nat /\ Len(behind) \in Nat
      /\ draws \in Nat /\ draws <= F * n + C
      /\ \A t \in KeysAt(groups, J) : t \in Triples(n) /\ Adjacent(BoundsOf(behind, groups, k, n), t)
  <2>1. ListsOf(behind, groups, k, n) /\ IsInput(in) /\ BlocksOf(behind, groups, k, n, KeysAt(groups, J))
    BY DEF InlineHolds, ReferenceHolds
  <2>2. Len(groups) \in Nat
    BY <2>1, NoBoundInside
  <2>3. Len(behind) \in Nat
    BY <2>1 DEF ListsOf, Chain
  <2> QED BY <2>1, <2>2, <2>3 DEF ListsOf, IsInput, InlineHolds, BlocksOf
<1>2. C \in Nat /\ C <= n - 1
  <2>1. BoundsOf(behind, groups, k, n) \subseteq 0..n
    BY <1>1, NoBoundInside
  <2> QED BY <1>1, <2>1, BlocksCount
<1>3. F <= n - 1 /\ F \in Int
  BY <1>1 DEF Fewer
<1>4. n >= 2
  <2>1. k \in k..Len(groups)
    BY <1>1
  <2>2. KeyOf(groups, k) \in Triples(n)
    BY <1>1, <2>1, KeyIsAPair
  <2> DEFINE t == KeyOf(groups, k)
  <2>3. t[1] \in 0..n /\ t[2] \in 0..n /\ t[3] \in 0..n /\ t[1] < t[2] /\ t[2] < t[3]
    BY <1>1, <2>2, TripleIs
  <2> HIDE DEF t, n
  <2> QED BY <1>1, <2>3
<1>5. in.tape >= n * n
  <2>1. <<0, 1, n>> \in Triples(n)
    BY <1>1, <1>4 DEF Triples
  <2> QED BY <2>1
<1> HIDE DEF n, F, C
<1>6. F * n <= (n - 1) * n
  BY <1>1, <1>3
<1>7. (n - 1) * n + (n - 1) < n * n
  BY <1>1
<1>8. F * n \in Int /\ (n - 1) * n \in Int /\ n * n \in Int
  BY <1>1, <1>3
<1> QED BY <1>1, <1>2, <1>5, <1>6, <1>7, <1>8

(* The parts of it. *)
LEMMA InlineParts ==
    ASSUME NEW in, NEW behind, NEW groups, NEW k, NEW fused, NEW remap, NEW J,
           NEW draws,
           InlineHolds(in, behind, groups, k, fused, remap, J, draws)
    PROVE  /\ ListsOf(behind, groups, k, in.leaves)
           /\ PlacesOf(behind, groups, k, remap, J)
           /\ ReferenceHolds(in, behind, groups, k, IF fused THEN 1 ELSE 0, KeysAt(groups, J))
           /\ fused \in BOOLEAN /\ in.leaves \in Nat \ {0} /\ draws \in Nat
           /\ draws <= Fewer(behind, groups, k, in.leaves) * in.leaves + Cardinality(KeysAt(groups, J))
           /\ k \in Nat /\ k >= 1 /\ Len(groups) \in Nat /\ Len(behind) \in Nat
           /\ Fewer(behind, groups, k, in.leaves) \in Int
           /\ IsFiniteSet(KeysAt(groups, J))
           /\ Cardinality(KeysAt(groups, J)) \in Nat
           /\ Cardinality(KeysAt(groups, J)) <= in.leaves - 1
<1> DEFINE n == in.leaves
           B == KeysAt(groups, J)
<1>1. /\ ListsOf(behind, groups, k, n) /\ IsInput(in)
      /\ BlocksOf(behind, groups, k, n, B)
      /\ fused \in BOOLEAN /\ PlacesOf(behind, groups, k, remap, J)
      /\ draws \in Nat
      /\ ReferenceHolds(in, behind, groups, k, IF fused THEN 1 ELSE 0, B)
      /\ draws <= Fewer(behind, groups, k, n) * n + Cardinality(B)
  BY DEF InlineHolds, ReferenceHolds
<1>2. n \in Nat \ {0} /\ k \in Nat /\ k >= 1 /\ Len(groups) \in Nat /\ Len(behind) \in Nat
  <2>1. Len(groups) \in Nat
    BY <1>1, NoBoundInside
  <2> QED BY <1>1, <2>1 DEF ListsOf, Chain, IsInput
<1>3. BoundsOf(behind, groups, k, n) \subseteq 0..n
  BY <1>1, NoBoundInside
<1>4. \A t \in B : t \in Triples(n) /\ Adjacent(BoundsOf(behind, groups, k, n), t)
  BY <1>1 DEF BlocksOf
<1>5. IsFiniteSet(B) /\ Cardinality(B) \in Nat /\ Cardinality(B) <= n - 1
  <2> HIDE DEF B, n
  <2> QED BY <1>2, <1>3, <1>4, BlocksCount
<1>6. Fewer(behind, groups, k, n) \in Int
  BY <1>2 DEF Fewer
<1> QED BY <1>1, <1>2, <1>5, <1>6

(* Every leaf for itself.                                                  *)
LEMMA InlineBegins ==
    ASSUME NEW in, IsInput(in), NEW groups,
           groups = [k \in 1..in.leaves |-> <<k - 1, k>>],
           NEW behind, behind = <<>>, NEW k, k = 1, NEW remap, remap = <<>>
    PROVE  InlineHolds(in, behind, groups, k, FALSE, remap, {}, 0)
<1>1. ReferenceHolds(in, behind, groups, k, 0, {})
  BY ReferenceBegins
<1>2. KeysAt(groups, {}) = {}
  BY DEF KeysAt
<1>3. PlacesOf(behind, groups, k, remap, {})
  BY DEF PlacesOf
<1>4. Fewer(behind, groups, k, in.leaves) * in.leaves + Cardinality({}) = 0
  <2>1. in.leaves \in Nat
    BY DEF IsInput
  <2>2. Len(groups) = in.leaves /\ Len(behind) = 0
    BY <2>1
  <2>3. Fewer(behind, groups, k, in.leaves) = 0
    BY <2>1, <2>2 DEF Fewer
  <2>4. Cardinality({}) = 0
    BY FS_EmptySet
  <2> QED BY <2>1, <2>3, <2>4
<1>5. ReferenceHolds(in, behind, groups, k, IF FALSE THEN 1 ELSE 0, KeysAt(groups, {}))
  BY <1>1, <1>2
<1>6. 0 \in Nat /\ 0 <= Fewer(behind, groups, k, in.leaves) * in.leaves + Cardinality(KeysAt(groups, {}))
  BY ONLY <1>2, <1>4
<1> QED BY ONLY <1>3, <1>5, <1>6 DEF InlineHolds

(* A group is kept because it is not to be fused, or blocked and kept.     *)
SkipsOrDrops(in, groups, k, J, draws, J1, draws1) ==
    \/ J1 = J /\ draws1 = draws /\ ~Ready(in, groups, k, KeysAt(groups, J))
    \/ J1 = J \cup {k} /\ draws1 = draws + 1 /\ Ready(in, groups, k, KeysAt(groups, J))

(* It holds after a group is kept, dropped or not. *)
LEMMA InlineKeeps ==
    ASSUME NEW in, NEW behind, NEW groups, NEW k, NEW fused, NEW remap, NEW J,
           NEW draws,
           InlineHolds(in, behind, groups, k, fused, remap, J, draws), Plain(in), k <= Len(groups),
           NEW behind1, NEW groups1, NEW k1,
           KeepAt(behind, groups, k, behind1, groups1, k1),
           NEW remap1, RemapKeep(remap, Len(behind), remap1), NEW J1,
           NEW draws1,
           SkipsOrDrops(in, groups, k, J, draws, J1, draws1)
    PROVE  /\ InlineHolds(in, behind1, groups1, k1, fused, remap1, J1, draws1)
           /\ KeysAt(groups1, J1) = IF J1 = J THEN KeysAt(groups, J)
                                    ELSE KeysAt(groups, J) \cup {KeyOf(groups, k)}
<1> DEFINE n == in.leaves
           B == KeysAt(groups, J)
           B1 == KeysAt(groups1, J1)
           F == Fewer(behind, groups, k, n)
           count == IF fused THEN 1 ELSE 0
<1>1. /\ ListsOf(behind, groups, k, n) /\ PlacesOf(behind, groups, k, remap, J)
      /\ ReferenceHolds(in, behind, groups, k, count, B)
      /\ fused \in BOOLEAN /\ n \in Nat \ {0} /\ draws \in Nat
      /\ draws <= F * n + Cardinality(B)
      /\ k \in Nat /\ k >= 1 /\ Len(groups) \in Nat /\ Len(behind) \in Nat
      /\ F \in Int
      /\ IsFiniteSet(B) /\ Cardinality(B) \in Nat
  BY InlineParts
<1>2. groups1 = groups /\ k1 = k + 1
  BY DEF KeepAt
<1>3. Ready(in, groups, k, B) => k < Len(groups) /\ k \notin J /\ KeyOf(groups, k) \notin B
  BY InlineReady
<1>4. \/ B1 = B /\ J1 = J /\ draws1 = draws /\ ~Ready(in, groups, k, B)
      \/ B1 = B \cup {KeyOf(groups, k)} /\ J1 # J /\ draws1 = draws + 1 /\ Ready(in, groups, k, B)
  <2>1. CASE J1 = J /\ draws1 = draws /\ ~Ready(in, groups, k, B)
    BY <1>2, <2>1
  <2>2. CASE J1 = J \cup {k} /\ draws1 = draws + 1 /\ Ready(in, groups, k, B)
    <3>1. k \notin J
      BY <1>3, <2>2
    <3>2. {KeyOf(groups, j) : j \in J \cup {k}} = {KeyOf(groups, j) : j \in J} \cup {KeyOf(groups, k)}
      OBVIOUS
    <3> QED BY <1>2, <2>2, <3>1, <3>2 DEF KeysAt
  <2> QED BY <2>1, <2>2 DEF SkipsOrDrops
<1>5. PlacesOf(behind1, groups1, k1, remap1, J1)
  <2>1. J1 = J \/ (J1 = J \cup {k} /\ k < Len(groups))
    <3>1. SkipsOrDrops(in, groups, k, J, draws, J1, draws1)
      OBVIOUS
    <3> QED BY <1>3, <3>1 DEF SkipsOrDrops
  <2> QED BY <1>1, <2>1, PlacesKeep
<1>6. ReferenceHolds(in, behind1, groups1, k1, count, B1)
  <2>1. \/ B1 = B /\ ~Ready(in, groups, k, B)
        \/ B1 = B \cup {KeyOf(groups, k)} /\ Ready(in, groups, k, B)
    BY <1>4
  <2> HIDE DEF B, B1, count
  <2> QED BY <1>1, <2>1, ReferenceKeeps
<1>7. Fewer(behind1, groups1, k1, n) = F
  <2>1. Len(behind1) = Len(behind) + 1
    BY <1>1, JoinedKeep
  <2> QED BY <1>1, <1>2, <2>1 DEF Fewer
<1> HIDE DEF B, B1, F, n
<1>8. draws1 \in Nat /\ draws1 <= F * n + Cardinality(B1)
  <2>1. F * n \in Int
    BY <1>1
  <2>2. CASE B1 = B /\ draws1 = draws
    BY <1>1, <2>2
  <2>3. CASE B1 = B \cup {KeyOf(groups, k)} /\ draws1 = draws + 1 /\ Ready(in, groups, k, B)
    <3>1. Cardinality(B1) = Cardinality(B) + 1
      BY <1>1, <1>3, <2>3, FS_AddElement
    <3> QED BY <1>1, <2>1, <2>3, <3>1
  <2> QED BY <1>4, <2>2, <2>3
<1>9. InlineHolds(in, behind1, groups1, k1, fused, remap1, J1, draws1)
  BY <1>1, <1>5, <1>6, <1>7, <1>8 DEF InlineHolds, B1, n
<1> QED BY <1>4, <1>9 DEF B, B1

(* A fused pair releases the positions next to it and takes a draw, if     *)
(* there are any.                                                          *)
FusesAt(k, J, draws, fused1, J1, draws1) ==
    fused1 = TRUE /\ J1 = J \ {k - 1, k, k + 1} /\ (draws1 = draws \/ draws1 = draws + 1)

(* It holds after a fusion, which releases the blocks beside it. *)
LEMMA InlineFuses ==
    ASSUME NEW in, NEW behind, NEW groups, NEW k, NEW fused, NEW remap, NEW J,
           NEW draws,
           InlineHolds(in, behind, groups, k, fused, remap, J, draws), Plain(in),
           Ready(in, groups, k, KeysAt(groups, J)),
           NEW behind1, NEW groups1, NEW k1,
           FuseAt(behind, groups, k, behind1, groups1, k1),
           NEW remap1, RemapFuse(remap, Len(behind), remap1),
           NEW fused1, NEW J1, NEW draws1,
           FusesAt(k, J, draws, fused1, J1, draws1)
    PROVE  /\ InlineHolds(in, behind1, groups1, k1, fused1, remap1, J1, draws1)
           /\ KeysAt(groups1, J1) = KeysAt(groups, J) \ ReleasedBy(groups, k)
<1> DEFINE n == in.leaves
           B == KeysAt(groups, J)
           B1 == KeysAt(groups1, J1)
           F == Fewer(behind, groups, k, n)
           count == IF fused THEN 1 ELSE 0
<1>1. /\ ListsOf(behind, groups, k, n) /\ PlacesOf(behind, groups, k, remap, J)
      /\ ReferenceHolds(in, behind, groups, k, count, B)
      /\ fused \in BOOLEAN /\ n \in Nat \ {0} /\ draws \in Nat
      /\ draws <= F * n + Cardinality(B)
      /\ k \in Nat /\ k >= 1 /\ Len(groups) \in Nat /\ Len(behind) \in Nat
      /\ F \in Int
      /\ IsFiniteSet(B) /\ Cardinality(B) \in Nat /\ Cardinality(B) <= n - 1
  BY InlineParts
<1>2. groups1 = groups /\ k1 = k + 2 /\ k < Len(groups)
  BY DEF FuseAt, Ready
<1>0. fused1 = TRUE /\ J1 = J \ {k - 1, k, k + 1} /\ (draws1 = draws \/ draws1 = draws + 1)
  BY DEF FusesAt
<1>3. PlacesOf(behind1, groups1, k1, remap1, J1) /\ Len(behind1) = Len(behind) + 1
  BY <1>0, <1>1, <1>2, PlacesFuse
<1>4. B1 = B \ ReleasedBy(groups, k)
  <2>1. \A i, j \in 1..(Len(groups) - 1) : KeyOf(groups, i) = KeyOf(groups, j) => i = j
    BY <1>1, KeysApart DEF ListsOf
  <2>2. \A j \in J : j \in 1..(Len(groups) - 1)
    BY <1>1 DEF PlacesOf
  <2>3. ASSUME NEW j \in J
        PROVE  KeyOf(groups, j) \in ReleasedBy(groups, k) <=> j \in {k - 1, k, k + 1}
    <3>1. ASSUME KeyOf(groups, j) \in ReleasedBy(groups, k)
          PROVE  j \in {k - 1, k, k + 1}
      <4>1. PICK i \in {k - 1, k, k + 1} : KeyOf(groups, j) = KeyOf(groups, i) /\ i > 0 /\ i < Len(groups)
        BY <3>1 DEF ReleasedBy
      <4>2. i \in 1..(Len(groups) - 1)
        BY <1>1, <4>1
      <4> QED BY <2>1, <2>2, <4>1, <4>2
    <3>2. ASSUME j \in {k - 1, k, k + 1}
          PROVE  KeyOf(groups, j) \in ReleasedBy(groups, k)
      <4>1. j > 0 /\ j < Len(groups)
        BY <1>1, <2>2
      <4> QED BY <3>2, <4>1 DEF ReleasedBy
    <3> QED BY <3>1, <3>2
  <2>4. ASSUME NEW t \in B1
        PROVE  t \in B \ ReleasedBy(groups, k)
    <3>1. PICK j \in J1 : t = KeyOf(groups, j)
      BY <1>2, <2>4 DEF KeysAt
    <3> QED BY <1>0, <2>3, <3>1 DEF KeysAt
  <2>5. ASSUME NEW t \in B \ ReleasedBy(groups, k)
        PROVE  t \in B1
    <3>1. PICK j \in J : t = KeyOf(groups, j)
      BY <2>5 DEF KeysAt
    <3>2. j \in J1
      BY <1>0, <2>3, <2>5, <3>1
    <3> QED BY <1>2, <3>1, <3>2 DEF KeysAt
  <2> QED BY <2>4, <2>5
<1>5. ReferenceHolds(in, behind1, groups1, k1, 1, B1)
  <2>1. 1 \in Nat /\ 1 # 0
    OBVIOUS
  <2>2. Releases(groups, k, B, B1)
    BY <1>4 DEF Releases
  <2>3. /\ Ready(in, groups, k, B)
        /\ FuseAt(behind, groups, k, behind1, groups1, k1)
        /\ ReferenceHolds(in, behind, groups, k, count, B)
    BY <1>1
  <2> HIDE DEF B, B1, count
  <2>4. \A d \in Nat : d # 0 => ReferenceHolds(in, behind1, groups1, k1, d, B1)
    BY ONLY <2>2, <2>3, ReferenceFuses
  <2> QED BY <2>1, <2>4
<1>6. Fewer(behind1, groups1, k1, n) = F + 1
  BY <1>1, <1>2, <1>3 DEF Fewer
<1>7. Cardinality(B1) \in Nat
  <2>1. IsFiniteSet(B1)
    BY <1>1, <1>4, FS_Subset
  <2> QED BY <2>1, FS_CardinalityType
<1> HIDE DEF B, B1, F, n
<1>8. draws1 \in Nat /\ draws1 <= (F + 1) * n + Cardinality(B1)
  <2>1. (F + 1) * n = F * n + n /\ F * n \in Int
    BY <1>1
  <2> QED BY <1>0, <1>1, <1>7, <2>1
<1>9. InlineHolds(in, behind1, groups1, k1, fused1, remap1, J1, draws1)
  BY <1>0, <1>3, <1>5, <1>6, <1>8 DEF InlineHolds, B1, n
<1> QED BY <1>4, <1>9 DEF B, B1

(* The next pass starts with what this one has left behind.                *)
PassStarts(remap, J, behind1, k1, fused1, remap1, J1) ==
    behind1 = <<>> /\ k1 = 1 /\ fused1 = FALSE /\ remap1 = <<>> /\ J1 = {remap[j] : j \in J}

(* It holds in the next pass: remap carries the blocks over. *)
LEMMA InlineGoesOn ==
    ASSUME NEW in, NEW behind, NEW groups, NEW k, NEW fused, NEW remap, NEW J,
           NEW draws,
           InlineHolds(in, behind, groups, k, fused, remap, J, draws), k > Len(groups),
           NEW behind1, NEW k1, NEW fused1, NEW remap1, NEW J1,
           PassStarts(remap, J, behind1, k1, fused1, remap1, J1)
    PROVE  /\ InlineHolds(in, behind1, behind, k1, fused1, remap1, J1, draws)
           /\ KeysAt(behind, J1) = KeysAt(groups, J)
<1> DEFINE n == in.leaves
<1>1. /\ ListsOf(behind, groups, k, n) /\ PlacesOf(behind, groups, k, remap, J)
      /\ ReferenceHolds(in, behind, groups, k, IF fused THEN 1 ELSE 0, KeysAt(groups, J))
      /\ draws \in Nat /\ k \in Nat /\ Len(groups) \in Nat
      /\ Len(behind) \in Nat /\ n \in Nat
      /\ draws <= Fewer(behind, groups, k, n) * n + Cardinality(KeysAt(groups, J))
  BY InlineParts
<1>0. behind1 = <<>> /\ k1 = 1 /\ fused1 = FALSE /\ remap1 = <<>> /\ J1 = {remap[j] : j \in J}
  BY DEF PassStarts
<1>2. PlacesOf(behind1, behind, k1, remap1, J1) /\ KeysAt(behind, J1) = KeysAt(groups, J)
  BY <1>0, <1>1, PlacesNext
<1>3. ReferenceHolds(in, behind1, behind, k1, 0, KeysAt(groups, J))
  <2>1. \E c : c = behind
    OBVIOUS
  <2> QED BY <1>0, <1>1, <2>1, ReferenceGoesOn
<1>4. Fewer(behind1, behind, k1, n) = Fewer(behind, groups, k, n)
  <2>1. k = Len(groups) + 1
    <3>1. k \in 1..(Len(groups) + 1)
      BY <1>1 DEF ListsOf
    <3> QED BY <1>1, <3>1
  <2>2. Len(behind1) = 0
    BY <1>0
  <2> QED BY <1>0, <1>1, <2>1, <2>2 DEF Fewer
<1> QED BY <1>0, <1>1, <1>2, <1>3, <1>4 DEF InlineHolds
--------------------------------------------------------------------------------
(* The order of the native engine's heap Q.  First(Q) comes first.         *)
Earlier(c, d) == \E k \in 1..5 : c[k] < d[k] /\ \A j \in 1..(k - 1) : c[j] = d[j]
(* The candidate the heap gives first. *)
First(Q) == CHOOSE c \in Q : \A d \in Q \ {c} : Earlier(c, d)

Entries == Nat \X Nat \X Nat \X Nat \X Nat

(* The order of the heap, spelled out. *)
LEMMA EarlierIs ==
    ASSUME NEW c \in Entries, NEW d \in Entries
    PROVE  Earlier(c, d) <=>
             \/ c[1] < d[1]
             \/ c[1] = d[1] /\ c[2] < d[2]
             \/ c[1] = d[1] /\ c[2] = d[2] /\ c[3] < d[3]
             \/ c[1] = d[1] /\ c[2] = d[2] /\ c[3] = d[3] /\ c[4] < d[4]
             \/ c[1] = d[1] /\ c[2] = d[2] /\ c[3] = d[3] /\ c[4] = d[4] /\ c[5] < d[5]
<1> DEFINE At(k) == c[k] < d[k] /\ \A j \in 1..(k - 1) : c[j] = d[j]
<1>1. Earlier(c, d) <=> At(1) \/ At(2) \/ At(3) \/ At(4) \/ At(5)
  <2> HIDE DEF At
  <2>1. Earlier(c, d) <=> \E k \in 1..5 : At(k)
    BY DEF Earlier, At
  <2>2. 1..5 = {1, 2, 3, 4, 5}
    OBVIOUS
  <2> QED BY ONLY <2>1, <2>2
<1>2. /\ 1..(1 - 1) = {} /\ 1..(2 - 1) = {1} /\ 1..(3 - 1) = {1, 2}
      /\ 1..(4 - 1) = {1, 2, 3}
      /\ 1..(5 - 1) = {1, 2, 3, 4}
  OBVIOUS
<1>3. /\ At(1) <=> c[1] < d[1]
      /\ At(2) <=> c[2] < d[2] /\ c[1] = d[1]
  BY ONLY <1>2
<1>4. At(3) <=> c[3] < d[3] /\ c[1] = d[1] /\ c[2] = d[2]
  BY ONLY <1>2
<1>5. At(4) <=> c[4] < d[4] /\ c[1] = d[1] /\ c[2] = d[2] /\ c[3] = d[3]
  BY ONLY <1>2
<1>6. At(5) <=> c[5] < d[5] /\ c[1] = d[1] /\ c[2] = d[2] /\ c[3] = d[3] /\ c[4] = d[4]
  BY ONLY <1>2
<1> HIDE DEF At
<1> QED BY ONLY <1>1, <1>3, <1>4, <1>5, <1>6

(* One of a set is the least in one place. *)
LEMMA LeastAt ==
    ASSUME NEW Q, Q # {}, NEW k, \A c \in Q : c[k] \in Nat
    PROVE  \E c \in Q : \A d \in Q : c[k] <= d[k]
<1> DEFINE T == {c[k] : c \in Q}
<1>1. T \subseteq Nat /\ T # {}
  OBVIOUS
<1>2. PICK x \in T : \A y \in T : x <= y
  <2> HIDE DEF T
  <2> QED BY <1>1, LeastNumber
<1>3. PICK c \in Q : x = c[k]
  OBVIOUS
<1>4. \A d \in Q : d[k] \in T
  OBVIOUS
<1> QED BY <1>2, <1>3, <1>4

(* A heap that is not empty has a first. *)
LEMMA FirstIs ==
    ASSUME NEW Q, Q \subseteq Entries, Q # {}
    PROVE  /\ First(Q) \in Q
           /\ \A d \in Q : First(Q)[1] < d[1] \/ (First(Q)[1] = d[1] /\ First(Q)[2] <= d[2])
<1>1. \A c \in Q : /\ c[1] \in Nat /\ c[2] \in Nat /\ c[3] \in Nat /\ c[4] \in Nat /\ c[5] \in Nat
                   /\ c = <<c[1], c[2], c[3], c[4], c[5]>>
  BY DEF Entries
<1>2. PICK a1 \in Q : \A d \in Q : a1[1] <= d[1]
  BY <1>1, LeastAt
<1> DEFINE Q1 == {d \in Q : d[1] = a1[1]}
<1>3. PICK a2 \in Q1 : \A d \in Q1 : a2[2] <= d[2]
  <2>1. a1 \in Q1 /\ \A d \in Q1 : d[2] \in Nat
    BY <1>1
  <2> HIDE DEF Q1
  <2> QED BY <2>1, LeastAt
<1> DEFINE Q2 == {d \in Q1 : d[2] = a2[2]}
<1>4. PICK a3 \in Q2 : \A d \in Q2 : a3[3] <= d[3]
  <2>1. a2 \in Q2 /\ \A d \in Q2 : d[3] \in Nat
    BY <1>1
  <2> HIDE DEF Q2
  <2> QED BY <2>1, LeastAt
<1> DEFINE Q3 == {d \in Q2 : d[3] = a3[3]}
<1>5. PICK a4 \in Q3 : \A d \in Q3 : a4[4] <= d[4]
  <2>1. a3 \in Q3 /\ \A d \in Q3 : d[4] \in Nat
    BY <1>1
  <2> HIDE DEF Q3
  <2> QED BY <2>1, LeastAt
<1> DEFINE Q4 == {d \in Q3 : d[4] = a4[4]}
<1>6. PICK a5 \in Q4 : \A d \in Q4 : a5[5] <= d[5]
  <2>1. a4 \in Q4 /\ \A d \in Q4 : d[5] \in Nat
    BY <1>1
  <2> HIDE DEF Q4
  <2> QED BY <2>1, LeastAt
<1>7. ASSUME NEW d \in Q \ {a5}
      PROVE  Earlier(a5, d)
  <2>1. a5 \in Q /\ d \in Q /\ a5 \in Entries /\ d \in Entries
    OBVIOUS
  <2>2. /\ a5[1] = a1[1] /\ a5[2] = a2[2] /\ a5[3] = a3[3] /\ a5[4] = a4[4]
    OBVIOUS
  <2>3. /\ a5[1] <= d[1]
        /\ d[1] = a5[1] => a5[2] <= d[2]
        /\ d[1] = a5[1] /\ d[2] = a5[2] => a5[3] <= d[3]
        /\ d[1] = a5[1] /\ d[2] = a5[2] /\ d[3] = a5[3] => a5[4] <= d[4]
        /\ d[1] = a5[1] /\ d[2] = a5[2] /\ d[3] = a5[3] /\ d[4] = a5[4] => a5[5] <= d[5]
    BY <1>2, <1>3, <1>4, <1>5, <1>6, <2>2
  <2>4. ~(d[1] = a5[1] /\ d[2] = a5[2] /\ d[3] = a5[3] /\ d[4] = a5[4] /\ d[5] = a5[5])
    BY <1>1, <2>1
  <2>5. /\ a5[1] \in Nat /\ a5[2] \in Nat /\ a5[3] \in Nat /\ a5[4] \in Nat
        /\ a5[5] \in Nat
        /\ d[1] \in Nat /\ d[2] \in Nat /\ d[3] \in Nat /\ d[4] \in Nat
        /\ d[5] \in Nat
    BY <1>1, <2>1
  <2> HIDE DEF Q1, Q2, Q3, Q4
  <2>6. \/ a5[1] < d[1]
        \/ a5[1] = d[1] /\ a5[2] < d[2]
        \/ a5[1] = d[1] /\ a5[2] = d[2] /\ a5[3] < d[3]
        \/ a5[1] = d[1] /\ a5[2] = d[2] /\ a5[3] = d[3] /\ a5[4] < d[4]
        \/ a5[1] = d[1] /\ a5[2] = d[2] /\ a5[3] = d[3] /\ a5[4] = d[4] /\ a5[5] < d[5]
    BY ONLY <2>3, <2>4, <2>5
  <2> QED BY ONLY <2>1, <2>6, EarlierIs
<1>8. a5 \in Q
  OBVIOUS
<1> HIDE DEF Q1, Q2, Q3, Q4
<1>9. First(Q) \in Q /\ \A d \in Q \ {First(Q)} : Earlier(First(Q), d)
  BY <1>7, <1>8 DEF First
<1>10. ASSUME NEW d \in Q
       PROVE  First(Q)[1] < d[1] \/ (First(Q)[1] = d[1] /\ First(Q)[2] <= d[2])
  <2>1. CASE d = First(Q)
    BY <1>1, <1>9, <2>1
  <2>2. CASE d # First(Q)
    <3>1. Earlier(First(Q), d) /\ First(Q) \in Entries /\ d \in Entries
      BY <1>9, <2>2
    <3>2. \/ First(Q)[1] < d[1]
          \/ First(Q)[1] = d[1] /\ First(Q)[2] < d[2]
          \/ First(Q)[1] = d[1] /\ First(Q)[2] = d[2]
      BY <3>1, EarlierIs
    <3> QED BY <1>1, <1>9, <3>2
  <2> QED BY <2>1, <2>2
<1> QED BY <1>9, <1>10
--------------------------------------------------------------------------------
(* The native engine: links with a generation G for every node, candidates *)
(* Q, what was visited last at every node, V, and the pass.  pos is where  *)
(* the sweep of the pass has come to.                                      *)
CurrentAt(X, G, k) == <<G[k], X[k], G[X[k]]>>

(* A pair that was not visited as it is, and a candidate of such a pair.   *)
Waiting(S, X, G, V, k) == k \in S /\ X[k] # -1 /\ V[k] # CurrentAt(X, G, k)
(* A candidate that is not stale: of this pass or a later one, of a group  *)
(* that is linked with the next as when it was put in the heap, and not    *)
(* visited since.                                                          *)
CandidateOn(S, X, G, V, pass, c) ==
    c[1] >= pass /\ Waiting(S, X, G, V, c[2]) /\ <<c[4], c[3], c[5]>> = CurrentAt(X, G, c[2])

(* The candidates that would be drawn or fused, the first of them, and the *)
(* pairs that were visited as they are.                                    *)
LiveOn(in, S, E, X, G, Q, V, pass) ==
    {c \in Q : CandidateOn(S, X, G, V, pass, c) /\ PairAt(E, c[2]) \in Admitted(in)}
(* The pair of the first candidate that would be fused. *)
HeapTurn(in, S, E, X, G, Q, V, pass) ==
    LET live == LiveOn(in, S, E, X, G, Q, V, pass)
    IN  IF live = {} THEN None ELSE PairAt(E, First(live)[2])
(* The admitted pairs that were visited as they are. *)
BlockedOn(in, S, X, G, V) ==
    {t \in Admitted(in) : Adjacent(S \cup {in.leaves}, t) /\ V[t[1]] = CurrentAt(X, G, t[1])}

(* No generation is ahead of its node's. *)
QueueOn(G, Q, n) ==
    \A c \in Q : /\ c \in Nat \X (0..(n - 1)) \X (0..(n - 1)) \X Nat \X Nat
                 /\ c[4] <= G[c[2]] /\ c[5] <= G[c[3]]
(* What was visited was of a generation there has been. *)
VisitedOn(G, V, n) ==
    /\ DOMAIN V = 0..(n - 1)
    /\ \A k \in 0..(n - 1) :
          V[k] = None \/ (V[k] \in Nat \X (0..(n - 1)) \X Nat /\ V[k][3] <= G[V[k][2]])

(* Every pair that was not visited as it is has a candidate, in this pass  *)
(* from pos on and in the next pass before it.                             *)
Awaited(S, X, G, Q, V, pass) ==
    \A k \in S : Waiting(S, X, G, V, k) => \E c \in Q : CandidateOn(S, X, G, V, pass, c) /\ c[2] = k
(* Candidates of the pass are of groups from boundary pos on, those of the *)
(* next pass of groups before it.                                          *)
Sweeps(S, X, G, Q, V, pass, pos) ==
    \A c \in Q : CandidateOn(S, X, G, V, pass, c) =>
        (c[1] = pass /\ c[2] >= pos) \/ (c[1] = pass + 1 /\ c[2] < pos)

(* What holds of the native engine. *)
NativeHolds(in, S, E, X, P, G, Q, V, pass, pos) ==
    /\ IsInput(in) /\ in.legal = Triples(in.leaves)
    /\ Links(S, E, X, P, in.leaves) /\ G \in [0..(in.leaves - 1) -> Nat]
    /\ QueueOn(G, Q, in.leaves) /\ VisitedOn(G, V, in.leaves)
    /\ pass \in Nat /\ pos \in 0..in.leaves
    /\ Awaited(S, X, G, Q, V, pass)
    /\ Sweeps(S, X, G, Q, V, pass, pos)

(* Candidates are of pairs of groups. *)
LEMMA QueueIs ==
    ASSUME NEW G, NEW Q, NEW n \in Nat, QueueOn(G, Q, n)
    PROVE  /\ Q \subseteq Entries
           /\ \A c \in Q : /\ c[1] \in Nat /\ c[2] \in 0..(n - 1) /\ c[3] \in 0..(n - 1)
                           /\ c[4] \in Nat /\ c[5] \in Nat /\ c[2] \in Nat
<1>1. \A c \in Q : c \in Nat \X (0..(n - 1)) \X (0..(n - 1)) \X Nat \X Nat
  BY DEF QueueOn
<1>2. 0..(n - 1) \subseteq Nat
  OBVIOUS
<1> QED BY <1>1, <1>2 DEF Entries

(* A pair that was not visited as it is has its candidate in the heap. *)
LEMMA WaitingIs ==
    ASSUME NEW S, NEW E, NEW X, NEW P, NEW n, Links(S, E, X, P, n), NEW G,
           NEW V, NEW k, Waiting(S, X, G, V, k)
    PROVE  /\ k \in S /\ X[k] = E[k] /\ E[k] \in S /\ k \in Nat /\ k < E[k]
           /\ E[k] \in Nat /\ k < n
           /\ PairAt(E, k) \in Triples(n) /\ PairAt(E, k) # None
           /\ PairAt(E, k)[1] = k /\ PairAt(E, k)[2] = E[k]
           /\ PairAt(E, k)[3] = E[E[k]]
           /\ \A b \in S : b <= k \/ b >= E[k]
<1>1. GroupsOf(S, E, n) /\ k \in S /\ X[k] # -1
  BY DEF Links, Waiting
<1>2. X[k] = E[k] /\ E[k] \in S
  BY <1>1, LinksAfter
<1>3. k \in Nat /\ k < E[k] /\ E[k] \in Nat /\ k < n /\ \A b \in S : b <= k \/ b >= E[k]
  BY <1>1, GroupFacts
<1>4. /\ PairAt(E, k) \in Triples(n) /\ Adjacent(S \cup {n}, PairAt(E, k))
      /\ PairAt(E, k) # None
      /\ PairAt(E, k)[1] = k /\ PairAt(E, k)[2] = E[k]
      /\ PairAt(E, k)[3] = E[E[k]]
  BY <1>1, <1>2, PairOfGroup
<1> QED BY <1>1, <1>2, <1>3, <1>4

(* What is open is what waits and is admitted. *)
LEMMA OpenWaits ==
    ASSUME NEW in, NEW S, NEW E, NEW X, NEW P, Links(S, E, X, P, in.leaves),
           NEW G, NEW V
    PROVE  /\ \A t \in OpenOn(in, S, BlockedOn(in, S, X, G, V)) :
                t = PairAt(E, t[1]) /\ t \in Admitted(in) /\ Waiting(S, X, G, V, t[1])
           /\ \A k : Waiting(S, X, G, V, k) /\ PairAt(E, k) \in Admitted(in) =>
                PairAt(E, k) \in OpenOn(in, S, BlockedOn(in, S, X, G, V))
<1> DEFINE n == in.leaves
           B == BlockedOn(in, S, X, G, V)
<1>1. GroupsOf(S, E, n)
  BY DEF Links
<1>2. ASSUME NEW t \in OpenOn(in, S, B)
      PROVE  t = PairAt(E, t[1]) /\ t \in Admitted(in) /\ Waiting(S, X, G, V, t[1])
  <2>1. t \in Admitted(in) /\ t \in Triples(n) /\ Adjacent(S \cup {n}, t) /\ t \notin B
    BY DEF OpenOn, Open, Admitted
  <2>2. t[1] \in S /\ E[t[1]] = t[2] /\ t[2] \in S /\ t = PairAt(E, t[1])
    BY <1>1, <2>1, PairIs
  <2>3. X[t[1]] # -1
    BY <2>2, LinksAfter
  <2>4. V[t[1]] # CurrentAt(X, G, t[1])
    BY <2>1 DEF BlockedOn
  <2> QED BY <2>1, <2>2, <2>3, <2>4 DEF Waiting
<1>3. ASSUME NEW k, Waiting(S, X, G, V, k), PairAt(E, k) \in Admitted(in)
      PROVE  PairAt(E, k) \in OpenOn(in, S, B)
  <2>1. Adjacent(S \cup {in.leaves}, PairAt(E, k)) /\ PairAt(E, k)[1] = k
    <3>1. k \in S /\ E[k] \in S
      BY <1>3, WaitingIs
    <3> QED BY <1>1, <3>1, PairOfGroup
  <2>2. PairAt(E, k) \notin B
    BY <1>3, <2>1 DEF BlockedOn, Waiting
  <2> QED BY <1>3, <2>1, <2>2 DEF OpenOn, Open
<1> QED BY <1>2, <1>3

(* The first live candidate is of the pair whose turn it is. *)
LEMMA HeapTurnIs ==
    ASSUME NEW in, NEW S, NEW E, NEW X, NEW P, NEW G, NEW Q, NEW V, NEW pass,
           NEW pos,
           NativeHolds(in, S, E, X, P, G, Q, V, pass, pos)
    PROVE  HeapTurn(in, S, E, X, G, Q, V, pass) = TurnOn(in, S, BlockedOn(in, S, X, G, V), pos)
<1> DEFINE n == in.leaves
           B == BlockedOn(in, S, X, G, V)
           live == LiveOn(in, S, E, X, G, Q, V, pass)
           open == OpenOn(in, S, B)
           m == First(live)
           t == PairAt(E, m[2])
<1>1. /\ n \in Nat /\ Links(S, E, X, P, n) /\ QueueOn(G, Q, n) /\ pass \in Nat
      /\ pos \in Nat
      /\ Awaited(S, X, G, Q, V, pass) /\ Sweeps(S, X, G, Q, V, pass, pos)
  BY DEF NativeHolds, IsInput
<1>2. /\ \A s \in open : s = PairAt(E, s[1]) /\ s \in Admitted(in) /\ Waiting(S, X, G, V, s[1])
      /\ \A k : Waiting(S, X, G, V, k) /\ PairAt(E, k) \in Admitted(in) => PairAt(E, k) \in open
  BY <1>1, OpenWaits
<1>3. \A s \in open : \E c \in live : c[2] = s[1]
  <2> HIDE DEF n, B, open
  <2> QED BY <1>1, <1>2 DEF Awaited, LiveOn, Waiting
<1>4. \A c \in live : /\ c \in Q /\ c[1] \in Nat /\ c[2] \in Nat /\ Waiting(S, X, G, V, c[2])
                      /\ PairAt(E, c[2]) \in open /\ PairAt(E, c[2])[1] = c[2]
                      /\ (c[1] = pass /\ c[2] >= pos) \/ (c[1] = pass + 1 /\ c[2] < pos)
  <2> TAKE c \in live
  <2>1. c \in Q /\ CandidateOn(S, X, G, V, pass, c) /\ PairAt(E, c[2]) \in Admitted(in)
    BY DEF LiveOn
  <2>2. Waiting(S, X, G, V, c[2])
    BY <2>1 DEF CandidateOn
  <2>3. c[1] \in Nat /\ c[2] \in Nat
    BY <1>1, <2>1, QueueIs
  <2>4. PairAt(E, c[2]) \in open
    BY <1>2, <2>1, <2>2
  <2>5. PairAt(E, c[2])[1] = c[2]
    BY DEF PairAt
  <2> QED BY <1>1, <2>1, <2>2, <2>3, <2>4, <2>5 DEF Sweeps
<1>5. S \cup {n} \subseteq 0..n
  <2>1. S \subseteq 0..(n - 1) /\ n \in Nat
    BY <1>1 DEF Links, GroupsOf
  <2> HIDE DEF n
  <2> QED BY ONLY <2>1
<1>6. CASE live = {}
  <2>1. open = {}
    BY <1>3, <1>6
  <2>2. HeapTurn(in, S, E, X, G, Q, V, pass) = None
    BY <1>6 DEF HeapTurn
  <2> QED BY <2>1, <2>2, TurnNone DEF OpenOn, TurnOn
<1>7. CASE live # {}
  <2>1. /\ m \in live
        /\ \A d \in live : m[1] < d[1] \/ (m[1] = d[1] /\ m[2] <= d[2])
    <3>1. live \subseteq Entries
      BY <1>1, QueueIs DEF LiveOn
    <3> HIDE DEF live
    <3> QED BY <1>7, <3>1, FirstIs
  <2>2. HeapTurn(in, S, E, X, G, Q, V, pass) = t
    BY <1>7 DEF HeapTurn
  <2>3. t \in open /\ t[1] = m[2] /\ m[1] \in Nat /\ m[2] \in Nat
    BY <1>4, <2>1
  <2> HIDE DEF m, t, live, open, B, n
  <2>4. CASE m[1] = pass /\ m[2] >= pos
    <3>1. ASSUME NEW s \in open, s[1] >= pos
          PROVE  t[1] <= s[1]
      <4>1. PICK c \in live : c[2] = s[1]
        BY <1>3
      <4> QED BY <1>1, <1>4, <2>1, <2>3, <2>4, <3>1, <4>1
    <3>2. t[1] >= pos
      BY <2>3, <2>4
    <3>3. Turn(in, S \cup {in.leaves}, B, pos) = t
      <4>1. /\ in.leaves \in Nat /\ S \cup {in.leaves} \subseteq 0..in.leaves
            /\ pos \in Nat
            /\ t \in Open(in, S \cup {in.leaves}, B)
            /\ \A s \in Open(in, S \cup {in.leaves}, B) : s[1] >= pos => t[1] <= s[1]
        BY <1>1, <1>5, <2>3, <3>1 DEF n, open, OpenOn
      <4> QED BY ONLY <4>1, <3>2, TurnIsFirst
    <3> QED BY <2>2, <3>3 DEF TurnOn, B
  <2>5. CASE ~(m[1] = pass /\ m[2] >= pos)
    <3>1. ASSUME NEW s \in open
          PROVE  s[1] < pos /\ t[1] <= s[1]
      <4>1. PICK c \in live : c[2] = s[1]
        BY <1>3
      <4> QED BY <1>1, <1>4, <2>1, <2>3, <2>5, <4>1
    <3>2. Turn(in, S \cup {in.leaves}, B, pos) = t
      <4>1. /\ in.leaves \in Nat /\ S \cup {in.leaves} \subseteq 0..in.leaves
            /\ pos \in Nat
            /\ t \in Open(in, S \cup {in.leaves}, B)
            /\ \A s \in Open(in, S \cup {in.leaves}, B) : s[1] < pos /\ t[1] <= s[1]
        BY <1>1, <1>5, <2>3, <3>1 DEF n, open, OpenOn
      <4> QED BY ONLY <4>1, TurnWraps
    <3> QED BY <2>2, <3>2 DEF TurnOn, B
  <2> QED BY <2>4, <2>5
<1> QED BY <1>6, <1>7
--------------------------------------------------------------------------------
(* The first candidate of the heap is dropped when it is stale, and else   *)
(* it is visited.                                                          *)
Top(Q) == First(Q)[2]

(* A stale candidate leaves the heap. *)
Discards(S, X, G, Q, V, pass, Q1) ==
    Q # {} /\ ~CandidateOn(S, X, G, V, pass, First(Q)) /\ Q1 = Q \ {First(Q)}

(* The first candidate is marked as visited, and its pass is the pass. *)
Marks(S, X, G, Q, V, pass, V1, pass1) ==
    /\ Q # {} /\ CandidateOn(S, X, G, V, pass, First(Q))
    /\ V1 = [V EXCEPT ![Top(Q)] = CurrentAt(X, G, Top(Q))]
    /\ pass1 = First(Q)[1]

(* It holds after a stale candidate is discarded, and nothing changes for  *)
(* the others.                                                             *)
LEMMA NativeDiscards ==
    ASSUME NEW in, NEW S, NEW E, NEW X, NEW P, NEW G, NEW Q, NEW V, NEW pass,
           NEW pos,
           NativeHolds(in, S, E, X, P, G, Q, V, pass, pos),
           NEW Q1, Discards(S, X, G, Q, V, pass, Q1)
    PROVE  /\ NativeHolds(in, S, E, X, P, G, Q1, V, pass, pos)
           /\ LiveOn(in, S, E, X, G, Q1, V, pass) = LiveOn(in, S, E, X, G, Q, V, pass)
<1>1. Q1 \subseteq Q /\ \A c \in Q : CandidateOn(S, X, G, V, pass, c) => c \in Q1
  BY DEF Discards
<1>2. Awaited(S, X, G, Q1, V, pass) /\ Sweeps(S, X, G, Q1, V, pass, pos)
  BY <1>1 DEF NativeHolds, Awaited, Sweeps
<1>3. QueueOn(G, Q1, in.leaves)
  <2>1. QueueOn(G, Q, in.leaves)
    BY DEF NativeHolds
  <2> QED BY <1>1, <2>1 DEF QueueOn
<1>4. NativeHolds(in, S, E, X, P, G, Q1, V, pass, pos)
  BY <1>2, <1>3 DEF NativeHolds
<1>5. LiveOn(in, S, E, X, G, Q1, V, pass) = LiveOn(in, S, E, X, G, Q, V, pass)
  BY <1>1 DEF LiveOn
<1> QED BY <1>4, <1>5

(* What a visit marks no longer waits, and the candidates of this pass     *)
(* that are left are further on.                                           *)
LEMMA MarkFacts ==
    ASSUME NEW in, NEW S, NEW E, NEW X, NEW P, NEW G, NEW Q, NEW V, NEW pass,
           NEW pos,
           NativeHolds(in, S, E, X, P, G, Q, V, pass, pos),
           NEW V1, NEW pass1, Marks(S, X, G, Q, V, pass, V1, pass1)
    PROVE  /\ First(Q) \in Q /\ Waiting(S, X, G, V, Top(Q))
           /\ Top(Q) \in 0..(in.leaves - 1)
           /\ V1[Top(Q)] = CurrentAt(X, G, Top(Q))
           /\ \A j \in 0..(in.leaves - 1) : j # Top(Q) => V1[j] = V[j]
           /\ pass1 \in Nat /\ pass1 >= pass
           /\ \A c \in Q : c[1] >= pass1
           /\ \A c \in Q : CandidateOn(S, X, G, V, pass, c) /\ c[2] # Top(Q) =>
                (c[1] = pass1 /\ c[2] >= E[Top(Q)]) \/ (c[1] = pass1 + 1 /\ c[2] < Top(Q))
           /\ VisitedOn(G, V1, in.leaves)
<1> DEFINE n == in.leaves
           k == Top(Q)
<1>1. /\ n \in Nat /\ n # 0 /\ Links(S, E, X, P, n) /\ QueueOn(G, Q, n)
      /\ VisitedOn(G, V, n)
      /\ pass \in Nat /\ pos \in Nat /\ Sweeps(S, X, G, Q, V, pass, pos)
      /\ G \in [0..(n - 1) -> Nat]
  BY DEF NativeHolds, IsInput
<1>2. /\ Q # {} /\ CandidateOn(S, X, G, V, pass, First(Q))
      /\ V1 = [V EXCEPT ![k] = CurrentAt(X, G, k)] /\ pass1 = First(Q)[1]
  BY DEF Marks
<1>3. /\ First(Q) \in Q
      /\ \A d \in Q : First(Q)[1] < d[1] \/ (First(Q)[1] = d[1] /\ First(Q)[2] <= d[2])
  BY <1>1, <1>2, QueueIs, FirstIs
<1>4. /\ Q \subseteq Entries
      /\ \A c \in Q : c[1] \in Nat /\ c[2] \in Nat /\ c[2] \in 0..(n - 1)
  BY <1>1, QueueIs
<1>5. Waiting(S, X, G, V, k)
  BY <1>2 DEF CandidateOn, Top
<1>6. /\ k \in Nat /\ k \in S /\ X[k] = E[k] /\ E[k] \in S /\ k < E[k]
      /\ E[k] \in Nat
      /\ \A b \in S : b <= k \/ b >= E[k]
  BY <1>1, <1>5, WaitingIs
<1>7. S \subseteq 0..(n - 1)
  BY <1>1 DEF Links, GroupsOf
<1>8. DOMAIN V = 0..(n - 1)
  BY <1>1 DEF VisitedOn
<1>9. /\ k = First(Q)[2] /\ k \in 0..(n - 1) /\ pass1 \in Nat
  BY <1>2, <1>3, <1>4 DEF Top
<1> HIDE DEF n, k
<1>10. V1[k] = CurrentAt(X, G, k) /\ \A j \in 0..(n - 1) : j # k => V1[j] = V[j]
  BY <1>2, <1>8, <1>9
<1>11. pass1 >= pass
  BY <1>2 DEF CandidateOn
<1>12. \A c \in Q : c[1] >= pass1
  BY <1>2, <1>3, <1>4, <1>9
<1>13. ASSUME NEW c \in Q, CandidateOn(S, X, G, V, pass, c), c[2] # k
       PROVE  (c[1] = pass1 /\ c[2] >= E[k]) \/ (c[1] = pass1 + 1 /\ c[2] < k)
  <2>1. (c[1] = pass /\ c[2] >= pos) \/ (c[1] = pass + 1 /\ c[2] < pos)
    BY <1>1, <1>13 DEF Sweeps
  <2>2. (pass1 = pass /\ k >= pos) \/ (pass1 = pass + 1 /\ k < pos)
    BY <1>1, <1>2, <1>3, <1>9 DEF Sweeps
  <2>3. c[2] \in S /\ c[2] \in Nat /\ c[1] \in Nat
    BY <1>4, <1>13 DEF CandidateOn, Waiting
  <2>4. pass1 < c[1] \/ (pass1 = c[1] /\ k <= c[2])
    BY <1>2, <1>3, <1>9
  <2>5. CASE pass1 = c[1]
    BY <1>6, <1>13, <2>3, <2>4, <2>5
  <2>6. CASE pass1 < c[1]
    BY <1>1, <1>6, <1>9, <2>1, <2>2, <2>3, <2>6
  <2> QED BY <2>4, <2>5, <2>6
<1>14. VisitedOn(G, V1, n)
  <2>1. DOMAIN V1 = 0..(n - 1)
    BY <1>2, <1>8
  <2>2. /\ CurrentAt(X, G, k) = <<G[k], E[k], G[E[k]]>>
        /\ G[k] \in Nat /\ G[E[k]] \in Nat /\ E[k] \in 0..(n - 1)
    BY <1>1, <1>6, <1>7 DEF CurrentAt
  <2>3. /\ CurrentAt(X, G, k) \in Nat \X (0..(n - 1)) \X Nat
        /\ CurrentAt(X, G, k)[3] <= G[CurrentAt(X, G, k)[2]]
    BY <2>2
  <2> QED BY <1>1, <1>10, <2>1, <2>3 DEF VisitedOn
<1> QED BY <1>3, <1>5, <1>9, <1>10, <1>11, <1>12, <1>13, <1>14 DEF k, n

(* A visit that fuses nothing: the pair is kept until it changes.          *)
Visits(S, X, G, Q, V, pass, Q1, V1, pass1) ==
    Marks(S, X, G, Q, V, pass, V1, pass1) /\ Q1 = Q \ {First(Q)}

(* What a visit without a fusion does to the blocks and to the turn. *)
KeptTurn(in, S, E, X, G, Q, V, pass, Q1, V1, pass1) ==
    LET B == BlockedOn(in, S, X, G, V)
        B1 == BlockedOn(in, S, X, G, V1)
        K == PairAt(E, Top(Q))
    IN  /\ K \in Admitted(in) =>
             /\ B1 = B \cup {K}
             /\ HeapTurn(in, S, E, X, G, Q, V, pass) = K
             /\ HeapTurn(in, S, E, X, G, Q1, V1, pass1) = TurnOn(in, S, B1, K[2])
        /\ K \notin Admitted(in) =>
             /\ B1 = B
             /\ HeapTurn(in, S, E, X, G, Q1, V1, pass1) = HeapTurn(in, S, E, X, G, Q, V, pass)

(* The first in the heap is the first that is live, when it is live. *)
LEMMA TopIsTurn ==
    ASSUME NEW in, NEW S, NEW E, NEW X, NEW P, NEW G, NEW Q, NEW V, NEW pass,
           NEW pos,
           NativeHolds(in, S, E, X, P, G, Q, V, pass, pos),
           Q # {}, CandidateOn(S, X, G, V, pass, First(Q)), PairAt(E, Top(Q)) \in Admitted(in)
    PROVE  HeapTurn(in, S, E, X, G, Q, V, pass) = PairAt(E, Top(Q))
<1> DEFINE live == LiveOn(in, S, E, X, G, Q, V, pass)
           m == First(live)
<1>1. QueueOn(G, Q, in.leaves) /\ in.leaves \in Nat
  BY DEF NativeHolds, IsInput
<1>2. Q \subseteq Entries /\ \A c \in Q : c[1] \in Nat /\ c[2] \in Nat
  BY <1>1, QueueIs
<1>3. /\ First(Q) \in Q
      /\ \A d \in Q : First(Q)[1] < d[1] \/ (First(Q)[1] = d[1] /\ First(Q)[2] <= d[2])
  BY <1>2, FirstIs
<1>4. First(Q) \in live /\ live \subseteq Q
  BY <1>3 DEF LiveOn, Top
<1>5. /\ m \in live
      /\ \A d \in live : m[1] < d[1] \/ (m[1] = d[1] /\ m[2] <= d[2])
  <2>1. live \subseteq Entries /\ live # {}
    BY <1>2, <1>4
  <2> HIDE DEF live
  <2> QED BY <2>1, FirstIs
<1>6. HeapTurn(in, S, E, X, G, Q, V, pass) = PairAt(E, m[2])
  BY <1>4 DEF HeapTurn
<1> HIDE DEF m, live
<1>7. m[2] = First(Q)[2]
  BY <1>2, <1>3, <1>4, <1>5
<1> QED BY <1>6, <1>7 DEF Top

(* It holds after a visit without a fusion. *)
LEMMA NativeVisits ==
    ASSUME NEW in, NEW S, NEW E, NEW X, NEW P, NEW G, NEW Q, NEW V, NEW pass,
           NEW pos,
           NativeHolds(in, S, E, X, P, G, Q, V, pass, pos),
           NEW Q1, NEW V1, NEW pass1, Visits(S, X, G, Q, V, pass, Q1, V1, pass1)
    PROVE  /\ NativeHolds(in, S, E, X, P, G, Q1, V1, pass1, E[Top(Q)])
           /\ KeptTurn(in, S, E, X, G, Q, V, pass, Q1, V1, pass1)
<1> DEFINE n == in.leaves
           k == Top(Q)
           K == PairAt(E, k)
           B == BlockedOn(in, S, X, G, V)
           B1 == BlockedOn(in, S, X, G, V1)
<1>1. /\ n \in Nat /\ n # 0 /\ Links(S, E, X, P, n) /\ QueueOn(G, Q, n)
      /\ pass \in Nat /\ Awaited(S, X, G, Q, V, pass)
      /\ G \in [0..(n - 1) -> Nat]
      /\ IsInput(in) /\ in.legal = Triples(n)
  BY DEF NativeHolds, IsInput
<1>2. Marks(S, X, G, Q, V, pass, V1, pass1) /\ Q1 = Q \ {First(Q)}
  BY DEF Visits
<1>3. /\ First(Q) \in Q /\ Waiting(S, X, G, V, k) /\ k \in 0..(n - 1)
      /\ V1[k] = CurrentAt(X, G, k)
      /\ \A j \in 0..(n - 1) : j # k => V1[j] = V[j]
      /\ pass1 \in Nat /\ pass1 >= pass
      /\ \A c \in Q : c[1] >= pass1
      /\ \A c \in Q : CandidateOn(S, X, G, V, pass, c) /\ c[2] # k =>
           (c[1] = pass1 /\ c[2] >= E[k]) \/ (c[1] = pass1 + 1 /\ c[2] < k)
      /\ VisitedOn(G, V1, n)
  BY <1>2, MarkFacts
<1>4. /\ k \in Nat /\ k \in S /\ X[k] = E[k] /\ E[k] \in S /\ k < E[k]
      /\ E[k] \in Nat
      /\ K[1] = k /\ K[2] = E[k] /\ K # None
  BY <1>1, <1>3, WaitingIs
<1>5. S \subseteq 0..(n - 1) /\ GroupsOf(S, E, n)
  BY <1>1 DEF Links, GroupsOf
<1>6. CandidateOn(S, X, G, V, pass, First(Q)) /\ First(Q)[2] = k
  BY <1>2 DEF Marks, Top
<1>7. \A c \in Q : c[1] \in Nat /\ c[2] \in Nat /\ c[2] \in 0..(n - 1)
  BY <1>1, QueueIs
<1>8. \A j \in S : Waiting(S, X, G, V1, j) <=> Waiting(S, X, G, V, j) /\ j # k
  <2> HIDE DEF n, k
  <2> QED BY <1>3, <1>5 DEF Waiting
<1> HIDE DEF n, k, K
<1>9. ASSUME NEW c \in Q
      PROVE  CandidateOn(S, X, G, V1, pass1, c) <=> CandidateOn(S, X, G, V, pass, c) /\ c[2] # k
  <2>1. Waiting(S, X, G, V1, c[2]) <=> Waiting(S, X, G, V, c[2]) /\ c[2] # k
    BY <1>8 DEF Waiting
  <2>2. c[1] >= pass1 /\ c[1] >= pass
    BY <1>1, <1>3, <1>7
  <2> QED BY <2>1, <2>2 DEF CandidateOn
<1>10. QueueOn(G, Q1, n)
  BY <1>1, <1>2 DEF QueueOn
<1>11. E[k] \in 0..n
  BY <1>1, <1>4, <1>5
<1>12. Awaited(S, X, G, Q1, V1, pass1)
  <2>1. ASSUME NEW j \in S, Waiting(S, X, G, V1, j)
        PROVE  \E c \in Q1 : CandidateOn(S, X, G, V1, pass1, c) /\ c[2] = j
    <3>1. Waiting(S, X, G, V, j) /\ j # k
      BY <1>8, <2>1
    <3>2. PICK c \in Q : CandidateOn(S, X, G, V, pass, c) /\ c[2] = j
      BY <1>1, <3>1 DEF Awaited
    <3>3. c # First(Q)
      BY <1>6, <3>1, <3>2
    <3> QED BY <1>2, <1>9, <3>1, <3>2, <3>3
  <2> QED BY <2>1 DEF Awaited
<1>13. Sweeps(S, X, G, Q1, V1, pass1, E[k])
  <2>1. ASSUME NEW c \in Q1, CandidateOn(S, X, G, V1, pass1, c)
        PROVE  (c[1] = pass1 /\ c[2] >= E[k]) \/ (c[1] = pass1 + 1 /\ c[2] < E[k])
    <3>1. c \in Q /\ CandidateOn(S, X, G, V, pass, c) /\ c[2] # k
      BY <1>2, <1>9, <2>1
    <3>2. (c[1] = pass1 /\ c[2] >= E[k]) \/ (c[1] = pass1 + 1 /\ c[2] < k)
      BY <1>3, <3>1
    <3> QED BY <1>4, <1>7, <3>1, <3>2
  <2> QED BY <2>1 DEF Sweeps
<1>14. NativeHolds(in, S, E, X, P, G, Q1, V1, pass1, E[k])
  BY <1>1, <1>3, <1>10, <1>11, <1>12, <1>13 DEF NativeHolds, n
<1>15. ASSUME NEW t \in Admitted(in), Adjacent(S \cup {n}, t)
       PROVE  /\ t[1] \in S /\ t = PairAt(E, t[1])
              /\ V1[t[1]] = CurrentAt(X, G, t[1]) <=> t = K \/ V[t[1]] = CurrentAt(X, G, t[1])
  <2>1. t \in Triples(n)
    BY DEF Admitted, n
  <2>2. t[1] \in S /\ t = PairAt(E, t[1])
    BY <1>5, <1>15, <2>1, PairIs
  <2>3. t = K <=> t[1] = k
    BY <1>4, <2>2 DEF K
  <2> QED BY <1>3, <1>5, <2>2, <2>3
<1>16. ASSUME K \in Admitted(in)
       PROVE  B1 = B \cup {K}
  <2>1. Adjacent(S \cup {n}, K)
    BY <1>4, <1>5, PairOfGroup DEF K
  <2>2. \A t : t \in B1 <=> t \in B \cup {K}
    BY <1>15, <1>16, <2>1 DEF BlockedOn, n
  <2> QED BY <2>2
<1>17. ASSUME K \notin Admitted(in)
       PROVE  B1 = B
  <2>1. \A t : t \in B1 <=> t \in B
    BY <1>15, <1>17 DEF BlockedOn, n
  <2> QED BY <2>1
<1>18. ASSUME K \in Admitted(in)
       PROVE  /\ HeapTurn(in, S, E, X, G, Q, V, pass) = K
              /\ HeapTurn(in, S, E, X, G, Q1, V1, pass1) = TurnOn(in, S, B1, K[2])
  <2>1. HeapTurn(in, S, E, X, G, Q, V, pass) = K
    <3>1. Q # {} /\ PairAt(E, Top(Q)) \in Admitted(in)
      BY <1>3, <1>18 DEF K, k
    <3> QED BY <1>6, <3>1, TopIsTurn DEF K, k
  <2>2. HeapTurn(in, S, E, X, G, Q1, V1, pass1) = TurnOn(in, S, B1, E[k])
    BY <1>14, HeapTurnIs
  <2> QED BY <1>4, <2>1, <2>2
<1>19. ASSUME K \notin Admitted(in)
       PROVE  HeapTurn(in, S, E, X, G, Q1, V1, pass1) = HeapTurn(in, S, E, X, G, Q, V, pass)
  <2>1. \A c \in LiveOn(in, S, E, X, G, Q1, V1, pass1) : c \in LiveOn(in, S, E, X, G, Q, V, pass)
    BY <1>2, <1>9 DEF LiveOn
  <2>2. \A c \in LiveOn(in, S, E, X, G, Q, V, pass) : c \in LiveOn(in, S, E, X, G, Q1, V1, pass1)
    BY <1>2, <1>6, <1>9, <1>19 DEF LiveOn, K
  <2>3. LiveOn(in, S, E, X, G, Q1, V1, pass1) = LiveOn(in, S, E, X, G, Q, V, pass)
    BY <2>1, <2>2
  <2> QED BY <2>3 DEF HeapTurn
<1> QED BY <1>14, <1>16, <1>17, <1>18, <1>19 DEF KeptTurn, K, k

(* A visit that fuses: the group takes in the one after it, and the pairs  *)
(* of the fused group have candidates for the next pass.                   *)
CandidatesAt(X, G, k, pass) ==
    IF k = -1 \/ X[k] = -1 THEN {} ELSE {<<pass, k, X[k], G[k], G[X[k]]>>}

(* A group takes in the next one, and is of a new generation. *)
FusesNodes(E, X, P, G, k, E1, X1, P1, G1) ==
    FuseLinks(E, X, P, k, E1, X1, P1) /\ G1 = [G EXCEPT ![k] = G[k] + 1]

(* What a fusion does to the heap: the pairs on both sides of the fused    *)
(* group are candidates of the next pass.                                  *)
HeapFuses(S, X, P, G, Q, V, pass, X1, G1, Q1, V1, pass1) ==
    /\ Marks(S, X, G, Q, V, pass, V1, pass1)
    /\ Q1 = (Q \ {First(Q)}) \cup CandidatesAt(X1, G1, P[Top(Q)], pass1 + 1)
                             \cup CandidatesAt(X1, G1, Top(Q), pass1 + 1)

(* What it does to the blocks and to the turn. *)
FusedHeap(in, S, E, X, G, Q, V, pass, E1, X1, G1, Q1, V1, pass1) ==
    LET B == BlockedOn(in, S, X, G, V)
        K == PairAt(E, Top(Q))
        S1 == S \ {K[2]}
        B1 == BlockedOn(in, S1, X1, G1, V1)
    IN  /\ B1 = {t \in B : Adjacent(S1 \cup {in.leaves}, t)}
        /\ HeapTurn(in, S, E, X, G, Q, V, pass) = K
        /\ HeapTurn(in, S1, E1, X1, G1, Q1, V1, pass1) = TurnOn(in, S1, B1, K[3])

(* What is new at the fused group and before it, and the same elsewhere.   *)
SameElsewhere(S, E, X, P, G, k, E1, X1, P1, G1, n) ==
    /\ Links(S \ {E[k]}, E1, X1, P1, n) /\ G1 \in [0..(n - 1) -> Nat]
    /\ \A j \in 0..(n - 1) : G[j] <= G1[j]
    /\ G1[k] = G[k] + 1
    /\ P[k] = -1 \/ (P[k] \in S /\ P[k] # k /\ P[k] < k /\ X1[P[k]] = k)
    /\ \A j \in S \ {E[k]} : j # k /\ j # P[k] =>
         X1[j] = X[j] /\ E1[j] = E[j] /\ (X[j] # -1 => CurrentAt(X1, G1, j) = CurrentAt(X, G, j))
    /\ \A j \in S : E[j] = k => j = P[k]

(* Nothing but the fused group and its links changes. *)
LEMMA NodesFuse ==
    ASSUME NEW S, NEW E, NEW X, NEW P, NEW n \in Nat, Links(S, E, X, P, n),
           NEW G \in [0..(n - 1) -> Nat],
           NEW k \in S, E[k] \in S,
           NEW E1, NEW X1, NEW P1, NEW G1,
           FusesNodes(E, X, P, G, k, E1, X1, P1, G1)
    PROVE  SameElsewhere(S, E, X, P, G, k, E1, X1, P1, G1, n)
<1>1. /\ GroupsOf(S, E, n) /\ S \subseteq 0..(n - 1)
      /\ X \in [0..(n - 1) -> Int] /\ E \in [0..(n - 1) -> Nat]
      /\ P[0] = -1 /\ \A r \in S \ {0} : P[r] \in S /\ E[P[r]] = r
  BY DEF Links, GroupsOf
<1>2. /\ X[k] = E[k] /\ X[k] # -1 /\ k \in 0..(n - 1) /\ k \in Nat
  BY <1>1, LinksAfter
<1>3. /\ FuseLinks(E, X, P, k, E1, X1, P1) /\ E1 = [E EXCEPT ![k] = E[X[k]]]
      /\ X1 = [X EXCEPT ![k] = X[X[k]]] /\ G1 = [G EXCEPT ![k] = G[k] + 1]
  BY DEF FusesNodes, FuseLinks
<1>4. Links(S \ {E[k]}, E1, X1, P1, n)
  <2>1. LinksFused(S, E, X, k, E1, X1, P1, n)
    <3>1. FuseLinks(E, X, P, k, E1, X1, P1) /\ Links(S, E, X, P, n) /\ k \in S /\ X[k] # -1
      BY <1>2, <1>3
    <3> QED BY ONLY <3>1, LinksFuse
  <2> QED BY <1>2, <2>1 DEF LinksFused
<1>5. /\ G1 \in [0..(n - 1) -> Nat] /\ \A j \in 0..(n - 1) : G[j] <= G1[j]
      /\ G1[k] = G[k] + 1
      /\ \A j \in 0..(n - 1) : j # k => G1[j] = G[j] /\ X1[j] = X[j] /\ E1[j] = E[j]
  <2>1. \A j \in 0..(n - 1) : j # k => G1[j] = G[j] /\ X1[j] = X[j] /\ E1[j] = E[j]
    BY <1>1, <1>2, <1>3
  <2>2. G1[k] = G[k] + 1 /\ G[k] \in Nat
    BY <1>2, <1>3
  <2>3. DOMAIN G1 = 0..(n - 1) /\ G1 = [j \in DOMAIN G1 |-> G1[j]]
    BY <1>3
  <2>4. \A j \in 0..(n - 1) : G1[j] \in Nat /\ G[j] <= G1[j]
    BY <2>1, <2>2
  <2> QED BY <2>1, <2>2, <2>3, <2>4
<1>6. ASSUME P[k] # -1
      PROVE  P[k] \in S /\ E[P[k]] = k /\ P[k] # k /\ P[k] < k /\ X[P[k]] = k
  <2>1. P[k] \in S /\ E[P[k]] = k
    BY <1>1, <1>2, <1>6
  <2>2. P[k] \in Nat /\ P[k] < E[P[k]]
    BY <1>1, <2>1, GroupFacts
  <2>3. X[P[k]] = E[P[k]]
    BY <2>1, LinksAfter
  <2> QED BY <1>2, <2>1, <2>2, <2>3
<1>7. ASSUME NEW j \in S, E[j] = k
      PROVE  j = P[k]
  <2>1. j \in Nat /\ j < k
    BY <1>1, <1>7, GroupFacts
  <2>2. P[k] \in S /\ E[P[k]] = k
    BY <1>1, <1>2, <2>1
  <2>3. /\ P[k] \in Nat /\ P[k] < k /\ (j <= P[k] \/ j >= k)
        /\ (P[k] <= j \/ P[k] >= k)
    <3>1. ASSUME NEW r \in S
          PROVE  r \in Nat /\ r < E[r] /\ \A b \in S : b <= r \/ b >= E[r]
      BY <1>1, GroupFacts
    <3> QED BY <1>7, <2>2, <3>1
  <2> QED BY <1>2, <2>1, <2>3
<1>8. ASSUME NEW j \in S \ {E[k]}, j # k, j # P[k]
      PROVE  X1[j] = X[j] /\ E1[j] = E[j] /\ (X[j] # -1 => CurrentAt(X1, G1, j) = CurrentAt(X, G, j))
  <2>1. j \in 0..(n - 1) /\ j \in S
    BY <1>1
  <2>2. X1[j] = X[j] /\ E1[j] = E[j] /\ G1[j] = G[j]
    BY <1>5, <1>8, <2>1
  <2>3. ASSUME X[j] # -1
        PROVE  G1[X[j]] = G[X[j]]
    <3>1. X[j] = E[j] /\ X[j] \in S
      BY <2>1, <2>3, LinksAfter
    <3>2. X[j] # k
      BY <1>7, <1>8, <2>1, <3>1
    <3> QED BY <1>1, <1>5, <3>1, <3>2
  <2> QED BY <2>2, <2>3 DEF CurrentAt
<1>9. P[k] = -1 \/ (P[k] \in S /\ P[k] # k /\ P[k] < k /\ X1[P[k]] = k)
  BY <1>1, <1>5, <1>6
<1> QED BY <1>4, <1>5, <1>7, <1>8, <1>9 DEF SameElsewhere

(* It holds after a fusion. *)
LEMMA NativeFuses ==
    ASSUME NEW in, NEW S, NEW E, NEW X, NEW P, NEW G, NEW Q, NEW V, NEW pass,
           NEW pos,
           NativeHolds(in, S, E, X, P, G, Q, V, pass, pos),
           NEW E1, NEW X1, NEW P1, NEW G1,
           FusesNodes(E, X, P, G, Top(Q), E1, X1, P1, G1),
           NEW Q1, NEW V1, NEW pass1,
           HeapFuses(S, X, P, G, Q, V, pass, X1, G1, Q1, V1, pass1),
           PairAt(E, Top(Q)) \in Admitted(in)
    PROVE  /\ NativeHolds(in, S \ {E[Top(Q)]}, E1, X1, P1, G1, Q1, V1, pass1, E[E[Top(Q)]])
           /\ FusedHeap(in, S, E, X, G, Q, V, pass, E1, X1, G1, Q1, V1, pass1)
<1> DEFINE n == in.leaves
           k == Top(Q)
           v == E[k]
           S1 == S \ {v}
           K == PairAt(E, k)
           B == BlockedOn(in, S, X, G, V)
           B1 == BlockedOn(in, S1, X1, G1, V1)
<1>1. /\ n \in Nat /\ n # 0 /\ Links(S, E, X, P, n) /\ QueueOn(G, Q, n)
      /\ pass \in Nat /\ Awaited(S, X, G, Q, V, pass)
      /\ G \in [0..(n - 1) -> Nat]
      /\ IsInput(in) /\ in.legal = Triples(n)
  BY DEF NativeHolds, IsInput
<1>2. /\ Marks(S, X, G, Q, V, pass, V1, pass1)
      /\ Q1 = (Q \ {First(Q)}) \cup CandidatesAt(X1, G1, P[k], pass1 + 1) \cup CandidatesAt(X1, G1, k, pass1 + 1)
  BY DEF HeapFuses
<1>3. /\ First(Q) \in Q /\ Waiting(S, X, G, V, k) /\ k \in 0..(n - 1)
      /\ V1[k] = CurrentAt(X, G, k)
      /\ \A j \in 0..(n - 1) : j # k => V1[j] = V[j]
      /\ pass1 \in Nat /\ pass1 >= pass
      /\ \A c \in Q : c[1] >= pass1
      /\ \A c \in Q : CandidateOn(S, X, G, V, pass, c) /\ c[2] # k =>
           (c[1] = pass1 /\ c[2] >= v) \/ (c[1] = pass1 + 1 /\ c[2] < k)
      /\ VisitedOn(G, V1, n)
  BY <1>2, MarkFacts
<1>4. /\ k \in Nat /\ k \in S /\ X[k] = v /\ v \in S /\ k < v /\ v \in Nat
      /\ K[1] = k /\ K[2] = v /\ K[3] = E[v] /\ K # None
  BY <1>1, <1>3, WaitingIs
<1>5. /\ S \subseteq 0..(n - 1) /\ GroupsOf(S, E, n)
      /\ E[v] \in Nat /\ v < E[v] /\ E[v] <= n /\ \A b \in S : b <= v \/ b >= E[v]
  <2>1. S \subseteq 0..(n - 1) /\ GroupsOf(S, E, n)
    BY <1>1 DEF Links, GroupsOf
  <2> QED BY <1>4, <2>1, GroupFacts
<1>6. CandidateOn(S, X, G, V, pass, First(Q)) /\ First(Q)[2] = k /\ Q # {}
  BY <1>2 DEF Marks, Top
<1>7. \A c \in Q : /\ c \in Nat \X (0..(n - 1)) \X (0..(n - 1)) \X Nat \X Nat
                   /\ c[1] \in Nat /\ c[2] \in Nat /\ c[2] \in 0..(n - 1)
                   /\ c[3] \in 0..(n - 1)
                   /\ c[4] \in Nat /\ c[5] \in Nat
                   /\ c[4] <= G[c[2]] /\ c[5] <= G[c[3]]
  BY <1>1, QueueIs DEF QueueOn
<1>8. /\ Links(S1, E1, X1, P1, n) /\ G1 \in [0..(n - 1) -> Nat]
      /\ \A j \in 0..(n - 1) : G[j] <= G1[j]
      /\ G1[k] = G[k] + 1
      /\ P[k] = -1 \/ (P[k] \in S /\ P[k] # k /\ P[k] < k /\ X1[P[k]] = k)
      /\ \A j \in S1 : j # k /\ j # P[k] =>
           X1[j] = X[j] /\ E1[j] = E[j] /\ (X[j] # -1 => CurrentAt(X1, G1, j) = CurrentAt(X, G, j))
      /\ \A j \in S : E[j] = k => j = P[k]
  <2>1. FusesNodes(E, X, P, G, k, E1, X1, P1, G1)
    OBVIOUS
  <2>2. SameElsewhere(S, E, X, P, G, k, E1, X1, P1, G1, n)
    BY <1>1, <1>4, <2>1, NodesFuse
  <2> QED BY <2>2 DEF SameElsewhere
<1>9. HeapTurn(in, S, E, X, G, Q, V, pass) = K
  BY <1>6, TopIsTurn
<1> HIDE DEF n, k, v, K
<1>10. /\ G[k] \in Nat /\ k # v /\ P[k] # v /\ k \in S1 /\ k # -1
       /\ S1 \subseteq S /\ S1 \subseteq 0..(n - 1) /\ \A j \in S1 : j \in 0..(n - 1) /\ j \in Nat
  <2>1. G[k] \in Nat /\ k # v /\ k # -1
    BY <1>1, <1>3, <1>4
  <2>2. P[k] # v
    BY <1>4, <1>8
  <2>3. \A j \in S : j \in 0..(n - 1) /\ j \in Nat
    BY <1>1, <1>5
  <2> QED BY <1>4, <2>1, <2>2, <2>3
(* The node before the fused one, and the node itself. *)
<1>11. P[k] # -1 => P[k] \in S1 /\ P[k] \in 0..(n - 1) /\ P[k] < k /\ P[k] \in Nat /\ X1[P[k]] = k
  BY <1>8, <1>10
<1>12. X1[k] # -1 => X1[k] \in S1
  BY <1>8, <1>10, LinksAfter
<1>13. V1[k] # CurrentAt(X1, G1, k)
  <2>1. V1[k][1] = G[k] /\ CurrentAt(X1, G1, k)[1] = G[k] + 1
    BY <1>3, <1>8 DEF CurrentAt
  <2> QED BY <1>10, <2>1
<1>14. ASSUME P[k] # -1
       PROVE  V1[P[k]] # CurrentAt(X1, G1, P[k])
  <2>1. CurrentAt(X1, G1, P[k]) = <<G1[P[k]], k, G[k] + 1>>
    BY <1>8, <1>11, <1>14 DEF CurrentAt
  <2>2. V1[P[k]] = None \/ V1[P[k]][3] <= G[V1[P[k]][2]]
    BY <1>3, <1>11, <1>14 DEF VisitedOn
  <2>3. \A a, b, c : <<a, b, c>> # None
    BY DEF None
  <2> QED BY <1>10, <2>1, <2>2, <2>3
<1>15. ASSUME NEW j \in S1
       PROVE  Waiting(S1, X1, G1, V1, j) <=>
                \/ j = k /\ X1[k] # -1
                \/ j = P[k]
                \/ j # k /\ j # P[k] /\ Waiting(S, X, G, V, j)
  <2>1. CASE j = k
    <3>1. j # P[k] /\ k \in S1
      BY <1>8, <1>10, <2>1
    <3> QED BY <1>13, <2>1, <3>1 DEF Waiting
  <2>2. CASE j = P[k]
    <3>1. P[k] # -1 /\ k # -1
      BY <1>10, <2>2
    <3> QED BY <1>11, <1>14, <2>2, <3>1 DEF Waiting
  <2>3. CASE j # k /\ j # P[k]
    <3>1. V1[j] = V[j] /\ X1[j] = X[j] /\ j \in S /\ (X[j] # -1 => CurrentAt(X1, G1, j) = CurrentAt(X, G, j))
      BY <1>3, <1>8, <1>10, <2>3
    <3> QED BY <2>3, <3>1 DEF Waiting
  <2> QED BY <2>1, <2>2, <2>3
(* The candidates that were in the heap. *)
<1>16. ASSUME NEW c \in Q, CandidateOn(S1, X1, G1, V1, pass1, c)
       PROVE  c[2] \in S1 /\ c[2] # k /\ c[2] # P[k] /\ CandidateOn(S, X, G, V, pass, c)
  <2>1. /\ Waiting(S1, X1, G1, V1, c[2]) /\ c[1] >= pass1 /\ c[2] \in S1
        /\ X1[c[2]] # -1
        /\ <<c[4], c[3], c[5]>> = CurrentAt(X1, G1, c[2])
    BY <1>16 DEF CandidateOn, Waiting
  <2>2. c[4] = G1[c[2]] /\ c[3] = X1[c[2]] /\ c[5] = G1[X1[c[2]]]
    BY <2>1 DEF CurrentAt
  <2>3. c[2] # k
    BY <1>7, <1>8, <1>10, <2>2
  <2>4. c[2] # P[k]
    <3>1. ASSUME c[2] = P[k]
          PROVE  FALSE
      <4>1. P[k] # -1 /\ c[3] = k
        BY <1>7, <1>11, <2>2, <3>1
      <4>2. c[5] = G[k] + 1 /\ c[5] <= G[k]
        BY <1>7, <1>8, <2>2, <4>1
      <4> QED BY <1>10, <4>2
    <3> QED BY <3>1
  <2>5. Waiting(S, X, G, V, c[2]) /\ X[c[2]] # -1
    BY <1>15, <2>1, <2>3, <2>4 DEF Waiting
  <2>6. CurrentAt(X1, G1, c[2]) = CurrentAt(X, G, c[2])
    BY <1>8, <2>1, <2>3, <2>4, <2>5
  <2>7. c[1] >= pass
    BY <1>1, <1>3, <1>7
  <2> QED BY <2>1, <2>3, <2>4, <2>5, <2>6, <2>7 DEF CandidateOn
<1>17. ASSUME NEW c \in Q, CandidateOn(S, X, G, V, pass, c), c[2] \in S1,
              c[2] # k, c[2] # P[k]
       PROVE  CandidateOn(S1, X1, G1, V1, pass1, c)
  <2>1. /\ Waiting(S, X, G, V, c[2]) /\ X[c[2]] # -1
        /\ <<c[4], c[3], c[5]>> = CurrentAt(X, G, c[2])
    BY <1>17 DEF CandidateOn, Waiting
  <2>2. CurrentAt(X1, G1, c[2]) = CurrentAt(X, G, c[2]) /\ Waiting(S1, X1, G1, V1, c[2])
    BY <1>8, <1>15, <1>17, <2>1
  <2> QED BY <1>3, <2>1, <2>2 DEF CandidateOn
(* Those that are new. *)
<1>18. ASSUME NEW j, j = k \/ j = P[k],
              NEW c \in CandidatesAt(X1, G1, j, pass1 + 1)
       PROVE  /\ j \in S1 /\ j <= k /\ j \in 0..(n - 1) /\ X1[j] \in S1
              /\ c = <<pass1 + 1, j, X1[j], G1[j], G1[X1[j]]>>
              /\ c[1] = pass1 + 1 /\ c[2] = j /\ c[3] = X1[j] /\ c[4] = G1[j]
              /\ c[5] = G1[X1[j]]
  <2>1. j # -1 /\ X1[j] # -1 /\ c = <<pass1 + 1, j, X1[j], G1[j], G1[X1[j]]>>
    BY <1>18 DEF CandidatesAt
  <2>2. j \in S1 /\ j <= k /\ j \in 0..(n - 1)
    BY <1>3, <1>10, <1>11, <1>18, <2>1
  <2>3. X1[j] \in S1
    BY <1>10, <1>11, <1>12, <1>18, <2>1
  <2> QED BY <2>1, <2>2, <2>3
<1>19. ASSUME NEW j, j = k \/ j = P[k], Waiting(S1, X1, G1, V1, j)
       PROVE  \E c \in CandidatesAt(X1, G1, j, pass1 + 1) : CandidateOn(S1, X1, G1, V1, pass1, c) /\ c[2] = j
  <2> DEFINE c == <<pass1 + 1, j, X1[j], G1[j], G1[X1[j]]>>
  <2>1. j # -1 /\ X1[j] # -1
    BY <1>10, <1>19 DEF Waiting
  <2>2. c \in CandidatesAt(X1, G1, j, pass1 + 1)
    BY <2>1 DEF CandidatesAt
  <2>3. c[1] >= pass1
    BY <1>3
  <2>4. CandidateOn(S1, X1, G1, V1, pass1, c) /\ c[2] = j
    BY <1>19, <2>3 DEF CandidateOn, CurrentAt
  <2> QED BY <2>2, <2>4
<1>20. Q1 = (Q \ {First(Q)}) \cup CandidatesAt(X1, G1, P[k], pass1 + 1) \cup CandidatesAt(X1, G1, k, pass1 + 1)
  BY <1>2
<1>21. QueueOn(G1, Q1, n)
  <2>1. ASSUME NEW c \in Q1
        PROVE  /\ c \in Nat \X (0..(n - 1)) \X (0..(n - 1)) \X Nat \X Nat
               /\ c[4] <= G1[c[2]] /\ c[5] <= G1[c[3]]
    <3>1. CASE c \in Q
      <4>1. G[c[2]] <= G1[c[2]] /\ G[c[3]] <= G1[c[3]] /\ c[2] \in 0..(n - 1) /\ c[3] \in 0..(n - 1)
        BY <1>7, <1>8, <3>1
      <4>2. G[c[2]] \in Nat /\ G1[c[2]] \in Nat /\ G[c[3]] \in Nat /\ G1[c[3]] \in Nat
        BY <1>1, <1>8, <4>1
      <4> QED BY <1>7, <3>1, <4>1, <4>2
    <3>2. CASE \E j : (j = k \/ j = P[k]) /\ c \in CandidatesAt(X1, G1, j, pass1 + 1)
      <4>1. PICK j : (j = k \/ j = P[k]) /\ c \in CandidatesAt(X1, G1, j, pass1 + 1)
        BY <3>2
      <4>2. /\ j \in 0..(n - 1) /\ X1[j] \in 0..(n - 1)
            /\ c = <<pass1 + 1, j, X1[j], G1[j], G1[X1[j]]>>
        BY <1>10, <1>18, <4>1
      <4>3. G1[j] \in Nat /\ G1[X1[j]] \in Nat /\ pass1 + 1 \in Nat
        BY <1>3, <1>8, <4>2
      <4> QED BY <4>2, <4>3
    <3> QED BY <1>20, <3>1, <3>2
  <2> QED BY <2>1 DEF QueueOn
<1>22. VisitedOn(G1, V1, n)
  <2>1. DOMAIN V1 = 0..(n - 1)
    BY <1>3 DEF VisitedOn
  <2>2. ASSUME NEW j \in 0..(n - 1), V1[j] # None
        PROVE  V1[j] \in Nat \X (0..(n - 1)) \X Nat /\ V1[j][3] <= G1[V1[j][2]]
    <3>1. V1[j] \in Nat \X (0..(n - 1)) \X Nat /\ V1[j][3] <= G[V1[j][2]]
      BY <1>3, <2>2 DEF VisitedOn
    <3>2. V1[j][2] \in 0..(n - 1) /\ V1[j][3] \in Nat
      BY <3>1
    <3>3. G[V1[j][2]] <= G1[V1[j][2]] /\ G[V1[j][2]] \in Nat /\ G1[V1[j][2]] \in Nat
      BY <1>1, <1>8, <3>2
    <3> QED BY <3>1, <3>2, <3>3
  <2> QED BY <2>1, <2>2 DEF VisitedOn
<1>23. Awaited(S1, X1, G1, Q1, V1, pass1)
  <2>1. ASSUME NEW j \in S1, Waiting(S1, X1, G1, V1, j)
        PROVE  \E c \in Q1 : CandidateOn(S1, X1, G1, V1, pass1, c) /\ c[2] = j
    <3>1. CASE j = k \/ j = P[k]
      <4>1. PICK c \in CandidatesAt(X1, G1, j, pass1 + 1) : CandidateOn(S1, X1, G1, V1, pass1, c) /\ c[2] = j
        BY <1>19, <2>1, <3>1
      <4>2. c \in Q1
        BY <1>20, <3>1
      <4> QED BY <4>1, <4>2
    <3>2. CASE j # k /\ j # P[k]
      <4>1. Waiting(S, X, G, V, j) /\ j \in S
        BY <1>15, <2>1, <3>2
      <4>2. PICK c \in Q : CandidateOn(S, X, G, V, pass, c) /\ c[2] = j
        BY <1>1, <4>1 DEF Awaited
      <4>3. c # First(Q)
        BY <1>6, <3>2, <4>2
      <4> QED BY <1>17, <1>20, <3>2, <4>2, <4>3
    <3> QED BY <3>1, <3>2
  <2> QED BY <2>1 DEF Awaited
<1>24. Sweeps(S1, X1, G1, Q1, V1, pass1, E[v])
  <2>1. ASSUME NEW c \in Q1, CandidateOn(S1, X1, G1, V1, pass1, c)
        PROVE  (c[1] = pass1 /\ c[2] >= E[v]) \/ (c[1] = pass1 + 1 /\ c[2] < E[v])
    <3>1. CASE c \in Q
      <4>1. c[2] \in S1 /\ c[2] # k /\ CandidateOn(S, X, G, V, pass, c) /\ c[2] \in S /\ c[2] \in Nat
        BY <1>10, <1>16, <2>1, <3>1
      <4>2. (c[1] = pass1 /\ c[2] >= v) \/ (c[1] = pass1 + 1 /\ c[2] < k)
        BY <1>3, <3>1, <4>1
      <4>3. c[2] # v /\ (c[2] <= v \/ c[2] >= E[v])
        BY <1>5, <4>1
      <4> QED BY <1>4, <1>5, <4>1, <4>2, <4>3
    <3>2. CASE \E j : (j = k \/ j = P[k]) /\ c \in CandidatesAt(X1, G1, j, pass1 + 1)
      <4>1. PICK j : (j = k \/ j = P[k]) /\ c \in CandidatesAt(X1, G1, j, pass1 + 1)
        BY <3>2
      <4>2. c[1] = pass1 + 1 /\ c[2] = j /\ j <= k /\ j \in 0..(n - 1)
        BY <1>18, <4>1
      <4> QED BY <1>1, <1>4, <1>5, <4>2
    <3> QED BY <1>20, <3>1, <3>2
  <2> QED BY <2>1 DEF Sweeps
<1>25. NativeHolds(in, S1, E1, X1, P1, G1, Q1, V1, pass1, E[v])
  <2>1. E[v] \in 0..n
    BY <1>1, <1>5
  <2> QED BY <1>1, <1>3, <1>8, <1>21, <1>22, <1>23, <1>24, <2>1
       DEF NativeHolds, n
(* The blocks that are left. *)
<1>26. ASSUME NEW t \in Admitted(in), Adjacent(S1 \cup {n}, t),
              V1[t[1]] = CurrentAt(X1, G1, t[1])
       PROVE  t \in B
  <2>1. t \in Triples(n) /\ GroupsOf(S1, E1, n)
    BY <1>8 DEF Admitted, n, Links
  <2>2. t[1] \in S1 /\ E1[t[1]] = t[2] /\ t[2] \in S1 /\ E1[t[2]] = t[3] /\ t = PairAt(E1, t[1])
    BY <1>26, <2>1, PairIs
  <2>3. t[1] # k /\ t[1] # P[k]
    <3>1. P[k] = t[1] => P[k] # -1
      BY <1>10, <2>2
    <3> QED BY <1>13, <1>14, <1>26, <3>1
  <2>4. X1[t[1]] = X[t[1]] /\ E1[t[1]] = E[t[1]] /\ (X[t[1]] # -1 => CurrentAt(X1, G1, t[1]) = CurrentAt(X, G, t[1]))
    BY <1>8, <2>2, <2>3
  <2>5. X[t[1]] # -1
    <3>1. E[t[1]] \in S /\ t[1] \in S
      BY <1>10, <2>2, <2>4
    <3> QED BY <1>1, <3>1, LinksAfter
  <2>6. V[t[1]] = CurrentAt(X, G, t[1])
    BY <1>3, <1>10, <1>26, <2>2, <2>3, <2>4, <2>5
  <2>7. E[t[2]] = t[3]
    <3>1. t[2] # k
      BY <1>8, <1>10, <2>2, <2>3, <2>4
    <3>2. t[2] # P[k] => E1[t[2]] = E[t[2]]
      BY <1>8, <2>2, <3>1
    <3>3. t[2] = P[k] => E[t[2]] = k /\ E1[t[2]] = k
      <4>1. ASSUME t[2] = P[k]
            PROVE  E[t[2]] = k /\ E1[t[2]] = k
        <5>1. P[k] # -1 /\ k # -1
          BY <1>10, <2>2, <4>1
        <5>2. X1[t[2]] = k /\ X1[t[2]] # -1
          BY <1>11, <4>1, <5>1
        <5>3. E1[t[2]] = k
          BY <1>8, <2>2, <5>2, LinksAfter
        <5>4. P[k] \in S /\ k # 0
          BY <1>4, <1>11, <5>1
        <5>5. E[P[k]] = k
          BY <1>1, <1>4, <5>4 DEF Links
        <5> QED BY <4>1, <5>3, <5>5
      <4> QED BY <4>1
    <3> QED BY <2>2, <3>2, <3>3
  <2>8. Adjacent(S \cup {n}, t)
    <3>1. t[1] \in S /\ E[t[1]] \in S /\ t = PairAt(E, t[1])
      <4>1. t = <<t[1], t[2], t[3]>>
        BY <1>1, <2>1, TripleIs
      <4>2. E[t[1]] = t[2]
        BY <2>2, <2>4
      <4> QED BY <1>10, <2>2, <2>7, <4>1, <4>2 DEF PairAt
    <3> QED BY <1>5, <3>1, PairOfGroup
  <2> QED BY <2>6, <2>8 DEF BlockedOn, n
<1>27. ASSUME NEW t \in B, Adjacent(S1 \cup {n}, t)
       PROVE  t \in Admitted(in) /\ V1[t[1]] = CurrentAt(X1, G1, t[1])
  <2>1. t \in Admitted(in) /\ t \in Triples(n) /\ Adjacent(S \cup {n}, t) /\ V[t[1]] = CurrentAt(X, G, t[1])
    BY DEF BlockedOn, Admitted, n
  <2>2. t[1] \in S /\ E[t[1]] = t[2] /\ t[2] \in S /\ E[t[2]] = t[3]
    BY <1>5, <2>1, PairIs
  <2>3. v \notin {t[1], t[2], t[3]}
    <3>1. v # n
      BY <1>4, <1>5
    <3> QED BY <1>27, <3>1 DEF Adjacent
  <2>4. t[1] # k /\ t[2] # k
    BY <2>2, <2>3 DEF v
  <2>5. t[1] # P[k]
    <3>1. ASSUME t[1] = P[k]
          PROVE  FALSE
      <4>1. P[k] \in S /\ k # 0
        <5>1. P[k] # -1
          BY <1>5, <2>2, <3>1
        <5> QED BY <1>4, <1>11, <5>1
      <4>2. E[P[k]] = k
        BY <1>1, <1>4, <4>1 DEF Links
      <4> QED BY <2>2, <2>4, <3>1, <4>2
    <3> QED BY <3>1
  <2>6. X[t[1]] # -1 /\ t[1] \in S1
    BY <1>1, <2>2, <2>3, LinksAfter
  <2> QED BY <1>3, <1>8, <1>10, <2>1, <2>4, <2>5, <2>6
<1>28. B1 = {t \in B : Adjacent(S1 \cup {n}, t)}
  <2>1. \A t \in B1 : t \in B /\ Adjacent(S1 \cup {n}, t)
    BY <1>26 DEF BlockedOn, n
  <2>2. \A t \in B : Adjacent(S1 \cup {n}, t) => t \in B1
    BY <1>27 DEF BlockedOn, n
  <2> QED BY <2>1, <2>2
<1>29. HeapTurn(in, S1, E1, X1, G1, Q1, V1, pass1) = TurnOn(in, S1, B1, E[v])
  BY <1>25, HeapTurnIs
<1> HIDE DEF B, B1, S1
<1> QED BY <1>4, <1>9, <1>25, <1>28, <1>29 DEF FusedHeap, B, B1, S1, K, k, v, n

(* Every leaf for itself, and every pair in the heap. *)
HeapBegins(E, X, P, G, Q, V, n) ==
    /\ UnitLinks(E, X, P, n)
    /\ G = [k \in 0..(n - 1) |-> 0]
    /\ V = [k \in 0..(n - 1) |-> None]
    /\ Q = {<<0, k, k + 1, 0, 0>> : k \in 0..(n - 2)}

(* It holds when the call starts: the candidates are all pairs of leaves. *)
LEMMA NativeBegins ==
    ASSUME NEW in, IsInput(in), in.legal = Triples(in.leaves),
           NEW E, NEW X, NEW P, NEW G, NEW Q, NEW V,
           HeapBegins(E, X, P, G, Q, V, in.leaves)
    PROVE  /\ NativeHolds(in, 0..(in.leaves - 1), E, X, P, G, Q, V, 0, 0)
           /\ BlockedOn(in, 0..(in.leaves - 1), X, G, V) = {}
           /\ 0..(in.leaves - 1) \cup {in.leaves} = 0..in.leaves
           /\ HeapTurn(in, 0..(in.leaves - 1), E, X, G, Q, V, 0) = Turn(in, 0..in.leaves, {}, 0)
<1> DEFINE n == in.leaves
           S == 0..(n - 1)
<1>1. n \in Nat \ {0}
  BY DEF IsInput
<1>2. Links(S, E, X, P, n) /\ S \cup {n} = 0..n
  <2>1. UnitLinks(E, X, P, n)
    BY DEF HeapBegins
  <2> HIDE DEF n
  <2> QED BY <1>1, <2>1, LinksBegin
<1>3. /\ G = [k \in S |-> 0] /\ V = [k \in S |-> None]
      /\ Q = {<<0, k, k + 1, 0, 0>> : k \in 0..(n - 2)}
      /\ X = [s \in S |-> IF s = n - 1 THEN -1 ELSE s + 1]
  BY DEF HeapBegins, UnitLinks
<1> HIDE DEF n
<1>4. G \in [S -> Nat] /\ VisitedOn(G, V, n)
  BY <1>3 DEF VisitedOn
<1>5. \A c \in Q : /\ c[1] = 0 /\ c[2] \in 0..(n - 2) /\ c[3] = c[2] + 1 /\ c[4] = 0 /\ c[5] = 0
                   /\ c = <<0, c[2], c[2] + 1, 0, 0>>
  BY <1>3
<1>6. \A k \in 0..(n - 2) : k \in S /\ k + 1 \in S /\ X[k] = k + 1 /\ k \in Nat
  BY <1>1, <1>3
<1>7. QueueOn(G, Q, n)
  <2>1. ASSUME NEW c \in Q
        PROVE  /\ c \in Nat \X (0..(n - 1)) \X (0..(n - 1)) \X Nat \X Nat
               /\ c[4] <= G[c[2]] /\ c[5] <= G[c[3]]
    <3>1. c[2] \in S /\ c[2] + 1 \in S
      BY <1>5, <1>6
    <3>2. c = <<0, c[2], c[2] + 1, 0, 0>> /\ G[c[2]] = 0 /\ G[c[3]] = 0
      BY <1>3, <1>5, <3>1
    <3> QED BY <1>5, <3>1, <3>2
  <2> QED BY <2>1 DEF QueueOn
<1>8. Awaited(S, X, G, Q, V, 0)
  <2>1. ASSUME NEW k \in S, Waiting(S, X, G, V, k)
        PROVE  \E c \in Q : CandidateOn(S, X, G, V, 0, c) /\ c[2] = k
    <3>1. k \in 0..(n - 2)
      BY <1>1, <1>3, <2>1 DEF Waiting
    <3>2. /\ X[k] = k + 1 /\ k + 1 \in S
      BY <1>6, <3>1
    <3>3. CurrentAt(X, G, k) = <<0, k + 1, 0>>
      BY <1>3, <3>2 DEF CurrentAt
    <3>4. <<0, k, k + 1, 0, 0>> \in Q
      BY <1>3, <3>1
    <3>5. CandidateOn(S, X, G, V, 0, <<0, k, k + 1, 0, 0>>)
      BY <2>1, <3>3 DEF CandidateOn
    <3> QED BY <3>4, <3>5
  <2> QED BY <2>1 DEF Awaited
<1>9. Sweeps(S, X, G, Q, V, 0, 0)
  BY <1>5, <1>6 DEF Sweeps
<1>10. NativeHolds(in, S, E, X, P, G, Q, V, 0, 0)
  <2>1. 0 \in 0..n
    BY <1>1
  <2> QED BY <1>2, <1>4, <1>7, <1>8, <1>9, <2>1 DEF NativeHolds, n
<1>11. BlockedOn(in, S, X, G, V) = {}
  <2>1. ASSUME NEW t \in BlockedOn(in, S, X, G, V)
        PROVE  FALSE
    <3>1. /\ t \in Triples(n) /\ V[t[1]] = CurrentAt(X, G, t[1])
      BY DEF BlockedOn, Admitted, n
    <3>2. t[1] \in S
      <4>1. t[1] \in 0..n /\ t[2] \in 0..n /\ t[1] < t[2]
        BY <1>1, <3>1, TripleIs
      <4> QED BY <1>1, <4>1
    <3>3. V[t[1]] = None /\ \A a, b, c : <<a, b, c>> # None
      BY <1>3, <3>2 DEF None
    <3> QED BY <3>1, <3>3 DEF CurrentAt
  <2> QED BY <2>1
<1>12. HeapTurn(in, S, E, X, G, Q, V, 0) = TurnOn(in, S, {}, 0)
  BY <1>10, <1>11, HeapTurnIs
<1>13. TurnOn(in, S, {}, 0) = Turn(in, 0..n, {}, 0)
  BY <1>2 DEF TurnOn, n
<1> QED BY <1>2, <1>10, <1>11, <1>12, <1>13 DEF n
--------------------------------------------------------------------------------
(* The native engine's nodes N, and the arrays that they are.              *)
AliveOf(N) == {k \in DOMAIN N : N[k].alive}
EndsOf(N) == [k \in DOMAIN N |-> N[k].end]
NextOf(N) == [k \in DOMAIN N |-> N[k].next]
PrevOf(N) == [k \in DOMAIN N |-> N[k].prev]
GensOf(N) == [k \in DOMAIN N |-> N[k].generation]

Node == [end : Nat, prev : Int, next : Int, generation : Nat, alive : BOOLEAN]

(* What holds of the native engine, of its nodes. *)
NodesHold(in, N, Q, V, pass, pos) ==
    /\ N \in [0..(in.leaves - 1) -> Node]
    /\ NativeHolds(in, AliveOf(N), EndsOf(N), NextOf(N), PrevOf(N), GensOf(N), Q, V, pass, pos)

(* Candidates, blocks and the turn, as the engine tells them.              *)
CandidateIn(N, V, pass, c) ==
    /\ /\ c[1] >= pass
       /\ N[c[2]].alive /\ N[c[3]].alive
       /\ N[c[2]].generation = c[4] /\ N[c[3]].generation = c[5]
       /\ N[c[2]].next = c[3] /\ N[c[3]].prev = c[2]
    /\ V[c[2]] # <<c[4], c[3], c[5]>>
(* A candidate whose pair the table has and no cut separates. *)
AdmitsIn(in, N, c) ==
    N[c[2]].end \notin in.cuts /\ Resolves(in, <<c[2], N[c[2]].end, N[c[3]].end>>)
LiveIn(in, N, Q, V, pass) == {c \in Q : CandidateIn(N, V, pass, c) /\ AdmitsIn(in, N, c)}
TurnIn(in, N, Q, V, pass) ==
    LET live == LiveIn(in, N, Q, V, pass)
    IN  IF live = {} THEN None
        ELSE <<First(live)[2], N[First(live)[2]].end, N[First(live)[3]].end>>
BlockedIn(in, N, V) ==
    {<<k, N[k].end, N[N[k].next].end>> :
        k \in {j \in AliveOf(N) :
                 /\ N[j].next # -1
                 /\ V[j] = <<N[j].generation, N[j].next, N[N[j].next].generation>>
                 /\ N[j].end \notin in.cuts
                 /\ Resolves(in, <<j, N[j].end, N[N[j].next].end>>)}}

(* The nodes, field by field. *)
LEMMA NodesAre ==
    ASSUME NEW n, NEW N \in [0..(n - 1) -> Node]
    PROVE  /\ DOMAIN N = 0..(n - 1)
           /\ \A k \in 0..(n - 1) :
                /\ EndsOf(N)[k] = N[k].end /\ NextOf(N)[k] = N[k].next
                /\ PrevOf(N)[k] = N[k].prev
                /\ GensOf(N)[k] = N[k].generation /\ (k \in AliveOf(N) <=> N[k].alive)
           /\ AliveOf(N) \subseteq 0..(n - 1)
BY DEF EndsOf, NextOf, PrevOf, GensOf, AliveOf, Node

(* Admission of a pair of groups when nothing else is illegal. *)
LEMMA AdmitsPair ==
    ASSUME NEW in, in.legal = Triples(in.leaves), NEW S, NEW E,
           GroupsOf(S, E, in.leaves),
           NEW k \in S, E[k] \in S
    PROVE  PairAt(E, k) \in Admitted(in) <=>
             E[k] \notin in.cuts /\ Resolves(in, <<k, E[k], E[E[k]]>>)
<1>1. /\ PairAt(E, k) \in Triples(in.leaves)
      /\ Adjacent(S \cup {in.leaves}, PairAt(E, k))
      /\ PairAt(E, k)[2] = E[k]
  BY PairOfGroup
<1> QED BY <1>1 DEF Admitted, PairAt

(* The engine's candidates are those of the links. *)
LEMMA CandidatesShow ==
    ASSUME NEW in, NEW N, NEW Q, NEW V, NEW pass, NEW pos,
           NodesHold(in, N, Q, V, pass, pos), NEW c \in Q
    PROVE  /\ CandidateIn(N, V, pass, c) <=> CandidateOn(AliveOf(N), NextOf(N), GensOf(N), V, pass, c)
           /\ CandidateIn(N, V, pass, c) =>
                /\ <<c[4], c[3], c[5]>> = CurrentAt(NextOf(N), GensOf(N), c[2])
                /\ c[3] = N[c[2]].next /\ c[3] = N[c[2]].end /\ c[2] # c[3]
                /\ c[2] \in AliveOf(N) /\ c[3] \in AliveOf(N)
                /\ c[2] \in 0..(in.leaves - 1) /\ c[3] \in 0..(in.leaves - 1)
                /\ <<c[2], N[c[2]].end, N[c[3]].end>> = PairAt(EndsOf(N), c[2])
                /\ AdmitsIn(in, N, c) <=> PairAt(EndsOf(N), c[2]) \in Admitted(in)
<1> DEFINE n == in.leaves
           S == AliveOf(N)
           E == EndsOf(N)
           X == NextOf(N)
           P == PrevOf(N)
           G == GensOf(N)
<1>1. /\ n \in Nat /\ in.legal = Triples(n) /\ Links(S, E, X, P, n)
      /\ QueueOn(G, Q, n)
      /\ N \in [0..(n - 1) -> Node]
  BY DEF NodesHold, NativeHolds, IsInput
<1>2. /\ \A k \in 0..(n - 1) :
           /\ E[k] = N[k].end /\ X[k] = N[k].next /\ P[k] = N[k].prev
           /\ G[k] = N[k].generation /\ (k \in S <=> N[k].alive)
      /\ S \subseteq 0..(n - 1)
  BY <1>1, NodesAre
<1>3. c[2] \in 0..(n - 1) /\ c[3] \in 0..(n - 1) /\ GroupsOf(S, E, n)
  BY <1>1, QueueIs DEF Links
<1>4. /\ P[0] = -1 /\ \A r \in S \ {0} : P[r] \in S /\ E[P[r]] = r
  BY <1>1 DEF Links
<1> HIDE DEF n, S, E, X, P, G
<1>5. CandidateIn(N, V, pass, c) <=>
        /\ c[1] >= pass /\ c[2] \in S /\ c[3] \in S
        /\ G[c[2]] = c[4] /\ G[c[3]] = c[5] /\ X[c[2]] = c[3] /\ P[c[3]] = c[2]
        /\ V[c[2]] # <<c[4], c[3], c[5]>>
  BY <1>2, <1>3 DEF CandidateIn
<1>6. CandidateOn(S, X, G, V, pass, c) <=>
        /\ c[1] >= pass /\ c[2] \in S /\ X[c[2]] # -1
        /\ c[4] = G[c[2]] /\ c[3] = X[c[2]] /\ c[5] = G[X[c[2]]]
        /\ V[c[2]] # <<c[4], c[3], c[5]>>
  BY DEF CandidateOn, Waiting, CurrentAt
<1>7. ASSUME c[2] \in S, X[c[2]] # -1, c[3] = X[c[2]]
      PROVE  c[3] \in S /\ c[3] = E[c[2]] /\ P[c[3]] = c[2] /\ c[2] # c[3]
  <2>1. c[3] \in S /\ c[3] = E[c[2]]
    BY <1>1, <1>7, LinksAfter
  <2>2. c[2] \in Nat /\ c[2] < E[c[2]] /\ \A b \in S : b \in Nat /\ (b <= c[2] \/ b >= E[c[2]])
    BY <1>3, <1>7, GroupFacts
  <2>3. P[c[3]] \in S /\ E[P[c[3]]] = c[3]
    BY <1>4, <2>1, <2>2
  <2>4. P[c[3]] < E[P[c[3]]] /\ \A b \in S : b <= P[c[3]] \/ b >= E[P[c[3]]]
    BY <1>3, <2>3, GroupFacts
  <2>5. P[c[3]] = c[2]
    BY <1>7, <2>1, <2>2, <2>3, <2>4
  <2> QED BY <2>1, <2>2, <2>5
<1>8. c[3] # -1
  BY <1>3
<1>9. CandidateIn(N, V, pass, c) <=> CandidateOn(S, X, G, V, pass, c)
  BY <1>5, <1>6, <1>7, <1>8
<1>10. ASSUME CandidateIn(N, V, pass, c)
       PROVE  /\ <<c[4], c[3], c[5]>> = CurrentAt(X, G, c[2])
              /\ c[3] = N[c[2]].next /\ c[3] = N[c[2]].end /\ c[2] # c[3]
              /\ c[2] \in S /\ c[3] \in S
              /\ <<c[2], N[c[2]].end, N[c[3]].end>> = PairAt(E, c[2])
              /\ AdmitsIn(in, N, c) <=> PairAt(E, c[2]) \in Admitted(in)
  <2>1. /\ c[2] \in S /\ c[3] \in S /\ c[3] = X[c[2]] /\ X[c[2]] # -1
        /\ <<c[4], c[3], c[5]>> = CurrentAt(X, G, c[2])
    BY <1>5, <1>8, <1>10 DEF CurrentAt
  <2>2. c[3] = E[c[2]] /\ c[2] # c[3]
    BY <1>7, <2>1
  <2>3. N[c[2]].end = E[c[2]] /\ N[c[3]].end = E[c[3]] /\ N[c[2]].next = X[c[2]]
    BY <1>2, <1>3
  <2>4. <<c[2], N[c[2]].end, N[c[3]].end>> = PairAt(E, c[2])
    BY <2>2, <2>3 DEF PairAt
  <2>5. E[c[2]] \in S
    BY <2>1, <2>2
  <2>6. PairAt(E, c[2]) \in Admitted(in) <=>
          E[c[2]] \notin in.cuts /\ Resolves(in, <<c[2], E[c[2]], E[E[c[2]]]>>)
    BY <1>1, <1>3, <2>1, <2>5, AdmitsPair DEF n
  <2>7. AdmitsIn(in, N, c) <=> PairAt(E, c[2]) \in Admitted(in)
    BY <2>2, <2>3, <2>6 DEF AdmitsIn
  <2> QED BY <2>1, <2>2, <2>3, <2>4, <2>7
<1> QED BY <1>3, <1>9, <1>10 DEF n, S, E, X, G

(* So are the turn and the blocks it shows. *)
LEMMA NodesShow ==
    ASSUME NEW in, NEW N, NEW Q, NEW V, NEW pass, NEW pos,
           NodesHold(in, N, Q, V, pass, pos)
    PROVE  /\ TurnIn(in, N, Q, V, pass) =
                HeapTurn(in, AliveOf(N), EndsOf(N), NextOf(N), GensOf(N), Q, V, pass)
           /\ BlockedIn(in, N, V) = BlockedOn(in, AliveOf(N), NextOf(N), GensOf(N), V)
<1> DEFINE n == in.leaves
           S == AliveOf(N)
           E == EndsOf(N)
           X == NextOf(N)
           P == PrevOf(N)
           G == GensOf(N)
           live == LiveIn(in, N, Q, V, pass)
<1>1. /\ n \in Nat /\ in.legal = Triples(n) /\ Links(S, E, X, P, n)
      /\ QueueOn(G, Q, n)
      /\ N \in [0..(n - 1) -> Node] /\ GroupsOf(S, E, n)
  BY DEF NodesHold, NativeHolds, IsInput, Links
<1>2. /\ \A k \in 0..(n - 1) :
           /\ E[k] = N[k].end /\ X[k] = N[k].next
           /\ G[k] = N[k].generation /\ (k \in S <=> N[k].alive)
      /\ S \subseteq 0..(n - 1)
  BY <1>1, NodesAre
<1>3. live = LiveOn(in, S, E, X, G, Q, V, pass)
  <2>1. \A c \in Q : CandidateIn(N, V, pass, c) /\ AdmitsIn(in, N, c) <=>
                     CandidateOn(S, X, G, V, pass, c) /\ PairAt(E, c[2]) \in Admitted(in)
    BY CandidatesShow
  <2> QED BY <2>1 DEF LiveIn, LiveOn
<1>4. TurnIn(in, N, Q, V, pass) = HeapTurn(in, S, E, X, G, Q, V, pass)
  <2>1. CASE live = {}
    BY <1>3, <2>1 DEF TurnIn, HeapTurn
  <2>2. CASE live # {}
    <3> DEFINE m == First(live)
    <3>1. m \in live /\ live \subseteq Q
      <4>1. live \subseteq Entries /\ live \subseteq Q
        BY <1>1, QueueIs DEF LiveIn
      <4> HIDE DEF live
      <4> QED BY <2>2, <4>1, FirstIs
    <3>2. m \in Q /\ CandidateIn(N, V, pass, m)
      BY <3>1 DEF LiveIn
    <3> HIDE DEF m
    <3>3. <<m[2], N[m[2]].end, N[m[3]].end>> = PairAt(E, m[2])
      BY <3>2, CandidatesShow
    <3>4. TurnIn(in, N, Q, V, pass) = <<m[2], N[m[2]].end, N[m[3]].end>>
      BY <2>2 DEF TurnIn, m
    <3>5. HeapTurn(in, S, E, X, G, Q, V, pass) = PairAt(E, m[2])
      BY <1>3, <2>2 DEF HeapTurn, m
    <3> QED BY <3>3, <3>4, <3>5
  <2> QED BY <2>1, <2>2
<1> DEFINE Kept(k) == /\ N[k].next # -1
                      /\ V[k] = <<N[k].generation, N[k].next, N[N[k].next].generation>>
                      /\ N[k].end \notin in.cuts
                      /\ Resolves(in, <<k, N[k].end, N[N[k].next].end>>)
           Shown(k) == <<k, N[k].end, N[N[k].next].end>>
<1>5. BlockedIn(in, N, V) = {Shown(k) : k \in {j \in S : Kept(j)}}
  BY DEF BlockedIn
<1>6. ASSUME NEW k \in S
      PROVE  /\ Kept(k) <=> E[k] \in S /\ PairAt(E, k) \in Admitted(in) /\ V[k] = CurrentAt(X, G, k)
             /\ Kept(k) => Shown(k) = PairAt(E, k)
  <2> HIDE DEF n, S, E, X, P, G
  <2>1. k \in 0..(n - 1) /\ E[k] = N[k].end /\ X[k] = N[k].next /\ G[k] = N[k].generation
    BY <1>2
  <2>2. X[k] # -1 <=> E[k] \in S
    BY <1>1, LinksAfter
  <2>3. CASE E[k] \in S
    <3>1. X[k] = E[k] /\ X[k] # -1 /\ E[k] \in 0..(n - 1)
      BY <1>1, <1>2, <2>2, <2>3, LinksAfter
    <3>2. /\ E[X[k]] = N[N[k].next].end /\ G[X[k]] = N[N[k].next].generation
      BY <1>2, <2>1, <3>1
    <3>3. PairAt(E, k) \in Admitted(in) <=> E[k] \notin in.cuts /\ Resolves(in, <<k, E[k], E[E[k]]>>)
      BY <1>1, <2>3, AdmitsPair DEF n
    <3>4. Shown(k) = PairAt(E, k)
      BY <2>1, <3>1, <3>2 DEF PairAt
    <3> QED BY <2>1, <2>3, <3>1, <3>2, <3>3, <3>4 DEF CurrentAt
  <2>4. CASE E[k] \notin S
    BY <2>1, <2>2, <2>4
  <2> QED BY <2>3, <2>4
<1> HIDE DEF Kept, Shown
<1>7. \A t \in BlockedIn(in, N, V) : t \in BlockedOn(in, S, X, G, V)
  <2>1. ASSUME NEW k \in S, Kept(k)
        PROVE  Shown(k) \in BlockedOn(in, S, X, G, V)
    <3>1. Shown(k) = PairAt(E, k) /\ E[k] \in S /\ PairAt(E, k) \in Admitted(in) /\ V[k] = CurrentAt(X, G, k)
      BY <1>6, <2>1
    <3>2. Adjacent(S \cup {n}, PairAt(E, k)) /\ PairAt(E, k)[1] = k
      BY <1>1, <3>1, PairOfGroup
    <3> QED BY <3>1, <3>2 DEF BlockedOn
  <2> QED BY <1>5, <2>1
<1>8. \A t \in BlockedOn(in, S, X, G, V) : t \in BlockedIn(in, N, V)
  <2>1. ASSUME NEW t \in BlockedOn(in, S, X, G, V)
        PROVE  t \in BlockedIn(in, N, V)
    <3>1. t \in Admitted(in) /\ t \in Triples(n) /\ Adjacent(S \cup {n}, t) /\ V[t[1]] = CurrentAt(X, G, t[1])
      BY DEF BlockedOn, Admitted
    <3>2. t[1] \in S /\ E[t[1]] \in S /\ t = PairAt(E, t[1])
      BY <1>1, <3>1, PairIs
    <3>3. Kept(t[1]) /\ t = Shown(t[1])
      BY <1>6, <3>1, <3>2
    <3> QED BY <1>5, <3>2, <3>3
  <2> QED BY <2>1
<1> QED BY <1>4, <1>7, <1>8

(* The nodes when the left one takes in the right one. *)
FusedNodes(N, left, right) ==
    LET after == N[right].next
        linked == [N EXCEPT
                      ![left] = [@ EXCEPT !.end = N[right].end, !.next = after,
                                          !.generation = N[left].generation + 1],
                      ![right].alive = FALSE]
    IN  IF after = -1 THEN linked ELSE [linked EXCEPT ![after].prev = left]

(* As a relation. *)
TakesInNode(N, left, right, N1) == N1 = FusedNodes(N, left, right)

(* The nodes after a fusion are those of the links after it. *)
LEMMA NodesTakeIn ==
    ASSUME NEW n \in Nat, NEW N \in [0..(n - 1) -> Node],
           NEW left \in 0..(n - 1), NEW right \in 0..(n - 1), left # right,
           N[left].next = right,
           N[right].next = -1 \/ (N[right].next \in 0..(n - 1) /\ N[right].next # left /\ N[right].next # right),
           NEW N1, TakesInNode(N, left, right, N1)
    PROVE  /\ N1 \in [0..(n - 1) -> Node]
           /\ AliveOf(N1) = AliveOf(N) \ {right}
           /\ FusesNodes(EndsOf(N), NextOf(N), PrevOf(N), GensOf(N), left,
                         EndsOf(N1), NextOf(N1), PrevOf(N1), GensOf(N1))
<1> DEFINE after == N[right].next
<1>1. \A k \in 0..(n - 1) :
        /\ N[k] = [end |-> N[k].end, prev |-> N[k].prev, next |-> N[k].next,
                   generation |-> N[k].generation, alive |-> N[k].alive]
        /\ N[k].end \in Nat /\ N[k].prev \in Int /\ N[k].next \in Int
        /\ N[k].generation \in Nat /\ N[k].alive \in BOOLEAN
  BY DEF Node
<1>2. N1 = FusedNodes(N, left, right)
  BY DEF TakesInNode
<1> DEFINE linked == [N EXCEPT
                         ![left] = [@ EXCEPT !.end = N[right].end, !.next = after,
                                             !.generation = N[left].generation + 1],
                         ![right].alive = FALSE]
<1>3. N1 = IF after = -1 THEN linked ELSE [linked EXCEPT ![after].prev = left]
  BY <1>2 DEF FusedNodes
<1>4. /\ linked \in [0..(n - 1) -> Node]
      /\ linked[left] = [end |-> N[right].end, prev |-> N[left].prev, next |-> after,
                         generation |-> N[left].generation + 1, alive |-> N[left].alive]
      /\ linked[right] = [end |-> N[right].end, prev |-> N[right].prev, next |-> N[right].next,
                          generation |-> N[right].generation, alive |-> FALSE]
      /\ \A k \in 0..(n - 1) : k # left /\ k # right => linked[k] = N[k]
  <2>1. linked[left] = [N[left] EXCEPT !.end = N[right].end, !.next = after, !.generation = N[left].generation + 1]
    OBVIOUS
  <2>2. linked[right] = [N[right] EXCEPT !.alive = FALSE]
    OBVIOUS
  <2>3. \A k \in 0..(n - 1) : k # left /\ k # right => linked[k] = N[k]
    OBVIOUS
  <2>4. DOMAIN linked = 0..(n - 1) /\ linked = [k \in 0..(n - 1) |-> linked[k]]
    OBVIOUS
  <2> HIDE DEF linked
  <2>5. linked[left] = [end |-> N[right].end, prev |-> N[left].prev, next |-> after,
                        generation |-> N[left].generation + 1, alive |-> N[left].alive]
    BY <1>1, <2>1
  <2>6. linked[right] = [end |-> N[right].end, prev |-> N[right].prev, next |-> N[right].next,
                         generation |-> N[right].generation, alive |-> FALSE]
    BY <1>1, <2>2
  <2>7. linked[left] \in Node /\ linked[right] \in Node
    BY <1>1, <2>5, <2>6 DEF Node
  <2>8. \A k \in 0..(n - 1) : linked[k] \in Node
    BY <2>3, <2>7
  <2> QED BY <2>3, <2>4, <2>5, <2>6, <2>8
<1> HIDE DEF linked, after
<1>5. \A k \in 0..(n - 1) :
        /\ linked[k].end = IF k = left THEN N[right].end ELSE N[k].end
        /\ linked[k].next = IF k = left THEN after ELSE N[k].next
        /\ linked[k].prev = N[k].prev
        /\ linked[k].generation = IF k = left THEN N[k].generation + 1 ELSE N[k].generation
        /\ linked[k].alive <=> N[k].alive /\ k # right
  <2> TAKE k \in 0..(n - 1)
  <2>1. CASE k = left
    BY <1>4, <2>1
  <2>2. CASE k = right
    BY <1>4, <2>2 DEF after
  <2>3. CASE k # left /\ k # right
    BY <1>4, <2>3
  <2> QED BY <2>1, <2>2, <2>3
<1>6. /\ N1 \in [0..(n - 1) -> Node]
      /\ \A k \in 0..(n - 1) :
           /\ N1[k].end = linked[k].end /\ N1[k].next = linked[k].next
           /\ N1[k].generation = linked[k].generation /\ (N1[k].alive <=> linked[k].alive)
           /\ N1[k].prev = IF after # -1 /\ k = after THEN left ELSE linked[k].prev
  <2>1. CASE after = -1
    BY <1>3, <1>4, <2>1
  <2>2. CASE after # -1
    <3>1. N1 = [linked EXCEPT ![after].prev = left] /\ after \in 0..(n - 1) /\ linked[after] \in Node
      BY <1>3, <1>4, <2>2 DEF after
    <3>2. /\ N1[after] = [linked[after] EXCEPT !.prev = left]
          /\ \A k \in 0..(n - 1) : k # after => N1[k] = linked[k]
          /\ N1 = [k \in 0..(n - 1) |-> N1[k]]
      BY <1>4, <3>1
    <3>3. left \in Int
      OBVIOUS
    <3>4. /\ N1[after] \in Node /\ N1[after].prev = left
          /\ N1[after].end = linked[after].end
          /\ N1[after].next = linked[after].next
          /\ N1[after].generation = linked[after].generation
          /\ N1[after].alive = linked[after].alive
      BY <3>1, <3>2, <3>3 DEF Node
    <3>5. \A k \in 0..(n - 1) : N1[k] \in Node
      BY <1>4, <3>2, <3>4
    <3> QED BY <2>2, <3>2, <3>4, <3>5
  <2> QED BY <2>1, <2>2
<1>7. AliveOf(N1) = AliveOf(N) \ {right}
  <2>1. \A k : k \in AliveOf(N1) <=> k \in 0..(n - 1) /\ N1[k].alive
    BY <1>6 DEF AliveOf
  <2>2. \A k : k \in AliveOf(N) <=> k \in 0..(n - 1) /\ N[k].alive
    BY DEF AliveOf
  <2> QED BY <1>5, <1>6, <2>1, <2>2
<1>8. /\ EndsOf(N1) = [k \in 0..(n - 1) |-> N1[k].end]
      /\ EndsOf(N) = [k \in 0..(n - 1) |-> N[k].end]
      /\ NextOf(N1) = [k \in 0..(n - 1) |-> N1[k].next]
      /\ NextOf(N) = [k \in 0..(n - 1) |-> N[k].next]
      /\ PrevOf(N1) = [k \in 0..(n - 1) |-> N1[k].prev]
      /\ PrevOf(N) = [k \in 0..(n - 1) |-> N[k].prev]
      /\ GensOf(N1) = [k \in 0..(n - 1) |-> N1[k].generation]
      /\ GensOf(N) = [k \in 0..(n - 1) |-> N[k].generation]
  BY <1>6 DEF EndsOf, NextOf, PrevOf, GensOf
<1>9. NextOf(N)[left] = right /\ NextOf(N)[right] = after
  BY <1>8 DEF after
<1>10. EndsOf(N1) = [EndsOf(N) EXCEPT ![left] = EndsOf(N)[right]]
  <2> DEFINE F == EndsOf(N)
             F1 == EndsOf(N1)
  <2>1. /\ F = [k \in 0..(n - 1) |-> F[k]] /\ F1 = [k \in 0..(n - 1) |-> F1[k]]
        /\ \A k \in 0..(n - 1) : F[k] = N[k].end /\ F1[k] = N1[k].end
    BY <1>8
  <2>2. \A k \in 0..(n - 1) : F1[k] = IF k = left THEN F[right] ELSE F[k]
    BY <1>5, <1>6, <2>1
  <2> HIDE DEF F, F1
  <2>3. F1 = [F EXCEPT ![left] = F[right]]
    BY ONLY <2>1, <2>2
  <2> QED BY <2>3 DEF F, F1
<1>11. NextOf(N1) = [NextOf(N) EXCEPT ![left] = NextOf(N)[right]]
  <2> DEFINE F == NextOf(N)
             F1 == NextOf(N1)
  <2>1. /\ F = [k \in 0..(n - 1) |-> F[k]] /\ F1 = [k \in 0..(n - 1) |-> F1[k]]
        /\ \A k \in 0..(n - 1) : F[k] = N[k].next /\ F1[k] = N1[k].next
    BY <1>8
  <2>2. \A k \in 0..(n - 1) : F1[k] = IF k = left THEN F[right] ELSE F[k]
    BY <1>5, <1>6, <2>1, <1>9
  <2> HIDE DEF F, F1
  <2>3. F1 = [F EXCEPT ![left] = F[right]]
    BY ONLY <2>1, <2>2
  <2> QED BY <2>3 DEF F, F1
<1>12. PrevOf(N1) = IF after = -1 THEN PrevOf(N) ELSE [PrevOf(N) EXCEPT ![after] = left]
  <2> DEFINE F == PrevOf(N)
             F1 == PrevOf(N1)
  <2>1. /\ F = [k \in 0..(n - 1) |-> F[k]] /\ F1 = [k \in 0..(n - 1) |-> F1[k]]
        /\ \A k \in 0..(n - 1) : F[k] = N[k].prev /\ F1[k] = N1[k].prev
    BY <1>8
  <2>2. \A k \in 0..(n - 1) : F1[k] = IF after # -1 /\ k = after THEN left ELSE F[k]
    BY <1>5, <1>6, <2>1
  <2> HIDE DEF F, F1
  <2>3. F1 = IF after = -1 THEN F ELSE [F EXCEPT ![after] = left]
    <3>1. CASE after = -1
      BY ONLY <2>1, <2>2, <3>1
    <3>2. CASE after # -1
      BY ONLY <2>1, <2>2, <3>2
    <3> QED BY <3>1, <3>2
  <2> QED BY <2>3 DEF F, F1
<1>13. GensOf(N1) = [GensOf(N) EXCEPT ![left] = GensOf(N)[left] + 1]
  <2> DEFINE F == GensOf(N)
             F1 == GensOf(N1)
  <2>1. /\ F = [k \in 0..(n - 1) |-> F[k]] /\ F1 = [k \in 0..(n - 1) |-> F1[k]]
        /\ \A k \in 0..(n - 1) : F[k] = N[k].generation /\ F1[k] = N1[k].generation
    BY <1>8
  <2>2. \A k \in 0..(n - 1) : F1[k] = IF k = left THEN F[left] + 1 ELSE F[k]
    BY <1>5, <1>6, <2>1
  <2> HIDE DEF F, F1
  <2>3. F1 = [F EXCEPT ![left] = F[left] + 1]
    BY ONLY <2>1, <2>2
  <2> QED BY <2>3 DEF F, F1
<1> QED BY <1>6, <1>7, <1>9, <1>10, <1>11, <1>12, <1>13
     DEF FusesNodes, FuseLinks
================================================================================
