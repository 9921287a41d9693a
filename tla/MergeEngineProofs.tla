---- MODULE MergeEngineProofs ----
(***************************************************************************)
(* Whatever the inputs, every engine for SuperBPE merges keeps its groups  *)
(* a partition of the leaves and its links and blocks those of adjacent    *)
(* groups, and makes the steps of the contract the engines share.          *)
(***************************************************************************)
EXTENDS MCMergeEngines, MergeFacts

(***************************************************************************)
(* Each engine's copies of what the contract's types define are the same.  *)
(***************************************************************************)
LEMMA SameReference ==
    /\ \A in, t : Reference!Resolves(in, t) <=> Resolves(in, t)
    /\ \A n : Reference!Triples(n) = Triples(n)
    /\ \A in, b, k, p : Reference!Turn(in, b, k, p) = Turn(in, b, k, p)
    /\ Reference!None = None
BY DEF Reference!Resolves, Reference!Triples, Reference!Turn,
      Reference!Admitted,
       Reference!Adjacent, Reference!None, Resolves, Triples, Turn, Admitted, Adjacent, None

LEMMA SameFast ==
    /\ \A in, t : Fast!Resolves(in, t) <=> Resolves(in, t)
    /\ \A n : Fast!Triples(n) = Triples(n)
    /\ \A in, b, k, p : Fast!Turn(in, b, k, p) = Turn(in, b, k, p)
    /\ Fast!None = None
BY DEF Fast!Resolves, Fast!Triples, Fast!Turn, Fast!Admitted,
       Fast!Adjacent, Fast!None, Resolves, Triples, Turn, Admitted, Adjacent, None

LEMMA SameInline ==
    /\ \A n : Inline!Triples(n) = Triples(n)
    /\ \A in, b, k, p : Inline!Turn(in, b, k, p) = Turn(in, b, k, p)
    /\ Inline!None = None
BY DEF Inline!Resolves, Inline!Triples, Inline!Turn, Inline!Admitted,
       Inline!Adjacent, Inline!None, Resolves, Triples, Turn, Admitted, Adjacent, None

LEMMA SameNative ==
    /\ \A in, t : Native!Resolves(in, t) <=> Resolves(in, t)
    /\ \A n : Native!Triples(n) = Triples(n)
    /\ \A in, b, k, p : Native!Turn(in, b, k, p) = Turn(in, b, k, p)
    /\ Native!None = None
BY DEF Native!Resolves, Native!Triples, Native!Turn, Native!Admitted,
       Native!Adjacent, Native!None, Resolves, Triples, Turn, Admitted, Adjacent, None

LEMMA SameContract ==
    /\ \A in, b, k, p : Contract!Turn(in, b, k, p) = Turn(in, b, k, p)
    /\ \A b, t : Contract!Adjacent(b, t) <=> Adjacent(b, t)
    /\ Contract!None = None
BY DEF Contract!Resolves, Contract!Triples, Contract!Turn, Contract!Admitted,
       Contract!Adjacent, Contract!None, Resolves, Triples, Turn, Admitted, Adjacent, None

--------------------------------------------------------------------------------
(* A step of SuperBpePassV1 from boundaries B, blocked pairs K and turn T  *)
(* to B1, K1 and T1.                                                       *)
Decision == /\ input.dropping => drawn < input.tape
            /\ drawn' = IF input.dropping THEN drawn + 1 ELSE drawn

PassFuse(B, K, T, B1, K1, T1) ==
    /\ outcome = "running" /\ T # None /\ Decision
    /\ B1 = B \ {T[2]}
    /\ K1 = {t \in K : Adjacent(B1, t)}
    /\ T1 = Turn(input, B1, K1, T[3])
    /\ input' = input /\ outcome' = outcome

PassDrop(B, K, T, B1, K1, T1) ==
    /\ outcome = "running" /\ T # None /\ input.dropping /\ Decision
    /\ B1 = B
    /\ K1 = K \cup {T}
    /\ T1 = Turn(input, B, K1, T[2])
    /\ input' = input /\ outcome' = outcome

PassEnds(B, K, T, B1, K1, T1) ==
    /\ outcome = "running"
    /\ \/ T # None /\ input.dropping /\ drawn = input.tape /\ outcome' = "DecisionError"
       \/ T = None /\ outcome' = "plan"
    /\ B1 = B /\ K1 = K /\ T1 = T /\ input' = input /\ drawn' = drawn

PassSame(B, K, T, B1, K1, T1) ==
    /\ B1 = B /\ K1 = K /\ T1 = T
    /\ input' = input /\ drawn' = drawn /\ outcome' = outcome

PassStep(B, K, T, B1, K1, T1) ==
    \/ PassFuse(B, K, T, B1, K1, T1)
    \/ PassDrop(B, K, T, B1, K1, T1)
    \/ PassEnds(B, K, T, B1, K1, T1)
    \/ PassSame(B, K, T, B1, K1, T1)

(* Such a step of the engine of the call is one of the contract.           *)
LEMMA PassStepIsContract ==
    ASSUME PassStep(ChosenBounds, ChosenBlocked, ChosenTurn,
                    ChosenBounds', ChosenBlocked', ChosenTurn')
    PROVE  [Contract!Next]_(Contract!vars)
<1>1. CASE PassFuse(ChosenBounds, ChosenBlocked, ChosenTurn, ChosenBounds', ChosenBlocked', ChosenTurn')
  <2>1. Contract!Fuse
    BY <1>1, SameContract
      DEF PassFuse, Decision, Contract!Fuse, Contract!Visit, Contract!Draw
  <2> QED BY <2>1 DEF Contract!Next
<1>2. CASE PassDrop(ChosenBounds, ChosenBlocked, ChosenTurn, ChosenBounds', ChosenBlocked', ChosenTurn')
  <2>1. Contract!Drop
    BY <1>2, SameContract
      DEF PassDrop, Decision, Contract!Drop, Contract!Visit, Contract!Draw
  <2> QED BY <2>1 DEF Contract!Next
<1>3. CASE PassEnds(ChosenBounds, ChosenBlocked, ChosenTurn, ChosenBounds', ChosenBlocked', ChosenTurn')
  <2>1. Contract!Exhaust \/ Contract!Finish
    BY <1>3, SameContract
      DEF PassEnds, Contract!Exhaust, Contract!Finish, Contract!Visit
  <2> QED BY <2>1 DEF Contract!Next
<1>4. CASE PassSame(ChosenBounds, ChosenBlocked, ChosenTurn, ChosenBounds', ChosenBlocked', ChosenTurn')
  BY <1>4 DEF PassSame, Contract!vars
<1> QED BY <1>1, <1>2, <1>3, <1>4 DEF PassStep

--------------------------------------------------------------------------------
(* The reference engine's lists, and what it shows of them.                *)
ReferenceInv == ReferenceHolds(input, nxt, current, cursor, accepted, blocked)

(* What it shows, in terms of its lists. *)
LEMMA ReferenceShows ==
    /\ Reference!Bounds = BoundsOf(nxt, current, cursor, input.leaves)
    /\ Reference!TurnNow = TurnAt(input, nxt, current, cursor, blocked)
    /\ Reference!Key(cursor) = KeyOf(current, cursor)
    /\ Reference!Bounds' = BoundsOf(nxt', current', cursor', input'.leaves)
    /\ Reference!TurnNow' = TurnAt(input', nxt', current', cursor', blocked')
<1>1. /\ Reference!Bounds = BoundsOf(nxt, current, cursor, input.leaves)
      /\ Reference!Bounds' = BoundsOf(nxt', current', cursor', input'.leaves)
  BY DEF Reference!Bounds, Reference!Groups, BoundsOf, Joined, Beginnings
<1>2. /\ Reference!Position = PositionOf(current, cursor, input.leaves)
      /\ Reference!Position' = PositionOf(current', cursor', input'.leaves)
  BY DEF Reference!Position, Reference!Left, PositionOf
<1>3. Reference!Key(cursor) = KeyOf(current, cursor)
  BY DEF Reference!Key, KeyOf
<1> QED BY <1>1, <1>2, <1>3, SameReference DEF Reference!TurnNow, TurnAt

(* A pair it may fuse is one that is open. *)
LEMMA ReferenceReady ==
    ASSUME ReferenceInv
    PROVE  Reference!Eligible <=> Ready(input, current, cursor, blocked)
<1>1. /\ ListsOf(nxt, current, cursor, input.leaves) /\ cursor \in Nat
      /\ Len(current) \in Nat
  BY NoBoundInside DEF ReferenceInv, ReferenceHolds, ListsOf
<1>2. ASSUME cursor < Len(current)
      PROVE  KeyOf(current, cursor) \in Triples(input.leaves) /\ KeyOf(current, cursor)[2] = current[cursor][2]
  <2>1. cursor \in cursor..Len(current)
    BY <1>1, <1>2
  <2> QED BY <1>1, <1>2, <2>1, KeyIsAPair
<1>3. Reference!Eligible <=> /\ cursor < Len(current)
                             /\ Resolves(input, KeyOf(current, cursor))
                             /\ KeyOf(current, cursor) \notin blocked
                             /\ current[cursor][2] \notin input.cuts
                             /\ KeyOf(current, cursor) \in input.legal
  BY ReferenceShows, SameReference DEF Reference!Eligible, Reference!Left
<1> QED BY <1>2, <1>3 DEF Ready, Admitted

(* Each step keeps them, and shows a step of the contract. *)
LEMMA ReferenceStep ==
    ASSUME ReferenceInv, Reference!Next
    PROVE  /\ ReferenceInv'
           /\ PassStep(Reference!Bounds, blocked, Reference!TurnNow,
                       Reference!Bounds', blocked', Reference!TurnNow')
<1> DEFINE K == KeyOf(current, cursor)
           B == BoundsOf(nxt, current, cursor, input.leaves)
           T == TurnAt(input, nxt, current, cursor, blocked)
<1>1. /\ Reference!Bounds = B /\ Reference!TurnNow = T
      /\ Reference!Bounds' = BoundsOf(nxt', current', cursor', input'.leaves)
      /\ Reference!TurnNow' = TurnAt(input', nxt', current', cursor', blocked')
      /\ Reference!Key(cursor) = K
  BY ReferenceShows
<1>2. ReferenceHolds(input, nxt, current, cursor, accepted, blocked) /\ ListsOf(nxt, current, cursor, input.leaves)
  BY DEF ReferenceInv, ReferenceHolds
<1>3. ASSUME Reference!Eligible
      PROVE  /\ Ready(input, current, cursor, blocked) /\ cursor <= Len(current)
             /\ T = K /\ T # None /\ T[2] = current[cursor][2]
             /\ T[3] = current[cursor + 1][2]
  <2>1. Ready(input, current, cursor, blocked)
    BY <1>3, ReferenceReady
  <2>2. cursor < Len(current) /\ cursor \in Nat /\ Len(current) \in Nat
    BY <1>2, <2>1, NoBoundInside DEF Ready, ListsOf
  <2> QED BY <1>2, <2>1, <2>2, TurnOfReady
<1>4. CASE Reference!Skip
  <2>1. /\ cursor <= Len(current) /\ ~Ready(input, current, cursor, blocked)
        /\ KeepAt(nxt, current, cursor, nxt', current', cursor')
        /\ blocked' = blocked /\ input' = input /\ accepted' = accepted
        /\ drawn' = drawn /\ outcome' = outcome
    BY <1>4, ReferenceReady
      DEF Reference!Skip, Reference!Keep, Reference!Left, KeepAt
  <2>2. /\ ReferenceHolds(input, nxt', current', cursor', accepted, blocked)
        /\ BoundsOf(nxt', current', cursor', input.leaves) = B
        /\ TurnAt(input, nxt', current', cursor', blocked) = T
    BY <1>2, <2>1, ReferenceKeeps
  <2> QED BY <1>1, <2>1, <2>2 DEF ReferenceInv, PassStep, PassSame
<1>5. CASE Reference!Drop
  <2>1. /\ Reference!Eligible /\ outcome = "running" /\ input.dropping
        /\ Decision
        /\ KeepAt(nxt, current, cursor, nxt', current', cursor')
        /\ blocked' = blocked \cup {K} /\ input' = input /\ accepted' = accepted
        /\ outcome' = outcome
    BY <1>1, <1>5
      DEF Reference!Drop, Reference!Visit, Reference!Draw, Decision,
          Reference!Keep, Reference!Left, KeepAt
  <2>2. /\ ReferenceHolds(input, nxt', current', cursor', accepted, blocked')
        /\ BoundsOf(nxt', current', cursor', input.leaves) = B
        /\ TurnAt(input, nxt', current', cursor', blocked') = Turn(input, B, blocked', current[cursor][2])
    BY <1>2, <1>3, <2>1, ReferenceKeeps
  <2>3. PassDrop(Reference!Bounds, blocked, Reference!TurnNow, Reference!Bounds', blocked', Reference!TurnNow')
    BY <1>1, <1>3, <2>1, <2>2 DEF PassDrop
  <2> QED BY <2>1, <2>2, <2>3 DEF ReferenceInv, PassStep
<1>6. CASE Reference!Fuse
  <2>1. /\ Reference!Eligible /\ outcome = "running" /\ Decision
        /\ FuseAt(nxt, current, cursor, nxt', current', cursor')
        /\ input' = input /\ accepted' = accepted + 1 /\ outcome' = outcome
    BY <1>6
      DEF Reference!Fuse, Reference!Visit, Reference!Draw, Decision,
          Reference!Left, Reference!Right, FuseAt
  <2>2. blocked' = blocked \ ReleasedBy(current, cursor)
    BY <1>6
      DEF Reference!Fuse, Reference!Released, Reference!Key, ReleasedBy, KeyOf
  <2>3. /\ ReferenceHolds(input, nxt', current', cursor', accepted', blocked')
        /\ BoundsOf(nxt', current', cursor', input.leaves) = B \ {current[cursor][2]}
        /\ blocked' = {t \in blocked : Adjacent(BoundsOf(nxt', current', cursor', input.leaves), t)}
        /\ TurnAt(input, nxt', current', cursor', blocked') =
             Turn(input, BoundsOf(nxt', current', cursor', input.leaves), blocked', current[cursor + 1][2])
    <3>1. accepted' \in Nat /\ accepted' # 0
      BY <2>1 DEF ReferenceInv, ReferenceHolds
    <3>2. Releases(current, cursor, blocked, blocked') /\ Ready(input, current, cursor, blocked)
      BY <1>3, <2>1, <2>2 DEF Releases
    <3>3. FuseAt(nxt, current, cursor, nxt', current', cursor')
      BY <2>1
    <3>4. /\ ReferenceHolds(input, nxt', current', cursor', accepted', blocked')
          /\ FusedTurn(input, nxt, current, cursor, blocked, nxt', current', cursor', blocked')
      BY ONLY <1>2, <3>1, <3>2, <3>3, ReferenceFuses
    <3> QED BY <3>4 DEF FusedTurn
  <2>4. PassFuse(Reference!Bounds, blocked, Reference!TurnNow, Reference!Bounds', blocked', Reference!TurnNow')
    BY <1>1, <1>3, <2>1, <2>3 DEF PassFuse
  <2> QED BY <2>1, <2>3, <2>4 DEF ReferenceInv, PassStep
<1>7. CASE Reference!NextPass
  <2>1. /\ cursor > Len(current) /\ nxt' = <<>> /\ cursor' = 1 /\ current' = nxt
        /\ accepted' = 0
        /\ blocked' = blocked /\ input' = input /\ drawn' = drawn
        /\ outcome' = outcome
    BY <1>7 DEF Reference!NextPass, Reference!EndOfPass
  <2>2. /\ ReferenceHolds(input, nxt', current', cursor', 0, blocked)
        /\ BoundsOf(nxt', current', cursor', input.leaves) = B
        /\ TurnAt(input, nxt', current', cursor', blocked) = T
    BY <1>2, <2>1, ReferenceGoesOn
  <2> QED BY <1>1, <2>1, <2>2 DEF ReferenceInv, PassStep, PassSame
<1>8. ASSUME UNCHANGED <<input, current, nxt, cursor, accepted, blocked, drawn>>
      PROVE  ReferenceInv' /\ Reference!Bounds' = Reference!Bounds /\ Reference!TurnNow' = Reference!TurnNow
  BY <1>1, <1>8 DEF ReferenceInv
<1>9. CASE Reference!Exhaust
  <2>1. /\ Reference!Eligible /\ outcome = "running" /\ input.dropping
        /\ drawn = input.tape /\ outcome' = "DecisionError"
        /\ UNCHANGED <<input, current, nxt, cursor, accepted, blocked, drawn>>
    BY <1>9 DEF Reference!Exhaust, Reference!Visit
  <2>2. Reference!TurnNow # None
    BY <1>1, <1>3, <2>1
  <2> QED BY <1>8, <2>1, <2>2 DEF PassStep, PassEnds
<1>10. CASE Reference!Finish
  <2>1. /\ cursor > Len(current) /\ accepted = 0 /\ outcome = "running"
        /\ outcome' = "plan"
        /\ UNCHANGED <<input, current, nxt, cursor, accepted, blocked, drawn>>
    BY <1>10 DEF Reference!Finish, Reference!EndOfPass
  <2>2. T = None
    <3>1. \E x, y, z : x = <<>> /\ y = 1 /\ z = nxt
      OBVIOUS
    <3> QED BY <1>2, <2>1, <3>1, ReferenceGoesOn
  <2> QED BY <1>1, <1>8, <2>1, <2>2 DEF PassStep, PassEnds
<1> QED BY <1>4, <1>5, <1>6, <1>7, <1>9, <1>10 DEF Reference!Next

--------------------------------------------------------------------------------
(* The fast engine's links.                                                *)
FastInv ==
    /\ FastHolds(input, Fast!Slots, ends, next, prev, u, accepted, blocked)
    /\ applied = input.leaves - Cardinality(Fast!Slots)

(* What it shows, in terms of its links. *)
LEMMA FastShows ==
    /\ Fast!Slots = Reached(next)
    /\ Fast!Bounds = Fast!Slots \cup {input.leaves}
    /\ Fast!TurnNow = TurnOn(input, Fast!Slots, blocked, SlotPosition(u, input.leaves))
    /\ Fast!Slots' = Reached(next')
    /\ Fast!Bounds' = Fast!Slots' \cup {input'.leaves}
    /\ Fast!TurnNow' = TurnOn(input', Fast!Slots', blocked', SlotPosition(u', input'.leaves))
<1>1. /\ Fast!Slots = Reached(next)
      /\ Fast!Slots' = Reached(next')
  BY DEF Fast!Slots, Fast!Linked, Fast!Nil, Reached, WalksOf
<1>2. /\ Fast!Bounds = Fast!Slots \cup {input.leaves}
      /\ Fast!Bounds' = Fast!Slots' \cup {input'.leaves}
  BY DEF Fast!Bounds
<1>3. /\ Fast!Position = SlotPosition(u, input.leaves)
      /\ Fast!Position' = SlotPosition(u', input'.leaves)
  BY DEF Fast!Position, Fast!Nil, SlotPosition
<1> QED BY <1>1, <1>2, <1>3, SameFast DEF Fast!TurnNow, TurnOn

(* A pair it may fuse is one that is open; when nothing but the table      *)
(* decides, the checks it leaves out would not refuse it.                  *)
LEMMA FastReady ==
    ASSUME FastInv
    PROVE  /\ Fast!HasPair <=> u # -1 /\ next[u] # -1
           /\ Fast!HasPair => Fast!Key = PairAt(ends, u) /\ Fast!v = ends[u]
           /\ Fast!HasPair /\ Fast!Eligible <=> u # -1 /\ LinkReady(input, Fast!Slots, ends, u, blocked)
<1> DEFINE S == Fast!Slots
<1>1. FastHolds(input, S, ends, next, prev, u, accepted, blocked)
  BY DEF FastInv
<1>2. Fast!HasPair <=> u # -1 /\ next[u] # -1
  BY DEF Fast!HasPair, Fast!v, Fast!Nil
<1>3. ASSUME u # -1
      PROVE  /\ u \in S /\ GroupsOf(S, ends, input.leaves)
             /\ next[u] # -1 => next[u] = ends[u] /\ next[u] \in S
             /\ LinkReady(input, S, ends, u, blocked) => next[u] # -1
  BY <1>1, <1>3, FastTurn
<1>4. ASSUME Fast!HasPair
      PROVE  /\ Fast!v = ends[u] /\ ends[u] \in S /\ Fast!Key = PairAt(ends, u)
             /\ u # -1
             /\ PairAt(ends, u) \in Triples(input.leaves)
             /\ PairAt(ends, u)[2] = ends[u]
  <2>1. u # -1 /\ u \in S /\ ends[u] \in S /\ next[u] = ends[u] /\ GroupsOf(S, ends, input.leaves)
    BY <1>2, <1>3, <1>4
  <2>2. PairAt(ends, u) \in Triples(input.leaves) /\ PairAt(ends, u)[2] = ends[u]
    <3>1. PairAt(ends, u) \in Triples(input.leaves)
      BY ONLY <2>1, PairOfGroup
    <3> QED BY <3>1 DEF PairAt
  <2> QED BY <2>1, <2>2 DEF Fast!v, Fast!Key, PairAt
<1>5. ASSUME Fast!HasPair
      PROVE  Fast!Eligible <=> /\ PairAt(ends, u) \in Admitted(input)
                               /\ PairAt(ends, u) \notin blocked
  <2>1. Fast!Eligible <=> /\ Resolves(input, PairAt(ends, u))
                          /\ ~(Fast!Clean /\ blocked = {}) =>
                               /\ ends[u] \notin input.cuts
                               /\ PairAt(ends, u) \notin blocked
                               /\ PairAt(ends, u) \in input.legal
    BY <1>4, <1>5, SameFast DEF Fast!Eligible
  <2>2. Fast!Clean => input.cuts = {} /\ input.legal = Triples(input.leaves)
    BY SameFast DEF Fast!Clean
  <2> QED BY <1>4, <1>5, <2>1, <2>2 DEF Admitted
<1> QED BY <1>2, <1>3, <1>4, <1>5 DEF LinkReady

(* Each step keeps them, and shows a step of the contract. *)
LEMMA FastStep ==
    ASSUME FastInv, Fast!Next
    PROVE  /\ FastInv'
           /\ PassStep(Fast!Bounds, blocked, Fast!TurnNow, Fast!Bounds', blocked', Fast!TurnNow')
<1> DEFINE S == Fast!Slots
           n == input.leaves
           K == PairAt(ends, u)
           B == S \cup {n}
           T == TurnOn(input, S, blocked, SlotPosition(u, n))
<1>1. /\ Fast!Bounds = B /\ Fast!TurnNow = T /\ S = Reached(next)
      /\ Fast!Slots' = Reached(next')
      /\ Fast!Bounds' = Fast!Slots' \cup {input'.leaves}
      /\ Fast!TurnNow' = TurnOn(input', Fast!Slots', blocked', SlotPosition(u', input'.leaves))
  BY FastShows
<1>2. /\ FastHolds(input, S, ends, next, prev, u, accepted, blocked)
      /\ applied = n - Cardinality(S) /\ n \in Nat \ {0} /\ accepted \in Nat
      /\ IsFiniteSet(S) /\ Cardinality(S) \in Nat
      /\ \A s \in S : Cardinality(S \ {s}) = Cardinality(S) - 1
  <2>1. /\ FastHolds(input, S, ends, next, prev, u, accepted, blocked)
        /\ applied = n - Cardinality(S) /\ n \in Nat \ {0} /\ accepted \in Nat
        /\ Links(S, ends, next, prev, n)
    BY DEF FastInv, FastHolds, IsInput
  <2>2. S \subseteq 0..(n - 1)
    BY <2>1 DEF Links, GroupsOf
  <2> HIDE DEF S
  <2> QED BY <2>1, <2>2, GroupsCount
<1>3. ASSUME Fast!HasPair, Fast!Eligible
      PROVE  /\ u # -1 /\ LinkReady(input, S, ends, u, blocked) /\ next[u] # -1
             /\ SlotPosition(u, n) = u /\ SlotPosition(next[u], n) = ends[u]
             /\ ends[u] \in S
             /\ Fast!v = next[u] /\ Fast!Key = K
             /\ T = K /\ T # None /\ T[2] = ends[u] /\ T[3] = ends[ends[u]]
  <2>1. u # -1 /\ LinkReady(input, S, ends, u, blocked) /\ next[u] # -1 /\ Fast!Key = K
    BY <1>3, FastReady
  <2>2. /\ SlotPosition(u, n) = u /\ SlotPosition(next[u], n) = ends[u]
        /\ TurnOn(input, S, blocked, u) = K /\ K # None
        /\ K[2] = ends[u] /\ K[3] = ends[ends[u]]
    BY <1>2, <2>1, FastTurn
  <2>3. ends[u] \in S
    BY <2>1 DEF LinkReady
  <2> QED BY <2>1, <2>2, <2>3 DEF Fast!v
<1>4. CASE Fast!Skip
  <2>1. /\ u # -1 /\ u' = next[u] /\ ~LinkReady(input, S, ends, u, blocked)
        /\ UNCHANGED <<input, ends, next, prev, accepted, applied, blocked, drawn, outcome>>
    BY <1>4, FastReady DEF Fast!Skip, Fast!v
  <2>2. /\ FastHolds(input, S, ends, next, prev, next[u], accepted, blocked)
        /\ TurnOn(input, S, blocked, SlotPosition(next[u], n)) = TurnOn(input, S, blocked, u)
    BY <1>2, <2>1, FastKeeps
  <2>3. SlotPosition(u, n) = u
    BY <2>1 DEF SlotPosition
  <2>4. Fast!Slots' = S
    BY <1>1, <2>1
  <2> QED BY <1>1, <1>2, <2>1, <2>2, <2>3, <2>4 DEF FastInv, PassStep, PassSame
<1>5. CASE Fast!Drop
  <2>1. /\ Fast!HasPair /\ Fast!Eligible /\ outcome = "running"
        /\ input.dropping /\ Decision
        /\ blocked' = blocked \cup {Fast!Key} /\ u' = Fast!v
        /\ UNCHANGED <<input, ends, next, prev, accepted, applied, outcome>>
    BY <1>5 DEF Fast!Drop, Fast!Visit, Fast!Draw, Decision
  <2>2. /\ u # -1 /\ LinkReady(input, S, ends, u, blocked) /\ u' = next[u]
        /\ blocked' = blocked \cup {K}
    BY <1>3, <2>1
  <2>3. FastHolds(input, S, ends, next, prev, next[u], accepted, blocked')
    BY <1>2, <2>2, FastKeeps
  <2>4. Fast!Slots' = S
    BY <1>1, <2>1
  <2>5. PassDrop(Fast!Bounds, blocked, Fast!TurnNow, Fast!Bounds', blocked', Fast!TurnNow')
    BY <1>1, <1>3, <2>1, <2>2, <2>4 DEF PassDrop, TurnOn
  <2> QED BY <1>2, <2>1, <2>2, <2>3, <2>4, <2>5 DEF FastInv, PassStep
<1>6. CASE Fast!Fuse
  <2>1. /\ Fast!HasPair /\ Fast!Eligible /\ outcome = "running" /\ Decision
        /\ input' = input /\ outcome' = outcome
        /\ accepted' = accepted + 1 /\ applied' = applied + 1
    BY <1>6 DEF Fast!Fuse, Fast!Visit, Fast!Draw, Decision
  <2>2. /\ u # -1 /\ next[u] # -1 /\ Fast!v = next[u] /\ ends[u] \in S
        /\ Fast!Key = K
        /\ LinkReady(input, S, ends, u, blocked)
    BY <1>3, <2>1
  <2>3. FuseLinks(ends, next, prev, u, ends', next', prev') /\ u' = next[next[u]]
    BY <1>6, <2>2 DEF Fast!Fuse, Fast!Nil, FuseLinks
  <2>4. next[u] = ends[u]
    BY <1>2, <2>2, FastTurn
  <2>5. blocked' = blocked \ ReleasedOn(ends, next, prev, u)
    BY <1>6, <2>2, <2>4
      DEF Fast!Fuse, Fast!Released, Fast!Key, Fast!Nil, Fast!v, ReleasedOn,
          PairAt
  <2>6. accepted' \in Nat /\ accepted' # 0
    BY <1>2, <2>1
  <2>7. /\ FastHolds(input, S \ {ends[u]}, ends', next', prev', u', accepted', blocked')
        /\ (S \ {ends[u]}) \cup {n} = B \ {ends[u]}
        /\ blocked' = {t \in blocked : Adjacent((S \ {ends[u]}) \cup {n}, t)}
        /\ SlotPosition(u', n) = ends[ends[u]]
    <3>1. FastFused(input, S, ends, next, prev, u, blocked, ends', next', prev', accepted')
      BY ONLY <1>2, <2>2, <2>3, <2>6, FastFuses
    <3> QED BY <2>3, <2>4, <2>5, <3>1 DEF FastFused
  <2>8. Fast!Slots' = S \ {ends[u]}
    <3>1. Links(S \ {ends[u]}, ends', next', prev', n)
      BY <2>7 DEF FastHolds
    <3> QED BY <1>1, <3>1, ReachedIs
  <2>9. applied' = n - Cardinality(Fast!Slots')
    BY <1>2, <2>1, <2>2, <2>8
  <2>10. PassFuse(Fast!Bounds, blocked, Fast!TurnNow, Fast!Bounds', blocked', Fast!TurnNow')
    BY <1>1, <1>3, <2>1, <2>7, <2>8 DEF PassFuse, TurnOn
  <2> QED BY <2>1, <2>7, <2>8, <2>9, <2>10 DEF FastInv, PassStep
<1>7. ASSUME ~Fast!HasPair
      PROVE  u = -1 \/ next[u] = -1
  BY <1>7, FastReady
<1>8. CASE Fast!NextPass
  <2>1. /\ ~Fast!HasPair /\ u' = 0 /\ accepted' = 0
        /\ UNCHANGED <<input, ends, next, prev, applied, blocked, drawn, outcome>>
    BY <1>8 DEF Fast!NextPass, Fast!EndOfPass
  <2>2. /\ FastHolds(input, S, ends, next, prev, 0, 0, blocked)
        /\ TurnOn(input, S, blocked, SlotPosition(u, n)) = TurnOn(input, S, blocked, SlotPosition(0, n))
    BY <1>2, <1>7, <2>1, FastGoesOn
  <2>3. Fast!Slots' = S
    BY <1>1, <2>1
  <2> QED BY <1>1, <1>2, <2>1, <2>2, <2>3 DEF FastInv, PassStep, PassSame
<1>9. ASSUME UNCHANGED <<input, ends, next, prev, u, accepted, applied, blocked, drawn>>
      PROVE  FastInv' /\ Fast!Bounds' = Fast!Bounds /\ Fast!TurnNow' = Fast!TurnNow
  <2>1. Fast!Slots' = S
    BY <1>1, <1>9
  <2> QED BY <1>1, <1>9, <2>1 DEF FastInv
<1>10. CASE Fast!Exhaust
  <2>1. /\ Fast!HasPair /\ Fast!Eligible /\ outcome = "running"
        /\ input.dropping
        /\ drawn = input.tape /\ outcome' = "DecisionError"
        /\ UNCHANGED <<input, ends, next, prev, u, accepted, applied, blocked, drawn>>
    BY <1>10 DEF Fast!Exhaust, Fast!Visit
  <2>2. Fast!TurnNow # None
    BY <1>1, <1>3, <2>1
  <2> QED BY <1>9, <2>1, <2>2 DEF PassStep, PassEnds
<1>11. CASE Fast!Finish
  <2>1. /\ ~Fast!HasPair /\ accepted = 0 /\ outcome = "running"
        /\ outcome' = "plan"
        /\ UNCHANGED <<input, ends, next, prev, u, accepted, applied, blocked, drawn>>
    BY <1>11 DEF Fast!Finish, Fast!EndOfPass
  <2>2. T = None
    BY <1>2, <1>7, <2>1, FastGoesOn
  <2> QED BY <1>1, <1>9, <2>1, <2>2 DEF PassStep, PassEnds
<1> QED BY <1>4, <1>5, <1>6, <1>8, <1>10, <1>11 DEF Fast!Next

--------------------------------------------------------------------------------
(* The inline loop's lists and blocked positions.                          *)
InlineInv ==
    /\ InlineHolds(input, nxt, current, cursor, accepted, remap, blocked, drawn)
    /\ Inline!Supported(input)

(* What it shows, in terms of its lists. *)
LEMMA InlineShows ==
    /\ Inline!Groups = Joined(nxt, current, cursor)
    /\ Inline!Bounds = BoundsOf(nxt, current, cursor, input.leaves)
    /\ PlacesOf(nxt, current, cursor, remap, blocked) =>
         /\ Inline!BlockedPairs = KeysAt(current, blocked)
         /\ Inline!TurnNow = TurnAt(input, nxt, current, cursor, KeysAt(current, blocked))
    /\ Inline!Bounds' = BoundsOf(nxt', current', cursor', input'.leaves)
    /\ PlacesOf(nxt', current', cursor', remap', blocked') =>
         /\ Inline!BlockedPairs' = KeysAt(current', blocked')
         /\ Inline!TurnNow' = TurnAt(input', nxt', current', cursor', KeysAt(current', blocked'))
<1>1. /\ Inline!Groups = Joined(nxt, current, cursor)
      /\ Inline!Groups' = Joined(nxt', current', cursor')
  BY DEF Inline!Groups, Joined
<1>2. /\ Inline!Bounds = BoundsOf(nxt, current, cursor, input.leaves)
      /\ Inline!Bounds' = BoundsOf(nxt', current', cursor', input'.leaves)
  BY <1>1 DEF Inline!Bounds, BoundsOf, Beginnings
<1>3. /\ Inline!Position = PositionOf(current, cursor, input.leaves)
      /\ Inline!Position' = PositionOf(current', cursor', input'.leaves)
  BY DEF Inline!Position, PositionOf
<1>4. /\ \A j : Inline!PlaceOf(j) = Place(remap, Len(nxt), cursor, j)
      /\ Inline!BlockedPairs = KeysAt(Joined(nxt, current, cursor),
                                      {Place(remap, Len(nxt), cursor, j) : j \in blocked})
      /\ Inline!BlockedPairs' = KeysAt(Joined(nxt', current', cursor'),
                                       {Place(remap', Len(nxt'), cursor', j) : j \in blocked'})
  BY <1>1 DEF Inline!BlockedPairs, Inline!PlaceOf, Place, KeysAt, KeyOf
<1>5. PlacesOf(nxt, current, cursor, remap, blocked) => Inline!BlockedPairs = KeysAt(current, blocked)
  BY <1>4, BlocksAreKeys
<1>6. PlacesOf(nxt', current', cursor', remap', blocked') => Inline!BlockedPairs' = KeysAt(current', blocked')
  BY <1>4, BlocksAreKeys
<1> QED BY <1>1, <1>2, <1>3, <1>5, <1>6, SameInline DEF Inline!TurnNow, TurnAt

(* A pair it may fuse is one that is open, and random() has a decision for *)
(* it.                                                                     *)
LEMMA InlineIsReady ==
    ASSUME InlineInv
    PROVE  /\ Plain(input)
           /\ Inline!Eligible <=> Ready(input, current, cursor, KeysAt(current, blocked))
           /\ Inline!Eligible /\ input.dropping => drawn < input.tape
<1>1. /\ Plain(input)
      /\ InlineHolds(input, nxt, current, cursor, accepted, remap, blocked, drawn)
      /\ input.dropping => \A t \in Triples(input.leaves) : input.tape >= input.leaves * t[3]
  BY SameInline DEF InlineInv, Inline!Supported, Plain
<1>2. Inline!Eligible <=> /\ cursor < Len(current) /\ cursor \notin blocked
                          /\ <<current[cursor][1], current[cursor + 1][2]>> \in input.table
  BY DEF Inline!Eligible
<1>3. Inline!Eligible <=> Ready(input, current, cursor, KeysAt(current, blocked))
  BY <1>1, <1>2, InlineReady
<1>4. Inline!Eligible /\ input.dropping => drawn < input.tape
  BY <1>1, <1>2, InlineRoom
<1> QED BY <1>1, <1>3, <1>4

(* Each step keeps them, and shows a step of the contract. *)
LEMMA InlineStep ==
    ASSUME InlineInv, Inline!Next
    PROVE  /\ InlineInv'
           /\ PassStep(Inline!Bounds, Inline!BlockedPairs, Inline!TurnNow,
                       Inline!Bounds', Inline!BlockedPairs', Inline!TurnNow')
<1> DEFINE K == KeyOf(current, cursor)
           n == input.leaves
           BB == BoundsOf(nxt, current, cursor, n)
           B == KeysAt(current, blocked)
           B1 == KeysAt(current', blocked')
           T == TurnAt(input, nxt, current, cursor, B)
           count == IF accepted THEN 1 ELSE 0
<1>1. /\ InlineHolds(input, nxt, current, cursor, accepted, remap, blocked, drawn)
      /\ ListsOf(nxt, current, cursor, n)
      /\ PlacesOf(nxt, current, cursor, remap, blocked)
      /\ ReferenceHolds(input, nxt, current, cursor, count, B)
      /\ Inline!Supported(input) /\ Plain(input)
      /\ cursor \in Nat /\ Len(current) \in Nat /\ drawn \in Nat
  BY InlineParts, InlineIsReady DEF InlineInv
<1>2. /\ Inline!Bounds = BB /\ Inline!BlockedPairs = B /\ Inline!TurnNow = T
      /\ Inline!Bounds' = BoundsOf(nxt', current', cursor', input'.leaves)
      /\ PlacesOf(nxt', current', cursor', remap', blocked') =>
           /\ Inline!BlockedPairs' = B1
           /\ Inline!TurnNow' = TurnAt(input', nxt', current', cursor', B1)
  BY <1>1, InlineShows
<1>3. ASSUME Inline!Eligible
      PROVE  /\ Ready(input, current, cursor, B) /\ cursor <= Len(current)
             /\ cursor < Len(current)
             /\ T = K /\ T # None /\ T[2] = current[cursor][2]
             /\ T[3] = current[cursor + 1][2]
  <2>1. Ready(input, current, cursor, B)
    BY <1>3, InlineIsReady
  <2>2. cursor < Len(current)
    BY <2>1 DEF Ready
  <2> QED BY <1>1, <2>1, <2>2, TurnOfReady
<1>4. ASSUME InlineHolds(input, nxt', current', cursor', accepted', remap', blocked', drawn'),
             input' = input
      PROVE  /\ InlineInv'
             /\ Inline!BlockedPairs' = B1
             /\ Inline!TurnNow' = TurnAt(input, nxt', current', cursor', B1)
  BY <1>1, <1>2, <1>4 DEF InlineInv, InlineHolds
<1>5. CASE Inline!Skip
  <2>1. /\ cursor <= Len(current) /\ ~Ready(input, current, cursor, B)
        /\ KeepAt(nxt, current, cursor, nxt', current', cursor')
        /\ RemapKeep(remap, Len(nxt), remap')
        /\ blocked' = blocked /\ input' = input /\ accepted' = accepted
        /\ drawn' = drawn /\ outcome' = outcome
    BY <1>5, InlineIsReady
      DEF Inline!Skip, Inline!Pass, Inline!Keep, KeepAt, RemapKeep
  <2>2. /\ InlineHolds(input, nxt', current', cursor', accepted, remap', blocked', drawn')
        /\ B1 = B
    <3>1. SkipsOrDrops(input, current, cursor, blocked, drawn, blocked', drawn')
      BY <2>1 DEF SkipsOrDrops
    <3>2. /\ InlineHolds(input, nxt', current', cursor', accepted, remap', blocked', drawn')
          /\ KeysAt(current', blocked') = IF blocked' = blocked THEN KeysAt(current, blocked)
                                         ELSE KeysAt(current, blocked) \cup {KeyOf(current, cursor)}
      BY ONLY <1>1, <2>1, <3>1, InlineKeeps
    <3> QED BY <2>1, <3>2
  <2>3. /\ BoundsOf(nxt', current', cursor', n) = BB
        /\ TurnAt(input, nxt', current', cursor', B) = T
    BY <1>1, <2>1, ReferenceKeeps
  <2> QED BY <1>2, <1>4, <2>1, <2>2, <2>3 DEF PassStep, PassSame
<1>6. CASE Inline!Drop
  <2>1. /\ Inline!Eligible /\ outcome = "running" /\ input.dropping
        /\ drawn' = drawn + 1
        /\ KeepAt(nxt, current, cursor, nxt', current', cursor')
        /\ RemapKeep(remap, Len(nxt), remap')
        /\ blocked' = blocked \cup {cursor} /\ input' = input
        /\ accepted' = accepted
        /\ outcome' = outcome
    BY <1>6 DEF Inline!Drop, Inline!Pass, Inline!Keep, KeepAt, RemapKeep
  <2>2. Decision
    BY <2>1, InlineIsReady DEF Decision
  <2>3. cursor \notin blocked /\ blocked' # blocked
    BY <2>1 DEF Inline!Eligible
  <2>4. /\ InlineHolds(input, nxt', current', cursor', accepted, remap', blocked', drawn')
        /\ B1 = B \cup {K}
    <3>1. /\ SkipsOrDrops(input, current, cursor, blocked, drawn, blocked', drawn')
          /\ cursor <= Len(current)
          /\ KeepAt(nxt, current, cursor, nxt', current', cursor')
          /\ RemapKeep(remap, Len(nxt), remap')
      BY <1>3, <2>1 DEF SkipsOrDrops
    <3>2. /\ InlineHolds(input, nxt', current', cursor', accepted, remap', blocked', drawn')
          /\ KeysAt(current', blocked') = IF blocked' = blocked THEN KeysAt(current, blocked)
                                         ELSE KeysAt(current, blocked) \cup {KeyOf(current, cursor)}
      BY ONLY <1>1, <3>1, InlineKeeps
    <3> QED BY <2>1, <2>3, <3>2
  <2>5. /\ BoundsOf(nxt', current', cursor', n) = BB
        /\ TurnAt(input, nxt', current', cursor', B1) = Turn(input, BB, B1, current[cursor][2])
    <3>1. B1 = B \cup {K} /\ Ready(input, current, cursor, B) /\ cursor <= Len(current)
      BY <1>3, <2>1, <2>4
    <3> HIDE DEF B, B1, BB, count
    <3> QED BY ONLY <1>1, <2>1, <3>1, ReferenceKeeps DEF BB
  <2>6. PassDrop(BB, B, T, BB, B1, Turn(input, BB, B1, current[cursor][2]))
    BY <1>3, <2>1, <2>2, <2>4 DEF PassDrop
  <2> QED BY <1>2, <1>4, <2>1, <2>4, <2>5, <2>6 DEF PassStep
<1>7. CASE Inline!Fuse
  <2>1. /\ Inline!Eligible /\ outcome = "running"
        /\ FuseAt(nxt, current, cursor, nxt', current', cursor')
        /\ RemapFuse(remap, Len(nxt), remap')
        /\ blocked' = blocked \ {cursor - 1, cursor, cursor + 1}
        /\ input' = input /\ accepted' = TRUE /\ outcome' = outcome
        /\ drawn' = IF input.dropping THEN drawn + 1 ELSE drawn
    BY <1>7 DEF Inline!Fuse, Inline!FusePair, Inline!Pass, FuseAt, RemapFuse
  <2>2. Decision
    BY <2>1, InlineIsReady DEF Decision
  <2>3. /\ InlineHolds(input, nxt', current', cursor', accepted', remap', blocked', drawn')
        /\ B1 = B \ ReleasedBy(current, cursor)
    <3>1. FusesAt(cursor, blocked, drawn, accepted', blocked', drawn')
      BY <2>1 DEF FusesAt
    <3>2. /\ Ready(input, current, cursor, KeysAt(current, blocked))
          /\ FuseAt(nxt, current, cursor, nxt', current', cursor')
          /\ RemapFuse(remap, Len(nxt), remap')
      BY <1>3, <2>1
    <3>3. /\ InlineHolds(input, nxt, current, cursor, accepted, remap, blocked, drawn)
          /\ Plain(input)
      BY <1>1
    <3> QED BY ONLY <3>1, <3>2, <3>3, InlineFuses
  <2>4. /\ BoundsOf(nxt', current', cursor', n) = BB \ {current[cursor][2]}
        /\ B1 = {t \in B : Adjacent(BoundsOf(nxt', current', cursor', n), t)}
        /\ TurnAt(input, nxt', current', cursor', B1) =
             Turn(input, BoundsOf(nxt', current', cursor', n), B1, current[cursor + 1][2])
    <3>1. /\ Releases(current, cursor, B, B1)
          /\ Ready(input, current, cursor, B)
          /\ FuseAt(nxt, current, cursor, nxt', current', cursor')
      BY <1>3, <2>1, <2>3 DEF Releases
    <3>2. PICK c : c \in Nat /\ c # 0
      <4>1. 1 \in Nat /\ 1 # 0
        OBVIOUS
      <4> QED BY <4>1
    <3> HIDE DEF B, B1, count
    <3>3. FusedTurn(input, nxt, current, cursor, B, nxt', current', cursor', B1)
      BY ONLY <1>1, <3>1, <3>2, ReferenceFuses
    <3> QED BY <3>3 DEF FusedTurn
  <2>5. PassFuse(BB, B, T, BoundsOf(nxt', current', cursor', n), B1, TurnAt(input, nxt', current', cursor', B1))
    BY <1>3, <2>1, <2>2, <2>4 DEF PassFuse
  <2> QED BY <1>2, <1>4, <2>1, <2>3, <2>5 DEF PassStep
<1>8. CASE Inline!NextPass
  <2>1. /\ cursor > Len(current) /\ nxt' = <<>> /\ cursor' = 1 /\ current' = nxt
        /\ remap' = <<>>
        /\ accepted' = FALSE /\ blocked' = {remap[j] : j \in blocked}
        /\ input' = input /\ drawn' = drawn /\ outcome' = outcome
    BY <1>8 DEF Inline!NextPass, Inline!EndOfPass
  <2>2. /\ InlineHolds(input, nxt', current', cursor', accepted', remap', blocked', drawn)
        /\ B1 = B
    <3>1. /\ InlineHolds(input, nxt', nxt, cursor', accepted', remap', blocked', drawn)
          /\ KeysAt(nxt, blocked') = KeysAt(current, blocked)
      <4>1. PassStarts(remap, blocked, nxt', cursor', accepted', remap', blocked') /\ cursor > Len(current)
        BY <2>1 DEF PassStarts
      <4>2. InlineHolds(input, nxt, current, cursor, accepted, remap, blocked, drawn)
        BY <1>1
      <4> QED BY ONLY <4>1, <4>2, InlineGoesOn
    <3> QED BY <2>1, <3>1
  <2>3. /\ BoundsOf(nxt', current', cursor', n) = BB
        /\ TurnAt(input, nxt', current', cursor', B) = T
    BY <1>1, <2>1, ReferenceGoesOn
  <2> QED BY <1>2, <1>4, <2>1, <2>2, <2>3 DEF PassStep, PassSame
<1>9. CASE Inline!Finish
  <2>1. /\ cursor > Len(current) /\ accepted = FALSE /\ outcome = "running"
        /\ outcome' = "plan"
        /\ UNCHANGED <<input, current, nxt, cursor, accepted, remap, blocked, drawn>>
    BY <1>1, <1>9 DEF Inline!Finish, Inline!EndOfPass, InlineHolds
  <2>2. T = None
    <3>1. \E x, y, z : x = <<>> /\ y = 1 /\ z = nxt
      OBVIOUS
    <3>2. count = 0
      BY <2>1
    <3> HIDE DEF B, count
    <3> QED BY <1>1, <2>1, <3>1, <3>2, ReferenceGoesOn
  <2> QED BY <1>1, <1>2, <1>4, <2>1, <2>2 DEF PassStep, PassEnds
<1> QED BY <1>5, <1>6, <1>7, <1>8, <1>9 DEF Inline!Next

--------------------------------------------------------------------------------
(* The native engine's nodes and its heap.                                 *)
NativeInv ==
    /\ \E pos \in 0..input.leaves : NodesHold(input, nodes, queue, visited, currentPass, pos)
    /\ applied = input.leaves - Cardinality(Native!Alive)

(* What it shows, in terms of its nodes. *)
LEMMA NativeShows ==
    /\ Native!Alive = AliveOf(nodes)
    /\ Native!Bounds = AliveOf(nodes) \cup {input.leaves}
    /\ Native!TurnNow = TurnIn(input, nodes, queue, visited, currentPass)
    /\ Native!BlockedPairs = BlockedIn(input, nodes, visited)
    /\ Native!Alive' = AliveOf(nodes')
    /\ Native!Bounds' = AliveOf(nodes') \cup {input'.leaves}
    /\ Native!TurnNow' = TurnIn(input', nodes', queue', visited', currentPass')
    /\ Native!BlockedPairs' = BlockedIn(input', nodes', visited')
<1>1. /\ Native!Alive = AliveOf(nodes)
      /\ Native!Bounds = AliveOf(nodes) \cup {input.leaves}
      /\ Native!Alive' = AliveOf(nodes')
      /\ Native!Bounds' = AliveOf(nodes') \cup {input'.leaves}
  BY DEF Native!Alive, Native!Bounds, AliveOf
<1>2. /\ \A c : Native!Candidate(c) <=> CandidateIn(nodes, visited, currentPass, c)
      /\ \A c : Native!Eligible(c) <=> AdmitsIn(input, nodes, c)
      /\ \A c : Native!PairOf(c) = <<c[2], nodes[c[2]].end, nodes[c[3]].end>>
      /\ \A Q : Native!Least(Q) = First(Q)
  BY SameNative
    DEF Native!Candidate, Native!Fresh, Native!Identity, CandidateIn,
        Native!Eligible, AdmitsIn,
       Native!PairOf, Native!Least, Native!Before, First, Earlier
<1>3. Native!TurnNow = TurnIn(input, nodes, queue, visited, currentPass)
  BY <1>2, SameNative DEF Native!TurnNow, TurnIn, LiveIn
<1>4. Native!TurnNow' = TurnIn(input', nodes', queue', visited', currentPass')
  <2>1. /\ \A c : Native!Candidate(c)' <=> CandidateIn(nodes', visited', currentPass', c)
        /\ \A c : Native!Eligible(c)' <=> AdmitsIn(input', nodes', c)
        /\ \A c : Native!PairOf(c)' = <<c[2], nodes'[c[2]].end, nodes'[c[3]].end>>
    BY SameNative
      DEF Native!Candidate, Native!Fresh, Native!Identity, CandidateIn,
          Native!Eligible, AdmitsIn,
         Native!PairOf
  <2> QED BY <1>2, <2>1, SameNative DEF Native!TurnNow, TurnIn, LiveIn
<1>5. Native!BlockedPairs = BlockedIn(input, nodes, visited)
  BY <1>1, SameNative
    DEF Native!BlockedPairs, Native!PairOf, Native!Nil, BlockedIn
<1>6. Native!BlockedPairs' = BlockedIn(input', nodes', visited')
  BY <1>1, SameNative
    DEF Native!BlockedPairs, Native!PairOf, Native!Nil, BlockedIn
<1> QED BY <1>1, <1>3, <1>4, <1>5, <1>6

(* Each step keeps them, and shows a step of the contract. *)
LEMMA NativeStep ==
    ASSUME NativeInv, Native!Next
    PROVE  /\ NativeInv'
           /\ PassStep(Native!Bounds, Native!BlockedPairs, Native!TurnNow,
                       Native!Bounds', Native!BlockedPairs', Native!TurnNow')
<1> DEFINE n == input.leaves
           S == AliveOf(nodes)
           E == EndsOf(nodes)
           X == NextOf(nodes)
           P == PrevOf(nodes)
           G == GensOf(nodes)
           S1 == AliveOf(nodes')
           E1 == EndsOf(nodes')
           X1 == NextOf(nodes')
           P1 == PrevOf(nodes')
           G1 == GensOf(nodes')
           top == First(queue)
           K == PairAt(E, Top(queue))
           B == BlockedOn(input, S, X, G, visited)
           T == HeapTurn(input, S, E, X, G, queue, visited, currentPass)
           B1 == BlockedOn(input, S1, X1, G1, visited')
           T1 == HeapTurn(input, S1, E1, X1, G1, queue', visited', currentPass')
<1>1. PICK pos \in 0..n : NodesHold(input, nodes, queue, visited, currentPass, pos)
  BY DEF NativeInv
<1>2. /\ NativeHolds(input, S, E, X, P, G, queue, visited, currentPass, pos)
      /\ nodes \in [0..(n - 1) -> Node] /\ n \in Nat /\ n # 0
      /\ Links(S, E, X, P, n)
      /\ GroupsOf(S, E, n) /\ S \subseteq 0..(n - 1)
      /\ applied = n - Cardinality(S)
      /\ QueueOn(G, queue, n) /\ queue \subseteq Entries
  <2>1. /\ NativeHolds(input, S, E, X, P, G, queue, visited, currentPass, pos)
        /\ nodes \in [0..(n - 1) -> Node]
    BY <1>1 DEF NodesHold
  <2>2. /\ n \in Nat /\ n # 0 /\ Links(S, E, X, P, n) /\ QueueOn(G, queue, n)
    BY <2>1 DEF NativeHolds, IsInput
  <2>3. GroupsOf(S, E, n) /\ S \subseteq 0..(n - 1)
    BY <2>2 DEF Links, GroupsOf
  <2>4. applied = n - Cardinality(S)
    BY NativeShows DEF NativeInv
  <2>5. queue \subseteq Entries
    BY <2>2, QueueIs
  <2> QED BY <2>1, <2>2, <2>3, <2>4, <2>5
<1>3. /\ Native!Bounds = S \cup {n} /\ Native!TurnNow = T
      /\ Native!BlockedPairs = B
  BY <1>1, NativeShows, NodesShow
<1>4. ASSUME input' = input, NEW q \in 0..n,
             NodesHold(input, nodes', queue', visited', currentPass', q),
             applied' = n - Cardinality(S1)
      PROVE  /\ NativeInv' /\ Native!Bounds' = S1 \cup {n}
             /\ Native!TurnNow' = T1 /\ Native!BlockedPairs' = B1
  <2>1. /\ Native!Bounds' = S1 \cup {n} /\ Native!Alive' = S1
        /\ Native!TurnNow' = TurnIn(input, nodes', queue', visited', currentPass')
        /\ Native!BlockedPairs' = BlockedIn(input, nodes', visited')
    BY <1>4, NativeShows
  <2>2. /\ TurnIn(input, nodes', queue', visited', currentPass') = T1
        /\ BlockedIn(input, nodes', visited') = B1
    BY <1>4, NodesShow
  <2>3. NativeInv'
    BY <1>4, <2>1 DEF NativeInv
  <2> QED BY <2>1, <2>2, <2>3
<1>5. ASSUME queue # {}
      PROVE  /\ top \in queue /\ Native!Top = top
             /\ Native!Candidate(top) <=> CandidateOn(S, X, G, visited, currentPass, top)
             /\ Native!Candidate(top) =>
                  /\ Native!Identity(top) = CurrentAt(X, G, Top(queue))
                  /\ Native!Eligible(top) <=> K \in Admitted(input)
                  /\ top[3] = nodes[top[2]].next /\ top[3] = E[top[2]]
                  /\ top[2] # top[3]
                  /\ top[2] \in S /\ top[3] \in S
                  /\ K[2] = top[3] /\ K[3] = E[top[3]]
  <2>1. top \in queue
    BY <1>2, <1>5, FirstIs
  <2>2. /\ CandidateIn(nodes, visited, currentPass, top) <=> CandidateOn(S, X, G, visited, currentPass, top)
        /\ CandidateIn(nodes, visited, currentPass, top) =>
             /\ <<top[4], top[3], top[5]>> = CurrentAt(X, G, top[2])
             /\ top[3] = nodes[top[2]].next /\ top[3] = nodes[top[2]].end
             /\ top[2] # top[3]
             /\ top[2] \in S /\ top[3] \in S /\ top[2] \in 0..(n - 1)
             /\ AdmitsIn(input, nodes, top) <=> PairAt(E, top[2]) \in Admitted(input)
    BY <1>1, <2>1, CandidatesShow
  <2>3. /\ Native!Candidate(top) <=> CandidateIn(nodes, visited, currentPass, top)
        /\ Native!Eligible(top) <=> AdmitsIn(input, nodes, top)
        /\ Native!Identity(top) = <<top[4], top[3], top[5]>>
        /\ Native!Top = top
    BY SameNative
      DEF Native!Candidate, Native!Fresh, Native!Identity, CandidateIn,
          Native!Eligible, AdmitsIn,
         Native!PairOf, Native!Top, Native!Least, Native!Before, First, Earlier
  <2>4. \A k \in 0..(n - 1) : E[k] = nodes[k].end
    BY <1>2, NodesAre
  <2> HIDE DEF top, S, E, X, G
  <2>5. K[2] = E[top[2]] /\ K[3] = E[E[top[2]]]
    BY DEF PairAt, Top, top
  <2> QED BY <2>1, <2>2, <2>3, <2>4, <2>5 DEF Top, top
<1> HIDE DEF n, S, E, X, P, G, S1, E1, X1, P1, G1, B, T, B1, T1, top, K
<1>15. ASSUME NEW N, N \in [0..(n - 1) -> Node], NEW k \in 0..(n - 1)
       PROVE  NextOf(N)[k] = N[k].next /\ PrevOf(N)[k] = N[k].prev /\ GensOf(N)[k] = N[k].generation
  <2>1. DOMAIN N = 0..(n - 1)
    BY <1>15
  <2> QED BY ONLY <2>1 DEF NextOf, PrevOf, GensOf
<1>6. CASE Native!Discard
  <2>1. /\ queue # {} /\ ~Native!Candidate(Native!Top)
        /\ queue' = queue \ {Native!Top}
        /\ UNCHANGED <<input, nodes, visited, currentPass, applied, drawn, outcome>>
    BY <1>6 DEF Native!Discard, Native!Pop
  <2>2. Discards(S, X, G, queue, visited, currentPass, queue')
    BY <1>5, <2>1 DEF Discards, top
  <2>3. S1 = S /\ E1 = E /\ X1 = X /\ P1 = P /\ G1 = G
    BY <2>1 DEF S, E, X, P, G, S1, E1, X1, P1, G1
  <2>4. /\ NativeHolds(input, S, E, X, P, G, queue', visited, currentPass, pos)
        /\ LiveOn(input, S, E, X, G, queue', visited, currentPass) =
             LiveOn(input, S, E, X, G, queue, visited, currentPass)
    BY <1>2, <2>2, NativeDiscards
  <2>5. T1 = T /\ B1 = B
    BY <2>1, <2>3, <2>4 DEF T, T1, B, B1, HeapTurn
  <2>6. NodesHold(input, nodes', queue', visited', currentPass', pos)
    BY <1>2, <2>1, <2>4 DEF NodesHold, n, S, E, X, P, G
  <2>7. applied' = n - Cardinality(S1)
    BY <1>2, <2>1, <2>3
  <2> QED BY <1>3, <1>4, <2>1, <2>3, <2>5, <2>6, <2>7 DEF PassStep, PassSame
<1>7. ASSUME queue # {}, Native!Candidate(Native!Top),
             queue' = queue \ {Native!Top}, Native!MarkVisited,
             UNCHANGED <<input, nodes, applied>>
      PROVE  /\ NativeInv' /\ Native!Bounds' = S \cup {n}
             /\ Native!TurnNow' = T1 /\ Native!BlockedPairs' = B1
             /\ K \in Admitted(input) => B1 = B \cup {K} /\ T = K /\ T1 = TurnOn(input, S, B1, K[2])
             /\ K \notin Admitted(input) => B1 = B /\ T1 = T
  <2>1. Visits(S, X, G, queue, visited, currentPass, queue', visited', currentPass')
    <3>1. /\ CandidateOn(S, X, G, visited, currentPass, First(queue))
          /\ visited' = [visited EXCEPT ![Top(queue)] = CurrentAt(X, G, Top(queue))]
          /\ currentPass' = First(queue)[1] /\ queue' = queue \ {First(queue)}
      BY <1>5, <1>7 DEF Native!MarkVisited, top, Top
    <3> QED BY <1>7, <3>1 DEF Visits, Marks
  <2>2. /\ NativeHolds(input, S, E, X, P, G, queue', visited', currentPass', E[Top(queue)])
        /\ KeptTurn(input, S, E, X, G, queue, visited, currentPass, queue', visited', currentPass')
    BY ONLY <1>2, <2>1, NativeVisits
  <2>3. S1 = S /\ E1 = E /\ X1 = X /\ P1 = P /\ G1 = G
    BY <1>7 DEF S, E, X, P, G, S1, E1, X1, P1, G1
  <2>4. /\ K \in Admitted(input) => B1 = B \cup {K} /\ T = K /\ T1 = TurnOn(input, S, B1, K[2])
        /\ K \notin Admitted(input) => B1 = B /\ T1 = T
    BY <2>2, <2>3 DEF KeptTurn, B, B1, T, T1, K
  <2>5. NodesHold(input, nodes', queue', visited', currentPass', E[Top(queue)])
    BY <1>2, <1>7, <2>2 DEF NodesHold, n, S, E, X, P, G
  <2>6. E[Top(queue)] \in 0..n
    BY <2>2 DEF NativeHolds, n
  <2>7. applied' = n - Cardinality(S1)
    BY <1>2, <1>7, <2>3
  <2> QED BY <1>4, <1>7, <2>3, <2>4, <2>5, <2>6, <2>7
<1>8. CASE Native!Skip
  <2>1. /\ queue # {} /\ Native!Candidate(Native!Top)
        /\ ~Native!Eligible(Native!Top)
        /\ queue' = queue \ {Native!Top} /\ Native!MarkVisited
        /\ UNCHANGED <<input, nodes, applied, drawn, outcome>>
    BY <1>8 DEF Native!Skip, Native!Pop
  <2>2. K \notin Admitted(input)
    BY <1>5, <2>1
  <2>3. NativeInv' /\ Native!Bounds' = S \cup {n} /\ Native!TurnNow' = T /\ Native!BlockedPairs' = B
    BY <1>7, <2>1, <2>2
  <2> QED BY <1>3, <2>1, <2>3 DEF PassStep, PassSame
<1>9. ASSUME Native!Visit
      PROVE  /\ outcome = "running" /\ queue # {}
             /\ Native!Candidate(Native!Top)
             /\ K \in Admitted(input) /\ T = K /\ T # None
             /\ CandidateOn(S, X, G, visited, currentPass, First(queue))
  <2>1. outcome = "running" /\ queue # {} /\ Native!Candidate(Native!Top) /\ Native!Eligible(Native!Top)
    BY <1>9 DEF Native!Visit, Native!Pop
  <2>2. K \in Admitted(input) /\ CandidateOn(S, X, G, visited, currentPass, First(queue))
    BY <1>5, <2>1 DEF top
  <2>3. T = K
    BY <1>2, <2>1, <2>2, TopIsTurn DEF T, K
  <2>4. K # None
    BY DEF K, PairAt, None
  <2> QED BY <2>1, <2>2, <2>3, <2>4
<1>10. CASE Native!Drop
  <2>1. /\ Native!Visit /\ input.dropping /\ Decision
        /\ queue' = queue \ {Native!Top} /\ Native!MarkVisited
        /\ UNCHANGED <<input, nodes, applied, outcome>>
    BY <1>10 DEF Native!Drop, Native!Draw, Decision
  <2>2. /\ NativeInv' /\ Native!Bounds' = S \cup {n} /\ Native!TurnNow' = T1
        /\ Native!BlockedPairs' = B1
        /\ B1 = B \cup {K} /\ T = K /\ T # None
        /\ T1 = TurnOn(input, S, B1, K[2]) /\ outcome = "running"
    BY <1>7, <1>9, <2>1
  <2>3. PassDrop(Native!Bounds, Native!BlockedPairs, Native!TurnNow,
                 Native!Bounds', Native!BlockedPairs', Native!TurnNow')
    BY <1>3, <2>1, <2>2 DEF PassDrop, TurnOn, n
  <2> QED BY <2>2, <2>3 DEF PassStep
<1>11. CASE Native!Fuse
  <2>1. /\ Native!Visit /\ Decision
        /\ nodes' = Native!Fused(Native!Top[2], Native!Top[3])
        /\ queue' = (queue \ {Native!Top})
                       \cup Native!CandidateAt(nodes', nodes[Native!Top[2]].prev, Native!Top[1] + 1)
                       \cup Native!CandidateAt(nodes', Native!Top[2], Native!Top[1] + 1)
        /\ Native!MarkVisited
        /\ applied' = applied + 1 /\ input' = input /\ outcome' = outcome
    BY <1>11 DEF Native!Fuse, Native!Draw, Decision
  <2>2. /\ outcome = "running" /\ queue # {} /\ K \in Admitted(input) /\ T = K
        /\ T # None
        /\ CandidateOn(S, X, G, visited, currentPass, First(queue))
        /\ Native!Top = top /\ top \in queue
        /\ Native!Identity(top) = CurrentAt(X, G, Top(queue))
        /\ top[3] = nodes[top[2]].next /\ top[3] = E[top[2]] /\ top[2] # top[3]
        /\ top[2] \in S /\ top[3] \in S /\ K[2] = top[3] /\ K[3] = E[top[3]]
        /\ top[2] = Top(queue)
    BY <1>5, <1>9, <2>1 DEF Top, top
  <2>3. /\ nodes' \in [0..(n - 1) -> Node] /\ S1 = S \ {top[3]}
        /\ FusesNodes(E, X, P, G, Top(queue), E1, X1, P1, G1)
    <3>1. TakesInNode(nodes, top[2], top[3], nodes')
      BY <2>1, <2>2 DEF TakesInNode, FusedNodes, Native!Fused, Native!Nil
    <3>2. /\ top[2] \in 0..(n - 1) /\ top[3] \in 0..(n - 1)
          /\ nodes[top[3]].next = X[top[3]]
      BY <1>2, <1>15, <2>2 DEF X
    <3>3. X[top[3]] = -1 \/ (X[top[3]] \in 0..(n - 1) /\ X[top[3]] # top[2] /\ X[top[3]] # top[3])
      <4>1. X[top[3]] = -1 \/ (X[top[3]] \in S /\ X[top[3]] = E[top[3]])
        BY <1>2, <2>2, LinksAfter
      <4>2. top[2] \in Nat /\ E[top[2]] \in Nat /\ top[2] < E[top[2]] /\ E[top[3]] \in Nat /\ top[3] < E[top[3]]
        BY <1>2, <2>2, GroupFacts
      <4> QED BY <1>2, <2>2, <4>1, <4>2
    <3>4. /\ nodes' \in [0..(n - 1) -> Node]
          /\ AliveOf(nodes') = AliveOf(nodes) \ {top[3]}
          /\ FusesNodes(EndsOf(nodes), NextOf(nodes), PrevOf(nodes), GensOf(nodes), top[2],
                        EndsOf(nodes'), NextOf(nodes'), PrevOf(nodes'), GensOf(nodes'))
      <4>1. /\ n \in Nat /\ nodes \in [0..(n - 1) -> Node]
            /\ top[2] \in 0..(n - 1) /\ top[3] \in 0..(n - 1) /\ top[2] # top[3]
            /\ nodes[top[2]].next = top[3]
            /\ nodes[top[3]].next = -1 \/ (nodes[top[3]].next \in 0..(n - 1)
                 /\ nodes[top[3]].next # top[2] /\ nodes[top[3]].next # top[3])
        BY <1>2, <2>2, <3>2, <3>3
      <4> QED BY ONLY <3>1, <4>1, NodesTakeIn
    <3> QED BY <2>2, <3>4 DEF S, S1, E, X, P, G, E1, X1, P1, G1
  <2>4. HeapFuses(S, X, P, G, queue, visited, currentPass, X1, G1, queue', visited', currentPass')
    <3>1. Marks(S, X, G, queue, visited, currentPass, visited', currentPass')
      BY <2>1, <2>2 DEF Marks, Native!MarkVisited, top, Top
    <3>2. top[2] \in 0..(n - 1) /\ nodes[top[2]].prev = P[top[2]] /\ currentPass' = top[1]
      BY <1>2, <1>15, <2>1, <2>2 DEF P, Native!MarkVisited
    <3>3. /\ Links(S1, E1, X1, P1, n) /\ S1 \subseteq 0..(n - 1)
          /\ P[top[2]] = -1 \/ (P[top[2]] \in S /\ P[top[2]] < top[2])
      <4>1. SameElsewhere(S, E, X, P, G, Top(queue), E1, X1, P1, G1, n)
        <5>1. Top(queue) \in S /\ E[Top(queue)] \in S /\ G \in [0..(n - 1) -> Nat]
          BY <1>2, <2>2 DEF NativeHolds, n
        <5> QED BY <1>2, <2>3, <5>1, NodesFuse
      <4>2. /\ Links(S \ {E[Top(queue)]}, E1, X1, P1, n)
            /\ P[Top(queue)] = -1 \/ (P[Top(queue)] \in S /\ P[Top(queue)] < Top(queue))
        BY <4>1 DEF SameElsewhere
      <4>3. S1 = S \ {E[Top(queue)]}
        BY <2>2, <2>3
      <4> QED BY <1>2, <2>2, <4>2, <4>3
    <3>4. ASSUME NEW k, k = -1 \/ k \in S1, NEW p
          PROVE  Native!CandidateAt(nodes', k, p) = CandidatesAt(X1, G1, k, p)
      <4>1. CASE k = -1
        BY <4>1 DEF Native!CandidateAt, Native!Nil, CandidatesAt
      <4>2. CASE k \in S1
        <5>1. k \in 0..(n - 1) /\ (X1[k] = -1 \/ X1[k] \in 0..(n - 1))
          BY <3>3, <4>2, LinksAfter
        <5>2. X1[k] = nodes'[k].next /\ G1[k] = nodes'[k].generation
          BY <1>15, <2>3, <5>1 DEF X1, G1
        <5>3. X1[k] # -1 => G1[X1[k]] = nodes'[X1[k]].generation
          BY <1>15, <2>3, <5>1 DEF X1, G1
        <5> QED BY <5>1, <5>2, <5>3
             DEF Native!CandidateAt, Native!Nil, CandidatesAt
      <4> QED BY <3>4, <4>1, <4>2
    <3>5. top[2] \in S1 /\ (P[top[2]] = -1 \/ P[top[2]] \in S1)
      <4>1. top[2] \in Nat /\ top[2] < E[top[2]] /\ E[top[2]] \in Nat
        BY <1>2, <2>2, GroupFacts
      <4>2. \A x \in S : x \in Nat
        BY <1>2
      <4> QED BY <2>2, <2>3, <3>3, <4>1, <4>2
    <3>6. /\ Native!CandidateAt(nodes', nodes[top[2]].prev, top[1] + 1) =
               CandidatesAt(X1, G1, P[top[2]], currentPass' + 1)
          /\ Native!CandidateAt(nodes', top[2], top[1] + 1) = CandidatesAt(X1, G1, top[2], currentPass' + 1)
      BY <3>2, <3>4, <3>5
    <3> QED BY <2>1, <2>2, <3>1, <3>6 DEF HeapFuses, top
  <2>5. /\ NativeHolds(input, S \ {E[Top(queue)]}, E1, X1, P1, G1, queue', visited', currentPass', E[E[Top(queue)]])
        /\ FusedHeap(input, S, E, X, G, queue, visited, currentPass, E1, X1, G1, queue', visited', currentPass')
    <3>1. PairAt(E, Top(queue)) \in Admitted(input)
      BY <2>2 DEF K
    <3> QED BY ONLY <1>2, <2>3, <2>4, <3>1, NativeFuses
  <2>6. S1 = S \ {K[2]} /\ E[Top(queue)] = K[2] /\ E[E[Top(queue)]] = K[3]
    BY <2>2, <2>3
  <2>7. /\ B1 = {t \in B : Adjacent(S1 \cup {n}, t)}
        /\ T1 = TurnOn(input, S1, B1, K[3])
    BY <2>5, <2>6 DEF FusedHeap, B, B1, T1, K, n
  <2>8. S1 \cup {n} = (S \cup {n}) \ {K[2]}
    <3>1. n \notin S
      BY <1>2
    <3> QED BY <2>2, <2>6, <3>1
  <2>9. NodesHold(input, nodes', queue', visited', currentPass', K[3])
    BY <2>3, <2>5, <2>6 DEF NodesHold, n, S1, E1, X1, P1, G1
  <2>10. K[3] \in 0..n
    BY <2>5, <2>6 DEF NativeHolds, n
  <2>11. applied' = n - Cardinality(S1)
    <3>1. Cardinality(S1) = Cardinality(S) - 1 /\ Cardinality(S) \in Nat
      BY <1>2, <2>2, <2>3, GroupsCount
    <3> QED BY <1>2, <2>1, <3>1
  <2>12. NativeInv' /\ Native!Bounds' = S1 \cup {n} /\ Native!TurnNow' = T1 /\ Native!BlockedPairs' = B1
    BY <1>4, <2>1, <2>9, <2>10, <2>11
  <2>13. PassFuse(Native!Bounds, Native!BlockedPairs, Native!TurnNow,
                  Native!Bounds', Native!BlockedPairs', Native!TurnNow')
    BY <1>3, <2>1, <2>2, <2>7, <2>8, <2>12 DEF PassFuse, TurnOn, n
  <2> QED BY <2>12, <2>13 DEF PassStep
<1>12. ASSUME UNCHANGED <<input, nodes, queue, visited, currentPass, applied>>
       PROVE  /\ NativeInv' /\ Native!Bounds' = Native!Bounds
              /\ Native!TurnNow' = Native!TurnNow
              /\ Native!BlockedPairs' = Native!BlockedPairs
  BY <1>12, NativeShows DEF NativeInv
<1>13. CASE Native!Exhaust
  <2>1. /\ Native!Visit /\ input.dropping /\ drawn = input.tape
        /\ outcome' = "DecisionError"
        /\ UNCHANGED <<input, nodes, queue, visited, currentPass, applied, drawn>>
    BY <1>13 DEF Native!Exhaust
  <2>2. Native!TurnNow # None /\ outcome = "running"
    BY <1>3, <1>9, <2>1
  <2> QED BY <1>12, <2>1, <2>2 DEF PassStep, PassEnds
<1>14. CASE Native!Finish
  <2>1. /\ outcome = "running" /\ queue = {} /\ outcome' = "plan"
        /\ UNCHANGED <<input, nodes, queue, visited, currentPass, applied, drawn>>
    BY <1>14 DEF Native!Finish
  <2>2. T = None
    BY <2>1 DEF T, HeapTurn, LiveOn
  <2> QED BY <1>3, <1>12, <2>1, <2>2 DEF PassStep, PassEnds
<1> QED BY <1>6, <1>8, <1>10, <1>11, <1>13, <1>14 DEF Native!Next

--------------------------------------------------------------------------------
(* Every engine starts as the contract does.                               *)
PassBegins(B, K, T) ==
    /\ input \in Inputs
    /\ B = 0..input.leaves /\ K = {} /\ T = Turn(input, 0..input.leaves, {}, 0)
    /\ drawn = 0 /\ outcome = "running"

(* The reference engine does. *)
LEMMA ReferenceStart ==
    ASSUME Reference!Init
    PROVE  ReferenceInv /\ PassBegins(Reference!Bounds, blocked, Reference!TurnNow)
<1>1. /\ input \in Inputs /\ blocked = {} /\ accepted = 0 /\ drawn = 0
      /\ outcome = "running"
      /\ current = [k \in 1..input.leaves |-> <<k - 1, k>>] /\ nxt = <<>>
      /\ cursor = 1
  BY DEF Reference!Init
<1>2. IsInput(input)
  BY <1>1, InputsAssumption
<1>3. /\ ReferenceHolds(input, nxt, current, cursor, 0, {})
      /\ BoundsOf(nxt, current, cursor, input.leaves) = 0..input.leaves
      /\ PositionOf(current, cursor, input.leaves) = 0
  BY ONLY <1>1, <1>2, ReferenceBegins
<1>4. /\ Reference!Bounds = BoundsOf(nxt, current, cursor, input.leaves)
      /\ Reference!TurnNow = TurnAt(input, nxt, current, cursor, blocked)
  BY ReferenceShows
<1>5. Reference!TurnNow = Turn(input, 0..input.leaves, {}, 0)
  BY <1>1, <1>3, <1>4 DEF TurnAt
<1> QED BY <1>1, <1>3, <1>4, <1>5 DEF ReferenceInv, PassBegins

(* The fast engine does. *)
LEMMA FastStart ==
    ASSUME Fast!Init
    PROVE  FastInv /\ PassBegins(Fast!Bounds, blocked, Fast!TurnNow)
<1> DEFINE n == input.leaves
           S == 0..(n - 1)
<1>1. /\ input \in Inputs /\ u = 0 /\ accepted = 0 /\ applied = 0
      /\ blocked = {}
      /\ drawn = 0 /\ outcome = "running"
      /\ UnitLinks(ends, next, prev, n)
  BY DEF Fast!Init, Fast!Nil, UnitLinks
<1>2. IsInput(input) /\ n \in Nat \ {0}
  BY <1>1, InputsAssumption DEF IsInput
<1>3. /\ FastHolds(input, S, ends, next, prev, 0, 0, {})
      /\ S \cup {n} = 0..n
  BY <1>1, <1>2, FastBegins
<1>4. Fast!Slots = S
  <2>1. Links(S, ends, next, prev, n)
    BY <1>3 DEF FastHolds
  <2> QED BY <2>1, ReachedIs, FastShows
<1>5. Cardinality(S) = n
  <2> HIDE DEF n
  <2>1. 0..(n - 1) \subseteq 0..(n - 1)
    OBVIOUS
  <2> QED BY ONLY <1>2, <2>1, GroupsCount DEF S
<1>6. applied = n - Cardinality(S)
  BY <1>1, <1>2, <1>5
<1>7. Fast!Bounds = 0..n
  BY <1>3, <1>4, FastShows
<1>8. Fast!TurnNow = Turn(input, 0..n, {}, 0)
  <2>1. Fast!TurnNow = TurnOn(input, Fast!Slots, blocked, SlotPosition(u, n))
    BY FastShows
  <2>2. SlotPosition(u, n) = 0
    BY <1>1 DEF SlotPosition
  <2> QED BY <1>1, <1>3, <1>4, <2>1, <2>2 DEF TurnOn
<1> QED BY <1>1, <1>3, <1>4, <1>6, <1>7, <1>8 DEF FastInv, PassBegins

(* The inline loop does. *)
LEMMA InlineStart ==
    ASSUME Inline!Init
    PROVE  InlineInv /\ PassBegins(Inline!Bounds, Inline!BlockedPairs, Inline!TurnNow)
<1>1. /\ input \in Inputs /\ Inline!Supported(input)
      /\ blocked = {} /\ accepted = FALSE /\ drawn = 0 /\ outcome = "running"
      /\ current = [k \in 1..input.leaves |-> <<k - 1, k>>] /\ nxt = <<>>
      /\ cursor = 1 /\ remap = <<>>
  BY DEF Inline!Init
<1>2. IsInput(input)
  BY <1>1, InputsAssumption
<1>3. /\ BoundsOf(nxt, current, cursor, input.leaves) = 0..input.leaves
      /\ PositionOf(current, cursor, input.leaves) = 0
  BY ONLY <1>1, <1>2, ReferenceBegins
<1>4. InlineHolds(input, nxt, current, cursor, FALSE, remap, {}, 0)
  BY ONLY <1>1, <1>2, InlineBegins
<1>5. InlineHolds(input, nxt, current, cursor, accepted, remap, blocked, drawn)
  BY <1>1, <1>4
<1>6. KeysAt(current, blocked) = {}
  BY <1>1 DEF KeysAt
<1>7. PlacesOf(nxt, current, cursor, remap, blocked)
  BY <1>5 DEF InlineHolds
<1>8. /\ Inline!Bounds = BoundsOf(nxt, current, cursor, input.leaves)
      /\ Inline!BlockedPairs = KeysAt(current, blocked)
      /\ Inline!TurnNow = TurnAt(input, nxt, current, cursor, KeysAt(current, blocked))
  BY <1>7, InlineShows
<1>9. Inline!TurnNow = Turn(input, 0..input.leaves, {}, 0)
  BY <1>3, <1>6, <1>8 DEF TurnAt
<1> QED BY <1>1, <1>3, <1>5, <1>6, <1>8, <1>9 DEF InlineInv, PassBegins

(* The native engine does. *)
LEMMA NativeStart ==
    ASSUME Native!Init
    PROVE  NativeInv /\ PassBegins(Native!Bounds, Native!BlockedPairs, Native!TurnNow)
<1> DEFINE n == input.leaves
           S == 0..(n - 1)
<1>1. /\ input \in Inputs /\ Native!Supported(input)
      /\ currentPass = 0 /\ applied = 0 /\ drawn = 0 /\ outcome = "running"
      /\ nodes = [k \in S |-> [end |-> k + 1, prev |-> k - 1,
                               next |-> IF k = n - 1 THEN -1 ELSE k + 1,
                               generation |-> 0, alive |-> TRUE]]
      /\ queue = {<<0, k, k + 1, 0, 0>> : k \in 0..(n - 2)}
      /\ visited = [k \in S |-> None]
  BY SameNative DEF Native!Init, Native!Nil
<1>2. IsInput(input) /\ n \in Nat \ {0}
  BY <1>1, InputsAssumption DEF IsInput
<1>3. input.legal = Triples(n)
  BY <1>1, SameNative DEF Native!Supported
<1>4. DOMAIN nodes = S
  BY <1>1
<1>5. ASSUME NEW k \in S
      PROVE  /\ nodes[k] = [end |-> k + 1, prev |-> k - 1,
                            next |-> IF k = n - 1 THEN -1 ELSE k + 1,
                            generation |-> 0, alive |-> TRUE]
             /\ nodes[k] \in Node
  <2>1. nodes[k] = [end |-> k + 1, prev |-> k - 1,
                    next |-> IF k = n - 1 THEN -1 ELSE k + 1,
                    generation |-> 0, alive |-> TRUE]
    BY <1>1
  <2>2. k \in Nat /\ k + 1 \in Nat /\ k - 1 \in Int /\ (IF k = n - 1 THEN -1 ELSE k + 1) \in Int
    BY <1>2
  <2> QED BY <2>1, <2>2 DEF Node
<1>6. nodes \in [0..(n - 1) -> Node]
  BY <1>1, <1>5
<1>16. ASSUME NEW k \in S
       PROVE  /\ nodes[k].end = k + 1 /\ nodes[k].prev = k - 1
              /\ nodes[k].generation = 0
              /\ nodes[k].next = (IF k = n - 1 THEN -1 ELSE k + 1) /\ nodes[k].alive
  <2>1. nodes[k] = [end |-> k + 1, prev |-> k - 1,
                    next |-> IF k = n - 1 THEN -1 ELSE k + 1,
                    generation |-> 0, alive |-> TRUE]
    BY <1>5
  <2>2. nodes[k].end = k + 1 /\ nodes[k].prev = k - 1 /\ nodes[k].generation = 0
    BY ONLY <2>1
  <2>3. nodes[k].next = (IF k = n - 1 THEN -1 ELSE k + 1)
    BY ONLY <2>1
  <2>4. nodes[k].alive
    BY ONLY <2>1
  <2> QED BY <2>2, <2>3, <2>4
<1>7. AliveOf(nodes) = S
  <2>1. \A k \in DOMAIN nodes : nodes[k].alive
    BY <1>4, <1>16
  <2> QED BY <1>4, <2>1 DEF AliveOf
<1>8. HeapBegins(EndsOf(nodes), NextOf(nodes), PrevOf(nodes), GensOf(nodes), queue, visited, n)
  <2>1. EndsOf(nodes) = [k \in S |-> k + 1]
    BY ONLY <1>4, <1>16 DEF EndsOf
  <2>2. NextOf(nodes) = [k \in S |-> IF k = n - 1 THEN -1 ELSE k + 1]
    BY ONLY <1>4, <1>16 DEF NextOf
  <2>3. PrevOf(nodes) = [k \in S |-> k - 1]
    BY ONLY <1>4, <1>16 DEF PrevOf
  <2>4. GensOf(nodes) = [k \in S |-> 0]
    BY ONLY <1>4, <1>16 DEF GensOf
  <2> QED BY <1>1, <2>1, <2>2, <2>3, <2>4 DEF HeapBegins, UnitLinks
<1>9. /\ NativeHolds(input, S, EndsOf(nodes), NextOf(nodes), PrevOf(nodes), GensOf(nodes), queue, visited, 0, 0)
      /\ BlockedOn(input, S, NextOf(nodes), GensOf(nodes), visited) = {}
      /\ S \cup {n} = 0..n
      /\ HeapTurn(input, S, EndsOf(nodes), NextOf(nodes), GensOf(nodes), queue, visited, 0) = Turn(input, 0..n, {}, 0)
  BY ONLY <1>2, <1>3, <1>8, NativeBegins
<1>10. NodesHold(input, nodes, queue, visited, currentPass, 0)
  BY <1>1, <1>6, <1>7, <1>9 DEF NodesHold
<1>11. 0 \in 0..n
  BY <1>2
<1>12. Native!Alive = S /\ Native!Bounds = 0..n
  BY <1>7, <1>9, NativeShows
<1>13. Cardinality(S) = n
  <2> HIDE DEF n
  <2>1. 0..(n - 1) \subseteq 0..(n - 1)
    OBVIOUS
  <2> QED BY ONLY <1>2, <2>1, GroupsCount DEF S
<1>14. applied = n - Cardinality(Native!Alive)
  BY <1>1, <1>2, <1>12, <1>13
<1>15. /\ Native!TurnNow = Turn(input, 0..n, {}, 0)
       /\ Native!BlockedPairs = {}
  <2>1. /\ TurnIn(input, nodes, queue, visited, currentPass) =
             HeapTurn(input, AliveOf(nodes), EndsOf(nodes), NextOf(nodes), GensOf(nodes), queue, visited, currentPass)
        /\ BlockedIn(input, nodes, visited) =
             BlockedOn(input, AliveOf(nodes), NextOf(nodes), GensOf(nodes), visited)
    BY <1>10, NodesShow
  <2> QED BY <1>1, <1>7, <1>9, <2>1, NativeShows
<1> QED BY <1>1, <1>10, <1>11, <1>12, <1>14, <1>15 DEF NativeInv, PassBegins

--------------------------------------------------------------------------------
(* The groups partition the leaves, and blocks and links are those of      *)
(* adjacent groups.                                                        *)
LEMMA ReferencePartition ==
    ASSUME ReferenceInv
    PROVE  Reference!Partition
<1>1. ListsOf(nxt, current, cursor, input.leaves)
  BY DEF ReferenceInv, ReferenceHolds
<1>2. PartitionOf(Joined(nxt, current, cursor), input.leaves)
  BY <1>1, GroupsPartition
<1>3. Reference!Groups = Joined(nxt, current, cursor)
  BY DEF Reference!Groups, Joined
<1> QED BY <1>2, <1>3 DEF Reference!Partition, PartitionOf

(* The group after a group has it before. *)
LEMMA LinksMirror ==
    ASSUME NEW S, NEW E, NEW X, NEW P, NEW n, Links(S, E, X, P, n), NEW s \in S
    PROVE  /\ X[s] = -1 => E[s] = n
           /\ X[s] # -1 => X[s] = E[s] /\ X[s] \in S /\ P[X[s]] = s
<1>1. GroupsOf(S, E, n)
  BY DEF Links
<1>2. /\ X[s] = -1 \/ X[s] \in S
      /\ X[s] = -1 <=> E[s] = n
      /\ X[s] # -1 => X[s] = E[s]
  BY LinksAfter
<1>3. ASSUME X[s] # -1
      PROVE  P[X[s]] = s
  <2>1. X[s] = E[s] /\ E[s] \in S
    BY <1>2, <1>3
  <2>2. s \in Nat /\ E[s] \in Nat /\ s < E[s]
    BY <1>1, GroupFacts
  <2>3. E[s] # 0
    BY <2>2
  <2>4. P[E[s]] \in S /\ E[P[E[s]]] = E[s]
    BY <2>1, <2>3 DEF Links
  <2>5. P[E[s]] = s
    BY <1>1, <2>4, OneBefore
  <2> QED BY <2>1, <2>5
<1> QED BY <1>2, <1>3

(* The fast engine's slots partition the leaves. *)
LEMMA FastPartition ==
    ASSUME FastInv
    PROVE  Fast!Partition
<1>1. /\ Links(Fast!Slots, ends, next, prev, input.leaves)
      /\ applied = input.leaves - Cardinality(Fast!Slots)
  BY DEF FastInv, FastHolds
<1>2. ASSUME NEW s \in Fast!Slots
      PROVE  IF next[s] = -1 THEN ends[s] = input.leaves
             ELSE next[s] = ends[s] /\ prev[next[s]] = s
  BY <1>1, LinksMirror
<1>3. \A s \in Fast!Slots : IF next[s] = Fast!Nil THEN ends[s] = input.leaves
                            ELSE next[s] = ends[s] /\ prev[next[s]] = s
  BY <1>2 DEF Fast!Nil
<1>4. Fast!Cardinality(Fast!Slots) = Cardinality(Fast!Slots)
  BY DEF Fast!Cardinality, Cardinality
<1> QED BY ONLY <1>1, <1>3, <1>4 DEF Fast!Partition

(* Every blocked position of the inline loop has a group to its right. *)
LEMMA InlineBoundaries ==
    ASSUME InlineInv
    PROVE  Inline!BlocksAreBoundaries
<1>1. /\ ListsOf(nxt, current, cursor, input.leaves)
      /\ PlacesOf(nxt, current, cursor, remap, blocked)
  BY DEF InlineInv, InlineHolds, ReferenceHolds
<1>2. Inline!Groups = Joined(nxt, current, cursor)
  BY InlineShows
<1>3. Len(Joined(nxt, current, cursor)) \in Nat
  BY <1>1, GroupsStart DEF ListsOf, Chain
<1>4. ASSUME NEW j \in blocked
      PROVE  Inline!PlaceOf(j) < Len(Inline!Groups)
  <2>1. Inline!PlaceOf(j) = Place(remap, Len(nxt), cursor, j)
    BY DEF Inline!PlaceOf, Place
  <2>2. Place(remap, Len(nxt), cursor, j) \in 1..(Len(Joined(nxt, current, cursor)) - 1)
    BY <1>1 DEF PlacesOf, PlacedAt
  <2> QED BY <1>2, <1>3, <2>1, <2>2
<1> QED BY <1>4 DEF Inline!BlocksAreBoundaries

(* The native engine's nodes partition the leaves. *)
LEMMA NativePartition ==
    ASSUME NativeInv
    PROVE  Native!Partition
<1> DEFINE n == input.leaves
           S == AliveOf(nodes)
           E == EndsOf(nodes)
           X == NextOf(nodes)
           P == PrevOf(nodes)
<1>1. PICK pos \in 0..n : NodesHold(input, nodes, queue, visited, currentPass, pos)
  BY DEF NativeInv
<1>2. /\ nodes \in [0..(n - 1) -> Node] /\ Links(S, E, X, P, n)
  BY <1>1 DEF NodesHold, NativeHolds
<1>3. S \subseteq 0..(n - 1) /\ 0 \in S
  BY <1>2 DEF Links, GroupsOf
<1>4. /\ \A k \in 0..(n - 1) :
           /\ E[k] = nodes[k].end /\ X[k] = nodes[k].next
           /\ P[k] = nodes[k].prev
           /\ (k \in S <=> nodes[k].alive)
  <2>1. nodes \in [0..(n - 1) -> Node]
    BY <1>2
  <2> HIDE DEF n
  <2>2. DOMAIN nodes = 0..(n - 1)
    BY ONLY <2>1
  <2> QED BY ONLY <2>2 DEF EndsOf, NextOf, PrevOf, AliveOf
<1>5. Native!Alive = S
  BY NativeShows
<1>6. ASSUME NEW k \in S
      PROVE  IF nodes[k].next = -1 THEN nodes[k].end = n
             ELSE /\ nodes[k].next = nodes[k].end
                  /\ nodes[nodes[k].next].alive /\ nodes[nodes[k].next].prev = k
  <2>1. /\ X[k] = -1 => E[k] = n
        /\ X[k] # -1 => X[k] = E[k] /\ X[k] \in S /\ P[X[k]] = k
    BY <1>2, LinksMirror
  <2> HIDE DEF S, E, X, P, n
  <2> QED BY <1>3, <1>4, <2>1
<1>7. nodes[0].alive
  <2> HIDE DEF S, E, X, P, n
  <2> QED BY <1>3, <1>4
<1>8. applied = n - Cardinality(S)
  BY <1>5 DEF NativeInv
<1>9. \A k \in S : IF nodes[k].next = Native!Nil THEN nodes[k].end = n
                     ELSE /\ nodes[k].next = nodes[k].end
                          /\ nodes[nodes[k].next].alive
                          /\ nodes[nodes[k].next].prev = k
  BY <1>6 DEF Native!Nil
<1>10. Native!Cardinality(S) = Cardinality(S)
  BY DEF Native!Cardinality, Cardinality
<1> QED BY ONLY <1>5, <1>7, <1>8, <1>9, <1>10 DEF Native!Partition

--------------------------------------------------------------------------------
(* What every step of the call keeps, whatever its engine.                 *)
MergeInv ==
    /\ engine \in {"reference", "fast", "inline", "native"}
    /\ engine = "reference" => ReferenceInv
    /\ engine = "fast" => FastInv
    /\ engine = "inline" => InlineInv
    /\ engine = "native" => NativeInv

(* It holds when a call starts, as a call of the contract does. *)
LEMMA MergeStarts ==
    ASSUME Init
    PROVE  MergeInv /\ Contract!Init
<1>1. ASSUME PassBegins(ChosenBounds, ChosenBlocked, ChosenTurn)
      PROVE  Contract!Init
  BY <1>1, SameContract DEF PassBegins, Contract!Init
<1>2. CASE engine = "reference" /\ Reference!Init
  BY <1>1, <1>2, ReferenceStart
    DEF MergeInv, ChosenBounds, ChosenBlocked, ChosenTurn
<1>3. CASE engine = "fast" /\ Fast!Init
  BY <1>1, <1>3, FastStart DEF MergeInv, ChosenBounds, ChosenBlocked, ChosenTurn
<1>4. CASE engine = "inline" /\ Inline!Init
  BY <1>1, <1>4, InlineStart
    DEF MergeInv, ChosenBounds, ChosenBlocked, ChosenTurn
<1>5. CASE engine = "native" /\ Native!Init
  BY <1>1, <1>5, NativeStart
    DEF MergeInv, ChosenBounds, ChosenBlocked, ChosenTurn
<1> QED BY <1>2, <1>3, <1>4, <1>5 DEF Init

(* It holds after each step, which is one of the contract or none. *)
LEMMA MergeSteps ==
    ASSUME MergeInv, [Next]_vars
    PROVE  MergeInv' /\ [Contract!Next]_(Contract!vars)
<1>1. CASE ApplyReference
  <2>1. engine = "reference" /\ engine' = "reference" /\ Reference!Next /\ ReferenceInv
    BY <1>1 DEF ApplyReference, MergeInv
  <2>2. /\ ReferenceInv'
        /\ PassStep(Reference!Bounds, blocked, Reference!TurnNow,
                    Reference!Bounds', blocked', Reference!TurnNow')
    BY <2>1, ReferenceStep
  <2>3. PassStep(ChosenBounds, ChosenBlocked, ChosenTurn, ChosenBounds', ChosenBlocked', ChosenTurn')
    BY <2>1, <2>2 DEF ChosenBounds, ChosenBlocked, ChosenTurn
  <2> QED BY <2>1, <2>2, <2>3, PassStepIsContract DEF MergeInv
<1>2. CASE ApplyFast
  <2>1. engine = "fast" /\ engine' = "fast" /\ Fast!Next /\ FastInv
    BY <1>2 DEF ApplyFast, MergeInv
  <2>2. /\ FastInv'
        /\ PassStep(Fast!Bounds, blocked, Fast!TurnNow, Fast!Bounds', blocked', Fast!TurnNow')
    BY <2>1, FastStep
  <2>3. PassStep(ChosenBounds, ChosenBlocked, ChosenTurn, ChosenBounds', ChosenBlocked', ChosenTurn')
    BY <2>1, <2>2 DEF ChosenBounds, ChosenBlocked, ChosenTurn
  <2> QED BY <2>1, <2>2, <2>3, PassStepIsContract DEF MergeInv
<1>3. CASE ApplyInline
  <2>1. engine = "inline" /\ engine' = "inline" /\ Inline!Next /\ InlineInv
    BY <1>3 DEF ApplyInline, MergeInv
  <2>2. /\ InlineInv'
        /\ PassStep(Inline!Bounds, Inline!BlockedPairs, Inline!TurnNow,
                    Inline!Bounds', Inline!BlockedPairs', Inline!TurnNow')
    BY <2>1, InlineStep
  <2>3. PassStep(ChosenBounds, ChosenBlocked, ChosenTurn, ChosenBounds', ChosenBlocked', ChosenTurn')
    BY <2>1, <2>2 DEF ChosenBounds, ChosenBlocked, ChosenTurn
  <2> QED BY <2>1, <2>2, <2>3, PassStepIsContract DEF MergeInv
<1>4. CASE ApplyNative
  <2>1. engine = "native" /\ engine' = "native" /\ Native!Next /\ NativeInv
    BY <1>4 DEF ApplyNative, MergeInv
  <2>2. /\ NativeInv'
        /\ PassStep(Native!Bounds, Native!BlockedPairs, Native!TurnNow,
                    Native!Bounds', Native!BlockedPairs', Native!TurnNow')
    BY <2>1, NativeStep
  <2>3. PassStep(ChosenBounds, ChosenBlocked, ChosenTurn, ChosenBounds', ChosenBlocked', ChosenTurn')
    BY <2>1, <2>2 DEF ChosenBounds, ChosenBlocked, ChosenTurn
  <2> QED BY <2>1, <2>2, <2>3, PassStepIsContract DEF MergeInv
<1>5. CASE UNCHANGED vars
  <2>1. UNCHANGED <<engine, input, drawn, outcome, blocked, current, nxt, cursor, accepted,
                    remap, ends, next, prev, u, applied, nodes, queue, visited, currentPass>>
    BY <1>5 DEF vars, lists, links, heap
  <2>2. /\ Reference!Bounds' = Reference!Bounds
        /\ Reference!TurnNow' = Reference!TurnNow
    BY <2>1, ReferenceShows
  <2>3. /\ Fast!Slots' = Fast!Slots /\ Fast!Bounds' = Fast!Bounds
        /\ Fast!TurnNow' = Fast!TurnNow
    BY <2>1, FastShows
  <2>4. /\ Native!Alive' = Native!Alive /\ Native!Bounds' = Native!Bounds
        /\ Native!TurnNow' = Native!TurnNow
        /\ Native!BlockedPairs' = Native!BlockedPairs
    BY <2>1, NativeShows
  <2>5. /\ Inline!Bounds' = Inline!Bounds
        /\ Inline!BlockedPairs' = Inline!BlockedPairs
        /\ Inline!TurnNow' = Inline!TurnNow
    BY <2>1
      DEF Inline!Bounds, Inline!Groups, Inline!BlockedPairs, Inline!PlaceOf,
          Inline!TurnNow, Inline!Position
  <2>6. UNCHANGED <<ReferenceInv, FastInv, InlineInv, NativeInv>>
    BY <2>1, <2>3, <2>4 DEF ReferenceInv, FastInv, InlineInv, NativeInv
  <2>7. MergeInv'
    BY <2>1, <2>6 DEF MergeInv
  <2>8. UNCHANGED <<ChosenBounds, ChosenBlocked, ChosenTurn>>
    BY <2>1, <2>2, <2>3, <2>4, <2>5 DEF ChosenBounds, ChosenBlocked, ChosenTurn
  <2> QED BY <2>1, <2>7, <2>8 DEF Contract!vars
<1> QED BY <1>1, <1>2, <1>3, <1>4, <1>5 DEF Next

(* Whatever the inputs and whichever engine the call has, its groups       *)
(* partition the leaves at every step, and the links and the blocks it     *)
(* keeps are those of adjacent groups (_assert_partition, partition_valid).*)
THEOREM PartitionHolds == Spec => []GroupsPartitionLeaves
<1>1. Init => MergeInv
  BY MergeStarts
<1>2. MergeInv /\ [Next]_vars => MergeInv'
  BY MergeSteps
<1>3. MergeInv => GroupsPartitionLeaves
  BY ReferencePartition, FastPartition, InlineBoundaries, NativePartition
  DEF MergeInv, GroupsPartitionLeaves
<1> QED BY <1>1, <1>2, <1>3, PTL DEF Spec

(* Whatever the inputs, every engine and the tokenizer's own loop do what  *)
(* SuperBpePassV1 promises: each of their steps is a step of it or none.   *)
THEOREM EnginesImplementPass == Spec => ImplementsMergePass
<1>1. Init => MergeInv /\ Contract!Init
  BY MergeStarts
<1>2. MergeInv /\ [Next]_vars => MergeInv' /\ [Contract!Next]_(Contract!vars)
  BY MergeSteps
<1> QED BY <1>1, <1>2, PTL DEF Spec, ImplementsMergePass, Contract!Spec
====
