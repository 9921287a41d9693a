--------------------------- MODULE BatchEncodeProofs ---------------------------
(***************************************************************************)
(* Proofs about BatchEncode, for any set of workers and any number of      *)
(* rows: nothing stale survives a batch, and under the GIL no row fails or *)
(* loses its merges.                                                       *)
(***************************************************************************)
EXTENDS BatchEncode, TLAPS

Key == {"_trie", "_seg_cache", "_cache_version"}
Version == {"old", "new", None}
Label == {"take", "decode", "compareSignature", "resetCrossWord", "setSignature", "compareVersion",
          "test _trie", "test _seg_cache", "test _cache_version",
          "delete _trie", "delete _seg_cache", "delete _cache_version",
          "stamp", "get", "build", "testCrossWord", "buildCrossWord", "returnCrossWord"}

TypeInv ==
    /\ call \in {None, "tokens", "ids", "offsets", "text"}
    /\ model \in [Key -> Version]
    /\ crossWord \in Version /\ signature \in Version
    /\ row \in [Workers -> Nat] /\ nextRow \in Nat
    /\ pc \in [Workers -> Label]
    /\ holder \in Workers \cup {None, FreeThreaded}
    /\ stage \in [Workers -> {"prepare", "spans", "memo", "trie", "merge"}]
    /\ seen \in [Workers -> SUBSET {"old", "new"}]
    /\ result \in [1..Rows -> {None, "decoded", "merged", "unmerged", "KeyError"}]

(* A worker inside clear_cache leaves behind it what it has looked at, one *)
(* past it or past the comparisons relies on what it found.                *)
PastTrie == {"test _seg_cache", "delete _seg_cache", "test _cache_version",
             "delete _cache_version", "stamp", "get", "build"}
PastMemo == {"test _cache_version", "delete _cache_version", "stamp", "get", "build"}
PastReset == {"setSignature", "testCrossWord", "buildCrossWord", "returnCrossWord"}

CleanBehind ==
    \A w \in Workers :
        /\ pc[w] \in PastTrie => model["_trie"] # "old"
        /\ pc[w] \in PastMemo => model["_seg_cache"] # "old"
        /\ pc[w] \in PastReset => crossWord # "old"

StaleInv == TypeInv /\ CleanBehind /\ NothingStaleSurvives

(* Under the GIL a worker between a test and the access that relies on it  *)
(* holds the interpreter, so what it found is still so.                    *)
HolderRuns == \A w \in Workers : pc[w] \in Uninterrupted => holder = w
FoundIsThere ==
    \A w \in Workers :
        /\ pc[w] = "delete _trie" => model["_trie"] # None
        /\ pc[w] = "delete _seg_cache" => model["_seg_cache"] # None
        /\ pc[w] = "delete _cache_version" => model["_cache_version"] # None
        /\ pc[w] = "returnCrossWord" => crossWord # None

(* Rows are worked on for the call that was begun. *)
RowsOfCall ==
    /\ \A w \in Workers : pc[w] = "decode" => call = "text"
    /\ \A w \in Workers : pc[w] \notin {"take", "decode"} => call # "text"
    /\ call = None => \A r \in 1..Rows : result[r] = None
    /\ call = None => pool = {} /\ \A w \in Workers : pc[w] = "take"

GilInv ==
    /\ TypeInv /\ RowsOfCall
    /\ holder # FreeThreaded => HolderRuns /\ FoundIsThere
    /\ BatchMatchesSequential

--------------------------------------------------------------------------------
(* The sequences the labels are computed from. *)
LEMMA Labels ==
    /\ DOMAIN Keys = {1, 2, 3} /\ Len(Keys) = 3
    /\ Keys[1] = "_trie" /\ Keys[2] = "_seg_cache" /\ Keys[3] = "_cache_version"
    /\ Tests[1] = "test _trie" /\ Tests[2] = "test _seg_cache"
    /\ Tests[3] = "test _cache_version"
    /\ Deletes[1] = "delete _trie" /\ Deletes[2] = "delete _seg_cache"
    /\ Deletes[3] = "delete _cache_version"
    /\ AfterKey(1) = "test _seg_cache" /\ AfterKey(2) = "test _cache_version"
    /\ AfterKey(3) = "stamp"
    /\ {Keys[i] : i \in DOMAIN Keys} = Key
    /\ Uninterrupted = {"resetCrossWord", "returnCrossWord", "test _seg_cache",
                        "test _cache_version", "delete _trie", "delete _seg_cache",
                        "delete _cache_version"}
<1>1. DOMAIN Keys = {1, 2, 3} /\ Len(Keys) = 3
  BY DEF Keys
<1>2. DOMAIN Deletes = {1, 2, 3} /\ 2..Len(Tests) = {2, 3}
  BY DEF Deletes, Tests
<1>3. Keys[1] = "_trie" /\ Keys[2] = "_seg_cache" /\ Keys[3] = "_cache_version"
  BY DEF Keys
<1>4. /\ Tests[1] = "test _trie" /\ Tests[2] = "test _seg_cache"
      /\ Tests[3] = "test _cache_version"
      /\ Deletes[1] = "delete _trie" /\ Deletes[2] = "delete _seg_cache"
      /\ Deletes[3] = "delete _cache_version"
  BY DEF Tests, Deletes
<1>5. /\ AfterKey(1) = "test _seg_cache" /\ AfterKey(2) = "test _cache_version"
      /\ AfterKey(3) = "stamp"
  <2>1. AfterKey(1) = Tests[2] /\ AfterKey(2) = Tests[3] /\ AfterKey(3) = "stamp"
    BY <1>1, SMT DEF AfterKey
  <2> QED BY <1>4, <2>1
<1>6. {Keys[i] : i \in DOMAIN Keys} = Key
  BY <1>1, <1>3 DEF Key
<1>7. /\ {Tests[i] : i \in 2..Len(Tests)} = {Tests[2], Tests[3]}
      /\ {Deletes[i] : i \in DOMAIN Deletes} = {Deletes[1], Deletes[2], Deletes[3]}
  BY <1>2
<1>8. Uninterrupted = {"resetCrossWord", "returnCrossWord", "test _seg_cache",
                       "test _cache_version", "delete _trie", "delete _seg_cache",
                       "delete _cache_version"}
  BY <1>4, <1>7 DEF Uninterrupted
<1> QED BY <1>1, <1>3, <1>4, <1>5, <1>6, <1>8

--------------------------------------------------------------------------------
(* A batch begins; nothing else is changed. *)
Begins == EncodeBatch \/ EncodeToIdsBatch \/ EncodeWithOffsetsBatch \/ DecodeBatch

(* The four batch functions only hand out the rows: no cache is touched    *)
(* yet.                                                                    *)
LEMMA BeginOnly ==
    ASSUME Begins
    PROVE  /\ call = None /\ call' \in {"tokens", "ids", "offsets", "text"}
           /\ UNCHANGED <<model, crossWord, signature, nextRow, row, pc, holder, stage, seen, result>>
BY DEF Begins, EncodeBatch, EncodeToIdsBatch, EncodeWithOffsetsBatch, DecodeBatch, Begin, shared

(* What was renewed stays renewed: no access writes an old value. *)
LEMMA NothingOldIsWritten ==
    ASSUME TypeInv, [Next]_vars
    PROVE  /\ \A k \in Key : model[k] # "old" => model'[k] # "old"
           /\ crossWord # "old" => crossWord' # "old"
<1> USE DEF Key
<1>1. CASE UNCHANGED vars
  BY <1>1 DEF vars, shared
<1>2. ASSUME NEW w \in Workers,
             \/ Take(w) \/ Decode(w) \/ CompareSignature(w) \/ CompareVersion(w) \/ Get(w)
             \/ TestCrossWord(w) \/ ReturnCrossWord(w)
      PROVE  UNCHANGED <<model, crossWord>>
  BY <1>2 DEF Take, Decode, CompareSignature, CompareVersion, Get, TestCrossWord, ReturnCrossWord, shared
<1>3. ASSUME NEW w \in Workers, NEW i \in DOMAIN Keys, TestKey(w, i)
      PROVE  UNCHANGED <<model, crossWord>>
  BY <1>3 DEF TestKey, shared
<1>4. ASSUME NEW w \in Workers, ResetCrossWord(w) \/ SetSignature(w) \/ BuildCrossWord(w)
      PROVE  model' = model /\ crossWord' \in {crossWord, None, "new"}
  BY <1>4 DEF ResetCrossWord, SetSignature, BuildCrossWord
<1>5. ASSUME NEW w \in Workers, NEW i \in DOMAIN Keys, DeleteKey(w, i)
      PROVE  crossWord' = crossWord /\ \A k \in Key : model'[k] \in {model[k], None}
  BY <1>5 DEF DeleteKey, TypeInv
<1>6. ASSUME NEW w \in Workers, Stamp(w) \/ Build(w)
      PROVE  crossWord' = crossWord /\ \A k \in Key : model'[k] \in {model[k], "new"}
  BY <1>6 DEF Stamp, Build, TypeInv
<1>7. CASE Begins
  BY <1>7, BeginOnly
<1> QED BY <1>1, <1>2, <1>3, <1>4, <1>5, <1>6, <1>7, BatchAssumption DEF Next, Access, Begins

(* Types of the shared attributes and of a worker's own state. *)
LEMMA TypeStep ==
    ASSUME TypeInv, [Next]_vars
    PROVE  TypeInv'
<1> USE DEF batch
<1>1. CASE UNCHANGED vars
  BY <1>1 DEF vars, shared, TypeInv
<1>2. ASSUME NEW w \in Workers, Take(w) PROVE TypeInv'
  <2>1. seen' \in [Workers -> SUBSET {"old", "new"}]
    BY <1>2 DEF Take, TypeInv
  <2>2. row' \in [Workers -> Nat] /\ nextRow' \in Nat
    BY <1>2 DEF Take, TypeInv
  <2> QED BY <1>2, <2>1, <2>2 DEF Goto, Take, TypeInv, shared, Label
<1>15. CASE Begins
  BY <1>15, BeginOnly DEF TypeInv
<1>16. ASSUME NEW w \in Workers, Decode(w) PROVE TypeInv'
  <2>1. result' \in [1..Rows -> {None, "decoded", "merged", "unmerged", "KeyError"}]
    BY <1>16 DEF Decode, Finish, TypeInv
  <2> QED BY <1>16, <2>1 DEF Decode, Finish, Goto, TypeInv, Label, shared
<1>3. ASSUME NEW w \in Workers, CompareSignature(w) PROVE TypeInv'
  BY <1>3 DEF Goto, CompareSignature, AfterSync, Enter, SyncOf, Stay, batch, TypeInv, shared, Label
<1>4. ASSUME NEW w \in Workers, ResetCrossWord(w) PROVE TypeInv'
  BY <1>4 DEF Goto, ResetCrossWord, Stay, TypeInv, Label, Version
<1>5. ASSUME NEW w \in Workers, SetSignature(w) PROVE TypeInv'
  BY <1>5 DEF Goto, SetSignature, AfterSync, Enter, SyncOf, Stay, batch, TypeInv, Label, Version
<1>6. ASSUME NEW w \in Workers, CompareVersion(w) PROVE TypeInv'
  <2>1. CASE Goto(w, Tests[1]) /\ Stay
    BY <1>6, <2>1, Labels DEF Goto, CompareVersion, Stay, TypeInv, Label, shared
  <2>2. CASE AfterVersion(w)
    BY <1>6, <2>2 DEF Goto, CompareVersion, AfterVersion, Enter, SyncOf, Stay, TypeInv, Label, shared
  <2> QED BY <1>6, <2>1, <2>2 DEF CompareVersion
<1>7. ASSUME NEW w \in Workers, NEW i \in DOMAIN Keys, TestKey(w, i) PROVE TypeInv'
  BY <1>7, Labels DEF Goto, TestKey, Stay, TypeInv, Label, shared
<1>8. ASSUME NEW w \in Workers, NEW i \in DOMAIN Keys, DeleteKey(w, i) PROVE TypeInv'
  <2>0. Keys[i] \in Key /\ AfterKey(i) \in {"test _seg_cache", "test _cache_version", "stamp"}
    BY Labels DEF Key
  <2>1. result' \in [1..Rows -> {None, "decoded", "merged", "unmerged", "KeyError"}]
    BY <1>8 DEF DeleteKey, Stay, Finish, TypeInv
  <2>2. model' \in [Key -> Version]
    BY <1>8, <2>0 DEF DeleteKey, TypeInv, Version
  <2>3. pc' \in [Workers -> Label] /\ holder' \in Workers \cup {None, FreeThreaded}
    BY <1>8, <2>0 DEF Goto, DeleteKey, Finish, TypeInv, Label
  <2> QED BY <1>8, <2>1, <2>2, <2>3 DEF DeleteKey, Stay, Finish, TypeInv
<1>9. ASSUME NEW w \in Workers, Stamp(w) PROVE TypeInv'
  BY <1>9 DEF Goto, Stamp, AfterVersion, Enter, SyncOf, Stay, TypeInv, Label, Version, Key
<1>10. ASSUME NEW w \in Workers, Get(w) PROVE TypeInv'
  <2>1. seen' \in [Workers -> SUBSET {"old", "new"}]
    BY <1>10 DEF Get, KeyOf, TypeInv, Version, Key
  <2> QED BY <1>10, <2>1 DEF Goto, Get, AfterGet, Enter, SyncOf, batch, Stay, TypeInv, Label, shared
<1>11. ASSUME NEW w \in Workers, Build(w) PROVE TypeInv'
  BY <1>11 DEF Goto, Build, KeyOf, AfterGet, Enter, SyncOf, batch, TypeInv, Label, Version, Key
<1>12. ASSUME NEW w \in Workers, TestCrossWord(w) PROVE TypeInv'
  BY <1>12 DEF Goto, TestCrossWord, Stay, TypeInv, Label, shared
<1>13. ASSUME NEW w \in Workers, BuildCrossWord(w) PROVE TypeInv'
  BY <1>13 DEF Goto, BuildCrossWord, Stay, TypeInv, Label, Version
<1>14. ASSUME NEW w \in Workers, ReturnCrossWord(w) PROVE TypeInv'
  <2>1. seen' \in [Workers -> SUBSET {"old", "new"}]
    BY <1>14 DEF ReturnCrossWord, TypeInv, Version
  <2>2. result' \in [1..Rows -> {None, "decoded", "merged", "unmerged", "KeyError"}]
    BY <1>14 DEF ReturnCrossWord, Finish, TypeInv
  <2> QED BY <1>14, <2>1, <2>2 DEF Goto, ReturnCrossWord, Finish, TypeInv, Label, shared
<1> QED
  BY <1>1, <1>2, <1>3, <1>4, <1>5, <1>6, <1>7, <1>8, <1>9, <1>10, <1>11, <1>12, <1>13, <1>14,
     <1>15, <1>16
  DEF Next, Access, Begins

(* The typing of the attributes holds when the batch begins. *)
LEMMA TypeInit ==
    ASSUME Init
    PROVE  TypeInv
<1>1. model \in [Key -> {"old", None}]
  BY Labels DEF Init
<1>2. model \in [Key -> Version]
  BY <1>1 DEF Version
<1>3. seen \in [Workers -> SUBSET {"old", "new"}]
  BY DEF Init
<1> QED BY <1>2, <1>3 DEF Init, TypeInv, Version, Label

--------------------------------------------------------------------------------
(* What a step of w has to show: w has what it relies on, and the others   *)
(* are where they were.                                                    *)
Kept(w) ==
    /\ \A v \in Workers \ {w} : pc'[v] = pc[v] /\ seen'[v] = seen[v]
    /\ "old" \notin seen'[w]
    /\ pc'[w] \in PastTrie => model'["_trie"] # "old"
    /\ pc'[w] \in PastMemo => model'["_seg_cache"] # "old"
    /\ pc'[w] \in PastReset => crossWord' # "old"
    /\ NothingStaleIsLeft'

(* What a step must leave as it is for nothing stale to survive, put       *)
(* together: the invariant of the cache test for free threads.             *)
LEMMA KeptIsEnough ==
    ASSUME StaleInv, [Next]_vars, NEW w \in Workers, Kept(w)
    PROVE  StaleInv'
<1>1. TypeInv /\ TypeInv'
  BY TypeStep DEF StaleInv
<1>2. /\ model["_trie"] # "old" => model'["_trie"] # "old"
      /\ model["_seg_cache"] # "old" => model'["_seg_cache"] # "old"
      /\ crossWord # "old" => crossWord' # "old"
  BY <1>1, NothingOldIsWritten DEF Key
<1>3. CleanBehind'
  BY <1>2 DEF Kept, CleanBehind, StaleInv
<1>4. NothingStaleIsUsed'
  BY DEF Kept, NothingStaleIsUsed, StaleInv, NothingStaleSurvives
<1> QED BY <1>1, <1>3, <1>4 DEF Kept, StaleInv, NothingStaleSurvives

(* Nothing stale: what a worker has behind it was renewed before, and what *)
(* it gets is what it has behind it.                                       *)
LEMMA StaleStep ==
    ASSUME StaleInv, [Next]_vars
    PROVE  StaleInv'
<1> USE DEF StaleInv, NothingStaleSurvives, NothingStaleIsUsed
<1>1. CASE UNCHANGED vars
  BY <1>1, TypeStep DEF vars, shared, CleanBehind, NothingStaleIsLeft
<1> USE DEF Kept, Goto, TypeInv, PastTrie, PastMemo, PastReset, NothingStaleIsLeft, shared
<1>15. CASE Begins
  BY <1>15, BeginOnly, TypeStep DEF CleanBehind
<1>2. ASSUME NEW w \in Workers, Take(w) \/ Decode(w) PROVE Kept(w)
  BY <1>2 DEF Take, Decode, Finish
<1>3. ASSUME NEW w \in Workers, CompareSignature(w) PROVE Kept(w)
  BY <1>3 DEF CompareSignature, AfterSync, Enter, SyncOf, Stay, batch
<1>4. ASSUME NEW w \in Workers, ResetCrossWord(w) PROVE Kept(w)
  BY <1>4, BatchAssumption DEF ResetCrossWord, Stay
<1>5. ASSUME NEW w \in Workers, SetSignature(w) PROVE Kept(w)
  BY <1>5 DEF SetSignature, AfterSync, Enter, SyncOf, Stay, batch, At, CleanBehind
<1>6. ASSUME NEW w \in Workers, CompareVersion(w) PROVE Kept(w)
  BY <1>6, Labels DEF CompareVersion, AfterVersion, Enter, SyncOf, Stay, At, CleanBehind
<1>7. ASSUME NEW w \in Workers, NEW i \in DOMAIN Keys, TestKey(w, i) PROVE Kept(w)
  <2>1. CASE i = 1
    <3>1. pc'[w] \in {"delete _trie", "test _seg_cache"} /\ UNCHANGED <<shared, seen>>
          /\ (pc'[w] = "test _seg_cache" => model["_trie"] = None)
      BY <1>7, <2>1, Labels DEF TestKey
    <3> QED BY <1>7, <2>1, <3>1, BatchAssumption DEF TestKey
  <2>2. CASE i = 2
    <3>1. pc'[w] \in {"delete _seg_cache", "test _cache_version"} /\ UNCHANGED <<shared, seen>>
          /\ (pc'[w] = "test _cache_version" => model["_seg_cache"] = None)
          /\ model["_trie"] # "old"
      BY <1>7, <2>2, Labels DEF TestKey, At, CleanBehind
    <3> QED BY <1>7, <2>2, <3>1, BatchAssumption DEF TestKey
  <2>3. CASE i = 3
    BY <1>7, <2>3, Labels, BatchAssumption DEF TestKey, Stay, At, CleanBehind
  <2> QED BY <2>1, <2>2, <2>3, Labels
<1>8. ASSUME NEW w \in Workers, NEW i \in DOMAIN Keys, DeleteKey(w, i) PROVE Kept(w)
  <2>1. CASE i = 1
    BY <1>8, <2>1, Labels, BatchAssumption DEF DeleteKey, Stay, Finish, At, CleanBehind, Key
  <2>2. CASE i = 2
    BY <1>8, <2>2, Labels, BatchAssumption DEF DeleteKey, Stay, Finish, At, CleanBehind, Key
  <2>3. CASE i = 3
    BY <1>8, <2>3, Labels, BatchAssumption DEF DeleteKey, Stay, Finish, At, CleanBehind, Key
  <2> QED BY <2>1, <2>2, <2>3, Labels
<1>9. ASSUME NEW w \in Workers, Stamp(w) PROVE Kept(w)
  BY <1>9 DEF Stamp, AfterVersion, Enter, SyncOf, Stay, At, CleanBehind, Key
<1>10. ASSUME NEW w \in Workers, Get(w) PROVE Kept(w)
  <2>1. model["_trie"] # "old" /\ model["_seg_cache"] # "old"
    BY <1>10 DEF Get, At, CleanBehind
  <2>2. "old" \notin seen'[w] /\ \A v \in Workers \ {w} : seen'[v] = seen[v]
    BY <1>10, <2>1 DEF Get, KeyOf
  <2> QED BY <1>10, <2>1, <2>2 DEF Get, AfterGet, Enter, SyncOf, batch, Stay
<1>11. ASSUME NEW w \in Workers, Build(w) PROVE Kept(w)
  BY <1>11 DEF Build, KeyOf, AfterGet, Enter, SyncOf, batch, At, CleanBehind, Key
<1>12. ASSUME NEW w \in Workers, TestCrossWord(w) PROVE Kept(w)
  BY <1>12 DEF TestCrossWord, Stay, At, CleanBehind
<1>13. ASSUME NEW w \in Workers, BuildCrossWord(w) PROVE Kept(w)
  BY <1>13 DEF BuildCrossWord, Stay
<1>14. ASSUME NEW w \in Workers, ReturnCrossWord(w) PROVE Kept(w)
  <2>1. "old" \notin seen'[w] /\ \A v \in Workers \ {w} : seen'[v] = seen[v]
    <3>1. crossWord # "old"
      BY <1>14 DEF ReturnCrossWord, At, CleanBehind
    <3> QED BY <1>14, <3>1 DEF ReturnCrossWord
  <2> QED BY <1>14, <2>1 DEF ReturnCrossWord, Finish
<1> HIDE DEF Kept, TypeInv
<1> QED
  BY KeptIsEnough,
     <1>1, <1>2, <1>3, <1>4, <1>5, <1>6, <1>7, <1>8, <1>9, <1>10, <1>11, <1>12, <1>13, <1>14, <1>15
  DEF Next, Access, Begins

(* However the workers interleave in renewing the caches, nothing of the   *)
(* old model is used for a row or left in the caches.                      *)
THEOREM StaleNeverSurvives == Spec => []NothingStaleSurvives
<1>1. Init => StaleInv
  <2> SUFFICES ASSUME Init PROVE StaleInv
    OBVIOUS
  <2>1. TypeInv
    BY TypeInit
  <2>2. CleanBehind
    BY DEF Init, CleanBehind, PastTrie, PastMemo, PastReset
  <2>3. NothingStaleIsUsed
    BY DEF Init, NothingStaleIsUsed
  <2>4. model \in [Key -> {"old", None}]
    BY Labels DEF Init
  <2>5. NothingStaleIsLeft
    BY <2>4, BatchAssumption DEF Init, NothingStaleIsLeft, Key
  <2> QED BY <2>1, <2>2, <2>3, <2>5 DEF StaleInv, NothingStaleSurvives
<1>2. StaleInv => NothingStaleSurvives
  BY DEF StaleInv
<1> QED BY <1>1, <1>2, StaleStep, PTL DEF Spec

--------------------------------------------------------------------------------
(* What a step of w under the GIL has to show. *)
GilKept(w) ==
    /\ holder \in {w, None}
    /\ \A v \in Workers \ {w} : pc'[v] = pc[v]
    /\ pc'[w] \in Uninterrupted => holder' = w
    /\ pc'[w] = "delete _trie" => model'["_trie"] # None
    /\ pc'[w] = "delete _seg_cache" => model'["_seg_cache"] # None
    /\ pc'[w] = "delete _cache_version" => model'["_cache_version"] # None
    /\ pc'[w] = "returnCrossWord" => crossWord' # None
    /\ BatchMatchesSequential'

(* Every access leaves the call alone and is one of the call's.            *)
LEMMA RowsStep ==
    ASSUME TypeInv, RowsOfCall, [Next]_vars
    PROVE  RowsOfCall'
<1> USE DEF TypeInv, batch
<1> DEFINE Own(w) == /\ call' = call /\ call # None
                     /\ \A v \in Workers \ {w} : pc'[v] = pc[v]
                     /\ pc'[w] = "decode" => call = "text"
                     /\ pc'[w] \notin {"take", "decode"} => call # "text"
           Moves(w) == /\ pc[w] \notin {"take", "decode"} /\ call' = call
                       /\ \E label : label # "decode" /\ Goto(w, label)
<1>1. CASE UNCHANGED vars
  BY <1>1 DEF vars, RowsOfCall
<1>2. CASE Begins
  BY <1>2, BeginOnly, BatchAssumption DEF RowsOfCall
<1>3. ASSUME NEW w \in Workers, Take(w) PROVE Own(w)
  BY <1>3 DEF Take, Goto, RowsOfCall
<1>4. ASSUME NEW w \in Workers, Decode(w) PROVE Own(w)
  BY <1>4 DEF Decode, Finish, At, Goto, RowsOfCall
<1>5. ASSUME NEW w \in Workers, Access(w), ~Take(w), ~Decode(w) PROVE Own(w)
  <2>1. Moves(w)
    <3>1. CASE CompareSignature(w) \/ SetSignature(w)
      BY <1>5, <3>1 DEF CompareSignature, SetSignature, AfterSync, Enter, SyncOf, Stay, At
    <3>2. CASE ResetCrossWord(w) \/ TestCrossWord(w) \/ BuildCrossWord(w)
      BY <1>5, <3>2 DEF ResetCrossWord, TestCrossWord, BuildCrossWord, Stay, At
    <3>3. CASE ReturnCrossWord(w)
      BY <1>5, <3>3 DEF ReturnCrossWord, Finish, At
    <3>4. CASE CompareVersion(w) \/ Stamp(w)
      BY <1>5, <3>4, Labels DEF CompareVersion, Stamp, AfterVersion, Enter, SyncOf, Stay, At
    <3>5. CASE Get(w) \/ Build(w)
      BY <1>5, <3>5 DEF Get, Build, AfterGet, Enter, SyncOf, Stay, At
    <3>6. ASSUME NEW i \in DOMAIN Keys, TestKey(w, i) \/ DeleteKey(w, i)
          PROVE  Moves(w)
      BY <1>5, <3>6, Labels DEF TestKey, DeleteKey, Finish, Stay, At
    <3> QED BY <1>5, <3>1, <3>2, <3>3, <3>4, <3>5, <3>6 DEF Access
  <2>2. call # None
    BY <2>1 DEF RowsOfCall
  <2> QED BY <2>1, <2>2 DEF Goto, RowsOfCall
<1>6. ASSUME NEW w \in Workers, Own(w) PROVE RowsOfCall'
  BY <1>6 DEF RowsOfCall
<1> QED BY <1>1, <1>2, <1>3, <1>4, <1>5, <1>6 DEF Next, Begins

(* What a step must leave as it is for the rows to be encoded as one       *)
(* worker would, put together: the invariant under the GIL.                *)
LEMMA GilKeptIsEnough ==
    ASSUME GilInv, [Next]_vars, holder # FreeThreaded, NEW w \in Workers, GilKept(w)
    PROVE  HolderRuns' /\ FoundIsThere' /\ BatchMatchesSequential'
<1>1. \A v \in Workers \ {w} : pc'[v] \notin Uninterrupted
  BY BatchAssumption DEF GilKept, GilInv, HolderRuns
<1>2. HolderRuns'
  BY <1>1 DEF GilKept, HolderRuns
<1>3. FoundIsThere'
  BY <1>1, Labels DEF GilKept, FoundIsThere
<1> QED BY <1>2, <1>3 DEF GilKept

(* Under the GIL: while a worker relies on what it found, no other worker  *)
(* takes a step, so a row ends with its merges.                            *)
LEMMA GilStep ==
    ASSUME GilInv, [Next]_vars, holder # FreeThreaded
    PROVE  HolderRuns' /\ FoundIsThere' /\ BatchMatchesSequential'
<1> USE DEF GilInv, BatchMatchesSequential, batch
<1>1. CASE UNCHANGED vars
  BY <1>1 DEF vars, shared, HolderRuns, FoundIsThere
<1>15. CASE Begins
  <2>1. HolderRuns' /\ FoundIsThere'
    BY <1>15, BeginOnly DEF HolderRuns, FoundIsThere
  <2>2. \A r \in 1..Rows : result'[r] = None
    BY <1>15, BeginOnly DEF RowsOfCall
  <2> QED BY <2>1, <2>2
<1> USE BatchAssumption, Labels DEF GilKept, Goto, At, TypeInv, shared
<1>2. ASSUME NEW w \in Workers, Take(w) PROVE GilKept(w)
  BY <1>2 DEF Take
<1>16. ASSUME NEW w \in Workers, Decode(w) PROVE GilKept(w)
  BY <1>16 DEF Decode, Finish, RowsOfCall
<1>3. ASSUME NEW w \in Workers, CompareSignature(w) PROVE GilKept(w)
  BY <1>3 DEF CompareSignature, AfterSync, Enter, SyncOf, Stay, batch
<1>4. ASSUME NEW w \in Workers, ResetCrossWord(w) PROVE GilKept(w)
  BY <1>4 DEF ResetCrossWord, Stay
<1>5. ASSUME NEW w \in Workers, SetSignature(w) PROVE GilKept(w)
  BY <1>5 DEF SetSignature, AfterSync, Enter, SyncOf, Stay, batch
<1>6. ASSUME NEW w \in Workers, CompareVersion(w) PROVE GilKept(w)
  BY <1>6 DEF CompareVersion, AfterVersion, Enter, SyncOf, Stay
<1>7. ASSUME NEW w \in Workers, NEW i \in DOMAIN Keys, TestKey(w, i) PROVE GilKept(w)
  <2>1. CASE i = 1
    BY <1>7, <2>1 DEF TestKey, Stay
  <2>2. CASE i = 2
    BY <1>7, <2>2 DEF TestKey, Stay
  <2>3. CASE i = 3
    BY <1>7, <2>3 DEF TestKey, Stay
  <2> QED BY <2>1, <2>2, <2>3
<1>8. ASSUME NEW w \in Workers, NEW i \in DOMAIN Keys, DeleteKey(w, i) PROVE GilKept(w)
  <2>1. CASE i = 1
    <3>1. model[Keys[i]] # None
      BY <1>8, <2>1 DEF DeleteKey, FoundIsThere
    <3>2. Stay /\ Goto(w, AfterKey(i)) /\ model' = [model EXCEPT ![Keys[i]] = None]
      BY <1>8, <3>1 DEF DeleteKey
    <3> QED BY <1>8, <2>1, <3>2 DEF DeleteKey, Stay
  <2>2. CASE i = 2
    <3>1. model[Keys[i]] # None
      BY <1>8, <2>2 DEF DeleteKey, FoundIsThere
    <3>2. Stay /\ Goto(w, AfterKey(i)) /\ model' = [model EXCEPT ![Keys[i]] = None]
      BY <1>8, <3>1 DEF DeleteKey
    <3> QED BY <1>8, <2>2, <3>2 DEF DeleteKey, Stay
  <2>3. CASE i = 3
    <3>1. model[Keys[i]] # None
      BY <1>8, <2>3 DEF DeleteKey, FoundIsThere
    <3>2. Stay /\ Goto(w, AfterKey(i)) /\ model' = [model EXCEPT ![Keys[i]] = None]
      BY <1>8, <3>1 DEF DeleteKey
    <3> QED BY <1>8, <2>3, <3>2 DEF DeleteKey, Stay
  <2> QED BY <2>1, <2>2, <2>3
<1>9. ASSUME NEW w \in Workers, Stamp(w) PROVE GilKept(w)
  BY <1>9 DEF Stamp, AfterVersion, Enter, SyncOf, Stay
<1>10. ASSUME NEW w \in Workers, Get(w) PROVE GilKept(w)
  BY <1>10 DEF Get, AfterGet, Enter, SyncOf, batch, Stay
<1>11. ASSUME NEW w \in Workers, Build(w) PROVE GilKept(w)
  BY <1>11 DEF Build, AfterGet, Enter, SyncOf, batch
<1>12. ASSUME NEW w \in Workers, TestCrossWord(w) PROVE GilKept(w)
  BY <1>12 DEF TestCrossWord, Stay
<1>13. ASSUME NEW w \in Workers, BuildCrossWord(w) PROVE GilKept(w)
  BY <1>13 DEF BuildCrossWord, Stay
<1>14. ASSUME NEW w \in Workers, ReturnCrossWord(w) PROVE GilKept(w)
  BY <1>14 DEF ReturnCrossWord, Finish, FoundIsThere, RowsOfCall
<1> HIDE DEF GilInv, GilKept, BatchMatchesSequential
<1> QED
  BY GilKeptIsEnough,
     <1>1, <1>2, <1>3, <1>4, <1>5, <1>6, <1>7, <1>8, <1>9, <1>10, <1>11, <1>12, <1>13, <1>14, <1>15, <1>16
  DEF Next, Access, Begins

(* An interpreter without a GIL stays one: the property asks nothing of it. *)
LEMMA FreeThreadedStays ==
    ASSUME [Next]_vars
    PROVE  holder' = FreeThreaded <=> holder = FreeThreaded
<1>1. \A w \in Workers : \A label : Goto(w, label) => (holder' = FreeThreaded <=> holder = FreeThreaded)
  BY BatchAssumption DEF Goto
<1>2. CASE Begins
  BY <1>2, BeginOnly
<1> QED
  BY <1>1, <1>2 DEF Next, Access, Begins, vars, Take, Decode, CompareSignature, AfterSync, Enter,
    ResetCrossWord, SetSignature, CompareVersion, AfterVersion, TestKey, DeleteKey, Finish, Stamp, Get, AfterGet, Build, TestCrossWord,
    BuildCrossWord, ReturnCrossWord

(* Under the GIL every row of a batch is encoded, and with its merges. *)
THEOREM BatchIsSequential == Spec => []BatchMatchesSequential
<1>1. Init => GilInv
  <2> SUFFICES ASSUME Init PROVE GilInv
    OBVIOUS
  <2>1. HolderRuns /\ FoundIsThere
    BY Labels DEF Init, HolderRuns, FoundIsThere
  <2>2. BatchMatchesSequential
    BY DEF Init, BatchMatchesSequential
  <2>3. RowsOfCall
    BY TypeInit, BatchAssumption DEF Init, RowsOfCall
  <2> QED BY <2>1, <2>2, <2>3, TypeInit DEF GilInv
<1>2. GilInv /\ [Next]_vars => GilInv'
  <2> SUFFICES ASSUME GilInv, [Next]_vars PROVE GilInv'
    OBVIOUS
  <2>1. TypeInv' /\ RowsOfCall'
    BY TypeStep, RowsStep DEF GilInv
  <2>2. CASE holder = FreeThreaded
    BY <2>1, <2>2, FreeThreadedStays DEF GilInv, BatchMatchesSequential
  <2>3. CASE holder # FreeThreaded
    BY <2>1, <2>3, GilStep DEF GilInv
  <2> QED BY <2>2, <2>3
<1>3. GilInv => BatchMatchesSequential
  BY DEF GilInv
<1> QED BY <1>1, <1>2, <1>3, PTL DEF Spec
================================================================================
