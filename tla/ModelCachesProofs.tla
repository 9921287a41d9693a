--------------------------- MODULE ModelCachesProofs ---------------------------
(***************************************************************************)
(* Proofs about ModelCaches, for any contents, addresses and situations    *)
(* and any number of models and changes: no cache that is stale is taken   *)
(* for a current one.                                                      *)
(***************************************************************************)
EXTENDS ModelCaches, TLAPS

(* Counters only grow, so what was noted of one is never ahead of it.      *)
NotedBefore ==
    \A m \in Models :
        /\ validated[m] <= version[m]
        /\ cacheVersion[m] # None => cacheVersion[m] <= version[m]

(* Containers are taken in order; no model is without one, and a number    *)
(* that no model has yet has no caches.                                    *)
ContainersInUse ==
    /\ \E n \in Nat : /\ n <= built + changes
                      /\ \A c \in Containers : content[c] # None <=> c <= n
    /\ \A m \in Models : content[container[m]] # None
NotBuilt ==
    \A m \in Models : m > built => cacheVersion[m] = None /\ trie[m] = None /\ address[m] = None
(* Two models that are alive are not at one address.                       *)
AddressesApart ==
    \A m, n \in Models : Live(m) /\ Live(n) /\ address[m] = address[n] => m = n

(* The signature was taken of the signer, at the count it had then; as     *)
(* long as it still matches, the set is that of the signer, be it current  *)
(* or not.                                                                 *)
SignedBefore ==
    /\ signer \in 1..built
    /\ crossWord = None => signature = None
    /\ crossWord # None => \E a \in Addresses, v \in Nat, sc \in SpaceChars :
                              signature = <<a, v, sc>> /\ v <= version[signer]
SignerIsCurrent ==
    \A sc \in SpaceChars :
        Live(signer) /\ Tracked(signer) /\ signature = <<address[signer], version[signer], sc>>
                     /\ crossWord # None =>
            crossWord = <<Holds(signer), sc>>

IInv ==
    /\ TypeOK
    /\ NotedBefore
    /\ ContainersInUse
    /\ NotBuilt
    /\ AddressesApart
    /\ SignedBefore
    /\ SignerIsCurrent
    /\ ModelCachesAreCurrent
    /\ AnswersAreCurrent

--------------------------------------------------------------------------------
(* While a model may be built or a change made there is a container left:  *)
(* the next one in order, which no model holds.                            *)
LEMMA FreeContainerIsFree ==
    ASSUME IInv, built + changes < MaxModels + MaxChanges
    PROVE  /\ FreeContainer \in Containers
           /\ content[FreeContainer] = None
           /\ \A m \in Models : container[m] # FreeContainer
           /\ \E n \in Nat : /\ n < built + changes + 1
                             /\ \A c \in Containers : content[c] # None <=> c <= n
                             /\ FreeContainer = n + 1
<1> USE CacheAssumption DEF Containers
<1>1. PICK n \in Nat : /\ n <= built + changes
                       /\ \A c \in Containers : content[c] # None <=> c <= n
  BY DEF IInv, ContainersInUse
<1>2. n + 1 \in Containers /\ content[n + 1] = None
      /\ \A d \in Containers : content[d] = None => n + 1 <= d
  <2>1. built \in Nat /\ changes \in Nat
    BY DEF IInv, TypeOK, Models
  <2> QED BY <1>1, <2>1
<1>3. /\ FreeContainer \in Containers /\ content[FreeContainer] = None
      /\ \A d \in Containers : content[d] = None => FreeContainer <= d
  BY <1>2 DEF FreeContainer
<1>4. FreeContainer = n + 1
  BY <1>2, <1>3
<1>5. \A m \in Models : container[m] # FreeContainer
  BY <1>3 DEF IInv, ContainersInUse
<1>6. n < built + changes + 1
  BY <1>1 DEF IInv, TypeOK, Models
<1> QED BY <1>1, <1>3, <1>4, <1>5, <1>6

(* The inductive invariant holds of the first model, with whatever caches. *)
LEMMA InitHolds ==
    ASSUME Init
    PROVE  IInv
<1> USE CacheAssumption
<1>1. PICK a \in Addresses, x \in Valid, sc \in SpaceChars :
        /\ built = 1 /\ changes = 0
        /\ address = [m \in Models |-> IF m = 1 THEN a ELSE None]
        /\ container = [m \in Models |-> 1]
        /\ content = [c \in Containers |-> IF c = 1 THEN x ELSE None]
        /\ boxOf = [c \in Containers |-> 1]
        /\ torn = [c \in Containers |-> FALSE]
        /\ version = [m \in Models |-> IF m = 1 THEN 1 ELSE 0]
        /\ validated = version
        /\ cacheVersion = [m \in Models |-> None]
        /\ trie = [m \in Models |-> None]
        /\ current = 1 /\ spaceChar = sc /\ signature = None /\ crossWord = None /\ signer = 1
        /\ answer = None
  BY DEF Init
<1>2. 1 \in Models /\ 1 \in Containers /\ x \in Contents /\ x # None /\ a # None
  BY DEF Models, Containers
<1>3. TypeOK
  BY <1>1, <1>2 DEF TypeOK, Live
<1>4. NotedBefore
  BY <1>1 DEF NotedBefore
<1>5. ContainersInUse
  <2>1. \A c \in Containers : content[c] # None <=> c <= 1
    BY <1>1, <1>2 DEF Containers
  <2> QED BY <1>1, <1>2, <2>1 DEF ContainersInUse
<1>6. NotBuilt
  BY <1>1 DEF NotBuilt, Models
<1>7. SignedBefore /\ SignerIsCurrent /\ AnswersAreCurrent
  BY <1>1 DEF SignedBefore, SignerIsCurrent, AnswersAreCurrent
<1>9. AddressesApart
  BY <1>1 DEF AddressesApart, Live
<1>8. ModelCachesAreCurrent
  BY <1>1, <1>2 DEF ModelCachesAreCurrent, Live, Holds
<1> QED BY <1>3, <1>4, <1>5, <1>6, <1>7, <1>8, <1>9 DEF IInv

(* A model that is built has a place of its own and no caches yet. *)
LEMMA BuildStep ==
    ASSUME IInv, NEW a \in Addresses, NEW x \in Contents, Build(a, x)
    PROVE  IInv'
<1> USE CacheAssumption
<1> DEFINE m == built + 1
           c == FreeContainer
<1>17. /\ built \in Nat /\ changes \in Nat /\ built >= 1 /\ built <= MaxModels
      /\ \A k \in Models : k \in Nat /\ k >= 1 /\ k <= MaxModels
  BY DEF IInv, TypeOK, Models
<1>18. /\ built < MaxModels
      /\ a \notin {address[n] : n \in Models}
      /\ built' = m /\ changes' = changes
      /\ address' = [address EXCEPT ![m] = a]
      /\ container' = [container EXCEPT ![m] = c]
      /\ version' = [version EXCEPT ![m] = 1]
      /\ validated' = [validated EXCEPT ![m] = 1]
      /\ content' = [content EXCEPT ![c] = x]
      /\ boxOf' = [boxOf EXCEPT ![c] = m]
      /\ UNCHANGED <<torn, cacheVersion, trie, current, spaceChar, signature, crossWord, signer, answer>>
  BY DEF Build, NewObject, tokenizer
<1>19. m \in Models
  BY <1>17, <1>18 DEF Models
<1>2. /\ c \in Containers /\ content[c] = None
      /\ \A k \in Models : container[k] # c
  <2>1. built + changes < MaxModels + MaxChanges
    BY <1>18, <1>19 DEF IInv, TypeOK, Models
  <2> QED BY <2>1, FreeContainerIsFree
<1>3. PICK n \in Nat : /\ n < built + changes + 1
                       /\ \A d \in Containers : content[d] # None <=> d <= n
                       /\ c = n + 1
  <2>1. built + changes < MaxModels + MaxChanges
    BY <1>18, <1>19 DEF IInv, TypeOK, Models
  <2> QED BY <2>1, FreeContainerIsFree
<1> HIDE DEF c
<1>4. x \in Valid /\ x # None
  BY DEF Build
<1>5. TypeOK'
  BY <1>18, <1>19, <1>2 DEF IInv, TypeOK, Live
<1>6. \A k \in Models : k # m =>
        /\ version'[k] = version[k] /\ validated'[k] = validated[k]
        /\ cacheVersion'[k] = cacheVersion[k] /\ trie'[k] = trie[k]
        /\ container'[k] = container[k] /\ address'[k] = address[k]
        /\ content'[container'[k]] = content[container[k]]
        /\ boxOf'[container'[k]] = boxOf[container[k]]
        /\ torn'[container'[k]] = torn[container[k]]
  BY <1>18, <1>19, <1>2 DEF IInv, TypeOK
<1>7. /\ version'[m] = 1 /\ validated'[m] = 1 /\ cacheVersion'[m] = None /\ trie'[m] = None
      /\ container'[m] = c /\ address'[m] = a /\ content'[c] = x
  <2>1. m > built
    BY <1>17
  <2>2. cacheVersion[m] = None /\ trie[m] = None
    BY <1>19, <2>1 DEF IInv, NotBuilt
  <2> QED BY <1>18, <1>19, <1>2, <2>2 DEF IInv, TypeOK
<1>8. NotedBefore'
  BY <1>6, <1>7 DEF IInv, NotedBefore
<1>9. ContainersInUse'
  <2>1. \A d \in Containers : content'[d] # None <=> d <= n + 1
    <3>1. \A d \in Containers : d \in Nat
      BY DEF Containers
    <3> QED BY <1>18, <1>2, <1>3, <1>4, <3>1 DEF IInv, TypeOK
  <2>2. \A k \in Models : content'[container'[k]] # None
    BY <1>18, <1>19, <1>4, <1>6, <1>7 DEF IInv, ContainersInUse
  <2>3. n + 1 \in Nat /\ n + 1 <= built' + changes'
    BY <1>17, <1>18, <1>3
  <2> QED BY <2>1, <2>2, <2>3 DEF ContainersInUse
<1>10. NotBuilt'
  <2> SUFFICES ASSUME NEW k \in Models, k > built'
               PROVE  cacheVersion'[k] = None /\ trie'[k] = None /\ address'[k] = None
    BY DEF NotBuilt
  <2>1. k > built /\ k # m
    BY <1>17, <1>18
  <2> QED BY <1>6, <2>1 DEF IInv, NotBuilt
<1>11. AddressesApart'
  BY <1>18, <1>19, <1>6, <1>7 DEF IInv, AddressesApart, Live
<1>12. signer \in Models /\ signer # m /\ signer' = signer
  <2>1. signer \in 1..built
    BY DEF IInv, SignedBefore
  <2> QED BY <1>17, <1>18, <2>1 DEF Models
<1>13. SignedBefore'
  <2>1. signer' \in 1..built'
    BY <1>17, <1>18 DEF IInv, SignedBefore
  <2> QED BY <1>18, <1>6, <1>12, <2>1 DEF IInv, SignedBefore
<1>14. SignerIsCurrent'
  BY <1>18, <1>19, <1>6, <1>12 DEF IInv, SignerIsCurrent, Live, Holds, Tracked, Signature
<1>15. ModelCachesAreCurrent'
  BY <1>4, <1>6, <1>7 DEF IInv, ModelCachesAreCurrent, Live, Holds, Tracked
<1>16. AnswersAreCurrent'
  BY <1>18, <1>19 DEF IInv, AnswersAreCurrent
<1> QED BY <1>5, <1>8, <1>9, <1>10, <1>11, <1>13, <1>14, <1>15, <1>16 DEF IInv

(* A model built on the containers of another one, which it adopts as they *)
(* are, keeps the inductive invariant.                                     *)
LEMMA BuildOnStep ==
    ASSUME IInv, NEW a \in Addresses, NEW n \in Models, BuildOn(a, n)
    PROVE  IInv'
<1> USE CacheAssumption
<1> DEFINE m == built + 1
<1>1. /\ built \in Nat /\ changes \in Nat /\ built >= 1 /\ built <= MaxModels
      /\ \A k \in Models : k \in Nat /\ k >= 1 /\ k <= MaxModels
  BY DEF IInv, TypeOK, Models
<1>2. /\ built < MaxModels
      /\ a \notin {address[k] : k \in Models}
      /\ built' = m /\ changes' = changes
      /\ address' = [address EXCEPT ![m] = a]
      /\ container' = [container EXCEPT ![m] = container[n]]
      /\ version' = [version EXCEPT ![m] = 1]
      /\ validated' = [validated EXCEPT ![m] = 1]
      /\ UNCHANGED <<content, boxOf, torn, cacheVersion, trie, current, spaceChar, signature, crossWord, signer, answer>>
      /\ Holds(n) \in Valid
  BY DEF BuildOn, NewObject, tokenizer
<1>3. m \in Models /\ m > built
  BY <1>1, <1>2 DEF Models
<1>4. cacheVersion[m] = None /\ trie[m] = None
  BY <1>3 DEF IInv, NotBuilt
<1>5. TypeOK'
  BY <1>2, <1>3 DEF IInv, TypeOK, Live
<1>6. \A k \in Models : k # m =>
        /\ version'[k] = version[k] /\ validated'[k] = validated[k]
        /\ container'[k] = container[k] /\ address'[k] = address[k]
  BY <1>2 DEF IInv, TypeOK
<1>7. /\ version'[m] = 1 /\ validated'[m] = 1
      /\ container'[m] = container[n] /\ address'[m] = a
  BY <1>2, <1>3 DEF IInv, TypeOK
<1>8. NotedBefore'
  BY <1>2, <1>4, <1>6, <1>7 DEF IInv, NotedBefore
<1>9. ContainersInUse'
  <2>1. \A k \in Models : content'[container'[k]] # None
    BY <1>2, <1>6, <1>7 DEF IInv, ContainersInUse
  <2>2. PICK i \in Nat : /\ i <= built + changes
                         /\ \A c \in Containers : content[c] # None <=> c <= i
    BY DEF IInv, ContainersInUse
  <2>3. i <= built' + changes'
    BY <1>1, <1>2, <2>2
  <2> QED BY <1>2, <2>1, <2>2, <2>3 DEF ContainersInUse
<1>10. NotBuilt'
  <2> SUFFICES ASSUME NEW k \in Models, k > built'
               PROVE  cacheVersion'[k] = None /\ trie'[k] = None /\ address'[k] = None
    BY DEF NotBuilt
  <2>1. k > built /\ k # m
    BY <1>1, <1>2
  <2> QED BY <1>2, <1>6, <2>1 DEF IInv, NotBuilt
<1>11. AddressesApart'
  BY <1>2, <1>6, <1>7 DEF IInv, AddressesApart, Live
<1>12. signer \in Models /\ signer # m /\ signer' = signer
  <2>1. signer \in 1..built
    BY DEF IInv, SignedBefore
  <2> QED BY <1>1, <1>2, <2>1 DEF Models
<1>13. SignedBefore'
  <2>1. signer' \in 1..built'
    BY <1>1, <1>2 DEF IInv, SignedBefore
  <2> QED BY <1>2, <1>6, <1>12, <2>1 DEF IInv, SignedBefore
<1>14. SignerIsCurrent'
  BY <1>2, <1>6, <1>12 DEF IInv, SignerIsCurrent, Live, Holds, Tracked, Signature
<1>15. ModelCachesAreCurrent'
  BY <1>2, <1>4, <1>6, <1>7 DEF IInv, ModelCachesAreCurrent, Live, Holds, Tracked
<1>16. AnswersAreCurrent'
  BY <1>2 DEF IInv, AnswersAreCurrent
<1> QED BY <1>5, <1>8, <1>9, <1>10, <1>11, <1>13, <1>14, <1>15, <1>16 DEF IInv

(* A change that fails half-way and one that does not: the one leaves the  *)
(* container torn, the other bumps the counter of the model the container  *)
(* was wrapped for.                                                        *)
LEMMA ContentStep ==
    ASSUME IInv, NEW m \in Models, NEW x \in Contents, Mutate(m, x) \/ MutateHalfWay(m, x)
    PROVE  IInv'
<1> USE CacheAssumption
<1> DEFINE c == container[m]
           b == boxOf[container[m]]
<1>1. /\ changes < MaxChanges /\ built + changes < MaxEvents
      /\ changes' = changes + 1
      /\ content' = [content EXCEPT ![c] = x]
      /\ UNCHANGED <<built, address, used, validated, cacheVersion, trie, current, spaceChar, signature,
                     crossWord, signer, answer, container, boxOf>>
  BY DEF Mutate, MutateHalfWay, Change, tokenizer
<1>2. \/ /\ version' = [version EXCEPT ![b] = @ + 1]
         /\ torn' = [torn EXCEPT ![c] = FALSE]
      \/ /\ version' = version
         /\ torn' = [torn EXCEPT ![c] = TRUE]
  BY DEF Mutate, MutateHalfWay
<1>3. c \in Containers /\ b \in Models /\ x # None /\ content[c] # None
  BY DEF IInv, TypeOK, ContainersInUse
<1>4. TypeOK'
  <2>1. changes' \in 0..MaxChanges
    BY <1>1 DEF IInv, TypeOK
  <2>2. version' \in [Models -> Nat]
    BY <1>2, <1>3 DEF IInv, TypeOK
  <2>4. torn' \in [Containers -> BOOLEAN]
    BY <1>2, <1>3 DEF IInv, TypeOK
  <2>3. content' \in [Containers -> Contents \cup {None}]
    BY <1>1, <1>3 DEF IInv, TypeOK
  <2> QED BY <1>1, <2>1, <2>2, <2>3, <2>4 DEF IInv, TypeOK, Live
<1>5. \A k \in Models : version[k] \in Nat /\ version'[k] \in Nat /\ version'[k] >= version[k]
  BY <1>2, <1>3 DEF IInv, TypeOK
(* Whoever holds the container and is tracked has a new count.             *)
<1>6. \A k \in Models : Tracked(k)' =>
        \/ container[k] = c /\ version'[k] > version[k]
        \/ container[k] # c /\ Tracked(k) /\ Holds(k)' = Holds(k)
  BY <1>1, <1>2, <1>3 DEF IInv, TypeOK, Tracked, Holds
<1>7. NotedBefore'
  <2> SUFFICES ASSUME NEW k \in Models
               PROVE  /\ validated'[k] <= version'[k]
                      /\ cacheVersion'[k] # None => cacheVersion'[k] <= version'[k]
    BY DEF NotedBefore
  <2> QED BY <1>1, <1>5 DEF IInv, NotedBefore, TypeOK
<1>8. ContainersInUse'
  <2>1. PICK i \in Nat : /\ i <= built + changes
                         /\ \A d \in Containers : content[d] # None <=> d <= i
    BY DEF IInv, ContainersInUse
  <2>2. i <= built' + changes'
    BY <1>1, <2>1 DEF IInv, TypeOK, Models
  <2>3. \A d \in Containers : content'[d] # None <=> content[d] # None
    BY <1>1, <1>3 DEF IInv, TypeOK
  <2>4. \A k \in Models : content'[container'[k]] # None
    BY <1>1, <2>3 DEF IInv, ContainersInUse, TypeOK
  <2> QED BY <2>1, <2>2, <2>3, <2>4 DEF ContainersInUse
<1>9. NotBuilt' /\ AddressesApart'
  BY <1>1 DEF IInv, NotBuilt, AddressesApart, Live
<1>10. signer \in Models
  BY DEF IInv, SignedBefore, TypeOK, Models
<1>11. SignedBefore'
  <2> SUFFICES ASSUME crossWord' # None
               PROVE  \E a \in Addresses, v \in Nat, sc \in SpaceChars : signature' = <<a, v, sc>> /\ v <= version'[signer']
    BY <1>1 DEF IInv, SignedBefore
  <2>1. PICK a \in Addresses, v \in Nat, sc \in SpaceChars : signature = <<a, v, sc>> /\ v <= version[signer]
    BY <1>1 DEF IInv, SignedBefore
  <2>2. v <= version'[signer]
    BY <1>5, <1>10, <2>1
  <2> QED BY <1>1, <2>1, <2>2
<1>12. SignerIsCurrent'
  <2> SUFFICES ASSUME NEW sc \in SpaceChars, Live(signer)', Tracked(signer)', crossWord' # None,
                      signature' = <<address'[signer'], version'[signer'], sc>>
               PROVE  crossWord' = <<Holds(signer)', sc>>
    BY DEF SignerIsCurrent
  <2>1. PICK a \in Addresses, v \in Nat, d \in SpaceChars : signature = <<a, v, d>> /\ v <= version[signer]
    BY <1>1 DEF IInv, SignedBefore
  <2>2. version'[signer] = v
    BY <1>1, <2>1
  <2>3. version'[signer] = version[signer]
    BY <1>5, <1>10, <2>1, <2>2
  <2>4. Tracked(signer) /\ Holds(signer)' = Holds(signer)
    BY <1>1, <1>5, <1>6, <1>10, <2>3
  <2> QED BY <1>1, <2>3, <2>4 DEF IInv, SignerIsCurrent, Live
<1>13. ModelCachesAreCurrent'
  <2> SUFFICES ASSUME NEW k \in Models, Live(k)', Tracked(k)'
               PROVE  /\ validated'[k] = version'[k] => Holds(k)' \in Valid
                      /\ cacheVersion'[k] = version'[k] /\ trie'[k] # None => trie'[k] = Holds(k)'
    BY DEF ModelCachesAreCurrent
  <2>1. CASE container[k] = c /\ version'[k] > version[k]
    <3>1. cacheVersion[k] # None => cacheVersion[k] <= version[k]
      BY DEF IInv, NotedBefore
    <3>2. validated'[k] # version'[k]
      BY <1>1, <1>5, <2>1 DEF IInv, NotedBefore, TypeOK
    <3>3. cacheVersion'[k] # version'[k]
      <4>1. CASE cacheVersion[k] = None
        BY <1>1, <1>5, <4>1
      <4>2. CASE cacheVersion[k] # None
        <5>1. cacheVersion[k] \in Nat
          BY <4>2 DEF IInv, TypeOK
        <5>2. cacheVersion'[k] = cacheVersion[k] /\ cacheVersion[k] <= version[k]
          BY <1>1, <3>1, <4>2
        <5>3. version[k] \in Nat /\ version'[k] \in Nat
          BY <1>5
        <5> QED BY <2>1, <5>1, <5>2, <5>3
      <4> QED BY <4>1, <4>2
    <3> QED BY <3>2, <3>3
  <2>2. CASE container[k] # c /\ Tracked(k) /\ Holds(k)' = Holds(k)
    <3>1. validated[k] <= version[k]
      BY DEF IInv, NotedBefore
    <3>2. validated'[k] = version'[k] => validated[k] = version[k]
      BY <1>1, <1>5, <3>1 DEF IInv, TypeOK
    <3>3. cacheVersion'[k] = version'[k] => cacheVersion[k] = version[k]
      <4>1. cacheVersion[k] \in Nat => cacheVersion[k] # None /\ cacheVersion[k] <= version[k]
        BY DEF IInv, NotedBefore
      <4> QED BY <1>1, <1>5, <4>1
    <3> QED BY <1>1, <2>2, <3>2, <3>3 DEF IInv, ModelCachesAreCurrent, Live
  <2> QED BY <1>6, <2>1, <2>2
<1>14. AnswersAreCurrent'
  BY <1>1 DEF IInv, AnswersAreCurrent
<1> QED BY <1>4, <1>7, <1>8, <1>9, <1>11, <1>12, <1>13, <1>14 DEF IInv

(* A field that is assigned gets a container of its own, or another's; the *)
(* model's own counter is bumped either way.                               *)
LEMMA ReassignStep ==
    ASSUME IInv, NEW m \in Models,
           \/ \E x \in Contents : Reassign(m, x)
           \/ \E n \in Models : ReassignTo(m, n)
    PROVE  IInv'
<1> USE CacheAssumption
<1>1. /\ changes < MaxChanges /\ changes' = changes + 1
      /\ version' = [version EXCEPT ![m] = @ + 1]
      /\ UNCHANGED <<built, address, used, validated, cacheVersion, trie, current, spaceChar, signature,
                     crossWord, signer, answer, torn>>
  BY DEF Reassign, ReassignTo, Change, tokenizer
<1>2. /\ built \in Nat /\ changes \in Nat /\ built <= MaxModels
      /\ built + changes < MaxModels + MaxChanges
  BY <1>1 DEF IInv, TypeOK, Models
(* Only m's container is another, and only the one taken for it changes.   *)
<1> DEFINE OthersKept ==
             \A k \in Models : k # m =>
               /\ container'[k] = container[k]
               /\ content'[container[k]] = content[container[k]]
               /\ boxOf'[container[k]] = boxOf[container[k]]
<1>3. TypeOK' /\ ContainersInUse' /\ OthersKept
  <2>1. ASSUME NEW x \in Contents, Reassign(m, x)
        PROVE  TypeOK' /\ ContainersInUse' /\ OthersKept
    <3> DEFINE c == FreeContainer
    <3>1. /\ container' = [container EXCEPT ![m] = c]
          /\ content' = [content EXCEPT ![c] = x]
          /\ boxOf' = [boxOf EXCEPT ![c] = m]
      BY <2>1 DEF Reassign
    <3>2. c \in Containers /\ content[c] = None /\ \A k \in Models : container[k] # c
      BY <1>2, FreeContainerIsFree
    <3>3. PICK n \in Nat : /\ n < built + changes + 1
                           /\ \A d \in Containers : content[d] # None <=> d <= n
                           /\ c = n + 1
      BY <1>2, FreeContainerIsFree
    <3> HIDE DEF c
    <3>4. x # None
      OBVIOUS
    <3>5. changes' \in 0..MaxChanges /\ version' \in [Models -> Nat]
      BY <1>1 DEF IInv, TypeOK
    <3>6. TypeOK'
      BY <1>1, <3>1, <3>2, <3>5 DEF IInv, TypeOK, Live
    <3>7. \A d \in Containers : content'[d] # None <=> d <= n + 1
      <4>1. \A d \in Containers : d \in Nat
        BY DEF Containers
      <4>2. content \in [Containers -> Contents \cup {None}]
        BY DEF IInv, TypeOK
      <4>3. \A d \in Containers : content'[d] = IF d = c THEN x ELSE content[d]
        BY <3>1, <4>2
      <4> QED BY <3>2, <3>3, <3>4, <4>1, <4>3
    <3>8. \A k \in Models : content'[container'[k]] # None
      BY <3>1, <3>2, <3>4 DEF IInv, TypeOK, ContainersInUse
    <3>9. n + 1 \in Nat /\ n + 1 <= built' + changes'
      BY <1>1, <1>2, <3>3
    <3>10. ContainersInUse'
      BY <3>7, <3>8, <3>9 DEF ContainersInUse
    <3> QED BY <3>1, <3>2, <3>6, <3>10 DEF IInv, TypeOK
  <2>2. ASSUME NEW n \in Models, ReassignTo(m, n)
        PROVE  TypeOK' /\ ContainersInUse' /\ OthersKept
    <3>1. /\ container' = [container EXCEPT ![m] = container[n]]
          /\ UNCHANGED <<content, boxOf>>
      BY <2>2 DEF ReassignTo
    <3>2. changes' \in 0..MaxChanges /\ version' \in [Models -> Nat]
      BY <1>1 DEF IInv, TypeOK
    <3>3. TypeOK'
      BY <1>1, <3>1, <3>2 DEF IInv, TypeOK, Live
    <3>4. \A k \in Models : content'[container'[k]] # None
      BY <3>1 DEF IInv, TypeOK, ContainersInUse
    <3>5. PICK i \in Nat : /\ i <= built + changes
                           /\ \A c \in Containers : content[c] # None <=> c <= i
      BY DEF IInv, ContainersInUse
    <3>6. i <= built' + changes'
      BY <1>1, <1>2, <3>5
    <3>7. ContainersInUse'
      BY <3>1, <3>4, <3>5, <3>6 DEF ContainersInUse
    <3> QED BY <3>1, <3>3, <3>7 DEF IInv, TypeOK
  <2> QED BY <2>1, <2>2
<1>4. /\ version'[m] = version[m] + 1
      /\ \A k \in Models : version[k] \in Nat
      /\ \A k \in Models : k # m => version'[k] = version[k]
  BY <1>1 DEF IInv, TypeOK
<1>5. \A k \in Models : k # m =>
        (Tracked(k)' <=> Tracked(k)) /\ Holds(k)' = Holds(k)
  BY <1>1, <1>3 DEF Tracked, Holds
<1>6. NotedBefore'
  <2> SUFFICES ASSUME NEW k \in Models
               PROVE  /\ validated'[k] <= version'[k]
                      /\ cacheVersion'[k] # None => cacheVersion'[k] <= version'[k]
    BY DEF NotedBefore
  <2> QED BY <1>1, <1>4 DEF IInv, NotedBefore, TypeOK
<1>7. NotBuilt' /\ AddressesApart'
  BY <1>1 DEF IInv, NotBuilt, AddressesApart, Live
<1>8. signer \in Models
  BY DEF IInv, SignedBefore, TypeOK, Models
<1>9. SignedBefore'
  <2> SUFFICES ASSUME crossWord' # None
               PROVE  \E a \in Addresses, v \in Nat, sc \in SpaceChars : signature' = <<a, v, sc>> /\ v <= version'[signer']
    BY <1>1 DEF IInv, SignedBefore
  <2>1. PICK a \in Addresses, v \in Nat, sc \in SpaceChars : signature = <<a, v, sc>> /\ v <= version[signer]
    BY <1>1 DEF IInv, SignedBefore
  <2>2. v <= version'[signer]
    BY <1>4, <1>8, <2>1
  <2> QED BY <1>1, <2>1, <2>2
<1>10. SignerIsCurrent'
  <2> SUFFICES ASSUME NEW sc \in SpaceChars, Live(signer)', Tracked(signer)', crossWord' # None,
                      signature' = <<address'[signer'], version'[signer'], sc>>
               PROVE  crossWord' = <<Holds(signer)', sc>>
    BY DEF SignerIsCurrent
  <2>1. PICK a \in Addresses, v \in Nat, d \in SpaceChars : signature = <<a, v, d>> /\ v <= version[signer]
    BY <1>1 DEF IInv, SignedBefore
  <2>2. version'[signer] = v
    BY <1>1, <2>1
  <2>3. signer # m
    BY <1>4, <1>8, <2>1, <2>2
  <2> QED BY <1>1, <1>4, <1>5, <1>8, <2>3 DEF IInv, SignerIsCurrent, Live
<1>11. ModelCachesAreCurrent'
  <2> SUFFICES ASSUME NEW k \in Models, Live(k)', Tracked(k)'
               PROVE  /\ validated'[k] = version'[k] => Holds(k)' \in Valid
                      /\ cacheVersion'[k] = version'[k] /\ trie'[k] # None => trie'[k] = Holds(k)'
    BY DEF ModelCachesAreCurrent
  <2>1. CASE k = m
    <3>1. validated[k] <= version[k] /\ validated[k] \in Nat
          /\ (cacheVersion[k] # None => cacheVersion[k] <= version[k] /\ cacheVersion[k] \in Nat)
      BY DEF IInv, NotedBefore, TypeOK
    <3>2. validated'[k] # version'[k]
      BY <1>1, <1>4, <2>1, <3>1
    <3>3. cacheVersion'[k] # version'[k]
      <4>1. CASE cacheVersion[k] = None
        BY <1>1, <1>4, <2>1, <4>1
      <4>2. CASE cacheVersion[k] # None
        BY <1>1, <1>4, <2>1, <3>1, <4>2
      <4> QED BY <4>1, <4>2
    <3> QED BY <3>2, <3>3
  <2>2. CASE k # m
    BY <1>1, <1>4, <1>5, <2>2 DEF IInv, ModelCachesAreCurrent, Live
  <2> QED BY <2>1, <2>2
<1>12. AnswersAreCurrent'
  BY <1>1 DEF IInv, AnswersAreCurrent
<1> QED BY <1>3, <1>6, <1>7, <1>9, <1>10, <1>11, <1>12 DEF IInv

(* What touches no container and no counter: clearing a cache, another     *)
(* model for the tokenizer, the end of a model.                            *)
LEMMA OtherStep ==
    ASSUME IInv, NEW m \in Models, ClearCache(m) \/ SetModel(m) \/ Drop(m)
    PROVE  IInv'
<1> USE CacheAssumption
<1>1. UNCHANGED <<built, changes, container, content, boxOf, torn, version, validated,
                  signature, crossWord, signer, answer>>
  BY DEF ClearCache, SetModel, Drop, objects, caches, tokenizer
<1>2. \A k \in Models : /\ address'[k] \in {address[k], None}
                        /\ \/ trie'[k] = trie[k] /\ cacheVersion'[k] = cacheVersion[k]
                           \/ trie'[k] = None /\ cacheVersion'[k] = None
  BY DEF ClearCache, SetModel, Drop, objects, caches, IInv, TypeOK
<1>3. TypeOK'
  <2>1. CASE ClearCache(m)
    BY <1>1, <2>1 DEF ClearCache, objects, tokenizer, IInv, TypeOK, Live
  <2>2. CASE SetModel(m)
    BY <1>1, <2>2 DEF SetModel, objects, caches, IInv, TypeOK, Live
  <2>3. CASE Drop(m)
    BY <1>1, <2>3 DEF Drop, caches, tokenizer, IInv, TypeOK, Live
  <2> QED BY <2>1, <2>2, <2>3
<1>4. NotedBefore' /\ ContainersInUse' /\ NotBuilt' /\ AddressesApart'
  BY <1>1, <1>2 DEF IInv, NotedBefore, ContainersInUse, NotBuilt, AddressesApart, Live
<1>5. signer \in Models
  BY DEF IInv, SignedBefore, TypeOK, Models
<1>6. SignedBefore' /\ SignerIsCurrent' /\ AnswersAreCurrent'
  BY <1>1, <1>2, <1>5 DEF IInv, SignedBefore, SignerIsCurrent, AnswersAreCurrent, Live, Holds,
                          Tracked, Signature
<1>7. ModelCachesAreCurrent'
  BY <1>1, <1>2 DEF IInv, ModelCachesAreCurrent, Live, Holds, Tracked
<1> QED BY <1>3, <1>4, <1>6, <1>7 DEF IInv

(* Another space character: what was signed is signed with its own, so it  *)
(* matches again only when that one comes back.                            *)
LEMMA SpaceCharStep ==
    ASSUME IInv, NEW sc \in SpaceChars, SetSpaceChar(sc)
    PROVE  IInv'
<1> USE CacheAssumption
<1>1. /\ changes < MaxChanges /\ changes' = changes + 1 /\ spaceChar' = sc
      /\ UNCHANGED <<built, address, used, container, content, boxOf, torn, version, validated,
                     cacheVersion, trie, current, signature, crossWord, signer, answer>>
  BY DEF SetSpaceChar, caches
<1>2. built \in Nat /\ changes \in Nat
  BY DEF IInv, TypeOK, Models
<1>3. TypeOK'
  BY <1>1, <1>2 DEF IInv, TypeOK, Live
<1>4. ContainersInUse'
  <2>1. PICK n \in Nat : n <= built + changes /\ \A c \in Containers : content[c] # None <=> c <= n
    BY DEF IInv, ContainersInUse
  <2>2. n <= built' + changes'
    BY <1>1, <1>2, <2>1
  <2> QED BY <1>1, <2>1, <2>2 DEF IInv, ContainersInUse
<1>5. NotedBefore' /\ NotBuilt' /\ AddressesApart' /\ AnswersAreCurrent'
  BY <1>1 DEF IInv, NotedBefore, NotBuilt, AddressesApart, AnswersAreCurrent, Live
<1>6. SignedBefore' /\ SignerIsCurrent' /\ ModelCachesAreCurrent'
  BY <1>1 DEF IInv, SignedBefore, SignerIsCurrent, ModelCachesAreCurrent, Live, Holds, Tracked
<1> QED BY <1>3, <1>4, <1>5, <1>6 DEF IInv

(* What an encode finds in the trie, and leaves there. *)
LEMMA EncodeStep ==
    ASSUME IInv, NEW m \in Models, EncodeModel(m)
    PROVE  IInv'
<1> USE CacheAssumption
<1>1. /\ Live(m) /\ (validated[m] = version[m] \/ Holds(m) \in Valid)
      /\ validated' = [validated EXCEPT ![m] = version[m]]
      /\ cacheVersion' = [cacheVersion EXCEPT ![m] = version[m]]
      /\ trie' = [trie EXCEPT ![m] = TrieInUse(m)]
      /\ answer' = [from |-> TrieInUse(m), held |-> Holds(m),
                    valid |-> Holds(m) \in Valid, tracked |-> Tracked(m)]
      /\ UNCHANGED <<built, changes, address, used, container, content, boxOf, torn, version,
                     current, spaceChar, signature, crossWord, signer>>
  BY DEF EncodeModel, Accepts, EnsureValidated, objects, tokenizer
<1>2. Holds(m) \in Contents /\ Holds(m) # None
  BY DEF IInv, TypeOK, ContainersInUse, Holds
<1>3. Tracked(m) => Holds(m) \in Valid /\ TrieInUse(m) = Holds(m)
  BY <1>1 DEF IInv, ModelCachesAreCurrent, TrieInUse
<1>4. TrieInUse(m) \in Contents
  BY <1>2 DEF IInv, TypeOK, TrieInUse
<1>5. TypeOK'
  BY <1>1, <1>4 DEF IInv, TypeOK, Live
<1>6. \A k \in Models : k # m =>
        validated'[k] = validated[k] /\ cacheVersion'[k] = cacheVersion[k] /\ trie'[k] = trie[k]
  BY <1>1 DEF IInv, TypeOK
<1>7. validated'[m] = version[m] /\ cacheVersion'[m] = version[m] /\ trie'[m] = TrieInUse(m)
  BY <1>1 DEF IInv, TypeOK
<1>8. NotedBefore'
  BY <1>1, <1>6, <1>7 DEF IInv, NotedBefore, TypeOK
<1>9. ContainersInUse' /\ AddressesApart' /\ SignedBefore'
  BY <1>1 DEF IInv, ContainersInUse, AddressesApart, SignedBefore, Live
<1>10. NotBuilt'
  <2>1. \A k \in Models : k > built => k # m
    BY <1>1 DEF IInv, NotBuilt, Live
  <2> QED BY <1>1, <1>6, <2>1 DEF IInv, NotBuilt
<1>11. SignerIsCurrent'
  BY <1>1 DEF IInv, SignerIsCurrent, Live, Holds, Tracked, Signature
<1>12. ModelCachesAreCurrent'
  BY <1>1, <1>3, <1>6, <1>7 DEF IInv, ModelCachesAreCurrent, Live, Holds, Tracked
<1>13. AnswersAreCurrent'
  BY <1>1, <1>3 DEF AnswersAreCurrent
<1> QED BY <1>5, <1>8, <1>9, <1>10, <1>11, <1>12, <1>13 DEF IInv

(* A set whose signature matches is that of the current model, when it is  *)
(* the one the signature was taken of.                                     *)
LEMMA CrossWordStep ==
    ASSUME IInv, CrossWordTokens
    PROVE  IInv'
<1> USE CacheAssumption
<1>1. /\ validated[current] = version[current] \/ Holds(current) \in Valid
      /\ validated' = [validated EXCEPT ![current] = version[current]]
      /\ signature' = Signature(current)
      /\ signer' = IF signature # Signature(current) THEN current ELSE signer
      /\ crossWord' = CrossWordInUse
      /\ answer' = [from |-> CrossWordInUse, held |-> Source(current),
                    valid |-> Holds(current) \in Valid, tracked |-> Tracked(current) /\ signer' = current]
      /\ UNCHANGED <<built, changes, address, used, container, content, boxOf, torn, version,
                     cacheVersion, trie, current, spaceChar>>
  BY DEF CrossWordTokens, Accepts, EnsureValidated, objects
<1>2. /\ current \in Models /\ Live(current) /\ address[current] \in Addresses
      /\ version[current] \in Nat
      /\ Holds(current) \in Contents /\ Holds(current) # None
  BY DEF IInv, TypeOK, ContainersInUse, Holds, Live
<1>3. current \in 1..built
  <2>1. built \in Nat /\ current \in Nat /\ current >= 1
    <3>1. built \in Models
      BY DEF IInv, TypeOK
    <3> QED BY <1>2, <3>1 DEF Models
  <2>2. ~ (current > built)
    BY <1>2 DEF IInv, NotBuilt, Live
  <2> QED BY <2>1, <2>2
<1>4. signature = Signature(current) => crossWord # None
  <2>1. Signature(current) \in Addresses \X Nat \X SpaceChars
    BY <1>2 DEF IInv, TypeOK, Signature
  <2>2. Signature(current) # None
    BY <2>1, NoneAssumption
  <2> QED BY <2>2 DEF IInv, SignedBefore
<1>5. CrossWordInUse \in Contents \X SpaceChars /\ CrossWordInUse # None
  <2>1. Source(current) \in Contents \X SpaceChars
    BY <1>2 DEF IInv, TypeOK, Source
  <2>2. Source(current) # None
    BY <2>1, NoneAssumption
  <2> QED BY <2>1, <2>2 DEF IInv, TypeOK, CrossWordInUse
<1>6. TypeOK'
  BY <1>1, <1>2, <1>5 DEF IInv, TypeOK, Live
<1>7. \A k \in Models : k # current => validated'[k] = validated[k]
  BY <1>1 DEF IInv, TypeOK
<1>8. validated'[current] = version[current]
  BY <1>1, <1>2 DEF IInv, TypeOK
<1>9. NotedBefore'
  BY <1>1, <1>7, <1>8 DEF IInv, NotedBefore, TypeOK
<1>10. ContainersInUse' /\ AddressesApart' /\ NotBuilt'
  BY <1>1 DEF IInv, ContainersInUse, AddressesApart, NotBuilt, Live
<1>11. SignedBefore'
  <2>1. signer' \in 1..built'
    BY <1>1, <1>3 DEF IInv, SignedBefore
  <2>2. version[current] <= version'[signer']
    <3>1. CASE signature # Signature(current)
      BY <1>1, <1>2, <3>1
    <3>2. CASE signature = Signature(current)
      <4>1. PICK a \in Addresses, v \in Nat, sc \in SpaceChars : signature = <<a, v, sc>> /\ v <= version[signer]
        BY <1>4, <3>2 DEF IInv, SignedBefore
      <4>2. v = version[current]
        BY <3>2, <4>1 DEF Signature
      <4> QED BY <1>1, <3>2, <4>1, <4>2
    <3> QED BY <3>1, <3>2
  <2>3. spaceChar \in SpaceChars
    BY DEF IInv, TypeOK
  <2>4. \E a \in Addresses, v \in Nat, sc \in SpaceChars :
            signature' = <<a, v, sc>> /\ v <= version'[signer']
    BY <1>1, <1>2, <2>2, <2>3 DEF Signature
  <2> QED BY <1>1, <1>5, <2>1, <2>4 DEF SignedBefore
<1>12. signer' = current => (Tracked(current) => CrossWordInUse = Source(current))
  <2>1. CASE signature # Signature(current)
    BY <2>1 DEF CrossWordInUse
  <2>2. CASE signature = Signature(current)
    <3>1. spaceChar \in SpaceChars
      BY DEF IInv, TypeOK
    <3> QED BY <1>1, <1>2, <1>4, <2>2, <3>1 DEF IInv, SignerIsCurrent, CrossWordInUse, Signature, Source
  <2> QED BY <2>1, <2>2
<1>13. SignerIsCurrent'
  <2> SUFFICES ASSUME NEW sc \in SpaceChars, Live(signer)', Tracked(signer)', crossWord' # None,
                      signature' = <<address'[signer'], version'[signer'], sc>>
               PROVE  crossWord' = <<Holds(signer)', sc>>
    BY DEF SignerIsCurrent
  <2>1. signer' \in Models
    BY <1>1, <1>2 DEF IInv, SignedBefore, TypeOK, Models
  <2>2. address[signer'] = address[current] /\ address[signer'] # None /\ sc = spaceChar
    BY <1>1 DEF Signature, Live
  <2>3. signer' = current
    BY <1>2, <2>1, <2>2 DEF IInv, AddressesApart, Live
  <2>4. Tracked(current) /\ Holds(signer)' = Holds(current)
    BY <1>1, <2>3 DEF Tracked, Holds
  <2> QED BY <1>1, <1>12, <2>2, <2>3, <2>4 DEF Source
<1>14. Tracked(current) => Holds(current) \in Valid
  BY <1>1, <1>2 DEF IInv, ModelCachesAreCurrent
<1>15. ModelCachesAreCurrent'
  BY <1>1, <1>7, <1>14 DEF IInv, ModelCachesAreCurrent, Live, Holds, Tracked
<1>16. AnswersAreCurrent'
  BY <1>1, <1>12, <1>14 DEF AnswersAreCurrent
<1> QED BY <1>6, <1>9, <1>10, <1>11, <1>13, <1>15, <1>16 DEF IInv

--------------------------------------------------------------------------------
(* The invariant is kept by every step.                                    *)
LEMMA Preserved ==
    ASSUME IInv, [Next]_vars
    PROVE  IInv'
<1>1. ASSUME NEW a \in Addresses, NEW x \in Contents, Build(a, x)
      PROVE  IInv'
  BY <1>1, BuildStep
<1>2. ASSUME NEW a \in Addresses, NEW n \in Models, BuildOn(a, n)
      PROVE  IInv'
  BY <1>2, BuildOnStep
<1>3. ASSUME NEW m \in Models, NEW x \in Contents, Mutate(m, x) \/ MutateHalfWay(m, x)
      PROVE  IInv'
  BY <1>3, ContentStep
<1>4. ASSUME NEW m \in Models, NEW x \in Contents, Reassign(m, x)
      PROVE  IInv'
  BY <1>4, ReassignStep
<1>5. ASSUME NEW m \in Models, NEW n \in Models, ReassignTo(m, n)
      PROVE  IInv'
  BY <1>5, ReassignStep
<1>6. ASSUME NEW m \in Models, ClearCache(m) \/ SetModel(m) \/ Drop(m)
      PROVE  IInv'
  BY <1>6, OtherStep
<1>7. ASSUME NEW m \in Models, EncodeModel(m)
      PROVE  IInv'
  BY <1>7, EncodeStep
<1>8. CASE CrossWordTokens
  BY <1>8, CrossWordStep
<1>10. ASSUME NEW sc \in SpaceChars, SetSpaceChar(sc)
       PROVE  IInv'
  BY <1>10, SpaceCharStep
<1>9. CASE UNCHANGED vars
  <2>1. UNCHANGED <<built, changes, address, container, content, boxOf, torn, version, validated,
                    cacheVersion, trie, current, spaceChar, signature, crossWord, signer, answer>>
    BY <1>9 DEF vars, objects, caches, tokenizer
  <2> QED BY <2>1 DEF IInv, TypeOK, NotedBefore, ContainersInUse, NotBuilt, AddressesApart,
                      SignedBefore, SignerIsCurrent, ModelCachesAreCurrent, AnswersAreCurrent,
                      Live, Holds, Tracked, Signature
<1> QED BY <1>1, <1>2, <1>3, <1>4, <1>5, <1>6, <1>7, <1>8, <1>9, <1>10 DEF Next

(* No stale cache of a model or of the tokenizer is ever taken for a       *)
(* current one, whatever is built, mutated, reassigned, dropped and asked. *)
THEOREM NoStaleCache == Spec => []CachesAreCurrent
<1>1. IInv => CachesAreCurrent
  <2> SUFFICES ASSUME IInv, Tracked(current), signer = current,
                      signature = Signature(current), crossWord # None
               PROVE  crossWord = Source(current)
    BY DEF CachesAreCurrent, TokenizerCachesAreCurrent, IInv
  <2> QED BY DEF IInv, TypeOK, SignerIsCurrent, Signature, Source
<1> QED BY <1>1, InitHolds, Preserved, PTL DEF Spec

(* Every answer is computed from what the model held when it was asked,    *)
(* and that had been validated.                                            *)
THEOREM NoStaleAnswer == Spec => []AnswersAreCurrent
<1>1. IInv => AnswersAreCurrent
  BY DEF IInv
<1> QED BY <1>1, InitHolds, Preserved, PTL DEF Spec
================================================================================
