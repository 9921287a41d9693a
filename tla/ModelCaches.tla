------------------------------- MODULE ModelCaches -------------------------------
(***************************************************************************)
(* How UnigramModel (uniqtoken/unigram_trainer.py) and CustomTokenizer     *)
(* (uniqtoken/tokenizer.py) notice that the mutable state of a model has   *)
(* changed.  Every model has a mutation counter; its dicts and lists are   *)
(* wrapped in containers that bump the counter they were wrapped for.  A   *)
(* model validates its state and drops its caches when the counter moved;  *)
(* the tokenizer drops its own when the counter, id(model) or the          *)
(* normalizer's space character did.                                       *)
(*                                                                         *)
(* One container stands for all the containers of a model, its content for *)
(* all they hold; a cache is the content it was built from, for the        *)
(* tokenizer's together with the space character.  Models are numbered in  *)
(* the order they are built; id() of a model is its address, free for the  *)
(* next model once the model is gone.                                      *)
(***************************************************************************)
EXTENDS Naturals, FiniteSets, TLC

CONSTANTS
    Contents,    \* what the containers of a model may hold
    Valid,       \* the contents _validate_invariants accepts
    Addresses,   \* what id() may return
    SpaceChars,  \* what normalizer.space_char may be
    None,
    Situations,  \* what the program does: "alias" builds a model on the
                 \* containers of another, "reuse" lets a model get the
                 \* address of one that is gone, "partial" lets an in-place
                 \* mutation fail half-way
    MaxModels,   \* bound: models built
    MaxChanges,  \* bound: mutations, reassignments and new space characters
    MaxEvents    \* bound: the two together

ASSUME CacheAssumption ==
    /\ Valid \subseteq Contents
    /\ None \notin Contents \cup Addresses \cup Nat
    /\ Situations \subseteq {"alias", "reuse", "partial"}
    /\ MaxModels \in Nat \ {0} /\ MaxChanges \in Nat /\ MaxEvents \in Nat
(* Whatever is signed and built is told from nothing. *)
ASSUME NoneAssumption ==
    None \notin (Addresses \X Nat \X SpaceChars) \cup (Contents \X SpaceChars)

VARIABLES
    built,         \* models built so far
    changes,       \* bound: changes so far
    address,       \* per model: its address, None once it is gone
    used,          \* addresses given out so far
    container,     \* per model: its container
    content,       \* per container: what it holds
    boxOf,         \* per container: the model whose counter it bumps
    torn,          \* history, per container: it changed since the last bump
    version,       \* per model: _version_box.value
    validated,     \* per model: _validated_version
    cacheVersion,  \* per model: _cache_version
    trie,          \* per model: _trie, _rust_trie and _seg_cache
    current,       \* tokenizer.model
    spaceChar,     \* tokenizer.normalizer.space_char
    signature,     \* _tokenizer_model_signature
    crossWord,     \* _cross_word_set, _merge_table_cache, _specials_pipe_form
    signer,        \* history: the model the signature was taken of
    answer         \* history: what the last answer was computed from, and
                   \* what the model held then

objects == <<built, changes, address, used, container, content, boxOf, torn>>
caches == <<version, validated, cacheVersion, trie>>
tokenizer == <<current, spaceChar, signature, crossWord, signer>>
vars == <<objects, caches, tokenizer, answer>>

Models == 1..MaxModels
Containers == 1..(MaxModels + MaxChanges)

Live(m) == address[m] # None
Holds(m) == content[container[m]]
(* Every change of what m holds so far has bumped m's own counter.         *)
Tracked(m) == boxOf[container[m]] = m /\ ~torn[container[m]]
FreeContainer == CHOOSE c \in Containers : content[c] = None /\ \A d \in Containers : content[d] = None => c <= d

(* A fresh model has had each of its fields assigned once: they all start  *)
(* with the same count, 1 here.                                            *)
NewObject(a, c) ==
    LET m == built + 1
    IN  /\ built < MaxModels /\ built + changes < MaxEvents
        /\ a \notin {address[n] : n \in Models}
        /\ a \in used => "reuse" \in Situations
        /\ built' = m
        /\ address' = [address EXCEPT ![m] = a]
        /\ used' = used \cup {a}
        /\ container' = [container EXCEPT ![m] = c]
        /\ version' = [version EXCEPT ![m] = 1]
        /\ validated' = [validated EXCEPT ![m] = 1]
        /\ UNCHANGED <<changes, torn, cacheVersion, trie, tokenizer, answer>>

(* A model is built on a plain dict, which is wrapped for its counter; one *)
(* whose state is not valid is refused.                                    *)
Build(a, x) ==
    /\ x \in Valid
    /\ NewObject(a, FreeContainer)
    /\ content' = [content EXCEPT ![FreeContainer] = x]
    /\ boxOf' = [boxOf EXCEPT ![FreeContainer] = built + 1]

(* A container that is wrapped already is adopted as it is. *)
BuildOn(a, n) ==
    /\ "alias" \in Situations
    /\ Live(n) /\ Holds(n) \in Valid
    /\ NewObject(a, container[n])
    /\ UNCHANGED <<content, boxOf>>

Change ==
    /\ changes < MaxChanges /\ built + changes < MaxEvents
    /\ changes' = changes + 1
    /\ UNCHANGED <<built, address, used, validated, cacheVersion, trie, tokenizer, answer>>

(* Any mutating method of _VersionedDict and _VersionedList, called        *)
(* through any model that has the container.                               *)
Mutate(m, x) ==
    /\ Live(m) /\ x # Holds(m)
    /\ Change
    /\ content' = [content EXCEPT ![container[m]] = x]
    /\ version' = [version EXCEPT ![boxOf[container[m]]] = @ + 1]
    /\ torn' = [torn EXCEPT ![container[m]] = FALSE]
    /\ UNCHANGED <<container, boxOf>>

(* update() or extend() of an iterable that raises: what came before the   *)
(* exception is in the container, and _bump is not reached.                *)
MutateHalfWay(m, x) ==
    /\ "partial" \in Situations
    /\ Live(m) /\ x # Holds(m)
    /\ Change
    /\ content' = [content EXCEPT ![container[m]] = x]
    /\ torn' = [torn EXCEPT ![container[m]] = TRUE]
    /\ UNCHANGED <<container, boxOf, version>>

(* model.vocab = {...}, and likewise the other fields. *)
Reassign(m, x) ==
    /\ Live(m)
    /\ Change
    /\ container' = [container EXCEPT ![m] = FreeContainer]
    /\ content' = [content EXCEPT ![FreeContainer] = x]
    /\ boxOf' = [boxOf EXCEPT ![FreeContainer] = m]
    /\ version' = [version EXCEPT ![m] = @ + 1]
    /\ UNCHANGED torn

(* model.vocab = other.vocab: the container is adopted as it is. *)
ReassignTo(m, n) ==
    /\ "alias" \in Situations
    /\ Live(m) /\ Live(n) /\ container[n] # container[m]
    /\ Change
    /\ container' = [container EXCEPT ![m] = container[n]]
    /\ version' = [version EXCEPT ![m] = @ + 1]
    /\ UNCHANGED <<content, boxOf, torn>>

(* clear_cache, called from outside. *)
ClearCache(m) ==
    /\ Live(m)
    /\ trie' = [trie EXCEPT ![m] = None]
    /\ cacheVersion' = [cacheVersion EXCEPT ![m] = None]
    /\ UNCHANGED <<objects, version, validated, tokenizer, answer>>

(* tokenizer.model = m; the tokenizer's caches are looked at later. *)
SetModel(m) ==
    /\ Live(m) /\ m # current
    /\ current' = m
    /\ UNCHANGED <<objects, caches, spaceChar, signature, crossWord, signer, answer>>

(* tokenizer.normalizer.space_char = c *)
SetSpaceChar(c) ==
    /\ c # spaceChar
    /\ changes < MaxChanges /\ built + changes < MaxEvents
    /\ changes' = changes + 1
    /\ spaceChar' = c
    /\ UNCHANGED <<built, address, used, container, content, boxOf, torn, caches,
                   current, signature, crossWord, signer, answer>>

(* The last reference to a model goes, and its address is free. *)
Drop(m) ==
    /\ Live(m) /\ m # current
    /\ address' = [address EXCEPT ![m] = None]
    /\ UNCHANGED <<built, changes, used, container, content, boxOf, torn, caches, tokenizer, answer>>

(* _ensure_validated: the full check runs only when the counter moved, and *)
(* raises without any effect when the state is not valid.                  *)

(* A bug: a model that was valid once is not validated again.              *)
BugValidateOnce(m) == validated[m] # 0 \/ Holds(m) \in Valid
Accepts(m) == validated[m] = version[m] \/ Holds(m) \in Valid

EnsureValidated(m) == validated' = [validated EXCEPT ![m] = version[m]]

(* encode, encode_batch and encode_with_spans: _sync_cache, then the trie  *)
(* and the memo table, built now if there is none.                         *)

TrieInUse(m) == IF cacheVersion[m] # version[m] \/ trie[m] = None THEN Holds(m) ELSE trie[m]
EncodeModel(m) ==
    /\ Live(m) /\ Accepts(m)
    /\ EnsureValidated(m)
    /\ cacheVersion' = [cacheVersion EXCEPT ![m] = version[m]]
    /\ trie' = [trie EXCEPT ![m] = TrieInUse(m)]
    /\ answer' = [from |-> TrieInUse(m), held |-> Holds(m),
                  valid |-> Holds(m) \in Valid, tracked |-> Tracked(m)]
    /\ UNCHANGED <<objects, version, tokenizer>>

(* _cross_word_tokens and its like: _sync_model_caches, then the set. *)

(* A bug: only the model is in the signature. *)
BugModelOnly(m) == <<address[m], version[m], None>>
Signature(m) == <<address[m], version[m], spaceChar>>

(* What a set of cross-word tokens is made of. *)
Source(m) == <<Holds(m), spaceChar>>
CrossWordInUse ==
    IF signature # Signature(current) \/ crossWord = None THEN Source(current) ELSE crossWord
CrossWordTokens ==
    /\ Accepts(current)
    /\ EnsureValidated(current)
    /\ signature' = Signature(current)
    /\ signer' = IF signature # Signature(current) THEN current ELSE signer
    /\ crossWord' = CrossWordInUse
    /\ answer' = [from |-> CrossWordInUse, held |-> Source(current),
                  valid |-> Holds(current) \in Valid, tracked |-> Tracked(current) /\ signer' = current]
    /\ UNCHANGED <<objects, version, cacheVersion, trie, current, spaceChar>>

(* A tokenizer is made with its first model. *)
Init ==
    \E a \in Addresses, x \in Valid, c0 \in SpaceChars :
        /\ built = 1 /\ changes = 0
        /\ address = [m \in Models |-> IF m = 1 THEN a ELSE None]
        /\ used = {a}
        /\ container = [m \in Models |-> 1]
        /\ content = [c \in Containers |-> IF c = 1 THEN x ELSE None]
        /\ boxOf = [c \in Containers |-> 1]
        /\ torn = [c \in Containers |-> FALSE]
        /\ version = [m \in Models |-> IF m = 1 THEN 1 ELSE 0]
        /\ validated = version
        /\ cacheVersion = [m \in Models |-> None]
        /\ trie = [m \in Models |-> None]
        /\ current = 1 /\ spaceChar = c0
        /\ signature = None
        /\ crossWord = None
        /\ signer = 1
        /\ answer = None

Next ==
    \/ \E a \in Addresses : \/ \E x \in Contents : Build(a, x)
                            \/ \E n \in Models : BuildOn(a, n)
    \/ \E m \in Models : \/ \E x \in Contents : Mutate(m, x) \/ MutateHalfWay(m, x) \/ Reassign(m, x)
                         \/ \E n \in Models : ReassignTo(m, n)
                         \/ ClearCache(m) \/ SetModel(m) \/ Drop(m) \/ EncodeModel(m)
    \/ CrossWordTokens
    \/ \E c \in SpaceChars : SetSpaceChar(c)

Spec == Init /\ [][Next]_vars

--------------------------------------------------------------------------------
TypeOK ==
    /\ built \in Models /\ changes \in 0..MaxChanges
    /\ address \in [Models -> Addresses \cup {None}]
    /\ container \in [Models -> Containers]
    /\ content \in [Containers -> Contents \cup {None}]
    /\ boxOf \in [Containers -> Models] /\ torn \in [Containers -> BOOLEAN]
    /\ version \in [Models -> Nat] /\ validated \in [Models -> Nat]
    /\ cacheVersion \in [Models -> Nat \cup {None}]
    /\ trie \in [Models -> Contents \cup {None}]
    /\ current \in Models /\ Live(current)
    /\ spaceChar \in SpaceChars
    /\ crossWord \in (Contents \X SpaceChars) \cup {None}

(* A cache that its version calls current was built from what the model    *)
(* holds, and that was validated: no sequence of mutations, reassignments  *)
(* and encodes leaves a stale trie behind a current version, as long as    *)
(* the containers are the model's own and no mutation failed half-way; and *)
(* the next mutation that does not fail makes up for one that did.         *)
ModelCachesAreCurrent ==
    \A m \in Models : Live(m) /\ Tracked(m) =>
        /\ validated[m] = version[m] => Holds(m) \in Valid
        /\ cacheVersion[m] = version[m] /\ trie[m] # None => trie[m] = Holds(m)

(* The same of the tokenizer's caches, across replacements of the model    *)
(* and of the space character, back to an earlier one too,                 *)
(* except where a new model has the address and the count of the one the   *)
(* signature was taken of.                                                 *)
TokenizerCachesAreCurrent ==
    Tracked(current) /\ signer = current /\ signature = Signature(current) /\ crossWord # None =>
        crossWord = Source(current)

(* No stale cache is taken for a current one, in the model or in the       *)
(* tokenizer.                                                              *)
CachesAreCurrent == TypeOK /\ ModelCachesAreCurrent /\ TokenizerCachesAreCurrent

(* So every answer comes from what the model held when it was asked, and   *)
(* the space character there was, and that was valid; a state that is not  *)
(* valid is refused.                                                       *)
AnswersAreCurrent ==
    answer # None /\ answer.tracked => answer.from = answer.held /\ answer.valid

(* For TLC: what is held and where are interchangeable. *)
Symmetry == Permutations(Valid) \cup Permutations(Addresses) \cup Permutations(SpaceChars)
================================================================================
