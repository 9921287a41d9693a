# UniqToken in TLA+

UniqToken is a tokenizer library: Python code with an optional Rust core that
trains vocabularies, encodes text to token ids, decodes ids to text, and serves
streams to vLLM. These modules model the parts of it that keep state over
several calls, run on several threads or tasks, or promise that several
implementations of one algorithm agree: streams, caches, counters, files, merges,
training, and the way of a text to tokens and back. TLC checks them on small instances;
TLAPS proves, for all sizes, the invariants of the stream registry, the stop strings,
the async worker, the chunk counter, the caches, batch encoding and the tokenizer files,
and that each of the four merge engines does what their contract says.

To check a run, `tlc -config StreamingRegistry.cfg StreamingRegistry` (where there is
an `MC` module of the run, that one, as `tlc -config Bpe.cfg MCBpe`); to check
the proofs, `tlapm StreamingRegistryProofs.tla` and so on for the seven `...Proofs` modules and
`MergeFacts.tla`.
Source lines below are of the repository (`uniqtoken/` unless another path is given).

## The system

A `CustomTokenizer` (tokenizer.py) owns a normaliser, a pre-tokeniser and a
`UnigramModel` or `BPEModel`. `encode` normalises the text, splits it into
chunks, decodes every chunk to its best segmentation, and fuses adjacent pieces
to cross-word tokens (SuperBPE). Everything else trains, stores, converts or
serves such a tokenizer.

| Component | State | Operations | Interacts with | Hard | Correct when |
|---|---|---|---|---|---|
| `UniqTokenVLLMAdapter`, `VLLMDetokenizer` (integrations/vllm.py) | two dictionaries: running streams, ended ids (bounded, oldest evicted) | init, step, flush, abort, clear | engine threads, `VLLMStreamingState` | threads, a flush outside the lock, eviction, late tokens | an id is never both running and ended; ended ids stay known as long as there is room; no text is lost |
| `VLLMStreamingState` (same file) | decoded text, how much was returned, finish | step, flush | `StreamingDecoder` | a stop string split over tokens; several stop strings | cut exactly at a stop string, hold back no more than needed |
| `AsyncVLLMStreamingWorker` (same file) | an asyncio queue, a closed event | `put_token`, `stream_deltas`, close | adapter, event loop | cancellation, back-pressure, nested `finally` | producers are released, `task_done` balances, no state is left behind |
| `StreamingDecoder` (streaming_decoder.py) | an incremental UTF-8 decoder, half an escape pair | feed, flush, reset | vocabulary, `decode()` | characters and escapes split over tokens, malformed bytes | the stream is what `decode()` gives, nothing is taken back |
| Merge engines (merge_engine.py, native_merge_engine.py, the loops of tokenizer.py, crates/uniqtoken_core/src/merge_engine.rs) | groups, blocked pairs, dropout decisions | `apply` | tokenizer | four implementations: rescans, links in arrays, positions, a heap | all four draw, fuse and stop alike |
| Caches of `UnigramModel` and `CustomTokenizer` (unigram_trainer.py, tokenizer.py) | mutation counter, versioned containers, trie, memo table, cross-word set | mutate, reassign, validate, encode, replace the model | each other | aliases, half-way mutations, reuse of `id()` | no answer comes from a stale cache |
| `encode_batch` (tokenizer.py) | the same caches | a thread pool over the rows | caches above | lock-free renewal by several threads | rows are encoded as one thread would |
| `StreamingChunkCounter` (streaming_counter.py) | a buffer, run files, a merged file with a sparse index | add, set, spill, cascade, final merge, lookup, close | disk, signal handlers | failing writes, cascades, index boundaries | no count is lost or doubled; a counter that lost data does not answer |
| `BPETrainer`, `BPEModel` (bpe_trainer.py, bpe_model.py) | bucket queue, pair counts, heap of candidates | train, encode | seed counts | lazy deletion, incremental counts | the result of the plain algorithm |
| Unigram decoding (unigram_trainer.py, unigram_lattice.py, trie.py; viterbi.rs, trie.rs) | two tables of segmentations, tries | encode, batches in threads, expectations, sampling | caches, training | three dynamic programs, ties, beams, a table shared by threads | all answer with the same best way to cut the text; the tables hold nothing else; expectations and samples are those of all ways |
| Training (unigram_trainer.py, seed_builder.py, cem_merger.py, seed.rs, cli.py) | seed, candidates, vocabulary, ids; pair counts per stratum, streams | mining, rounds of expectation and pruning, merging | pre-tokeniser, decoding | required tokens, quotas, pruning to a target, counts corrected stream by stream | required tokens stay, scripts share, the size is reached, merging does what counting anew would |
| Encoding (tokenizer.py, pre_tokenizer.py, security_shield.py, indentation_compressor.py; normalizer.rs, pipeline.rs) | none; a text goes through stages | encode, encode_with_offsets, sample, decode | decoding, merge engines | two implementations under gates, alignment through every stage, clusters | the ways agree, spans cover the text, tokens decode to it, clusters stay whole |
| Files: `save`, `load`, binary_format.py | tokenizer.json, tokenizer.uniqtok | save, load | each other, other processes | two files; a failure or a crash between their writes, a damaged binary | a load answers one whole tokenizer that was saved, after a complete save the last one |
| `BatchCollator`, `VocabularyAdapter` | none | pad, truncate; extend, compact ids | tokenizer | budgets, sparse ids | bounds hold, ids are bijective |
| C interface (c_abi.rs) and C++ adapter | none: handles and id arrays belong to the caller | create, encode, free | callers | formats | conversions are right |
| Importers, exporters, chat templates, multimodal codecs, command line | none to speak of | conversions | tokenizer | formats | round trips |

All but the last three rows are modelled; of the command line and of input screening, what
the rows above need.

## Modules

**Streams.** `StreamingRegistry` has the two dictionaries, one action per adapter call. A
call holds `_states_lock`, so it is one action; `flush_streaming` releases the lock before
it flushes and is two, `FlushBegin` and `FlushEnd`, with any other call of any thread
between them. The text of a stream is a number of pieces not yet returned.
`RequestLifecycle` is what a caller may rely on without the dictionaries, a bounded memory
of ended ids; the registry implements it. `StopStringStream` is one stream's text, character
by character: search window, holdback, cut, flush. `MCStreamingState` composes it with the
streaming decoder: a token is fed to the decoder, and what that makes certain is the chunk
that is searched; flush searches what the decoder still held. `AsyncWorker` has producers,
put tasks and a consumer over a queue that behaves as `asyncio.Queue` does (external); what
runs between two awaits is one action. All its workers have one request id, and nothing in
the code keeps a second from registering it while the first is open (vllm.py:475), so
`NewWorker` asks for nothing: the adapter's calls of every worker (`AdapterStep`,
`AdapterFlush`, `AbortRequest`) meet whatever is registered under the id by then, and
`ForgetId` evicts or clears it at any moment. `overlap` and `cutShort` remember which
workers were open together, and which were told an end that another call had made.
`MCServedStream` checks the text of a stream and the workers in one run.

**Decoding.** `StreamingDecoder` feeds tokens to the streaming decoder. A character
is the sequence of its bytes, so the incremental UTF-8 decoder (external) is
modelled by what it does on them, malformed input included; `Decode` is the
decoding of the whole sequence.

**Merges.** `MergePairs` has the arguments of a call and the pairs it may fuse: a
piece is a range of leaves, a merge table a set of ranges. `MergePass` is the
contract that `document_semantic_invariants` writes down (merge_engine.py:975):
fuse the next admitted pair from left to right, or skip it and block it.
`ReferenceEngine`, `FastEngine`, `InlineMerges` and `NativeEngine` are the four
loops, one action per iteration. `MCMergeEngines` composes them: a tokenizer
calls the one it was given, and each is a refinement of `MergePass` under its own
mapping (groups from lists, links or nodes; blocked pairs from keys, positions
or generations).

**Caches.** `ModelCaches` has models that may share containers, counters, caches on
two levels, and addresses that are used again; each call is an action.
`BatchEncode` has the four batch functions (tokens, ids, offsets, decoding), on the pool or
in the caller, takes the renewal of the same caches apart into the accesses to
attributes and lets the threads of one batch interleave.

**Counting.** `ChunkCounter` has the buffer, the run files, the cascade of merges,
the final merge and the sparse index; any write may fail, and `close()` may come
from a signal handler at any moment (`HandleSignal`).

**Files.** `TokenizerFiles` has `save` file operation by file operation, `load` in its reads,
and the content of both files: what JSON keeps, and the dense arrays, the scores as 32-bit
floats, the settings and the checks of the binary. Every operation may fail, the process
may be killed between any two, another process loads meanwhile, and the binary may be cut
off or have its config written over. `MCStorage` checks it and the counter in one run.

**BPE.** `BpeRule` is byte-pair training as it is defined: join the most frequent pair
everywhere. `BpeTraining` is `BPETrainer.train` with the buckets, the lazily
cleaned heaps and the inverted index, one action per iteration of `pop_max` and
per affected word (the words come in the order of a set, so in any), and refines
it. `BpeSegmentation` rescans the symbols for the leftmost pair of the lowest rank;
`BpeEncode` is `_encode_word` with its heap over a linked list, one action per heap
entry. `MCBpe` composes them: it trains, then encodes with what was learned.

**Unigram decoding.** `SubwordLattice` has the tries, what a dynamic program over edges is,
the two decoders of viterbi.rs and its expectations. `UnigramDecode` has the decoders in
Python, the lattice with its beam and `_encode_fast`, and what all of them are for, by looking
at all ways to cut a text: the best score, and of equal ones the one whose last token is
longest. And it has the calls: which decoder answers, the model's table and that of the trie, batches of
which every thread looks up, decodes and stores in steps of its own, and sampling, one piece
an action. A score is an integer.

**Training.** `UnigramTraining` has mining, filters, ranking and quotas, and then the
rounds. What an expectation makes of the scores is left out: which candidates a round takes
out, and when the likelihood has converged, is any choice. `CemPairs` has the score of a
pair, `CemRule` is what merging is said to be: the best pair over all streams, counted anew,
joined everywhere. `CemMerging` has the counts, strata and streams that are corrected one
stream an action, and refines it. `MCModelTraining` composes training and merging as the
command line does.

**Encoding.** `PreTokenizer` (with the normaliser, and the settings that choose the
pre-tokeniser's pattern) and `Preparation` are the stages, each in its Python form with
alignment and in its Rust form; `EncodePipeline` takes a text through the fused native call,
the stages, `encode_with_offsets`, `sample` and `decode`, to tokens and to their ids. A
character is a name, and what Unicode says of it (decomposition, class of a mark,
composition, case) is given by constants; canonical ordering and composition are
modelled as external code on them.

Every `MC` module has the constants of its run. Operators named `Bug...` stand
before the definition they spoil; they are not part of the model, and each is a
plausible mistake that one property of the run detects.

## Runs

| Run | Instance | States | Shows |
|---|---|---|---|
| `registry` | 3 ids, 2 flushing threads, 4 state objects, room for 2 ended ids, symmetric | 23 thousand | the dictionaries stay disjoint, bounded and ordered; no text is lost; the registry implements `RequestLifecycle` |
| `served_stream` | a stream: up to 5 of 7 tokens (escape pairs) and up to 4 of 13 (UTF-8), shorter ones with stop strings made of the decoder's own characters, one or two stop strings of up to 3 letters over texts of 5 and chunks of 2; or 2 workers of one id, open one after the other or at once, the id forgotten at any moment, queues of one slot, 3 producers with 4 calls between them | 308 thousand | what is streamed is what `decode()` gives, none of it too early; cut, holdback and flush are right wherever the chunk borders fall; `task_done` balances, no wake-up is lost, an end releases the producers and closes the stream, nothing stays registered behind the last worker, and a worker that had the id to itself is not cut short |
| `storage` | a counter: 4 chunks of which 3 are put in, an index entry every 2 records, buffers of 1 and 2, at most 2 open runs, 5 writes, one of which may fail; or files: saves of 2 of 6 tokenizers, loads between any two steps, failures, crashes, damage | 113 thousand | nothing is lost or doubled, reads are exact, a counter that lost runs fails; a load answers one whole tokenizer, and the last one that was saved completely |
| `model_caches` | 2 models at a time, 3 in all, 2 changes, 3 contents of which one is invalid, 2 space characters, addresses that are used again | 640 thousand | no answer comes from a stale cache, of the model or of the tokenizer |
| `batch_encode` | 3 workers, 4 rows of each of the four calls, on the pool or in the caller, with and without a GIL | 4.26 million | no interleaving uses or leaves a stale cache |
| `merge_engines` | all tables over 4 leaves with cuts, legality and short tapes, all tables over 5 leaves, all dropout decisions | 288 thousand | the four engines implement `SuperBpePassV1` and end |
| `bpe` | corpora of up to 3 of 10 words of up to 6 letters, 13 words to encode, limits on merges and vocabulary, all dropout decisions | 245 thousand | training learns the merges of the plain algorithm, encoding applies them in their order, trained words come out as trained |
| `unigram_decode` | 40 texts of up to 5 characters, one of two bytes and one that UTF-8 cannot encode; 91 scorings of 6 vocabularies with ties, gaps and an unknown token; 2 threads, tables of 2 entries | 528 thousand | every decoder gives the same best answer, alone, in batches, from a table and within the limits of a beam (`AnswersAreBest` is exact answers and limited ones); expectations and samples are exact on the edges that are left |
| `model_training` | 5 corpora in two scripts with marks, characters of no script, an ideograph and a special token; targets below and above the floor, a seed smaller than the alphabet; 4 strategies of merging | 15 thousand | required tokens and ids stay, scripts share, the target is reached; the corrected counts are exact and merging implements `CemRule` |
| `encode_pipeline` | 7 families of texts of up to 4 characters (spaces and escapes, marks, clusters of other kinds, case and punctuation) or longer hand-made ones (control tokens, indentation, digits and punctuation for the settings of the pre-tokeniser), each with its settings, with and without the core | 341 thousand | all ways give the same tokens and ids, spans cover the text in order and no chunk begins inside a cluster (`OffsetsCoverText` is both), every sample decodes to the normalised text |
| `async_worker_join` | one worker, 3 producers, a queue of one slot | | finding 1 |
| `async_worker_reuse` | as the workers of `served_stream` | | finding 2 |

### Bounds

A bound is enough when everything the code distinguishes happens below it. `registry`: with
three ids and room for two, ids are evicted, re-registered and marked twice; a fourth object
lets two threads flush objects that no id has any more. `served_stream`: overlaps, nesting
and shared prefixes need stop strings of three letters; texts of five leave two letters
around them. Five tokens hold an escape pair whose halves are split, with something in
between; four bytes are the longest UTF-8 sequence, and the bytes are one of each kind of
lead and continuation byte; one slot and two producers are the least with which a put
blocks, is woken, is cancelled and overtaken, and two workers the least of which one ends
while the other is at a get or at any of its yields. `merge_engines`: with four leaves a
fusion changes a pair before it and one after it, with five a blocked pair outlives a fusion
elsewhere and two passes follow each other. `model_caches`: two changes reach a mutation
after a cache was built from the result of another, and two space characters a return to the
first; a third model is the least that can come to the address of the first after the second
was used. `batch_encode`: a third worker arrives when the first two have renewed the caches.
`storage`: five writes at a buffer of one make five runs, which with two open ones take
three rounds, the first with a batch of a single run; three chunks that are put in, 1, 2 and
4, make a merged file with a second index entry (at 4, its third record), and reads ask for
a chunk at each entry, between the two, for 3, which is in no file, and before a first entry
that is not 1; a chunk's count comes to no more than two (`MaxCount`), the least that takes
two runs to add up; two different tokenizers are the least with which the two files can be
of different saves (`MaxTokenizers`; saves of one tokenizer may be repeated without bound),
and the six differ in what the binary can hold: dense ids, ids with a hole, a token without
an id, a score out of range, settings that `load_binary` refuses. `bpe`: the words have runs
of one letter, overlapping and repeated pairs, and one token made by two pairs; three words
share pairs, so that one merge touches several of them in either order. `unigram_decode`:
four characters have a tie between two cuts of the same number of pieces and between cuts of
different numbers; the limits on the fast path, on batches and on the length and number of
entries are 2 or 3, so that a text is below, at and above each; three chunks for two threads
and two entries make a thread find, miss and not store. `model_training`: streams of three
tokens instead of 200 and a small excess of one token instead of 500 are crossed by these
corpora in both directions; a seed of two tokens for an alphabet of more leaves no room for
any n-gram, and n-grams begin with the space, which has no script and leaves the bucket to a
later character; a pair that overlaps itself, one that a merge makes and one it takes away
occur. `encode_pipeline`: alignment errors need two marks after a base, a character that
becomes two, or a blank run next to an escape, which four characters hold. A border may fall
only at the start of a cluster; what makes one (`Extend`, `Prepend`, CR before LF) and what
the quick test looks for (marks, format characters and a list) are constants of their own: a
joiner and a soft hyphen are no marks, and a prepended sign only the list has.

`CHECK_DEADLOCK FALSE` stands where the code stops: a stream ends, a batch is
complete, a counter is closed, a tokenizer is trained, a text is encoded, a bound is
used up. The registry never stops, and
its run checks deadlock.

### Fairness

`AsyncWorker`: the event loop runs every ready task (weak fairness of `RunPut`
and `ReturnFromPut`), and the consumer iterates its generator to the end or
closes it (`Consume`). Nobody has to put, to end a stream or to stop early. A
worker whose generator is never iterated is outside: nothing in the code would
release its producers. `MCStorage`: `finalize()` is sequential code and runs
on once it was called; nobody has to call it. Merge engines: a loop runs until it
returns or raises. `MCBpe`: training and encoding are
loops that wait for nothing. `MCModelTraining`: likewise, training and merging run until
they return or raise. The other modules check safety only.

## Findings

1. `async_worker_join` (`DrainReleasesJoin`). integrations/vllm.py:716 says that the drain
   releases `join()`. The run fills the queue and blocks a second put on it; closing the
   worker drains the queue, and `get_nowait` wakes that put, which puts its item after the
   drain: nobody takes it or calls `task_done` for it, and `join()` never returns. (A put
   task that had not run yet when the worker closed does the same.)
2. `async_worker_reuse` (`EndsOnNoneOrStop`). The docstring of `stream_deltas`
   (integrations/vllm.py:688) says that it terminates on None or on a stop condition. When
   its request id is registered again while it is open, which line 475 does without a
   word, the flush and abort at the end of the one worker (lines 696, 708 and 723) are for
   the state of the other: the next token of that one is answered as late (line 492), and
   its stream ends with neither. `WorkersKeepToTheirOwn` is what does hold: only workers
   that were open together do this to each other, and none leaves a state behind.

Met while modelling, and reported by no run; where a property makes an exception for a
case, its definition says so:

- tests/test_vllm_integration.py:333 says that late tokens after clean-up do not
  recreate request state, but an id that was evicted from the finished set is unknown
  to `step_streaming`, which registers a new state for it
  (integrations/vllm.py:494): what the registry keeps is `EndedIsRemembered`.
- With the stop strings "abc" and "b", the text "abc" is cut before "a" when it comes
  as one token and before "b" when it comes as "ab" and "c", since the earliest position
  wins among those complete when a token arrives (integrations/vllm.py:100).
- unigram_trainer.py:195-198 says that mutations through any alias bump a shared
  counter. `_wrap` leaves a container with the counter of the model it was first
  wrapped for (line 206), and the adopting model has its own: it does not see a
  mutation through the first. `ModelCaches` asks nothing of such a model (`Tracked`).
- tokenizer.py:205-209 says that a reassigned model cannot leave the cross-word cache
  stale. The signature is `(id(model), version, space_char)` (line 180), and a third model may get
  address and version of the first. `ModelCaches` remembers who signed (`signer`)
  and exempts this case.
- `update()` and `extend()` of versioned containers that raise half-way have changed the
  container without bumping the counter (unigram_trainer.py:105); `ModelCaches` has this
  as `MutateHalfWay` and its invariants say that the next change heals it.
- `__contains__` of a finalized counter answers True for a chunk that was set to 0, of
  which the merge keeps a record (streaming_counter.py:519), while its docstring (line
  514) asks for an occurrence of at least 1.
- Without the GIL, `clear_cache` may raise `KeyError` and a row may miss its cross-word
  merges (unigram_trainer.py:377, tokenizer.py:215), which is why `BatchMatchesSequential`
  asks for the GIL.
- `_encode_fast` is said to reproduce the lattice (unigram_trainer.py:433-439), but has no
  edge for the unknown token, which the lattice takes where no token begins; where
  there is a way without it, it looks no further. `Expected` of `UnigramDecode` has the
  two answers.
- The base alphabet leaves out combining marks (seed_builder.py:148). A chunk with a mark
  that no n-gram covers makes the native expectation raise "lattice is disconnected"
  (viterbi.rs:855), although unigram_trainer.py:680 promises a fallback to bytes:
  training fails. `EndsAtTarget` has this as `Disconnected`.
- With a streamed corpus, the list from which the SuperBPE pass of the command line
  takes its chunks is not the corpus that was trained on (cli.py:169 and 190).
- Under NFKC a prefix may be longer than the whole ("r", macron, dot below): the Python
  normaliser then attributes a unit that is not there and raises `IndexError`
  (pre_tokenizer.py:122), or leaves a character without source, where the native call
  encodes. `Exact` names these texts, and `OffsetsCoverText` is about the others.
- The native normaliser lowers a whole text, with the final form of sigma
  (normalizer.rs:110), the alignment one character at a time: with `lowercase`,
  `encode` and `encode_with_offsets` give different tokens. `SigmaAside` excepts it.
- tokenizer.py:947-949 says that spans always tile the input; the byte tokens of one
  character share a span. What holds is `OffsetsCoverText`.
- tokenizer.py:787-788 says that `encode` falls back when the native gate raises; nothing
  catches it. `GatesAgree` says that the Python gate lets nothing through that the
  native one refuses.
- `save(save_binary=False)` over a directory that has a binary leaves that binary, and `load`
  prefers it: the older tokenizer comes back (tokenizer.py:1312, 1350). `LastSaveIsLoaded`
  excepts it.
- `save` turns ValueError and OSError of the export into a save without a binary
  (tokenizer.py:1319). A score beyond the 32-bit floats raises OverflowError
  instead: the exception leaves `save`, and an older binary stays beside the newer JSON.
- Compression puts a token that ends in `>` before what follows an indentation. Under NFKC
  that `>` would compose with U+0338; `MCComposite` has no such pair, and `RoundTrip`
  is about texts without it.
- The core's `detect_script` passes over what `is_numeric` accepts, the Python one over
  `isdigit` (seed_builder.py:181-213), which is less; `DetectScript` is the Python one.
- A metaspace that is not in the vocabulary is encoded as its bytes and decoded as
  itself, not as a space; `RoundTrip` asks for it in the vocabulary.

## Proofs

Eight modules hold theorems; `MergeFacts` has the lemmas of `MergeEngineProofs`, and has no
variables. Only the named assumptions on constants are used, and TLC evaluates them in the runs. All obligations are proved:

| Module | Obligations | Theorem | Property of the run |
|---|---|---|---|
| `StreamingRegistryProofs` | 1028 | `ActiveNeverFinished`, `RegistryOrdered`, `EndedRemembered` | `ActiveNotFinished`, `RegistryIsOrdered`, `EndedIsRemembered` |
| | | `TextIsReturned` (an action property), `RegistryImplementsLifecycle` (the refinement) | `NoTextLeftBehind`, `ImplementsLifecycle` |
| `StopStringProofs` | 812 | `ReturnedTextStaysExact`, `NoStopStringIsMissed` | `ReturnedTextIsExact`, `NoStopStringMissed` |
| `AsyncWorkerProofs` | 1240 | `JoinIsExact`, `WakeupsAreKept`, `StreamsEndOnTheirOwn` | `JoinCountsTheItemsLeft`, `NoLostWakeup`, `WorkersKeepToTheirOwn` |
| `ModelCachesProofs` | 821 | `NoStaleCache`, `NoStaleAnswer` | `CachesAreCurrent`, `AnswersAreCurrent` |
| `BatchEncodeProofs` | 496 | `StaleNeverSurvives`, `BatchIsSequential` | `NothingStaleSurvives`, `BatchMatchesSequential` |
| `StorageProofs` | 876 | `LostRunsStayLost` (an action property) | `LostRunsNeverAnswer` |
| | | `LoadedIsWhole`, `LoadedIsLast` | `LoadsAreWhole`, `LastSaveIsLoaded` |
| `MergeFacts` | 4440 | lemmas about turns, lists, links and the heap | |
| `MergeEngineProofs` | 1385 | `PartitionHolds`, `EnginesImplementPass` (the refinement) | `GroupsPartitionLeaves`, `ImplementsMergePass` |

**Registry** (`RegistryAssumption`: any ids, threads, objects, holdback; room for at least one
ended id). `Forget` and `MarkFinished` are the only operators on the finished set, and
`ForgetFacts` and `MarkFacts` say what they keep: the order of the other ids, no duplicates,
the bound, and that only the oldest id of a full set goes. `DictionaryStep` reduces the eight
actions to the five things a step can do to the dictionaries: nothing, `End` an id, open an
unknown one, init one, clear. `EndedIsRemembered` alone is not inductive: that an evicted id
has seen `MaxFinished` others marked follows from the order of the set (`FinishedInOrder`:
what stands behind an id was marked after it) together with the absence of duplicates and the
bound, and to count them the sets of the history must be finite (`AfterFinite`). `IInv` is
their conjunction. The refinement needs, besides `IInv`, that the number of ids in the phase
"ended" is the length of the finished set (`EndedCount`), so that an eviction happens exactly
when the abstract memory is full. `TextIsReturned` has an invariant of its own, that a
finished object holds nothing (`FinishedHoldsNothing`): a flush outside the lock may meet an
object that a step has finished meanwhile.

**Stop strings** (`StopStringAssumption`: no stop string is empty, as the constructor filters
them). The run has the chunks of one decoder and a bound on the text; the theorems are about
`TextSpec(Characters)`, in which a chunk is any sequence over any alphabet. The inductive
invariant `TextInv` says what a running stream is: no stop string stands anywhere in the text,
and what is held back is exactly the longest end of it that begins one. That is stronger than
either property. The heart is that the search window of vllm.py:100 misses no match, and that
no match begins in what was returned: one that begins before the window was complete before,
and the beginning of one that was not was held back. Maxima and first
positions come from the least-number principle (`LeastNumber`).

**Async worker** (`WorkerAssumption`: finitely many producers, each with its worker; any size
of the queue). `IInv` has, besides the count of unfinished items, that the put tasks that wait
are each in the row of their own worker, once (`RowsAreExact`), and that while one waits every
free slot is promised to a task that was woken (`SlotsArePromised`, which counts them).
`NoLostWakeup` alone is not inductive: one woken task satisfies it for two free slots, and
takes one. `WorkersKeepToTheirOwn` holds of any callers, of those too that give an id to a
second worker while the first is open. It is not inductive either: `EndsAreOwn` adds that
any two open workers are both in `overlap`, and that the id of a worker that has not come to
its own end has not ended, unless that worker is in `overlap`: only another open one can have
ended it.

**Caches** (`CacheAssumption`: any contents, addresses, numbers of models and changes). What
makes a cache current is a counter noted earlier that has not moved; so `IInv` says that
nothing noted is ahead of its counter (`NotedBefore`), that containers are taken in order and
every model has one (`ContainersInUse`), that no two live models are at one address
(`AddressesApart`), and that the signature was taken of the signer at a count it had
(`SignedBefore`, `SignerIsCurrent`), be the signer current or not.

**Batch** (`BatchAssumption`: any workers and rows). With or without a GIL: a worker inside
`clear_cache` leaves no old entry behind it (`CleanBehind`), and no access writes an old
value (`NothingOldIsWritten`), so what is stale neither comes back nor is read. With the GIL: a
worker between a test and the access that relies on it holds the interpreter (`HolderRuns`),
so what it found is still there (`FoundIsThere`), and rows are worked on for the call that was
begun (`RowsOfCall`).

**Counter** (`CounterAssumption`). A run that is lost stays lost: its file is gone, no flush
writes under its number again, and it stays on the list of runs or among what the pass
under way has still to read (`Lost`). `CallInv` is the shape of a call of `finalize`, with which a
last pass cannot end without reading it.

**Files** (`FilesAssumption`: a tokenizer is a record of functions over strings, ids and scores;
what overwrites the config passes no check). `BinaryRestores` is the lemma about the formats:
what `export_binary` accepts, `load_binary` restores, because ids that are dense are distinct.
`FilesInv` says of every file that it is absent, partial, damaged (and `DamagedIsRefused`) or
the whole file of one tokenizer that was saved, and of the settled tokenizer that both files
are its or refused.

**Merge engines** (`InputsAssumption`: any number of leaves, any merge table, cuts,
legality and tape). `MergeInv` says of the engine of the call what its own data keep, and
each `...Step` lemma shows that a step keeps that and is a step of `MergePass` or none
(`PassStep`). What an engine shows of its data is the boundaries of its groups, what is
blocked, and whose turn it is; `MergeFacts` says what the operations do to these.

- *Reference*: the groups behind the cursor and those ahead are chains, each group beginning
  where the one before ends (`Chain`), so a pair of the pass that starts at a group ahead is
  the pair at it (`PairsAhead`). The engine releases three keys at a fusion, where the
  contract releases every pair that lost a boundary: that these are the same
  (`ReleasedFacts`) needs that a blocked pair is of groups as they are, and that the only one
  that ends inside the next group is that of the step before (`BlocksOf`). A pass without
  fusions ends the plan as the contract does because, until the first fusion, nothing open
  lies behind the cursor. `TurnsAgree` is why skipping a group and beginning a new pass are
  steps of no decision.
- *Fast*: the slots that a walk over `next_idx` reaches are exactly the groups (`ReachedIs`,
  by the first group a walk would miss), the two arrays mirror each other (`Links`), and a
  fusion in place keeps that (`LinksFuse`). When nothing but the table decides, the checks
  that the clean path leaves out would not have refused (`FastReady`).
- *Inline*: the lists are the reference engine's, blocked positions instead of keys stand for
  the same pairs, in this pass and through `remap` in the next (`PlacesOf`, `PlacesNext`).
  The tape is no limit (`InlineRoom`): between two fusions no pair is drawn twice, so there
  are at most leaves times (fusions + 1) draws.
- *Native*: the heap gives what the passes would. Two facts carry it: every pair that was
  not visited as it is has a candidate that is not stale (`Awaited`), and the candidates of
  the pass are of groups from some boundary on, those of the next pass of groups before it
  (`Sweeps`), so the least of them is the contract's turn (`HeapTurnIs`). Generations make a
  candidate of a changed group stale and only that: a fusion counts up the one group it
  changes (`NodesFuse`), and no generation that was visited comes again (`VisitedOn`).

Only model-checked, and why:

- Liveness and `ENABLED`: `EndReleasesAll`, `FinalizeEnds`, `EveryCallEnds`, `EndsAsTrained`,
  `EndsAtTarget`. The prover has no rules for them.
- `NothingLost` and `ReadsAreExact` of the counter add up over the files with a fold;
  what a fold gives for every set needs induction with an operator as its parameter.
- The same holds for what the recursive functions of the decoders, the alignment, the BPE
  rules and the streaming decoder compute: `StreamMatchesDecode`, `EmittedIsCertain`,
  `AnswersAreBest`, `LatticeIsExact`, `PathsAgree`, `OffsetsCoverText`, `RoundTrip`,
  `StreamsAreExact`.
- The refinements of BPE and of CEM merging, the tables of `UnigramDecode` and the seed
  vocabulary can be proved about and are not: see the plan.

## Not modelled

- The collator, vocabulary adaptation and the C interface: they keep no state between calls;
  what the C interface hands out is the caller's to free, and the core has no record of it.
- Of the files: damage to tokenizer.json, a loss of power that takes back writes that were
  not synced, what is left of a temporary file after a crash (no load opens it by its name),
  and the steps of reading tokenizer.json, which `load` does in one.
- Of the counter: what a pass that a signal interrupts has counted so far; it is closed then.
- Floating point: what an expectation makes of the scores, rounding that breaks a tie,
  ranking by mutual information or script temperature, multimodal codecs.
- Importers, exporters, chat templates: formats.
- In training: the bounded summaries of huge corpora, verbose output, and the options of
  `train_from_corpus` that only configure other parts.
- In encoding: the alternatives of the regular expression for URLs, e-mail, hashtags,
  emoji, CJK and hexadecimal numbers; `align`, `encode_with_metrics`; surrogates; tokens
  that span words (the merge engines have them); the batch variants of the native
  pipeline; names of control tokens of more than one character.
- The command line but for its order of training, benchmarks, tools and notebooks.
- Within the other modelled parts: the projection of merge groups to tokens and spans,
  error values other than those above, iteration over a finalized counter, unknown
  ids in the streaming decoder (which skips them by their form where `decode()`
  does not), mutations of a model while another thread encodes with it.

## Plan

1. `TablesAreExact` of `UnigramDecode`, whose step is that what a thread stores is what
   `ViterbiDecode` gives for its key.
2. Cross-word tokens and their spans at the end of `EncodePipeline`, with `MergePass` as
   the contract of the engines.
3. The native batch pipeline under threads (pipeline.rs:618-850) with the table of
   `UnigramDecode`.
