----------------------------- MODULE EncodePipeline ----------------------------
(***************************************************************************)
(* A text goes through CustomTokenizer (uniqtoken/tokenizer.py) four ways: *)
(* encode by the fused call of the Rust core, encode stage by stage,       *)
(* encode_with_offsets, and sample; encode_to_ids and sample_to_ids add the*)
(* ids, of which the core has its own; and the ids go back through decode. *)
(* The stages of the ways are taken together.  The vocabulary has no token *)
(* that spans words, so that the merges after the chunks do nothing.       *)
(***************************************************************************)
EXTENDS Preparation, SubwordLattice

CONSTANTS
    Cases    \* what is encoded: texts, and the configurations of the tokenizer

(* A configuration: whether the core is compiled, the settings of the      *)
(* normaliser and the pre-tokenizer, the vocabulary with its scores, its   *)
(* ids, the special tokens, and what the call asks for control tokens.     *)
IsConfig(c) ==
    /\ DOMAIN c.ids = DOMAIN c.vocab
    /\ \A t, u \in DOMAIN c.ids : c.ids[t] = c.ids[u] => t = u
    /\ c.specials \subseteq DOMAIN c.vocab
    /\ UNION {{Bytes[d][i] : i \in DOMAIN Bytes[d]} : d \in DOMAIN Bytes} \subseteq DOMAIN c.vocab

ASSUME CasesAssumption == \A case \in Cases : \A c \in case.configs : IsConfig(c)

VARIABLES
    config,
    text,        \* what the caller gives
    at,          \* the stage that comes next
    prepared,    \* sanitised and compressed, with sources
    fused,       \* what the fused calls give; {} where they are not taken
    normalized,  \* without alignment
    aligned,     \* with alignment
    chunks,      \* of the way without alignment
    preTokens,   \* of the way with
    tokens,      \* of encode, stage by stage
    ids,         \* of encode_to_ids, from them
    offsets,     \* of encode_with_offsets: tokens, ids and spans of the raw text
    sampled,     \* of sample, and how many chunks it has done
    decoded

vars == <<config, text, at, prepared, fused, normalized, aligned, chunks, preTokens, tokens, ids, offsets, sampled, decoded>>

Init ==
    /\ \E case \in Cases : config \in case.configs /\ text \in case.texts
    /\ at = "prepare"
    /\ prepared = <<>> /\ fused = {} /\ normalized = <<>> /\ aligned = <<>>
    /\ chunks = <<>> /\ preTokens = <<>> /\ tokens = <<>> /\ ids = <<>>
    /\ offsets = <<>>
    /\ sampled = [tokens |-> <<>>, done |-> 0]
    /\ decoded = <<>>

-----------------------------------------------------------------------------
Has(s, sub) == \E i \in 1..(Len(s) - Len(sub) + 1) : SubSeq(s, i, i + Len(sub) - 1) = sub
Marker == <<"<", "|">>
Reserved == {EscapePrefix, EscapedMeta}
OneOf(s, chars) == \E i \in DOMAIN s : s[i] \in chars

(* Only what NFKC makes "<" and "|" of is looked for before NFKC is run.   *)
RequiresPythonSecurity(raw) ==
    \/ OneOf(raw, Reserved)
    \/ /\ OneOf(raw, {"<", "small<", "wide<"}) /\ OneOf(raw, {"|", "wide|"})
       /\ Has(Nfkc(raw), Marker)

NativeSecurityGate(raw) == ~OneOf(raw, Reserved) /\ ~Has(Nfkc(raw), Marker)

IndentCompressionEnabled == config.specials \cap IndentTokens # {}

BugSpecialTokensContainPipeMarker == \E token \in config.specials : Has(token, Marker)

(* Text with a special token has a marker then, and is Python's. *)
SpecialTokensContainPipeMarker == \A token \in config.specials : Has(token, Marker)

NativePipeline ==
    /\ config.native
    /\ ~IndentCompressionEnabled
    /\ SpecialTokensContainPipeMarker
    /\ config.settings.case # "fold"
    /\ NativePretokParity(config.pre)

TakesFused ==
    /\ NativePipeline
    /\ config.allowed = "none" /\ config.action = "escape"
    /\ ~RequiresPythonSecurity(text)

-----------------------------------------------------------------------------
Trie == TrieOf(config.vocab, Max({Len(token) : token \in DOMAIN config.vocab}))

Tokens(spans) == [i \in DOMAIN spans |-> spans[i][1]]
Segmented(chunk) == DecodeCompact(chunk, Trie, TRUE).spans

(* token_to_id: with byte fallback every token has an id.                  *)
Ids(seq) == [i \in DOMAIN seq |-> config.ids[seq[i]]]

(* The core's trie carries the ids (_get_rust_trie).                       *)
IdsInTrie(spans) == [i \in DOMAIN spans |-> config.ids[spans[i][1]]]

(* rust_encode_text_native and rust_encode_text_native_ids: gate,          *)
(* normalise, cut and decode in one call.                                  *)
EncodeTextNative(raw) ==
    LET cut == PreTokenize(NormalizeInner(raw, config.settings), DefaultPre)
        segments == [i \in DOMAIN cut |-> Segmented(cut[i])]
    IN  [tokens |-> FlattenSeq([i \in DOMAIN cut |-> Tokens(segments[i])]),
         ids |-> FlattenSeq([i \in DOMAIN cut |-> IdsInTrie(segments[i])])]

Start == at = "prepare" /\ UNCHANGED <<config, text, normalized, aligned, chunks, preTokens, tokens, ids, offsets, sampled, decoded>>

GateRaises == TakesFused /\ ~NativeSecurityGate(text)
ShieldRaises == Refuses(text, config.allowed, config.action, config.specials)

(* Nothing catches what the fused call raises. *)
RaiseAtStart ==
    /\ Start
    /\ GateRaises \/ ShieldRaises
    /\ at' = "raised"
    /\ UNCHANGED <<prepared, fused>>

Prepare ==
    /\ Start
    /\ ~GateRaises /\ ~ShieldRaises
    /\ LET sanitized == Sanitize(text, config.allowed, config.action, config.specials)
       IN  prepared' = IF IndentCompressionEnabled
                       THEN WithSources(CompressIndents(Text(sanitized), DOMAIN config.vocab), Alignment(sanitized))
                       ELSE sanitized
    /\ fused' = IF TakesFused THEN {EncodeTextNative(text)} ELSE {}
    /\ at' = "normalize"

(* The core normalises what it can; casefold is left to Python. *)
NormalizedInPython == ~config.native \/ config.settings.case = "fold"

Normalize ==
    /\ at = "normalize"
    /\ ~(NormalizedInPython /\ config.settings.unicode /\ Shrinks(Text(prepared)))
    /\ LET units == NormalizeWithAlignment(Text(prepared), config.settings)
       IN  /\ aligned' = WithSources(units, Alignment(prepared))
           /\ normalized' = IF NormalizedInPython THEN Text(units) ELSE NormalizeInner(Text(prepared), config.settings)
    /\ at' = "pre_tokenize"
    /\ UNCHANGED <<config, text, prepared, fused, chunks, preTokens, tokens, ids, offsets, sampled, decoded>>

(* _nfkc_units assigns to what is not there. *)
RaiseIndexError ==
    /\ at = "normalize"
    /\ NormalizedInPython /\ config.settings.unicode /\ Shrinks(Text(prepared))
    /\ at' = "raised"
    /\ UNCHANGED <<config, text, prepared, fused, normalized, aligned, chunks, preTokens, tokens, ids, offsets, sampled, decoded>>

PreTokenizeText ==
    /\ at = "pre_tokenize"
    /\ chunks' = PreTokenize(normalized, config.pre)
    /\ preTokens' = PreTokenizeWithOffsets(Text(aligned), Alignment(aligned), config.pre)
    /\ at' = "encode"
    /\ UNCHANGED <<config, text, prepared, fused, normalized, aligned, tokens, ids, offsets, sampled, decoded>>

TokensOfChunk(chunk) == IF chunk \in config.specials THEN <<chunk>> ELSE Tokens(Segmented(chunk))

(* The span of a token in the chunk is one of the normalised text, and     *)
(* covers the sources of its characters.                                   *)
TokensWithSpans(pt) ==
    IF pt.text \in config.specials THEN <<[text |-> pt.text, id |-> config.ids[pt.text], span |-> pt.rawSpan]>>
    ELSE LET spans == Segmented(pt.text)
         IN  [i \in DOMAIN spans |->
                [text |-> spans[i][1], id |-> config.ids[spans[i][1]],
                 span |-> Cover(SubSeq(Alignment(aligned), pt.span[1] + spans[i][2] + 1, pt.span[1] + spans[i][3]))]]

EncodeChunks ==
    /\ at = "encode"
    /\ tokens' = FlattenSeq([i \in DOMAIN chunks |-> TokensOfChunk(chunks[i])])
    /\ ids' = Ids(tokens')
    /\ offsets' = FlattenSeq([i \in DOMAIN preTokens |-> TokensWithSpans(preTokens[i])])
    /\ at' = "sample"
    /\ UNCHANGED <<config, text, prepared, fused, normalized, aligned, chunks, preTokens, sampled, decoded>>

(* All ways to cut a chunk. *)
Ways(chunk) ==
    LET n == Len(chunk)
        from[i \in 0..n] ==
            IF i = n THEN {<<>>}
            ELSE UNION {{e.tokens \o rest : rest \in from[e.end]} : e \in EdgesFrom(Trie, chunk, TRUE, i, FallbackEdge)}
    IN  from[0]

SampleChunk ==
    /\ at = "sample" /\ sampled.done < Len(chunks)
    /\ LET chunk == chunks[sampled.done + 1]
       IN  \E way \in IF chunk \in config.specials THEN {<<chunk>>} ELSE Ways(chunk) :
                sampled' = [tokens |-> sampled.tokens \o way, done |-> sampled.done + 1]
    /\ UNCHANGED <<config, text, at, prepared, fused, normalized, aligned, chunks, preTokens, tokens, ids, offsets, decoded>>

-----------------------------------------------------------------------------
(* The character that byte tokens make. *)
IsByteToken(token) == \E c \in DOMAIN Bytes : \E i \in DOMAIN Bytes[c] : Bytes[c][i] = token
CharOf(bytes) == CHOOSE c \in DOMAIN Bytes : Bytes[c] = bytes

(* ByteFallbackEngine.decode_tokens: metaspace is a space in a learned     *)
(* token, and itself in bytes.                                             *)
DecodeTokens(seq) ==
    LET spaced(token) == [i \in DOMAIN token |-> IF token[i] = Meta THEN Space ELSE token[i]]
        whole(i) == CHOOSE n \in 1..(Len(seq) - i + 1) : SubSeq(seq, i, i + n - 1) \in {Bytes[c] : c \in DOMAIN Bytes}
        from[i \in 1..(Len(seq) + 1)] ==
            IF i > Len(seq) THEN <<>>
            ELSE IF IsByteToken(seq[i]) THEN <<CharOf(SubSeq(seq, i, i + whole(i) - 1))>> \o from[i + whole(i)]
            ELSE spaced(seq[i]) \o from[i + 1]
    IN  from[1]

RestoreEscapedMetaspace(s) ==
    LET from[i \in 1..(Len(s) + 1)] ==
            IF i > Len(s) THEN <<>>
            ELSE IF s[i] = EscapePrefix /\ i < Len(s) /\ s[i + 1] = EscapedMeta THEN <<Meta>> \o from[i + 2]
            ELSE IF s[i] = EscapePrefix /\ i < Len(s) /\ s[i + 1] = EscapePrefix THEN <<EscapePrefix>> \o from[i + 2]
            ELSE <<s[i]>> \o from[i + 1]
    IN  from[1]

Decompressed(s) == IF IndentCompressionEnabled THEN DecompressIndents(s) ELSE s

(* id_to_token *)
TokensOf(seq) == [i \in DOMAIN seq |-> CHOOSE t \in DOMAIN config.ids : config.ids[t] = seq[i]]

(* decode, of what sample_to_ids gave. *)
Decode ==
    /\ at = "sample" /\ sampled.done = Len(chunks)
    /\ decoded' = RestoreEscapedMetaspace(Decompressed(DecodeTokens(TokensOf(Ids(sampled.tokens)))))
    /\ at' = "decoded"
    /\ UNCHANGED <<config, text, prepared, fused, normalized, aligned, chunks, preTokens, tokens, ids, offsets, sampled>>

Next == RaiseAtStart \/ Prepare \/ Normalize \/ RaiseIndexError \/ PreTokenizeText \/ EncodeChunks \/ SampleChunk \/ Decode

Spec == Init /\ [][Next]_vars

-----------------------------------------------------------------------------
(* A character after which the text is shorter under NFKC than before: its *)
(* mark is ordered before another. Sources are not exact then.             *)
Exact ==
    config.settings.unicode =>
        LET lengths == PrefixLengths(Text(prepared))
        IN  \A i \in DOMAIN prepared : lengths[i - 1] <= lengths[i]

(* A text that the gate of Python lets through is not refused by that of   *)
(* Rust: nothing would catch it.                                           *)
GatesAgree == TakesFused => NativeSecurityGate(text)

(* Whatever the gates let the fused call do, it does as the stages would,  *)
(* and encode_with_offsets gives the same tokens; apart from a final sigma *)
(* that only a whole text can be lowered with.                             *)
SigmaAside == config.settings.case # "lower" \/ ~OneOf(text, DOMAIN FinalCase)
PathsAgree ==
    /\ GatesAgree
    /\ at = "sample" => \A answer \in fused : answer = [tokens |-> tokens, ids |-> ids]
    /\ at = "sample" /\ SigmaAside =>
          /\ [i \in DOMAIN offsets |-> offsets[i].text] = tokens
          /\ [i \in DOMAIN offsets |-> offsets[i].id] = ids

(* Every character of the text is the source of a token, in the order of   *)
(* the text, unless it is a control token that was deleted or white space  *)
(* that was stripped.                                                      *)
OnlyBlank(i, j) == \A k \in i..j : text[k] \in Blank
Covered == UNION {(offsets[i].span[1] + 1)..offsets[i].span[2] : i \in DOMAIN offsets}
Stripped ==
    {k \in DOMAIN text : config.settings.strip /\ (OnlyBlank(1, k) \/ OnlyBlank(k, Len(text)))}
SpansCoverText ==
    at = "sample" /\ Exact =>
        /\ \A i \in DOMAIN offsets : 0 <= offsets[i].span[1] /\ offsets[i].span[1] < offsets[i].span[2] /\ offsets[i].span[2] <= Len(text)
        /\ \A i \in 2..Len(offsets) : offsets[i - 1].span[1] <= offsets[i].span[1] /\ offsets[i - 1].span[2] <= offsets[i].span[2]
        /\ config.action # "ignore" => DOMAIN text \ Stripped \subseteq Covered

(* Spaces and tabs that compression is to keep, whatever the settings make *)
(* of spaces: of a run as many as the shortest of the tokens goes into.    *)
KeptSpace == "kept space"
KeptTab == "kept tab"
KeepIndents(s) ==
    LET counts == {IndentMap[m][1] : m \in {m \in DOMAIN IndentMap : ControlToken(IndentMap[m][2]) \in DOMAIN config.vocab}}
        run(i) == {j \in DOMAIN s : \A k \in Min({i, j})..Max({i, j}) : s[k] = Space}
        kept(i) == /\ counts # {}
                   /\ i - Min(run(i)) < Cardinality(run(i)) - (Cardinality(run(i)) % Min(counts))
    IN  [i \in DOMAIN s |-> CASE s[i] = Tab /\ TabToken \in DOMAIN config.vocab -> KeptTab
                              [] s[i] = Space /\ kept(i) -> KeptSpace
                              [] OTHER -> s[i]]
AsSpaces(s) ==
    [i \in DOMAIN s |-> CASE s[i] = KeptSpace -> Space [] s[i] = KeptTab -> Tab [] OTHER -> s[i]]

(* The tokens, however they are sampled, decode to the text that the       *)
(* settings make of the sanitised one; with indentation tokens, but for    *)
(* the spaces that are kept, and with those tokens in place of spaces that *)
(* the text itself was allowed to have.                                    *)
Expected ==
    LET sanitized == Text(Sanitize(text, config.allowed, config.action, config.specials))
    IN  IF IndentCompressionEnabled
        THEN DecompressIndents(AsSpaces(Text(Visible(KeepIndents(sanitized), config.settings))))
        ELSE Text(Visible(sanitized, config.settings))
RoundTrip ==
    at = "decoded" /\ SigmaAside /\ <<Meta>> \in DOMAIN config.vocab => decoded = Expected

(* The chunks are the normalised text, and none begins inside a cluster.   *)
Ends == [i \in 0..Len(chunks) |-> Len(FlattenSeq(SubSeq(chunks, 1, i)))]
ChunksAreWhole ==
    at = "encode" =>
        /\ FlattenSeq(chunks) = normalized
        /\ \A i \in DOMAIN Ends : Ends[i] \in Boundaries(normalized)
        /\ LET spans == Matches(normalized, config.pre)
           IN  FullPass(normalized, spans) = SnapSpansToGraphemes(normalized, spans)

(* Nothing of the text gets lost: neither where it is cut into chunks nor  *)
(* in the spans of the tokens.                                             *)
OffsetsCoverText == SpansCoverText /\ ChunksAreWhole
================================================================================
