----------------------------- MODULE PreTokenizer ------------------------------
(***************************************************************************)
(* Normalizer and RegexPreTokenizer (uniqtoken/pre_tokenizer.py), and      *)
(* normalizer.rs and pipeline.rs.  A text is a sequence of characters, a   *)
(* unit a character with the span of the raw text it comes from; spans     *)
(* count from 0 and exclude their end.  What Unicode says of characters is *)
(* given by constants.                                                     *)
(***************************************************************************)
EXTENDS Integers, SequencesExt

CONSTANTS
    Compat,      \* what a character is decomposed to, where it is
    MarkClass,   \* the combining class of a mark
    Composite,   \* what a pair of a character and a mark is composed to
    LowerCase,   \* str.lower of a character, where it is another
    CaseFold,    \* str.casefold of a character, where it is another
    FinalCase,   \* how Rust lowers a character at the end of a word instead
    Letter,      \* the letters
    Blank        \* the characters of str.isspace

Space == "space"
Tab == "tab"
Meta == "meta"            \* space_char
EscapePrefix == "E000"    \* _ESCAPE_PREFIX
EscapedMeta == "E001"     \* _ESCAPED_METASPACE

UnicodeSpaces == {"nbsp", "ogham"}
PunctMap == [c \in {"quote", "dots"} |-> IF c = "quote" THEN <<"'">> ELSE <<".", ".", ".">>]

(* What a table makes of the characters it has. *)
Mapped(table, c) == IF c \in DOMAIN table THEN table[c] ELSE <<c>>

MapText(table, text) == FlattenSeq([i \in DOMAIN text |-> Mapped(table, text[i])])

-----------------------------------------------------------------------------
(* unicodedata.normalize("NFKC"): decompose, order the marks, compose.     *)
Class(c) == IF c \in DOMAIN MarkClass THEN MarkClass[c] ELSE 0

Ordered(text) ==
    LET order[k \in 0..Len(text)] ==
            IF k = 0 THEN <<>>
            ELSE LET out == order[k - 1]
                     after == {i \in DOMAIN out : \A j \in i..Len(out) : Class(out[j]) > Class(text[k])}
                     at == IF Class(text[k]) = 0 THEN Len(out) ELSE Len(out) - Cardinality(after)
                 IN  InsertAt(out, at + 1, text[k])
    IN  order[Len(text)]

Composed(text) ==
    LET compose[k \in 0..Len(text)] ==
            IF k = 0 THEN <<>>
            ELSE LET out == compose[k - 1]
                     c == text[k]
                     base == SelectLastInSeq(out, LAMBDA d : Class(d) = 0)
                     near == base = Len(out) \/ Class(out[Len(out)]) < Class(c)
                 IN  IF base > 0 /\ near /\ <<out[base], c>> \in DOMAIN Composite
                     THEN [out EXCEPT ![base] = Composite[<<out[base], c>>]]
                     ELSE Append(out, c)
    IN  compose[Len(text)]

Nfkc(text) == Composed(Ordered(MapText(Compat, text)))

-----------------------------------------------------------------------------
Units(text) == [i \in DOMAIN text |-> <<text[i], <<i - 1, i>>>>]
Text(units) == [i \in DOMAIN units |-> units[i][1]]
Alignment(units) == [i \in DOMAIN units |-> units[i][2]]

PrefixLengths(text) == [i \in 0..Len(text) |-> Len(Nfkc(SubSeq(text, 1, i)))]

BugGrowOnly(spans, i, lengths) ==
    [k \in DOMAIN spans |-> IF k \in (lengths[i] + 1)..lengths[i + 1] THEN <<i, i + 1>> ELSE spans[k]]

(* A raw character that makes its prefix longer is the source of what is   *)
(* new; one that does not is added to what ended before it.                *)
Attribute(spans, i, lengths) ==
    [k \in DOMAIN spans |->
        IF lengths[i + 1] > lengths[i]
        THEN IF k \in (lengths[i] + 1)..lengths[i + 1] THEN <<i, i + 1>> ELSE spans[k]
        ELSE IF k <= lengths[i] /\ spans[k][2] = i THEN <<spans[k][1], i + 1>> ELSE spans[k]]

NfkcSpans(text, length) ==
    LET lengths == PrefixLengths(text)
        after[i \in 0..Len(text)] ==
            IF i = 0 THEN [k \in 1..length |-> <<0, 0>>] ELSE Attribute(after[i - 1], i - 1, lengths)
        spans == after[Len(text)]
    IN  [k \in 1..length |-> IF spans[k][1] = spans[k][2] THEN <<0, Len(text)>> ELSE spans[k]]

NfkcUnits(text) ==
    LET normalized == Nfkc(text)
    IN  IF normalized = text THEN Units(text)
        ELSE LET spans == NfkcSpans(text, Len(normalized))
             IN  [k \in DOMAIN normalized |-> <<normalized[k], spans[k]>>]

(* A prefix that is longer than the whole: _nfkc_units assigns to an index *)
(* that is not there and raises; the loops of normalizer.rs stop before.   *)
Shrinks(text) == \E i \in 0..Len(text) : PrefixLengths(text)[i] > Len(Nfkc(text))

-----------------------------------------------------------------------------
(* normalize_with_alignment, step by step. *)
MapUnits(table, units) ==
    FlattenSeq([i \in DOMAIN units |->
                   LET to == Mapped(table, units[i][1]) IN [j \in DOMAIN to |-> <<to[j], units[i][2]>>]])

ReplaceSpaces(units) ==
    [i \in DOMAIN units |-> <<IF units[i][1] \in UnicodeSpaces THEN Space ELSE units[i][1], units[i][2]>>]

Collapsible(c) == c \in {Space, Tab}

(* A run of spaces and tabs becomes one space with the span of the run. *)
Collapse(units) ==
    LET run(i) == {j \in i..Len(units) : \A k \in i..j : Collapsible(units[k][1])}
        first(i) == i = 1 \/ ~Collapsible(units[i - 1][1])
        kept == SelectSeq([i \in DOMAIN units |-> i], LAMBDA i : ~Collapsible(units[i][1]) \/ first(i))
    IN  [k \in DOMAIN kept |->
            LET i == kept[k]
            IN  IF Collapsible(units[i][1])
                THEN <<Space, <<units[i][2][1], units[Max(run(i))][2][2]>>>>
                ELSE units[i]]

Strip(units) ==
    LET full == {i \in DOMAIN units : units[i][1] \notin Blank}
    IN  IF full = {} THEN <<>> ELSE SubSeq(units, Min(full), Max(full))

BugEscape(units) ==
    FlattenSeq([i \in DOMAIN units |->
        LET same(text) == [j \in DOMAIN text |-> <<text[j], units[i][2]>>]
        IN  CASE units[i][1] = Meta         -> same(<<EscapePrefix, EscapedMeta>>)
              [] units[i][1] = Space        -> same(<<Meta>>)
              [] OTHER                      -> same(<<units[i][1]>>)])

(* Metaspace stands for the space, so a metaspace of the text is escaped,  *)
(* and the prefix of the escape with it.                                   *)
Escape(units) ==
    FlattenSeq([i \in DOMAIN units |->
        LET same(text) == [j \in DOMAIN text |-> <<text[j], units[i][2]>>]
        IN  CASE units[i][1] = EscapePrefix -> same(<<EscapePrefix, EscapePrefix>>)
              [] units[i][1] = Meta         -> same(<<EscapePrefix, EscapedMeta>>)
              [] units[i][1] = Space        -> same(<<Meta>>)
              [] OTHER                      -> same(<<units[i][1]>>)])

(* The settings: unicode, spaces, punctuation, collapse and strip are      *)
(* flags; case is "keep", "lower" or "fold".                               *)
Visible(text, settings) ==
    LET canonical == IF settings.unicode THEN NfkcUnits(text) ELSE Units(text)
        spaces(units) == IF settings.spaces THEN ReplaceSpaces(units) ELSE units
        punctuation(units) == IF settings.punctuation THEN MapUnits(PunctMap, units) ELSE units
        case(units) == CASE settings.case = "lower" -> MapUnits(LowerCase, units)
                         [] settings.case = "fold"  -> MapUnits(CaseFold, units)
                         [] OTHER                   -> units
        collapse(units) == IF settings.collapse THEN Collapse(units) ELSE units
        strip(units) == IF settings.strip THEN Strip(units) ELSE units
    IN  strip(collapse(case(punctuation(spaces(canonical)))))

NormalizeWithAlignment(text, settings) == Escape(Visible(text, settings))

-----------------------------------------------------------------------------
(* normalize_inner: the characters alone, a text at a time. *)
EscapeTable ==
    [c \in {EscapePrefix, Meta, Space} |->
        CASE c = EscapePrefix -> <<EscapePrefix, EscapePrefix>>
          [] c = Meta -> <<EscapePrefix, EscapedMeta>>
          [] OTHER -> <<Meta>>]

CollapseText(text) ==
    FlattenSeq([i \in DOMAIN text |->
        IF ~Collapsible(text[i]) THEN <<text[i]>>
        ELSE IF i > 1 /\ Collapsible(text[i - 1]) THEN <<>>
        ELSE <<Space>>])

TrimText(text) ==
    LET start == SelectInSeq(text, LAMBDA c : c \notin Blank)
        end == SelectLastInSeq(text, LAMBDA c : c \notin Blank)
    IN  IF start = 0 THEN <<>> ELSE SubSeq(text, start, end)

SpacesText(text) == [i \in DOMAIN text |-> IF text[i] \in UnicodeSpaces THEN Space ELSE text[i]]

(* str::to_lowercase looks at the neighbours (a final sigma); Python and    *)
(* normalize_with_alignment lower one character at a time.                 *)
EndsWord(text, i) ==
    i > 1 /\ text[i - 1] \in Letter /\ (i = Len(text) \/ text[i + 1] \notin Letter)

LowerText(text) ==
    FlattenSeq([i \in DOMAIN text |->
        IF text[i] \in DOMAIN FinalCase /\ EndsWord(text, i) THEN FinalCase[text[i]] ELSE Mapped(LowerCase, text[i])])

NormalizeInner(text, settings) ==
    LET canonical == IF settings.unicode THEN Nfkc(text) ELSE text
        spaces(s) == IF settings.spaces THEN SpacesText(s) ELSE s
        punctuation(s) == IF settings.punctuation THEN MapText(PunctMap, s) ELSE s
        case(s) == IF settings.case = "lower" THEN LowerText(s) ELSE s
        collapse(s) == IF settings.collapse THEN CollapseText(s) ELSE s
        trim(s) == IF settings.strip THEN TrimText(s) ELSE s
    IN  MapText(EscapeTable, trim(collapse(case(punctuation(spaces(canonical))))))

-----------------------------------------------------------------------------
(* RegexPreTokenizer: the normalised text is cut by a regular expression,  *)
(* and the cuts are moved out of grapheme clusters.  Of the alternatives   *)
(* of the expression those for special tokens, words, numbers, metaspaces, *)
(* whitespace and punctuation are here; URLs, addresses, tags, emoji, CJK  *)
(* and hexadecimal numbers are not.                                        *)

CONSTANTS
    Digit,     \* the decimal digits
    Mark,      \* the combining marks, \p{M}
    Format,    \* the format characters, \p{Cf}
    Listed,    \* the characters that the scan for clusters names one by one
    Extend,    \* what belongs to the character before it
    Prepend,   \* what belongs to the character behind it
    Control    \* the controls, which no cluster holds

(* The settings: a preset decides how numbers are cut (chunkSize 0 is      *)
(* None).                                                                  *)
DefaultPre == [splitDigits |-> FALSE, chunkSize |-> 0, chunking |-> "block3", splitPunctuation |-> TRUE,
               keepSpecials |-> TRUE]

WithPreset(pre, preset) ==
    CASE preset = "math"                         -> [pre EXCEPT !.splitDigits = TRUE, !.chunkSize = 0]
      [] preset \in {"code", "llama3", "gpt4"}   -> [pre EXCEPT !.splitDigits = FALSE, !.chunkSize = 3]
      [] OTHER                                   -> pre

(* The core has one expression only. *)
NativePretokParity(pre) == pre = DefaultPre

(* The end of <|name|> from i, or 0. *)
SpecialEnd(text, i) ==
    LET close == SelectInSubSeq(text, i + 2, Len(text), LAMBDA c : c \in Blank \cup {"|"})
    IN  IF /\ i + 4 <= Len(text) /\ text[i] = "<" /\ text[i + 1] = "|"
           /\ close > i + 2 /\ close < Len(text) /\ text[close] = "|" /\ text[close + 1] = ">"
        THEN close + 1 ELSE 0

(* The end of the longest run from i of characters in set, or i - 1. *)
RunEnd(text, i, set) ==
    LET end == SelectInSubSeq(text, i, Len(text), LAMBDA c : c \notin set)
    IN  IF i > Len(text) THEN i - 1 ELSE IF end = 0 THEN Len(text) ELSE end - 1

(* Letters, with apostrophes between them. *)
WordEnd(text, i) ==
    LET inside(k) == text[k] = "'" /\ k > i /\ k < Len(text) /\ text[k - 1] \in Letter /\ text[k + 1] \in Letter
    IN  Max({k \in i..Len(text) : \A j \in i..k : text[j] \in Letter \/ inside(j)} \cup {i - 1})

(* Numbers in blocks, of three digits if nothing else is said. *)
BlockSize(pre) ==
    IF pre.splitDigits \/ pre.chunking = "single" THEN 1
    ELSE IF pre.chunkSize = 0 THEN 3 ELSE pre.chunkSize

NumberEnd(text, i, pre) ==
    LET run == RunEnd(text, i, Digit)
    IN  IF pre.chunking = "greedy" /\ ~pre.splitDigits THEN run
        ELSE Min({run, i + BlockSize(pre) - 1})

(* What is left over: one by one, or in runs. *)
PunctuationEnd(text, i, pre) ==
    LET other(c) == c \notin Letter \cup Digit \cup Blank \cup {Meta}
    IN  IF pre.splitPunctuation THEN i
        ELSE Max({k \in i..Len(text) : \A j \in i..k : other(text[j])})

(* The first alternative that matches at i decides. *)
MatchEnd(text, i, pre) ==
    LET body == IF text[i] = Meta THEN i + 1 ELSE i
        word == WordEnd(text, body)
        number == NumberEnd(text, body, pre)
    IN  CASE pre.keepSpecials /\ SpecialEnd(text, i) > 0 -> SpecialEnd(text, i)
          [] word >= body            -> word
          [] number >= body          -> number
          [] text[i] = Meta          -> RunEnd(text, i, {Meta})
          [] text[i] \in Blank       -> RunEnd(text, i, Blank)
          [] OTHER                   -> PunctuationEnd(text, i, pre)

(* re.finditer; as spans. *)
Matches(text, pre) ==
    LET from[i \in 1..(Len(text) + 1)] ==
            IF i > Len(text) THEN <<>>
            ELSE LET end == MatchEnd(text, i, pre) IN <<<<i - 1, end>>>> \o from[end + 1]
    IN  from[1]

-----------------------------------------------------------------------------
(* The boundaries of grapheme clusters (UAX 29): controls stand alone, but *)
(* a line feed belongs to a carriage return.                               *)
Boundaries(text) ==
    {k \in 0..Len(text) :
        k \in 1..(Len(text) - 1) =>
            /\ text[k + 1] \in Extend => text[k] \in Control
            /\ text[k] \in Prepend => text[k + 1] \in Control
            /\ ~(text[k] = "cr" /\ text[k + 1] = "lf")}

(* The scan goes by the categories of characters, not by what they join.   *)
ClusterCapable(text) == \E i \in DOMAIN text : text[i] \in Mark \cup Format \cup Listed

SnapNeedsFullPass(text, spans) ==
    \/ ClusterCapable(text)
    \/ \E i \in DOMAIN spans, k \in 1..(Len(text) - 1) :
          (k = spans[i][1] \/ k = spans[i][2]) /\ text[k] = "cr" /\ text[k + 1] = "lf"

(* From a span i that reaches to end: the spans that begin before the end  *)
(* are taken in, and the end moves up with theirs.                         *)
Absorb(spans, i, end, up(_)) ==
    LET grown[j \in i..Len(spans)] ==
            IF j = i THEN [last |-> i, end |-> end]
            ELSE LET so == grown[j - 1]
                 IN  IF so.last < j - 1 \/ spans[j][1] >= so.end THEN so
                     ELSE [last |-> j, end |-> IF spans[j][2] > so.end THEN up(spans[j][2]) ELSE so.end]
    IN  grown[Len(spans)]

(* A loop over spans that gives out spans and jumps ahead. *)
Sweep(spans, step(_, _)) ==
    LET after[i \in 0..Len(spans)] ==
            IF i = 0 THEN [out |-> <<>>, next |-> 1]
            ELSE LET so == after[i - 1] IN IF i < so.next THEN so ELSE step(so.out, i)
    IN  after[Len(spans)].out

MergeOverlappingSpans(spans) ==
    Sweep(spans, LAMBDA out, i :
        LET a == Absorb(spans, i, spans[i][2], LAMBDA e : e)
        IN  [out |-> Append(out, <<spans[i][1], a.end>>), next |-> a.last + 1])

(* A span that begins inside a cluster goes to the one before; every end   *)
(* moves up to a boundary; a mark at the very start takes the next span.   *)
FullPass(text, spans) ==
    LET boundaries == Boundaries(text)
        up(e) == Min({b \in boundaries : b >= e})
        step(out, i) ==
            LET start == spans[i][1]
                a == Absorb(spans, i, up(spans[i][2]), up)
                joined == Absorb(spans, i, up(Max({out[Len(out)][2], spans[i][2]})), up)
                orphan == Absorb(spans, a.last + 1, up(spans[a.last + 1][2]), up)
            IN  IF start \notin boundaries /\ out # <<>>
                THEN [out |-> [out EXCEPT ![Len(out)] = <<@[1], joined.end>>], next |-> joined.last + 1]
                ELSE IF out = <<>> /\ text[start + 1] \in Mark /\ a.last < Len(spans)
                THEN [out |-> <<<<start, orphan.end>>>>, next |-> orphan.last + 1]
                ELSE [out |-> Append(out, <<start, a.end>>), next |-> a.last + 1]
    IN  Sweep(spans, step)

SnapSpansToGraphemes(text, spans) ==
    IF SnapNeedsFullPass(text, spans) THEN FullPass(text, spans) ELSE MergeOverlappingSpans(spans)

-----------------------------------------------------------------------------
Chunk(text, span) == SubSeq(text, span[1] + 1, span[2])

(* What the alignment says of a span: from the first source to the last. *)
Cover(sources) ==
    <<Min({sources[i][1] : i \in DOMAIN sources}), Max({sources[i][2] : i \in DOMAIN sources})>>

PreTokenize(text, pre) ==
    LET cut(spans) == [i \in DOMAIN spans |-> Chunk(text, spans[i])]
    IN  cut(SnapSpansToGraphemes(text, Matches(text, pre)))

PreTokenizeWithOffsets(text, alignment, pre) ==
    LET cut(spans) ==
            [i \in DOMAIN spans |->
                [text |-> Chunk(text, spans[i]), span |-> spans[i],
                 rawSpan |-> Cover(SubSeq(alignment, spans[i][1] + 1, spans[i][2]))]]
    IN  cut(SnapSpansToGraphemes(text, Matches(text, pre)))
================================================================================
