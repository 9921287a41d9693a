------------------------------- MODULE Preparation -----------------------------
(***************************************************************************)
(* What happens to a raw text before it is normalised: SecurityShield      *)
(* (uniqtoken/security_shield.py) keeps, escapes, refuses or deletes the   *)
(* control tokens <|name|>, and IndentationCompressor                      *)
(* (uniqtoken/indentation_compressor.py) makes tokens of runs of spaces.   *)
(* A name is one character here.                                           *)
(***************************************************************************)
EXTENDS PreTokenizer

ControlToken(name) == <<"<", "|", name, "|", ">">>

-----------------------------------------------------------------------------
(* The matching blocks of difflib.SequenceMatcher for a[lo..hi] and        *)
(* b[from..to]: the longest, of those the first, and so on at both sides.  *)
Agree(a, i, b, j, k) == \A d \in 0..(k - 1) : a[i + d] = b[j + d]

LongestMatch(a, lo, hi, b, from, to) ==
    LET found == {<<i, j, k>> \in (lo..hi) \X (from..to) \X (1..(hi - lo + 1)) :
                    i + k - 1 <= hi /\ j + k - 1 <= to /\ Agree(a, i, b, j, k)}
    IN  IF found = {} THEN {}
        ELSE {CHOOSE m \in found : \A n \in found :
                m[3] > n[3] \/ (m[3] = n[3] /\ (m[1] < n[1] \/ (m[1] = n[1] /\ m[2] <= n[2])))}

(* The source of every character of b between the blocks: all of a there.  *)
Opcodes(a, b) ==
    LET sources[lo \in 1..(Len(a) + 1), hi \in 0..Len(a), from \in 1..(Len(b) + 1), to \in 0..Len(b)] ==
            IF from > to THEN <<>>
            ELSE LET match == LongestMatch(a, lo, hi, b, from, to)
                     m == CHOOSE m \in match : TRUE
                 IN  IF match = {} THEN [j \in 1..(to - from + 1) |-> <<lo - 1, hi>>]
                     ELSE sources[lo, m[1] - 1, from, m[2] - 1]
                          \o [d \in 1..m[3] |-> <<m[1] + d - 2, m[1] + d - 1>>]
                          \o sources[m[1] + m[3], hi, m[2] + m[3], to]
    IN  sources[1, Len(a), 1, Len(b)]

CanonicalizeWithAlignment(text) ==
    LET canonical == Nfkc(text)
    IN  IF canonical = text THEN Units(text)
        ELSE LET sources == Opcodes(text, canonical)
             IN  [i \in DOMAIN canonical |-> <<canonical[i], sources[i]>>]

-----------------------------------------------------------------------------
(* The control tokens of a canonical text, from left to right. *)
ControlTokens(text) ==
    LET from[i \in 1..(Len(text) + 1)] ==
            IF i > Len(text) THEN <<>>
            ELSE IF SpecialEnd(text, i) = 0 THEN from[i + 1]
            ELSE <<<<i - 1, SpecialEnd(text, i)>>>> \o from[SpecialEnd(text, i) + 1]
    IN  from[1]

AllowedSet(allowed, specials) ==
    CASE allowed = "all" -> specials
      [] allowed = "none" -> {}
      [] OTHER -> {ControlToken(allowed)}

NameOf(token) == SubSeq(token, 3, Len(token) - 2)
EscapeOf(token) == <<"<", "\\", "|">> \o NameOf(token) \o <<"\\", "|", ">">>

(* Where a control token of the canonical text is in the raw text. *)
SourceOf(canonical, span) == Cover(SubSeq(Alignment(canonical), span[1] + 1, span[2]))

(* append_literal: what is between the control tokens is not changed. *)
Literal(text, start, end) == SubSeq(Units(text), start + 1, end)

Refuses(text, allowed, action, specials) ==
    LET canonical == Nfkc(text)
        found == ControlTokens(canonical)
    IN  action = "raise" /\ \E i \in DOMAIN found : Chunk(canonical, found[i]) \notin AllowedSet(allowed, specials)

(* What becomes of the control tokens found in a canonical text. *)
Treat(text, canonical, found, allowed, action) ==
    LET source(i) == SourceOf(canonical, found[i])
        cursor(i) == IF i = 1 THEN 0 ELSE source(i - 1)[2]
        token(i) == Chunk(Text(canonical), found[i])
        kept(i) == SubSeq(canonical, found[i][1] + 1, found[i][2])
        escaped(i) == [j \in DOMAIN EscapeOf(token(i)) |-> <<EscapeOf(token(i))[j], source(i)>>]
        treated(i) == IF token(i) \in allowed THEN kept(i)
                      ELSE IF action = "escape" THEN escaped(i)
                      ELSE <<>>
    IN  FlattenSeq([i \in DOMAIN found |-> Literal(text, cursor(i), source(i)[1]) \o treated(i)])
        \o Literal(text, cursor(Len(found) + 1), Len(text))

(* sanitize_with_alignment; sanitize gives the same characters. *)
Sanitize(text, allowed, action, specials) ==
    LET treat(canonical) ==
            Treat(text, canonical, ControlTokens(Text(canonical)), AllowedSet(allowed, specials), action)
    IN  treat(CanonicalizeWithAlignment(text))

-----------------------------------------------------------------------------
IndentMap == <<<<16, "16">>, <<8, "8">>, <<4, "4">>, <<2, "2">>>>
TabToken == ControlToken("t")     \* <|tab|>
IndentTokens == {ControlToken(IndentMap[i][2]) : i \in DOMAIN IndentMap} \cup {TabToken}

(* The longest tokens of the vocabulary first, then single spaces; as      *)
(* units whose spans count from the start of the run.                      *)
CompressRun(start, length, vocab) ==
    LET token(m) == [j \in 1..5 |-> ControlToken(IndentMap[m][2])[j]]
        from[m \in 1..(Len(IndentMap) + 1), at \in start..(start + length)] ==
            IF m > Len(IndentMap) THEN [d \in 1..(start + length - at) |-> <<Space, <<at + d - 1, at + d>>>>]
            ELSE LET count == IndentMap[m][1]
                 IN  IF token(m) \in vocab /\ start + length - at >= count
                     THEN [j \in 1..5 |-> <<token(m)[j], <<at, at + count>>>>] \o from[m, at + count]
                     ELSE from[m + 1, at]
    IN  from[1, start]

CompressIndents(text, vocab) ==
    LET from[i \in 1..(Len(text) + 1)] ==
            IF i > Len(text) THEN <<>>
            ELSE IF text[i] = Tab /\ TabToken \in vocab
                 THEN [j \in 1..5 |-> <<TabToken[j], <<i - 1, i>>>>] \o from[i + 1]
            ELSE IF text[i] # Space THEN <<<<text[i], <<i - 1, i>>>>>> \o from[i + 1]
            ELSE LET end == RunEnd(text, i, {Space})
                 IN  CompressRun(i - 1, end - i + 1, vocab) \o from[end + 1]
    IN  from[1]

(* str.replace *)
Replaced(text, old, new) ==
    LET from[i \in 1..(Len(text) + Len(old))] ==
            IF i > Len(text) THEN <<>>
            ELSE IF i + Len(old) - 1 <= Len(text) /\ SubSeq(text, i, i + Len(old) - 1) = old
            THEN new \o from[i + Len(old)]
            ELSE <<text[i]>> \o from[i + 1]
    IN  from[1]

(* decompress_indents, one token after the other. *)
DecompressIndents(text) ==
    LET spaces(n) == [d \in 1..n |-> Space]
        after[m \in 0..Len(IndentMap)] ==
            IF m = 0 THEN Replaced(text, TabToken, <<Tab>>)
            ELSE Replaced(after[m - 1], ControlToken(IndentMap[m][2]), spaces(IndentMap[m][1]))
    IN  after[Len(IndentMap)]

-----------------------------------------------------------------------------
(* _compose_alignment: the sources of the sources. *)
ComposeAlignment(inner, outer) ==
    [i \in DOMAIN inner |-> Cover(SubSeq(outer, inner[i][1] + 1, inner[i][2]))]

WithSources(units, outer) ==
    LET sources == ComposeAlignment(Alignment(units), outer)
    IN  [i \in DOMAIN units |-> <<units[i][1], sources[i]>>]
================================================================================
