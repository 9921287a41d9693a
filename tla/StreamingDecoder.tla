----------------------------- MODULE StreamingDecoder -----------------------------
(***************************************************************************)
(* StreamingDecoder (uniqtoken/streaming_decoder.py): token ids come one   *)
(* by one, text goes out as soon as it is certain.  Byte tokens gather in  *)
(* an incremental UTF-8 decoder until they make a character; an escape     *)
(* prefix waits for the character it escapes.  The reference is decode()   *)
(* of the whole sequence (uniqtoken/byte_codec.py, tokenizer.py), with     *)
(* errors="replace" where decode() refuses malformed bytes.                *)
(*                                                                         *)
(* A character is the sequence of its UTF-8 bytes; a text is a sequence of *)
(* characters; a token is a record of its kind and its byte or its text.   *)
(***************************************************************************)
EXTENDS Naturals, Sequences, SequencesExt

CONSTANTS
    Streams,    \* bound: records of tokens, length and stops; a stream has at
                \* most that many of those tokens
    SpaceChar,  \* space_char
    Prefix,     \* metaspace_escape[0]
    Escaped     \* metaspace_escape[1]

Space == <<32>>
Replacement == <<239, 191, 189>>  \* U+FFFD

(* Kinds: a byte token; a piece of text; a special token that is skipped;  *)
(* a special token with a replacement text (of IndentationCompressor).     *)
IsToken(t) ==
    \/ (t.kind = "byte" /\ t.byte \in 0..255)
    \/ (t.kind \in {"text", "replaced"} /\ t.text \in Seq(Seq(0..255)))
    \/ t.kind = "skipped"

Tokens == UNION {s.tokens : s \in Streams}

ASSUME StreamsAssumption ==
    (\A t \in Tokens : IsToken(t)) /\ \A s \in Streams : s.length \in Nat

InBounds(ts) ==
    \E s \in Streams : Len(ts) <= s.length /\ \A i \in DOMAIN ts : ts[i] \in s.tokens

VARIABLES
    pending,        \* the bytes the incremental decoder holds
    pendingEscape,  \* _pending_escape: <<>> or <<Prefix>>
    fed,            \* history: the tokens of this stream
    emitted         \* history: the text given out for them

decoderVars == <<pending, pendingEscape, fed, emitted>>

--------------------------------------------------------------------------------
(* UTF-8: the number of bytes a lead byte asks for, and the bytes that may *)
(* follow it; a sequence that is well formed so far.                       *)
Length(lead) == CASE lead < 128 -> 1
                  [] lead \in 194..223 -> 2
                  [] lead \in 224..239 -> 3
                  [] lead \in 240..244 -> 4
                  [] OTHER -> 0
Second(lead) == CASE lead = 224 -> 160..191
                  [] lead = 237 -> 128..159
                  [] lead = 240 -> 144..191
                  [] lead = 244 -> 128..143
                  [] OTHER -> 128..191
WellFormed(bs) ==
    /\ bs # <<>> /\ Len(bs) <= Length(bs[1])
    /\ \A i \in 2..Len(bs) : bs[i] \in IF i = 2 THEN Second(bs[1]) ELSE 128..191
Complete(bs) == WellFormed(bs) /\ Len(bs) = Length(bs[1])

(* _utf8_decoder.decode(byte, final=False) and its except branch: the text *)
(* and the bytes held afterwards.  A malformed sequence is replaced once,  *)
(* and the byte that broke it starts afresh.                               *)
DecodeByte(held, b) ==
    LET bs == Append(held, b)
        fresh == <<b>>
        broken == IF held = <<>> THEN <<>> ELSE <<Replacement>>
    IN  CASE Complete(bs) -> [text |-> <<bs>>, held |-> <<>>]
          [] WellFormed(bs) /\ ~Complete(bs) -> [text |-> <<>>, held |-> bs]
          [] ~WellFormed(bs) /\ Complete(fresh) -> [text |-> Append(broken, fresh), held |-> <<>>]
          [] ~WellFormed(bs) /\ ~Complete(fresh) /\ WellFormed(fresh) -> [text |-> broken, held |-> fresh]
          [] OTHER -> [text |-> Append(broken, Replacement), held |-> <<>>]

(* _emit_text: the text with the held prefix before it is unescaped; a     *)
(* prefix at the very end is held.                                         *)
Unescape(text, hold) ==
    LET from[i \in 1..(Len(text) + 1)] ==
          IF i > Len(text) THEN <<>>
          ELSE IF text[i] # Prefix THEN <<text[i]>> \o from[i + 1]
          ELSE IF i = Len(text) THEN (IF hold THEN <<>> ELSE <<Prefix>>)
          ELSE IF text[i + 1] = Prefix THEN <<Prefix>> \o from[i + 2]
          ELSE IF text[i + 1] = Escaped THEN <<SpaceChar>> \o from[i + 2]
          ELSE <<Prefix>> \o from[i + 1]
    IN  from[1]

(* Whether a prefix at the end of the text is left without its partner.    *)
HangingPrefix(text) ==
    LET hangs[i \in 1..(Len(text) + 1)] ==
          IF i > Len(text) THEN FALSE
          ELSE IF text[i] # Prefix THEN hangs[i + 1]
          ELSE IF i = Len(text) THEN TRUE
          ELSE IF text[i + 1] \in {Prefix, Escaped} THEN hangs[i + 2]
          ELSE hangs[i + 1]
    IN  hangs[1]

(* A bug: the prefix that was held is forgotten when text follows. *)
BugForgetEscape(escape, text) ==
    [text |-> Unescape(text, TRUE),
     escape |-> IF HangingPrefix(text) THEN <<Prefix>> ELSE <<>>]

EmitText(escape, text) ==
    [text |-> Unescape(escape \o text, TRUE),
     escape |-> IF HangingPrefix(escape \o text) THEN <<Prefix>> ELSE <<>>]

--------------------------------------------------------------------------------
Spaces(text) == [i \in DOMAIN text |-> IF text[i] = SpaceChar THEN Space ELSE text[i]]

(* _force_flush_buffer: an incomplete sequence becomes one replacement.    *)
ForcedOut == IF pending = <<>> THEN <<>> ELSE <<Replacement>>

DecoderInit ==
    /\ pending = <<>> /\ pendingEscape = <<>>
    /\ fed = <<>> /\ emitted = <<>>

Emit(escape, text) ==
    /\ emitted' = emitted \o EmitText(escape, text).text
    /\ pendingEscape' = EmitText(escape, text).escape

(* A bug: text goes past the bytes that are held. *)
BugTextPassesBytes(t) ==
    /\ t.kind \in {"text", "replaced"}
    /\ UNCHANGED pending
    /\ Emit(pendingEscape, IF t.kind = "text" THEN Spaces(t.text) ELSE t.text)

(* feed_token_id: a skipped special token leaves the held bytes alone.     *)
FeedByte(t) ==
    /\ t.kind = "byte"
    /\ pending' = DecodeByte(pending, t.byte).held
    /\ Emit(pendingEscape, DecodeByte(pending, t.byte).text)

FeedText(t) ==
    /\ t.kind \in {"text", "replaced"}
    /\ pending' = <<>>
    /\ Emit(pendingEscape, ForcedOut \o (IF t.kind = "text" THEN Spaces(t.text) ELSE t.text))

FeedSkipped(t) ==
    /\ t.kind = "skipped"
    /\ UNCHANGED <<pending, pendingEscape, emitted>>

FeedTokenId(t) ==
    /\ InBounds(Append(fed, t))
    /\ \/ FeedByte(t)
       \/ FeedText(t)
       \/ FeedSkipped(t)
    /\ fed' = Append(fed, t)

(* flush: what is held goes out, and the decoder can be used again.        *)
FlushText == EmitText(pendingEscape, ForcedOut).text \o EmitText(pendingEscape, ForcedOut).escape
Flush ==
    /\ fed # <<>>
    /\ pending' = <<>> /\ pendingEscape' = <<>>
    /\ fed' = <<>> /\ emitted' = <<>>

(* reset: the stream is given up. *)
Reset ==
    /\ fed # <<>>
    /\ pending' = <<>> /\ pendingEscape' = <<>>
    /\ fed' = <<>> /\ emitted' = <<>>

--------------------------------------------------------------------------------
(* decode() of a whole sequence without the skipped tokens: adjacent byte  *)
(* tokens are decoded together, each maximal malformed piece replaced once *)
(* (the longest well-formed start, or one byte), and the escapes restored  *)
(* over the whole text.                                                    *)
CutAt(bs) ==
    IF \E n \in 1..Len(bs) : WellFormed(SubSeq(bs, 1, n))
    THEN CHOOSE n \in 1..Len(bs) : /\ WellFormed(SubSeq(bs, 1, n))
                                   /\ n < Len(bs) => ~WellFormed(SubSeq(bs, 1, n + 1))
    ELSE 1
DecodeBytes(bs) ==
    LET from[i \in 1..(Len(bs) + 1)] ==
          IF i > Len(bs) THEN <<>>
          ELSE LET rest == SubSeq(bs, i, Len(bs))
                   piece == SubSeq(rest, 1, CutAt(rest))
               IN  <<IF Complete(piece) THEN piece ELSE Replacement>> \o from[i + Len(piece)]
    IN  from[1]

IsByte(t) == t.kind = "byte"
DecodeTokens(ts) ==
    LET run(i) == IF \E j \in i..Len(ts) : ~IsByte(ts[j])
                  THEN (CHOOSE j \in i..Len(ts) : ~IsByte(ts[j]) /\ \A k \in i..(j - 1) : IsByte(ts[k])) - i
                  ELSE Len(ts) + 1 - i
        from[i \in 1..(Len(ts) + 1)] ==
          IF i > Len(ts) THEN <<>>
          ELSE IF IsByte(ts[i])
          THEN DecodeBytes([j \in 1..run(i) |-> ts[i + j - 1].byte]) \o from[i + run(i)]
          ELSE (IF ts[i].kind = "text" THEN Spaces(ts[i].text) ELSE ts[i].text) \o from[i + 1]
    IN  from[1]
Decode(ts) == Unescape(DecodeTokens(SelectSeq(ts, LAMBDA t : t.kind # "skipped")), FALSE)

(* A stream that is flushed now, the first or a later one of the same      *)
(* decoder, has given the text of decode(): characters split over byte     *)
(* tokens, escape pairs split over tokens, malformed bytes, skipped and    *)
(* replaced tokens.                                                        *)
StreamMatchesDecode == emitted \o FlushText = Decode(fed)

(* Nothing is given out that would have to be taken back, and nothing is   *)
(* held that is certain: what went out is a beginning of what decode()     *)
(* makes of the tokens so far, and all of it when nothing is held.         *)
EmittedIsCertain ==
    /\ \A t \in Tokens : IsPrefix(emitted, Decode(Append(fed, t)))
    /\ pending = <<>> /\ pendingEscape = <<>> => emitted = Decode(fed)
================================================================================
