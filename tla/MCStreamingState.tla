--------------------------- MODULE MCStreamingState ----------------------------
(***************************************************************************)
(* A StreamingDecoder used by itself, or by a VLLMStreamingState           *)
(* (uniqtoken/integrations/vllm.py), which searches what it decodes for    *)
(* stop strings: the chunks are whatever text a token makes certain.       *)
(***************************************************************************)
EXTENDS StreamingDecoder, StopStringStream

VARIABLE
    direct    \* whether the decoder is used by itself

streamVars == <<direct, decoderVars, textVars>>

StreamInit ==
    /\ direct \in BOOLEAN
    /\ DecoderInit
    /\ TextInit
    /\ direct => stopStrings = <<>> /\ ~include

UseDecoder ==
    /\ direct
    /\ (\E t \in Tokens : FeedTokenId(t)) \/ Flush \/ Reset
    /\ UNCHANGED <<direct, textVars>>

(* A bound: which streams have which stop strings. *)
StopsInBounds(ts) ==
    \E s \in Streams : stopStrings \in s.stops /\ Len(ts) <= s.length /\ \A i \in DOMAIN ts : ts[i] \in s.tokens

(* VLLMStreamingState.step; once finished it returns ("", True). *)
Step(t) ==
    /\ ~direct
    /\ StopsInBounds(Append(fed, t))
    /\ FeedTokenId(t)
    /\ StepText(From(emitted', Len(emitted)))
    /\ UNCHANGED direct

(* VLLMStreamingState.flush: what the decoder still holds is searched, too. *)
FlushState ==
    /\ ~direct
    /\ Flush
    /\ FinishText(FlushText)
    /\ UNCHANGED direct

StreamNext == UseDecoder \/ (\E t \in Tokens : Step(t)) \/ FlushState

--------------------------------------------------------------------------------
(***************************************************************************)
(* The real space and escape characters, U+2581, U+E000 and U+E001, whose  *)
(* bytes come as byte tokens and as text; and every list of one or two     *)
(* stop strings of one to three of two letters, in chunks of up to two.    *)
(***************************************************************************)
MCSpaceChar == <<226, 150, 129>>
MCPrefix == <<238, 128, 128>>
MCEscaped == <<238, 128, 129>>
a == <<97>>
b == <<98>>

Byte(n) == [kind |-> "byte", byte |-> n]
Piece(s) == [kind |-> "text", text |-> s]
Indent == [kind |-> "replaced", text |-> <<Space, Space>>]
Skipped == [kind |-> "skipped"]

(* Escape pairs in bytes, in text, and split over tokens.                  *)
EscapeTokens ==
    {Byte(n) : n \in {128, 129, 238}}
        \cup {Piece(<<MCPrefix>>), Piece(<<MCEscaped, a>>), Indent, Skipped}

(* Every kind of lead byte, and second bytes that it allows and forbids.   *)
Utf8Tokens ==
    {Byte(n) : n \in {127, 128, 144, 160, 191, 194, 224, 237, 240, 244, 255}}
        \cup {Piece(<<MCSpaceChar, a>>), Skipped}

Strings == BoundedSeq({a, b}, 3) \ {<<>>}
OneOrTwoStops == {<<s>> : s \in Strings} \cup {<<s, t>> : s, t \in Strings}

(* Stop strings that the decoder's own characters make. *)
DecoderStops ==
    {<<>>, <<<<Space, Space>>>>, <<<<MCSpaceChar, a>>>>, <<<<MCPrefix>>, <<MCPrefix, MCSpaceChar>>>>, <<<<Replacement, a>>, <<Replacement, Replacement>>>>}

MCStreams ==
    {[tokens |-> EscapeTokens, length |-> 5, stops |-> {<<>>}],
     [tokens |-> EscapeTokens, length |-> 3, stops |-> DecoderStops],
     [tokens |-> Utf8Tokens, length |-> 4, stops |-> {<<>>}],
     [tokens |-> Utf8Tokens, length |-> 2, stops |-> DecoderStops],
     [tokens |-> {Piece(<<a>>), Piece(<<b>>)}, length |-> 5, stops |-> OneOrTwoStops],
     [tokens |-> {Piece(<<c, d>>) : c, d \in {a, b}} \cup {Piece(<<a>>), Piece(<<b>>)}, length |-> 3,
      stops |-> {<<s>> : s \in Strings} \cup {<<s, t>> : s, t \in BoundedSeq({a, b}, 2) \ {<<>>}}]}
MCStopLists == OneOrTwoStops \cup DecoderStops
================================================================================
