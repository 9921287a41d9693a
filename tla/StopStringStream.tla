---------------------------- MODULE StopStringStream ----------------------------
(***************************************************************************)
(* One VLLMStreamingState (uniqtoken/integrations/vllm.py): text arrives   *)
(* in chunks whose borders mean nothing, and must be returned as early as  *)
(* possible but cut at the first stop string.  A step searches for a       *)
(* complete stop string in a window that reaches back before the text      *)
(* already returned, and otherwise holds back the longest suffix that      *)
(* could still become one.                                                 *)
(* A chunk is what one token adds to decoded_text.  Positions are numbers  *)
(* of characters before a place, as in Python.                             *)
(***************************************************************************)
EXTENDS Integers, Sequences, SequencesExt

CONSTANTS
    StopLists    \* the lists of stop strings a request may have

ASSUME StopStringAssumption == \A l \in StopLists : \A i \in DOMAIN l : l[i] # <<>>

VARIABLES
    stopStrings,   \* stop_strings, empty ones already dropped
    include,       \* include_stop_str_in_output
    decoded,       \* decoded_text
    emittedLen,    \* emitted_len
    isFinished,    \* is_finished
    stopReason,    \* stop_reason: the stop string that ended the stream, or <<>>
    full,          \* history: all the text the decoder produced
    out            \* history: the deltas returned, joined

textVars == <<stopStrings, include, decoded, emittedLen, isFinished, stopReason, full, out>>

From(text, n) == SubSeq(text, n + 1, Len(text))
UpTo(text, n) == SubSeq(text, 1, n)

OccursAt(text, s, pos) ==
    /\ pos + Len(s) <= Len(text)
    /\ SubSeq(text, pos + 1, pos + Len(s)) = s

Occurs(text, s) == \E pos \in 0..Len(text) : OccursAt(text, s, pos)

(* Where the search for s starts: a stop string cannot begin further back  *)
(* than its length minus one before the text not yet returned.             *)
SearchStart(s, length) ==
    Max({0, length - (Len(s) - 1)})

(* str.find(s, start) of every stop string, as pairs of a position and the *)
(* index of the stop string in the list.                                   *)
StopMatches(text, stops, length) ==
    {m \in (0..Len(text)) \X DOMAIN stops :
        /\ m[1] >= SearchStart(stops[m[2]], length)
        /\ OccursAt(text, stops[m[2]], m[1])}

(* A bug: the stop string listed first wins, wherever it is. *)
BugFirstListedWins(ms) ==
    CHOOSE m \in ms : \A n \in ms : m[2] < n[2] \/ (m[2] = n[2] /\ m[1] <= n[1])

(* The earliest position wins, and of two stop strings found there the one *)
(* that is listed first.                                                   *)
Winner(ms) ==
    CHOOSE m \in ms : \A n \in ms : m[1] < n[1] \/ (m[1] = n[1] /\ m[2] <= n[2])

(* A bug: the shortest suffix that could become a stop string is held. *)
BugShortestPrefix(text, stops) ==
    LET lens == {k \in 1..Len(text) :
                    \E i \in DOMAIN stops :
                        k < Len(stops[i]) /\ IsSuffix(UpTo(stops[i], k), text)}
    IN  IF lens = {} THEN 0 ELSE Min(lens)

(* _find_longest_stop_prefix_len *)
Holdback(text, stops) ==
    LET lens == {k \in 1..Len(text) :
                    \E i \in DOMAIN stops :
                        k < Len(stops[i]) /\ IsSuffix(UpTo(stops[i], k), text)}
    IN  Max(lens \cup {0})

TextInit ==
    /\ stopStrings \in StopLists
    /\ include \in BOOLEAN
    /\ decoded = <<>>
    /\ emittedLen = 0
    /\ isFinished = FALSE
    /\ stopReason = <<>>
    /\ full = <<>>
    /\ out = <<>>

(* Return decoded_text from emitted_len to safe_len. *)
Return(text, safeLen) ==
    /\ emittedLen' = safeLen
    /\ out' = out \o SubSeq(text, emittedLen + 1, safeLen)

(* A complete stop string: truncate the text there and finish. *)
StopAt(text, m) ==
    LET s == stopStrings[m[2]]
        stopEnd == IF include THEN m[1] + Len(s) ELSE m[1]
        safeLen == Max({emittedLen, stopEnd})
    IN  /\ Return(text, safeLen)
        /\ decoded' = UpTo(text, safeLen)
        /\ isFinished' = TRUE
        /\ stopReason' = s

StepText(chunk) ==
    /\ ~isFinished
    /\ LET text == decoded \o chunk
           ms == StopMatches(text, stopStrings, emittedLen)
           safeLen == Len(text) - Holdback(text, stopStrings)
       IN  \/ /\ ms # {}
              /\ StopAt(text, Winner(ms))
           \/ /\ ms = {}
              /\ decoded' = text
              /\ IF safeLen > emittedLen THEN Return(text, safeLen)
                 ELSE UNCHANGED <<emittedLen, out>>
              /\ UNCHANGED <<isFinished, stopReason>>
    /\ full' = full \o chunk
    /\ UNCHANGED <<stopStrings, include>>

(* flush: what the decoder still had comes out; nothing is held back. *)
FinishText(chunk) ==
    /\ ~isFinished
    /\ LET text == decoded \o chunk
           ms == StopMatches(text, stopStrings, emittedLen)
       IN  \/ /\ ms # {}
              /\ StopAt(text, Winner(ms))
           \/ /\ ms = {}
              /\ decoded' = text
              /\ Return(text, Len(text))
              /\ isFinished' = TRUE
              /\ UNCHANGED stopReason
    /\ full' = full \o chunk
    /\ UNCHANGED <<stopStrings, include>>

(* The text of a stream, whatever decodes it: the chunks are any texts. *)
TextNext(Characters) ==
    \E chunk \in Seq(Characters) : StepText(chunk) \/ FinishText(chunk)

TextSpec(Characters) == TextInit /\ [][TextNext(Characters)]_textVars

--------------------------------------------------------------------------------
(* The text returned, followed by the stop string that ended the stream,   *)
(* is what was decoded up to the end of that stop string: the cut loses no *)
(* character before the stop string and has not let any character of it    *)
(* out in an earlier delta, wherever the chunk borders fell.               *)
CutIsAtTheStopString ==
    stopReason # <<>> =>
        LET text == IF include THEN out ELSE out \o stopReason
        IN  IsPrefix(text, full) /\ IsSuffix(stopReason, text)

(* Text is held back only as long as it may become a stop string: what a   *)
(* running stream has not returned is a proper prefix of one.              *)
OnlyStopPrefixesAreHeld ==
    ~isFinished =>
        /\ IsPrefix(out, full)
        /\ LET tail == From(full, Len(out))
           IN  tail # <<>> => \E i \in DOMAIN stopStrings : IsStrictPrefix(tail, stopStrings[i])

(* A stream flushed without meeting a stop string returned all its text. *)
FlushReturnsAll == isFinished /\ stopReason = <<>> => out = full

(* The deltas join to the text up to the stop string, and come as early as *)
(* the stop strings allow.                                                 *)
ReturnedTextIsExact == CutIsAtTheStopString /\ OnlyStopPrefixesAreHeld /\ FlushReturnsAll

(* No stop string is missed: while the stream goes on none has been        *)
(* decoded, and none is inside the text returned without its stop string.  *)
NoStopStringMissed ==
    \A i \in DOMAIN stopStrings :
        /\ ~isFinished => ~Occurs(full, stopStrings[i])
        /\ ~include \/ stopReason = <<>> => ~Occurs(out, stopStrings[i])
================================================================================
