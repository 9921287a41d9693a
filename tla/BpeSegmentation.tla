---------------------------- MODULE BpeSegmentation ----------------------------
(***************************************************************************)
(* What BPEModel._encode_word_heap promises: as long as there is one, the  *)
(* leftmost pair of the lowest rank is joined.  Under dropout it may be    *)
(* left alone instead, and then stays so until one of its two symbols is   *)
(* joined to another, which makes it a different pair.                     *)
(***************************************************************************)
EXTENDS BpePairs

VARIABLES
    merges,   \* the pairs by their ranks
    start,    \* the symbols to begin with
    dropout,  \* whether dropout_prob is positive
    symbols,  \* what they have become
    dropped,  \* where the right symbol of a dropped pair begins
    phase     \* "idle", "encoding" or "encoded"

vars == <<start, dropout, symbols, dropped, phase>>

Init == phase = "idle" /\ symbols = <<>> /\ dropped = {}

(* Where a symbol begins, in symbols of the start.  Each of those is one   *)
(* letter, or a token no pair contains, so lengths tell.                   *)
Begins(i) ==
    LET at[j \in 1..i] == IF j = 1 THEN 1 ELSE at[j - 1] + Len(symbols[j - 1])
    IN  at[i]

Eligible ==
    {i \in 2..Len(symbols) :
        Rank(merges, <<symbols[i - 1], symbols[i]>>) > 0 /\ Begins(i) \notin dropped}

Chosen ==
    CHOOSE i \in Eligible : \A j \in Eligible :
        LET r == Rank(merges, <<symbols[i - 1], symbols[i]>>)
            s == Rank(merges, <<symbols[j - 1], symbols[j]>>)
        IN  r < s \/ (r = s /\ i <= j)

Start ==
    /\ phase = "idle"
    /\ phase' = "encoding"
    /\ symbols' = start'
    /\ dropped' = {}

Join ==
    /\ phase = "encoding" /\ Eligible # {}
    /\ LET i == Chosen
       IN  /\ symbols' = SubSeq(symbols, 1, i - 2) \o <<symbols[i - 1] \o symbols[i]>>
                             \o SubSeq(symbols, i + 1, Len(symbols))
           /\ dropped' = dropped \ {Begins(j) : j \in {i - 1, i, i + 1} \cap DOMAIN symbols}
    /\ UNCHANGED <<start, dropout, phase>>

Drop ==
    /\ phase = "encoding" /\ dropout /\ Eligible # {}
    /\ dropped' = dropped \cup {Begins(Chosen)}
    /\ UNCHANGED <<start, dropout, symbols, phase>>

Finish ==
    /\ phase = "encoding" /\ Eligible = {}
    /\ phase' = "encoded"
    /\ UNCHANGED <<start, dropout, symbols, dropped>>

Next == Start \/ Join \/ Drop \/ Finish

Spec == Init /\ [][Next]_vars /\ [][phase # "idle" => UNCHANGED merges]_merges
================================================================================
