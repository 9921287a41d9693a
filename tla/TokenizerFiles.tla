----------------------------- MODULE TokenizerFiles -----------------------------
(***************************************************************************)
(* CustomTokenizer.save and load (uniqtoken/tokenizer.py) on a directory,  *)
(* with export_binary and load_binary (uniqtoken/binary_format.py):        *)
(* tokenizer.json is written in place, tokenizer.uniqtok beside it and     *)
(* renamed into place, and load prefers the second.  One process saves,    *)
(* may fail at every file operation and may be killed between any two;     *)
(* another one loads meanwhile; and the binary file may get damaged.       *)
(*                                                                         *)
(* A tokenizer is its vocab (token to log probability), its ids, its       *)
(* settings, which both files hold as they are (special tokens, normalizer,*)
(* pre-tokenizer, chat template and the rest), and its merge engine.       *)
(* id_to_token is in neither file: it is made from the ids.  A temporary   *)
(* file is never opened by its name: it is not part of the state.          *)
(***************************************************************************)
EXTENDS Naturals, FiniteSets

CONSTANTS
    Strings,     \* what tokens are
    Scores,      \* log probabilities
    Tokenizers,  \* the tokenizers that are saved
    Single(_),   \* a log probability as a 32-bit float
    Narrow,      \* those that have one: for the others struct.pack raises
                 \* OverflowError
    Settings,
    Acceptable,  \* the settings that pass load_binary's checks of types
    Malformed,   \* a config section that was written over
    Engines,     \* names of merge engines
    Custom,      \* a merge engine that is an object: it has no name to save
    Nothing,     \* no merge engine, no answer
    MaxTokenizers  \* a bound: how many different tokenizers are saved

ASSUME FilesAssumption ==
    /\ \A t \in Tokenizers :
          \E V, I \in SUBSET Strings :
              /\ IsFiniteSet(I)
              /\ t \in [vocab : [V -> Scores], ids : [I -> Nat], settings : Settings,
                        engine : Engines \cup {Custom, Nothing}]
    /\ Malformed \notin Acceptable
    /\ Nothing \notin Engines /\ Custom \notin Engines \cup {Nothing}

VARIABLES
    json,     \* tokenizer.json
    binary,   \* tokenizer.uniqtok
    step,     \* what save does next, "idle" if it is not running
    saving,   \* the tokenizer it saves
    both,     \* save_binary
    started,  \* all tokenizers whose save has begun
    settled,  \* the tokenizer whose save was the last to begin, if it has
              \* returned, and was not to leave an older binary alone
    reader    \* a load: its step, arguments and result, and what was settled
              \* all the time it ran

filesVars == <<json, binary, step, saving, both, started, settled, reader>>

Absent == [state |-> "absent"]
Partial == [state |-> "partial"]

--------------------------------------------------------------------------------
(* The content of the files. *)

Saved(engine) == IF engine = Custom THEN Nothing ELSE engine

JsonOf(t) == [state |-> "whole", vocab |-> t.vocab, ids |-> t.ids, settings |-> t.settings,
              engine |-> Saved(t.engine)]

Resolved(argument, engine) == IF argument # Nothing THEN argument ELSE engine

FromJson(file, argument) ==
    [vocab |-> file.vocab, ids |-> file.ids, settings |-> file.settings,
     engine |-> Resolved(argument, file.engine)]

(* The strings are in the order of the ids, which must be 0..N-1; a bug    *)
(* forgets that a token of the vocab may have no id.                       *)
BugDenseIdsOnly(t) ==
    {t.ids[token] : token \in DOMAIN t.ids} = 0..(Cardinality(DOMAIN t.ids) - 1)

Exportable(t) ==
    /\ DOMAIN t.ids = DOMAIN t.vocab
    /\ {t.ids[token] : token \in DOMAIN t.ids} = 0..(Cardinality(DOMAIN t.ids) - 1)

Packable(t) == \A token \in DOMAIN t.vocab : t.vocab[token] \in Narrow

(* The sections: header, scores, offsets, strings and config. *)
Sections == 5

TokenAt(t, id) == CHOOSE token \in DOMAIN t.ids : t.ids[token] = id

BinaryOf(t) ==
    LET positions == 1..Cardinality(DOMAIN t.ids)
    IN  [state |-> "present", sections |-> Sections,
         strings |-> [i \in positions |-> TokenAt(t, i - 1)],
         scores |-> [i \in positions |-> Single(t.vocab[TokenAt(t, i - 1)])],
         settings |-> t.settings, engine |-> Saved(t.engine)]

(* Only the first n sections are there. *)
Truncated(file, n) ==
    [state |-> file.state, sections |-> n,
     strings |-> IF n >= 4 THEN file.strings ELSE <<>>,
     scores |-> IF n >= 2 THEN file.scores ELSE <<>>,
     settings |-> Malformed, engine |-> Nothing]

(* load_binary's checks: the size of the file against the header and the   *)
(* ends of the sections, the types in the config, and the strings, of      *)
(* which no two may be the same.                                           *)
Readable(file) ==
    /\ file.sections = Sections
    /\ file.settings \in Acceptable
    /\ \A i, j \in DOMAIN file.strings : file.strings[i] = file.strings[j] => i = j

FromBinary(file, argument) ==
    LET tokens == {file.strings[i] : i \in DOMAIN file.strings}
        positionOf(token) == CHOOSE i \in DOMAIN file.strings : file.strings[i] = token
    IN  [vocab |-> [token \in tokens |-> file.scores[positionOf(token)]],
         ids |-> [token \in tokens |-> positionOf(token) - 1],
         settings |-> file.settings, engine |-> Resolved(argument, file.engine)]

--------------------------------------------------------------------------------
(* save *)

FilesInit ==
    /\ json = Absent /\ binary = Absent
    /\ step = "idle" /\ saving = Nothing /\ both = FALSE
    /\ started = {} /\ settled = {}
    /\ reader = [step |-> "idle"]

(* The load that runs now does not see one save's files only. *)
Unsettle == reader' = IF reader.step = "idle" THEN reader ELSE [reader EXCEPT !.expect = {}]

(* open(..., "w") leaves an empty tokenizer.json. *)
BeginSave(t, withBinary) ==
    /\ step = "idle"
    /\ Cardinality(started \cup {t}) <= MaxTokenizers
    /\ step' = "json" /\ saving' = t /\ both' = withBinary
    /\ json' = Partial
    /\ started' = started \cup {t}
    /\ settled' = {}
    /\ Unsettle
    /\ UNCHANGED binary

Goto(label) == step' = label /\ UNCHANGED settled

(* save returns, or an exception leaves it. *)
Return(kept) == step' = "idle" /\ settled' = kept
Raise == Return({})

KeepCall == UNCHANGED <<saving, both, started, reader>>

(* json.dump; without the binary save ends here. *)
WriteJson ==
    /\ step = "json"
    /\ json' = JsonOf(saving)
    /\ IF both THEN Goto("export")
       ELSE Return(IF binary = Absent THEN {saving} ELSE {})
    /\ UNCHANGED binary /\ KeepCall

JsonFails ==
    /\ step = "json"
    /\ Raise
    /\ UNCHANGED <<json, binary>> /\ KeepCall

(* export_binary up to the temporary file: it refuses ids with holes and   *)
(* keys that differ, and does not survive a score out of range.            *)
Pack ==
    /\ step = "export"
    /\ IF ~Exportable(saving) THEN Goto("remove")
       ELSE IF ~Packable(saving) THEN Raise
       ELSE Goto("write")
    /\ UNCHANGED <<json, binary>> /\ KeepCall

(* The sections are written to a temporary file. *)
WriteTemporary ==
    /\ step = "write"
    /\ Goto("rename")
    /\ UNCHANGED <<json, binary>> /\ KeepCall

Rename ==
    /\ step = "rename"
    /\ binary' = BinaryOf(saving)
    /\ Return({saving})
    /\ UNCHANGED json /\ KeepCall

(* OSError from making, writing, closing or renaming the temporary file. *)
ExportFails ==
    /\ step \in {"export", "write", "rename"}
    /\ Goto("remove")
    /\ UNCHANGED <<json, binary>> /\ KeepCall

(* A bug: the exception is handled without removing the older binary. *)
BugKeepBinary ==
    /\ step = "remove"
    /\ Return({saving})
    /\ UNCHANGED <<json, binary>> /\ KeepCall

(* The handler of ValueError and OSError: an older binary must go. *)
RemoveBinary ==
    /\ step = "remove"
    /\ binary' = Absent
    /\ Return({saving})
    /\ UNCHANGED json /\ KeepCall

RemoveFails ==
    /\ step = "remove"
    /\ binary # Absent
    /\ Raise
    /\ UNCHANGED <<json, binary>> /\ KeepCall

(* The process is killed. *)
Crash ==
    /\ step # "idle"
    /\ Raise
    /\ UNCHANGED <<json, binary>> /\ KeepCall

Save ==
    \/ \E t \in Tokenizers, withBinary \in BOOLEAN : BeginSave(t, withBinary)
    \/ WriteJson \/ JsonFails \/ Pack \/ WriteTemporary \/ Rename \/ ExportFails
    \/ RemoveBinary \/ RemoveFails \/ Crash

--------------------------------------------------------------------------------
(* The binary file is cut off, or its config section written over.         *)
Damage ==
    /\ binary.state = "present"
    /\ \/ \E n \in 0..(binary.sections - 1) : binary' = Truncated(binary, n)
       \/ binary' = [binary EXCEPT !.settings = Malformed]
    /\ UNCHANGED <<json, step, saving, both, started, settled, reader>>

KeepFiles == UNCHANGED <<json, binary, step, saving, both, started, settled>>

(* load: is there a binary to prefer? *)
BeginLoad(preferBinary, argument) ==
    /\ reader.step \notin {"binary", "json"}
    /\ reader' = [step |-> IF preferBinary /\ binary.state = "present" THEN "binary" ELSE "json",
                  argument |-> argument, expect |-> settled, result |-> Nothing]
    /\ KeepFiles

Answer(tokenizer) == reader' = [reader EXCEPT !.step = "answered", !.result = tokenizer]

(* A binary that is gone or refused makes load go on with the JSON file. *)
LoadBinary ==
    /\ reader.step = "binary"
    /\ IF binary.state = "present" /\ Readable(binary)
       THEN Answer(FromBinary(binary, reader.argument))
       ELSE reader' = [reader EXCEPT !.step = "json"]
    /\ KeepFiles

LoadJson ==
    /\ reader.step = "json"
    /\ IF json.state = "whole" THEN Answer(FromJson(json, reader.argument))
       ELSE reader' = [reader EXCEPT !.step = "raised"]
    /\ KeepFiles

Load ==
    \/ \E preferBinary \in BOOLEAN, argument \in Engines \cup {Nothing} : BeginLoad(preferBinary, argument)
    \/ LoadBinary \/ LoadJson

FilesNext == Save \/ Damage \/ Load

FilesSpec == FilesInit /\ [][FilesNext]_filesVars

--------------------------------------------------------------------------------
(* Properties *)

(* A tokenizer as a load may answer it: all of it, with the scores as they *)
(* are or each as a 32-bit float, and the engine that was asked for, or    *)
(* the one it had if that has a name.                                      *)
Restores(answer, t, argument) ==
    /\ answer.ids = t.ids
    /\ answer.vocab \in {t.vocab, [token \in DOMAIN t.vocab |-> Single(t.vocab[token])]}
    /\ answer.settings = t.settings
    /\ answer.engine = IF argument # Nothing THEN argument ELSE Saved(t.engine)

(* Whatever save fails, is killed or runs meanwhile, and whatever happens  *)
(* to the binary file, what load answers is one tokenizer that was saved,  *)
(* never parts of two or a part of one (tokenizer.py:1310, 1353).          *)
LoadsAreWhole ==
    reader.step = "answered" =>
        \E t \in started : Restores(reader.result, t, reader.argument)

(* A load after a save that returned finds the tokenizer of that save and  *)
(* nothing older: a binary that could not be renewed is gone               *)
(* (tokenizer.py:1322).  The exception is save_binary=False over an older  *)
(* binary, which stays and is preferred.                                   *)
LastSaveIsLoaded ==
    reader.step \in {"answered", "raised"} =>
        \A t \in reader.expect :
            reader.step = "answered" /\ Restores(reader.result, t, reader.argument)
================================================================================
