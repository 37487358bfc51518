------------------------------ MODULE Transcript ------------------------------
(***************************************************************************)
(* parser.py: whose transcript a file is, and what of it the parser of     *)
(* that agent reads, also while the agent is writing it.                   *)
(*                                                                         *)
(* A line is what the parsers look at: its type, the keys it has a value   *)
(* for, the keys it gives an empty one, whether a turn is made of it, and  *)
(* whether its text is JSON.  A torn line is not (JSONDecodeError), nor a  *)
(* broken one, torn and continued; a cut line ends within a character      *)
(* (UnicodeDecodeError).  A .jsonl file is its lines, a .json file the     *)
(* object around the messages and the messages.  Lines are told apart by   *)
(* their number `no`.                                                      *)
(***************************************************************************)
EXTENDS Naturals, Sequences, SequencesExt

Texts == {"json", "torn", "cut", "broken"}

(* A line of the given type; agents number it, and its text may be torn.   *)
LineOf(type, keys, blank, turn) ==
    [type |-> type, keys |-> keys, blank |-> blank, turn |-> turn, no |-> 0, text |-> "json"]

Has(line, key) == key \in line.keys \cup line.blank

IsJson(file) == file.suffix = "json"

(* The first line that json.loads() or the decoder rejects, 0 if none.     *)
FirstBad(lines) == SelectInSeq(lines, LAMBDA l : l.text # "json")

(* The lines in front of it.                                               *)
Sound(lines) ==
    IF FirstBad(lines) = 0 THEN lines ELSE SubSeq(lines, 1, FirstBad(lines) - 1)

Whole(file) == file.lines # <<>> /\ FirstBad(file.lines) = 0

(* Reading the whole file raises an error that no parser catches.          *)
Undecodable(file) ==
    /\ FirstBad(file.lines) # 0
    /\ file.lines[FirstBad(file.lines)].text = "cut"

-----------------------------------------------------------------------------
(* can_parse() of the three parsers.                                       *)
CodexParses(file) ==
    /\ ~IsJson(file)
    /\ file.lines # <<>>
    /\ LET first == file.lines[1]
       IN  /\ first.text = "json"
           /\ first.type \in {"session_meta", "event_msg"}
           /\ Has(first, "payload")

(* A line at which the Gemini parser stops looking.                        *)
Decides(line) ==
    \/ line.text # "json"
    \/ line.type = "session_metadata"
    \/ Has(line, "message")
    \/ line.type \in {"user", "gemini"} /\ Has(line, "content")

GeminiDecidesAt(file) == SelectInSeq(file.lines, Decides)

GeminiParses(file) ==
    IF IsJson(file)
    THEN /\ Whole(file)
         /\ Has(file.lines[1], "messages") /\ Has(file.lines[1], "sessionId")
    ELSE /\ GeminiDecidesAt(file) # 0
         /\ LET line == file.lines[GeminiDecidesAt(file)]
            IN  /\ line.text = "json"
                /\ line.type = "session_metadata" \/ ~Has(line, "message")

ClaudeParses(file) ==
    /\ ~IsJson(file)
    /\ file.lines # <<>>
    /\ LET first == file.lines[1]
       IN  /\ first.text = "json"
           /\ Has(first, "sessionId") \/ first.type \in {"user", "assistant"}

(* Mutant: the Claude parser is asked before the Gemini parser.            *)
DetectClaudeFirst(file) ==
    IF CodexParses(file) THEN "codex-cli"
    ELSE IF ClaudeParses(file) THEN "claude-code"
    ELSE IF GeminiParses(file) THEN "gemini-cli"
    ELSE "none"

(* can_parse() of one parser.                                              *)
CanParse(file, source) ==
    CASE source = "codex-cli"   -> CodexParses(file)
      [] source = "gemini-cli"  -> GeminiParses(file)
      [] source = "claude-code" -> ClaudeParses(file)

(* detect_parser(): the first parser of _PARSERS that takes the file.      *)
Detect(file) ==
    IF CodexParses(file) THEN "codex-cli"
    ELSE IF GeminiParses(file) THEN "gemini-cli"
    ELSE IF ClaudeParses(file) THEN "claude-code"
    ELSE "none"

(* It meets a cut line: the first one, or where the Gemini parser stops.   *)
DetectRaises(file) ==
    IF IsJson(file)
    THEN Undecodable(file)
    ELSE /\ file.lines # <<>>
         /\ \/ file.lines[1].text = "cut"
            \/ /\ ~CodexParses(file)
               /\ GeminiDecidesAt(file) # 0
               /\ file.lines[GeminiDecidesAt(file)].text = "cut"

-----------------------------------------------------------------------------
(* The types that each parser takes turns from.                            *)
TurnTypes(source) ==
    CASE source = "claude-code" -> {"user", "assistant"}
      [] source = "gemini-cli"  -> {"user", "gemini"}
      [] source = "codex-cli"   -> {"event_msg"}

(* The lines that it makes turns of.                                       *)
TurnsOf(lines, source) ==
    { l \in ToSet(lines) : l.text = "json" /\ l.type \in TurnTypes(source) /\ l.turn }

(* The parsers of Claude Code and Codex let JSONDecodeError pass.          *)
ParseTurnsRaises(file, source) ==
    /\ FirstBad(file.lines) # 0
    /\ source = "gemini-cli" => Undecodable(file)

(* Mutant: the Gemini parser skips a line that is not JSON and goes on.    *)
ParseTurnsPastBadLines(file, source) ==
    IF IsJson(file) /\ ~Whole(file) THEN {} ELSE TurnsOf(file.lines, source)

(* parse_turns(): a .json file is read whole or not at all, a .jsonl file  *)
(* of Gemini up to its first bad line.                                     *)
ParseTurns(file, source) ==
    IF IsJson(file) /\ ~Whole(file) THEN {} ELSE TurnsOf(Sound(file.lines), source)

-----------------------------------------------------------------------------
MetaKeys == {"sessionId", "cwd", "gitBranch", "timestamp"}

(* The line whose value for a key parse_session_meta() takes: the first    *)
(* that gives one, though it is empty, and for the timestamp the first     *)
(* that is not empty.                                                      *)
GivenAt(lines, key) ==
    SelectInSeq(lines, LAMBDA l :
        key \in l.keys \/ (key # "timestamp" /\ key \in l.blank))

Collected(lines) ==
    \A key \in MetaKeys :
        /\ GivenAt(lines, key) # 0
        /\ key \in lines[GivenAt(lines, key)].keys

(* The line at which the parser of a source has read enough, 0 if it never *)
(* has.                                                                    *)
MetaLine(lines, source) ==
    CASE source = "claude-code" ->
            LET enough == { i \in DOMAIN lines : Collected(SubSeq(lines, 1, i)) }
            IN  IF enough = {} THEN 0 ELSE Min(enough)
      [] source = "codex-cli"   -> SelectInSeq(lines, LAMBDA l : l.type = "session_meta")
      [] source = "gemini-cli"  -> SelectInSeq(lines, LAMBDA l : l.type = "session_metadata")

(* No line raises before the parser has read enough, or the error is one   *)
(* it catches.  Codex and Gemini count the turns in a second read.         *)
ParseMetaRaises(file, source) ==
    /\ FirstBad(file.lines) # 0
    /\ CASE source = "claude-code" -> MetaLine(Sound(file.lines), source) = 0
         [] source = "codex-cli"   ->
                Undecodable(file) \/ MetaLine(Sound(file.lines), source) # 0
         [] source = "gemini-cli"  -> Undecodable(file)

(* Mutant: the values of the last line, not those of the first.            *)
ParseMetaLast(file, source) ==
    LET line == MetaLine(Sound(file.lines), source)
    IN  IF IsJson(file) THEN IF ParseTurns(file, source) = {} THEN 0 ELSE 1
        ELSE IF line = 0 THEN 0 ELSE Len(Sound(file.lines))

(* parse_meta(): the line that gives the id, project and date of the       *)
(* session, 0 if none does.  Then, and for what that line lacks, Gemini and*)
(* Codex sessions have the file's stem as id and datetime.now() as date,   *)
(* another date at each read; those of Claude Code have no meta data.      *)
ParseMeta(file, source) ==
    IF IsJson(file) THEN IF ParseTurns(file, source) = {} THEN 0 ELSE 1
    ELSE MetaLine(Sound(file.lines), source)

(* Mutant: Claude Code sessions without meta data have a date all the same.*)
MetaGivenAnyway(file, source) == TRUE

(* parse_meta() has not raised: it returns meta data, not None.  For Gemini*)
(* and Codex it does so without a line that gives it, as ParseMeta says.   *)
MetaGiven(file, source) ==
    IF IsJson(file) THEN ParseTurns(file, source) # {}
    ELSE \/ MetaLine(Sound(file.lines), source) # 0
         \/ source # "claude-code" /\ FirstBad(file.lines) = 0
=============================================================================
