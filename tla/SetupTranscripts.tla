--------------------------- MODULE SetupTranscripts ---------------------------
(***************************************************************************)
(* The transcripts: proofs that what setups, the worker and uploads read   *)
(* of a transcript while its agent writes it is the agent's, without gaps  *)
(* and of one project and date, and that a session that rests is stored as *)
(* far as it can be read, for any number of sessions, lines and processes. *)
(***************************************************************************)
EXTENDS SetupProof

-----------------------------------------------------------------------------
(* The lines that agents write, by what the parsers look at.               *)
LineTypes == {"user", "system", "gemini", "event_msg", "", "session_metadata",
              "session_meta", "response_item"}
LineKeys == MetaKeys \cup {"message", "content", "payload", "messages"}
Line == [type : LineTypes, keys : SUBSET LineKeys, blank : SUBSET LineKeys,
         turn : BOOLEAN, no : Nat, text : Texts]

(* What tells the i-th line of a transcript of a kind from those of others. *)
OfKind(k, i, l) ==
    CASE k = "claude" ->
            /\ l.type \in {"user", "system"} /\ ~Has(l, "content")
            /\ l.type = "user" => Has(l, "message")
            /\ l.turn => l.type = "user"
      [] k = "gemini-json" ->
            l.turn => l.type = "gemini"
      [] k = "gemini-jsonl" ->
            /\ l.type \in {"session_metadata", "gemini"} /\ ~Has(l, "message")
            /\ l.type = "session_metadata" => i = 1 /\ ~l.turn
            /\ l.type = "gemini" => Has(l, "content")
      [] k = "codex" ->
            /\ l.type \in {"session_meta", "event_msg", "response_item"}
            /\ l.type = "session_meta" <=> i = 1
            /\ i = 1 => Has(l, "payload")
            /\ l.turn => l.type = "event_msg"

AllJson(lines, n) == \A i \in 1 .. n : lines[i].text = "json"

(* A transcript is the lines said, in order and each under its number,     *)
(* until the first that is not JSON.                                       *)
Written(s) ==
    LET lines == file[s].lines
    IN  /\ \A i \in 1 .. Len(lines) :
              /\ OfKind(kind[s], i, lines[i])
              /\ lines[i].no \in i .. Len(said[s])
              /\ said[s][lines[i].no] = lines[i].turn
              /\ AllJson(lines, i - 1) => lines[i].no = i
              /\ i < Len(lines) => lines[i].text \in {"json", "broken"}
        /\ Len(lines) <= Len(said[s])
        /\ said[s] # <<>> => lines # <<>>
        /\ AllJson(lines, Len(lines)) => Len(lines) = Len(said[s])
        /\ live[s] = "writing" => lines # <<>> /\ Last(lines).text \in {"torn", "cut"}
        /\ live[s] = "open" /\ lines # <<>> => Last(lines).text # "cut"

Transcribed ==
    /\ machine \in Machines
    /\ kind \in [Sessions -> machine.kinds]
    /\ live \in [Sessions -> {"new", "open", "writing", "closed"}]
    /\ said \in [Sessions -> Seq(BOOLEAN)]
    /\ file \in [Sessions -> [suffix : {"json", "jsonl"}, lines : Seq(Line)]]
    /\ \A s \in Sessions : file[s].suffix = (IF kind[s] = "gemini-json" THEN "json" ELSE "jsonl")
    /\ \A s \in Sessions : Written(s)

(* Turns of those said, up to some place: none said before is missing.     *)
Gapless(spoken, nos) ==
    /\ nos \subseteq 1 .. Len(spoken)
    /\ \A n \in nos : \A m \in 1 .. n - 1 : spoken[m] => m \in nos

(* The line that the project and the date of a session are known from.     *)
Identity(f, source) ==
    IF IsJson(f)
    THEN IF f.lines = <<>> THEN 0 ELSE 1
    ELSE MetaLine(Sound(f.lines), source)

FirstIsJson(f) == f.lines # <<>> /\ f.lines[1].text = "json"

(* It will stay as it is: it is known, or never to be given.               *)
Settled(k, f) ==
    \/ Identity(f, AgentOfKind(k)) # 0
    \/ k = "gemini-jsonl" /\ FirstIsJson(f) /\ f.lines[1].type = "gemini"

ReadSteps == {"none", "detect", "turns", "meta", "store", "date", "text"}
Reading == [step : ReadSteps, session : Sessions \cup {"none"}, source : Agents \cup {"none"},
            nos : SUBSET Nat, meta : Nat, current : BOOLEAN]
Prepared == [session : Sessions, nos : SUBSET Nat, meta : Nat]

StepsOfReader(p) ==
    IF p = Uploader THEN {"none", "date", "text"}
    ELSE {"none", "detect", "turns", "meta"} \cup IF p = Worker THEN {"store"} ELSE {}

ReadersTyped ==
    /\ reading \in [Readers -> Reading]
    /\ \A p \in Readers :
          /\ reading[p].step \in StepsOfReader(p)
          /\ reading[p].step # "none" => reading[p].session \in Sessions

StoresTyped ==
    /\ batch \in [Setups \cup {Worker} -> SUBSET Prepared]
    /\ todo \in [Processes -> SUBSET Sessions]
    /\ stored \in [Sessions -> [nos : SUBSET Nat, meta : Nat]]
    /\ uploaded \in [Sessions -> [nos : SUBSET Nat, metas : SUBSET Nat]]
    /\ job \in [Sessions -> {"none", "pending", "failed"}]
    /\ quiet \in [Sessions -> BOOLEAN]
    /\ rested \in [Setups -> SUBSET Sessions]

(* A setup has something to store in the part that ingests only; the worker *)
(* has what it read for a job that is still queued.                        *)
BatchesInPlace ==
    /\ \A p \in Setups : batch[p] # {} => IsAt(p, "ingest", "files")
    /\ reading[Worker].step # "none" => job[reading[Worker].session] = "pending"
    /\ \A found \in batch[Worker] :
          /\ reading[Worker].step = "store"
          /\ found.session = reading[Worker].session /\ found.nos = reading[Worker].nos

(* What is read and stored has no gaps, and a known project is the one.    *)
ReaderIsTrue(p) ==
    LET r == reading[p]
    IN  /\ r.step \in {"turns", "meta", "store"} => r.source = AgentOf(r.session)
        /\ r.step \in {"meta", "store"} => Gapless(said[r.session], r.nos)
        /\ \A found \in batch[p] :
              /\ Gapless(said[found.session], found.nos)
              /\ found.meta \in {0, Identity(file[found.session], AgentOf(found.session))}

ReadsAreTrue == \A p \in Setups \cup {Worker} : ReaderIsTrue(p)

StoresAreTrue ==
    \A s \in Sessions :
        /\ Gapless(said[s], stored[s].nos) /\ Gapless(said[s], uploaded[s].nos)
        /\ stored[s].meta \in {0, Identity(file[s], AgentOf(s))}

UploadsAreTrue ==
    /\ LET r == reading[Uploader]
       IN  /\ r.step \in {"date", "text"} =>
                 /\ r.source = AgentOf(r.session)
                 /\ IsJson(file[r.session]) \/ FirstIsJson(file[r.session])
           /\ r.step = "text" =>
                 /\ Settled(kind[r.session], file[r.session])
                 /\ r.meta = Identity(file[r.session], AgentOf(r.session))
    /\ \A s \in Sessions : uploaded[s].metas # {} =>
          /\ Settled(kind[s], file[s])
          /\ uploaded[s].metas \subseteq {Identity(file[s], AgentOf(s))}

(* What p has read is what the file gives now.                             *)
Fresh(p) ==
    LET r == reading[p]
    IN  /\ r.step \in {"turns", "meta", "store"} => r.source = Detect(file[r.session])
        /\ r.step \in {"meta", "store"} => r.nos = ReadableTurns(file[r.session])

(* No line of s was begun since its hook ran, or since a setup began.      *)
Still(s) ==
    \/ quiet[s]
    \/ \E p \in Setups : s \in rested[p]

StillIsClosed == \A s \in Sessions : Still(s) => live[s] # "writing"

(* p began to read since then.                                             *)
Since(p, s) ==
    IF p = Worker
    THEN \/ quiet[s] /\ reading[Worker].current
         \/ \E q \in Setups : s \in rested[q]
    ELSE s \in rested[p]

ReaderIsFresh(p) ==
    /\ reading[p].step # "none" /\ Since(p, reading[p].session) => Fresh(p)
    /\ \A found \in batch[p] : Since(p, found.session) =>
          found.nos = ReadableTurns(file[found.session])

ReadsAreFresh == \A p \in Setups \cup {Worker} : ReaderIsFresh(p)

(* A transcript of which the parsers make a chunk.                         *)
Due(s) == Globbed(s) /\ Ingestible(file[s])

IngestPhase(a) ==
    CASE a = "claude-code" -> 2
      [] a = "gemini-cli"  -> 3
      [] a = "codex-cli"   -> 4

(* In the part that ingests them, a setup has such transcripts before it,  *)
(* reads them or is going to store them; after it, they are stored.        *)
RestIsIngested(p, s) ==
    /\ IsAt(p, "ingest", "files") /\ Target(p) = AgentOf(s) =>
          \/ s \in todo[p]
          \/ reading[p].step # "none" /\ reading[p].session = s
          \/ \E found \in batch[p] : found.session = s
    /\ PastPart(p, IngestPhase(AgentOf(s))) =>
          ReadableTurns(file[s]) \subseteq stored[s].nos

RestedAreIngested ==
    \A p \in Setups : \A s \in rested[p] : Due(s) => RestIsIngested(p, s)

(* A session that is opened when a setup is done knows its hook.           *)
LateAreHooked ==
    /\ hooked \in [Sessions -> BOOLEAN] /\ late \in [Sessions -> BOOLEAN]
    /\ \A s \in Sessions : late[s] => hooked[s]

TranscriptsInv ==
    /\ Transcribed
    /\ ReadersTyped
    /\ StoresTyped
    /\ BatchesInPlace
    /\ ReadsAreTrue
    /\ StoresAreTrue
    /\ UploadsAreTrue
    /\ StillIsClosed
    /\ ReadsAreFresh
    /\ QuietIsCaptured
    /\ RestedAreIngested
    /\ LateAreHooked
-----------------------------------------------------------------------------
LinesOf(k, i) == IF i = 1 THEN FirstLines(k) ELSE LaterLines(k)

(* The lines that agents write are such lines.                             *)
LEMMA LinesOfAgents ==
  ASSUME NEW k \in AllKinds, NEW i \in Nat \ {0}, NEW line \in LinesOf(k, i)
  PROVE  line \in Line /\ OfKind(k, i, line)
  <1> USE DEF LineOf, LinesOf, Has
  <1>1. CASE k = "claude"
    <2>1. OutsideGit \in Line /\ OfKind("claude", i, OutsideGit)
      BY DEF OutsideGit, Line, OfKind, LineTypes, LineKeys, MetaKeys, Texts
    <2>2. ClaudeEvent \in Line /\ OfKind("claude", i, ClaudeEvent)
      BY DEF ClaudeEvent, Line, OfKind, LineTypes, LineKeys, MetaKeys, Texts
    <2>3. ASSUME NEW turn \in BOOLEAN
          PROVE  ClaudeMessage(turn) \in Line /\ OfKind("claude", i, ClaudeMessage(turn))
      BY DEF ClaudeMessage, Line, OfKind, LineTypes, LineKeys, MetaKeys, Texts
    <2>4. /\ FirstLines(k) = {OutsideGit, ClaudeEvent}
          /\ LaterLines(k) = {ClaudeMessage(TRUE), ClaudeMessage(FALSE)}
      BY <1>1 DEF FirstLines, LaterLines
    <2> QED
      BY <1>1, <2>1, <2>2, <2>3, <2>4
  <1>2. ASSUME NEW turn \in BOOLEAN
        PROVE  /\ GeminiMessage(turn) \in Line
               /\ OfKind("gemini-json", i, GeminiMessage(turn))
               /\ OfKind("gemini-jsonl", i, GeminiMessage(turn))
    BY DEF GeminiMessage, Line, OfKind, LineTypes, LineKeys, MetaKeys, Texts
  <1>3. CASE k = "gemini-json"
    <2> DEFINE first == LineOf("", {"messages", "sessionId"}, {}, FALSE)
    <2>1. first \in Line /\ OfKind("gemini-json", i, first)
      BY DEF Line, OfKind, LineTypes, LineKeys, MetaKeys, Texts
    <2>2. /\ FirstLines(k) = {first}
          /\ LaterLines(k) = {GeminiMessage(TRUE), GeminiMessage(FALSE)}
      BY <1>3 DEF FirstLines, LaterLines
    <2> HIDE DEF first
    <2> QED
      BY <1>2, <1>3, <2>1, <2>2
  <1>4. CASE k = "gemini-jsonl"
    <2> DEFINE first == LineOf("session_metadata", {"sessionId"}, {}, FALSE)
    <2>1. first \in Line /\ OfKind("gemini-jsonl", 1, first)
      BY DEF Line, OfKind, LineTypes, LineKeys, MetaKeys, Texts
    <2>2. /\ FirstLines(k) = {first, GeminiMessage(TRUE)}
          /\ LaterLines(k) = {GeminiMessage(TRUE), GeminiMessage(FALSE)}
      BY <1>4 DEF FirstLines, LaterLines
    <2> HIDE DEF first
    <2> QED
      BY <1>2, <1>4, <2>1, <2>2
  <1>5. CASE k = "codex"
    <2> DEFINE first == LineOf("session_meta", {"payload"}, {}, FALSE)
               item == LineOf("response_item", {"payload"}, {}, FALSE)
    <2>1. first \in Line /\ OfKind("codex", 1, first)
      BY DEF Line, OfKind, LineTypes, LineKeys, MetaKeys, Texts
    <2>2. item \in Line /\ (i # 1 => OfKind("codex", i, item))
      BY DEF Line, OfKind, LineTypes, LineKeys, MetaKeys, Texts
    <2>3. CodexEvent(TRUE) \in Line /\ (i # 1 => OfKind("codex", i, CodexEvent(TRUE)))
      BY DEF CodexEvent, Line, OfKind, LineTypes, LineKeys, MetaKeys, Texts
    <2>4. FirstLines(k) = {first} /\ LaterLines(k) = {CodexEvent(TRUE), item}
      BY <1>5 DEF FirstLines, LaterLines
    <2> HIDE DEF first, item
    <2> QED
      BY <1>5, <2>1, <2>2, <2>3, <2>4
  <1> QED
    BY <1>1, <1>3, <1>4, <1>5 DEF AllKinds

(* A line is of its kind whatever its number and text.                     *)
LEMMA NumberedLine ==
  ASSUME NEW k \in AllKinds, NEW i, NEW line \in Line, NEW n \in Nat, NEW t \in Texts
  PROVE  LET l == [line EXCEPT !.no = n, !.text = t]
         IN  /\ l \in Line /\ l.no = n /\ l.text = t /\ l.turn = line.turn
             /\ OfKind(k, i, line) => OfKind(k, i, l)
  <1> DEFINE l == [line EXCEPT !.no = n, !.text = t]
  <1>1. /\ l \in Line /\ l.no = n /\ l.text = t /\ l.turn = line.turn
        /\ l.type = line.type /\ l.keys = line.keys /\ l.blank = line.blank
    BY DEF Line
  <1> HIDE DEF l
  <1>2. OfKind(k, i, line) => OfKind(k, i, l)
    BY <1>1 DEF OfKind, Has, AllKinds
  <1> QED
    BY <1>1, <1>2 DEF l

-----------------------------------------------------------------------------
(* The first line of a kind: what SelectInSeq() finds.                     *)
LEMMA FirstBadIsFirst ==
  ASSUME NEW lines \in Seq(Line)
  PROVE  /\ FirstBad(lines) = 0 => AllJson(lines, Len(lines))
         /\ FirstBad(lines) # 0 =>
               /\ FirstBad(lines) \in 1 .. Len(lines)
               /\ lines[FirstBad(lines)].text # "json"
               /\ AllJson(lines, FirstBad(lines) - 1)
  <1> DEFINE I == { i \in 1 .. Len(lines) : lines[i].text # "json" }
  <1>1. FirstBad(lines) = IF I # {} THEN Min(I) ELSE 0
    BY DEF FirstBad, SelectInSeq
  <1>2. I \in SUBSET Nat
    OBVIOUS
  <1>3. I # {} => Min(I) \in I /\ \A m \in I : Min(I) <= m
    BY <1>2, MinIsLeast
  <1>4. Len(lines) \in Nat /\ \A i \in 1 .. Len(lines) : i \in I <=> lines[i].text # "json"
    OBVIOUS
  <1>5. CASE I = {}
    BY <1>1, <1>4, <1>5 DEF AllJson
  <1>6. CASE I # {}
    <2>1. /\ FirstBad(lines) \in I /\ FirstBad(lines) \in 1 .. Len(lines)
          /\ \A m \in I : FirstBad(lines) <= m
      BY <1>1, <1>3, <1>6
    <2> HIDE DEF I
    <2>2. \A i \in 1 .. FirstBad(lines) - 1 : i \in 1 .. Len(lines) /\ i \notin I
      BY <1>4, <2>1
    <2> QED
      BY <1>4, <2>1, <2>2 DEF AllJson
  <1> QED
    BY <1>5, <1>6

LEMMA DecidesAtIsFirst ==
  ASSUME NEW f, f.lines \in Seq(Line)
  PROVE  /\ GeminiDecidesAt(f) = 0 => \A i \in 1 .. Len(f.lines) : ~Decides(f.lines[i])
         /\ GeminiDecidesAt(f) # 0 =>
               /\ GeminiDecidesAt(f) \in 1 .. Len(f.lines)
               /\ Decides(f.lines[GeminiDecidesAt(f)])
               /\ \A i \in 1 .. GeminiDecidesAt(f) - 1 : ~Decides(f.lines[i])
  <1> DEFINE I == { i \in 1 .. Len(f.lines) : Decides(f.lines[i]) }
  <1>1. GeminiDecidesAt(f) = IF I # {} THEN Min(I) ELSE 0
    BY DEF GeminiDecidesAt, SelectInSeq
  <1>2. I \in SUBSET Nat
    OBVIOUS
  <1>3. I # {} => Min(I) \in I /\ \A m \in I : Min(I) <= m
    BY <1>2, MinIsLeast
  <1>4. /\ Len(f.lines) \in Nat
        /\ \A i \in 1 .. Len(f.lines) : i \in I <=> Decides(f.lines[i])
    OBVIOUS
  <1>5. CASE I = {}
    BY <1>1, <1>4, <1>5
  <1>6. CASE I # {}
    <2>1. /\ GeminiDecidesAt(f) \in I /\ GeminiDecidesAt(f) \in 1 .. Len(f.lines)
          /\ \A m \in I : GeminiDecidesAt(f) <= m
      BY <1>1, <1>3, <1>6
    <2> HIDE DEF I
    <2>2. \A i \in 1 .. GeminiDecidesAt(f) - 1 : i \in 1 .. Len(f.lines) /\ i \notin I
      BY <1>4, <2>1
    <2> QED
      BY <1>4, <2>1, <2>2
  <1> QED
    BY <1>5, <1>6

(* The line from which the meta data is known is that of the longer file.  *)
LEMMA MetaLineStays ==
  ASSUME NEW source \in Agents, NEW lines \in Seq(Line), NEW more \in Seq(Line),
         Len(lines) <= Len(more), \A i \in 1 .. Len(lines) : more[i] = lines[i]
  PROVE  /\ MetaLine(lines, source) \in 0 .. Len(lines)
         /\ MetaLine(lines, source) # 0 => MetaLine(more, source) = MetaLine(lines, source)
  <1>1. ASSUME NEW I \in SUBSET Nat, NEW J \in SUBSET Nat,
               \A i \in 1 .. Len(lines) : i \in I <=> i \in J,
               I \subseteq 1 .. Len(lines), J \subseteq 1 .. Len(more)
        PROVE  LET m == IF I # {} THEN Min(I) ELSE 0
                   n == IF J # {} THEN Min(J) ELSE 0
               IN  m \in 0 .. Len(lines) /\ (m # 0 => n = m)
    <2>1. CASE I = {}
      BY <2>1
    <2>2. CASE I # {}
      <3>1. Min(I) \in I /\ \A m \in I : Min(I) <= m
        BY <2>2, <1>1, MinIsLeast
      <3>2. J # {}
        BY <2>2, <1>1
      <3>3. Min(J) \in J /\ \A m \in J : Min(J) <= m
        BY <3>2, <1>1, MinIsLeast
      <3> DEFINE m == Min(I)
                 n == Min(J)
      <3> HIDE DEF m, n
      <3>4. m \in I /\ m \in 1 .. Len(lines) /\ m \in J /\ n \in J /\ n \in 1 .. Len(more)
        BY <1>1, <3>1, <3>3 DEF m, n
      <3>5. n <= m /\ Len(lines) \in Nat
        BY <3>3, <3>4 DEF m, n
      <3>6. n \in 1 .. Len(lines)
        BY <3>4, <3>5
      <3>7. n \in I
        BY <1>1, <3>4, <3>6
      <3>8. m <= n
        BY <3>1, <3>7 DEF m
      <3> QED
        BY <2>2, <3>2, <3>4, <3>5, <3>6, <3>8 DEF m, n
    <2> QED
      BY <2>1, <2>2
  <1>2. CASE source = "claude-code"
    <2> DEFINE I == { i \in DOMAIN lines : Collected(SubSeq(lines, 1, i)) }
               J == { i \in DOMAIN more : Collected(SubSeq(more, 1, i)) }
    <2>1. \A i \in 1 .. Len(lines) : SubSeq(lines, 1, i) = SubSeq(more, 1, i)
      BY DEF SubSeq
    <2>2. /\ I \in SUBSET Nat /\ J \in SUBSET Nat
          /\ I \subseteq 1 .. Len(lines) /\ J \subseteq 1 .. Len(more)
      OBVIOUS
    <2>3. \A i \in 1 .. Len(lines) : i \in I <=> i \in J
      <3> SUFFICES ASSUME NEW i \in 1 .. Len(lines)
                   PROVE  i \in I <=> i \in J
        OBVIOUS
      <3>1. i \in DOMAIN lines /\ i \in DOMAIN more
        OBVIOUS
      <3>2. SubSeq(lines, 1, i) = SubSeq(more, 1, i)
        BY <2>1
      <3> QED
        BY <3>1, <3>2
    <2>4. /\ MetaLine(lines, source) = IF I # {} THEN Min(I) ELSE 0
          /\ MetaLine(more, source) = IF J # {} THEN Min(J) ELSE 0
      BY <1>2 DEF MetaLine
    <2> HIDE DEF I, J
    <2> QED
      BY <1>1, <2>2, <2>3, <2>4
  <1>3. ASSUME NEW type,
               MetaLine(lines, source) = SelectInSeq(lines, LAMBDA l : l.type = type),
               MetaLine(more, source) = SelectInSeq(more, LAMBDA l : l.type = type)
        PROVE  /\ MetaLine(lines, source) \in 0 .. Len(lines)
               /\ MetaLine(lines, source) # 0 =>
                     MetaLine(more, source) = MetaLine(lines, source)
    <2> DEFINE I == { i \in 1 .. Len(lines) : lines[i].type = type }
               J == { i \in 1 .. Len(more) : more[i].type = type }
    <2>1. /\ MetaLine(lines, source) = IF I # {} THEN Min(I) ELSE 0
          /\ MetaLine(more, source) = IF J # {} THEN Min(J) ELSE 0
      BY <1>3 DEF SelectInSeq
    <2>2. /\ I \in SUBSET Nat /\ J \in SUBSET Nat
          /\ I \subseteq 1 .. Len(lines) /\ J \subseteq 1 .. Len(more)
          /\ \A i \in 1 .. Len(lines) : i \in I <=> i \in J
      OBVIOUS
    <2> HIDE DEF I, J
    <2> QED
      BY <1>1, <2>1, <2>2
  <1>4. CASE source = "codex-cli"
    BY <1>3, <1>4 DEF MetaLine, SelectInSeq
  <1>5. CASE source = "gemini-cli"
    BY <1>3, <1>5 DEF MetaLine, SelectInSeq
  <1> QED
    BY <1>2, <1>4, <1>5 DEF Agents

(* The lines in front of the first that is not JSON.                       *)
LEMMA SoundIsPrefix ==
  ASSUME NEW lines \in Seq(Line)
  PROVE  LET n == Len(Sound(lines))
         IN  /\ Sound(lines) \in Seq(Line) /\ n \in 0 .. Len(lines)
             /\ \A i \in 1 .. n : Sound(lines)[i] = lines[i]
             /\ AllJson(lines, n)
             /\ n = Len(lines) <=> FirstBad(lines) = 0
             /\ n < Len(lines) => lines[n + 1].text # "json"
  <1>1. CASE FirstBad(lines) = 0
    BY <1>1, FirstBadIsFirst DEF Sound
  <1>2. CASE FirstBad(lines) # 0
    <2>1. /\ FirstBad(lines) \in 1 .. Len(lines)
          /\ lines[FirstBad(lines)].text # "json" /\ AllJson(lines, FirstBad(lines) - 1)
      BY <1>2, FirstBadIsFirst
    <2>2. Sound(lines) = SubSeq(lines, 1, FirstBad(lines) - 1)
      BY <1>2 DEF Sound
    <2> QED
      BY <1>2, <2>1, <2>2
  <1> QED
    BY <1>1, <1>2

(* A file that goes on keeps the lines that are JSON.                      *)
GoesOn(lines, more) ==
    /\ Len(lines) <= Len(more)
    /\ \A i \in 1 .. Len(lines) : lines[i].text = "json" => more[i] = lines[i]

LEMMA SoundGrows ==
  ASSUME NEW lines \in Seq(Line), NEW more \in Seq(Line), GoesOn(lines, more)
  PROVE  /\ Len(Sound(lines)) <= Len(Sound(more))
         /\ \A i \in 1 .. Len(Sound(lines)) : Sound(more)[i] = Sound(lines)[i]
  <1> DEFINE m == Len(Sound(lines))
             n == Len(Sound(more))
  <1>1. /\ m \in 0 .. Len(lines) /\ AllJson(lines, m)
        /\ \A i \in 1 .. m : Sound(lines)[i] = lines[i]
    BY SoundIsPrefix
  <1>2. /\ n \in 0 .. Len(more) /\ (n < Len(more) => more[n + 1].text # "json")
        /\ \A i \in 1 .. n : Sound(more)[i] = more[i]
    BY SoundIsPrefix
  <1> HIDE DEF m, n
  <1>3. m <= n
    <2> SUFFICES ASSUME n < m
                 PROVE  FALSE
      BY <1>1, <1>2
    <2>1. n + 1 \in 1 .. m /\ n + 1 \in 1 .. Len(lines) /\ n < Len(more)
      BY <1>1, <1>2 DEF GoesOn
    <2>2. lines[n + 1].text = "json" /\ more[n + 1] = lines[n + 1]
      BY <1>1, <2>1 DEF GoesOn, AllJson
    <2> QED
      BY <1>2, <2>1, <2>2
  <1>4. \A i \in 1 .. m : more[i] = lines[i]
    BY <1>1 DEF GoesOn, AllJson
  <1> QED
    BY <1>1, <1>2, <1>3, <1>4 DEF m, n

-----------------------------------------------------------------------------
(* What is read of a transcript while its agent writes it.                 *)
LEMMA KindKnown ==
  ASSUME Transcribed, NEW s \in Sessions
  PROVE  /\ kind[s] \in AllKinds /\ AgentOf(s) \in machine.agents
         /\ AgentOf(s) \in Agents /\ AgentOf(s) # "none"
         /\ IsJson(file[s]) <=> kind[s] = "gemini-json"
         /\ file[s].lines \in Seq(Line) /\ said[s] \in Seq(BOOLEAN)
         /\ Written(s)
  <1>1. machine \in Machines /\ kind[s] \in machine.kinds
    BY DEF Transcribed
  <1>2. machine.kinds \subseteq AllKinds /\ machine.agents \subseteq Agents
    BY <1>1, MachinesAssumption
  <1>3. AgentOf(s) \in machine.agents
    BY <1>1, MachinesAssumption DEF AgentOf
  <1>4. "none" \notin Agents
    BY DEF Agents
  <1>5. IsJson(file[s]) <=> kind[s] = "gemini-json"
    BY DEF Transcribed, IsJson
  <1> QED
    BY <1>1, <1>2, <1>3, <1>4, <1>5 DEF Transcribed

LEMMA WriterDetected ==
  ASSUME Transcribed, NEW s \in Sessions
  PROVE  Detect(file[s]) \in {AgentOf(s), "none"}
  <1> DEFINE f == file[s]
             lines == f.lines
             d == GeminiDecidesAt(f)
  <1>1. /\ kind[s] \in AllKinds /\ lines \in Seq(Line)
        /\ IsJson(f) <=> kind[s] = "gemini-json"
    BY KindKnown
  <1>2. \A i \in 1 .. Len(lines) : OfKind(kind[s], i, lines[i])
    BY KindKnown DEF Written
  <1>3. /\ d = 0 => \A i \in 1 .. Len(lines) : ~Decides(lines[i])
        /\ d # 0 => /\ d \in 1 .. Len(lines) /\ Decides(lines[d])
                    /\ \A i \in 1 .. d - 1 : ~Decides(lines[i])
    BY <1>1, DecidesAtIsFirst
  <1>4. lines # <<>> => 1 \in 1 .. Len(lines)
    BY <1>1
  <1> HIDE DEF f, lines, d
  <1>5. ASSUME ~IsJson(f), lines = <<>> \/ lines[1].text # "json"
        PROVE  Detect(f) = "none"
    <2>1. ~CodexParses(f) /\ ~ClaudeParses(f)
      BY <1>5 DEF CodexParses, ClaudeParses, lines
    <2>2. ~GeminiParses(f)
      <3>1. CASE d = 0
        BY <1>5, <3>1 DEF GeminiParses, d
      <3>2. CASE d # 0
        <4>1. d \in 1 .. Len(lines)
          BY <1>3, <3>2
        <4>2. lines # <<>> /\ lines[1].text # "json"
          BY <1>1, <1>5, <4>1
        <4>3. Decides(lines[1])
          BY <4>2 DEF Decides
        <4>4. d = 1
          BY <1>1, <1>3, <4>1, <4>2, <4>3
        <4> QED
          BY <1>5, <4>2, <4>4 DEF GeminiParses, d, lines
      <3> QED
        BY <3>1, <3>2
    <2> QED
      BY <2>1, <2>2 DEF Detect
  <1>6. CASE kind[s] = "claude"
    <2>1. ~IsJson(f) /\ AgentOf(s) = "claude-code"
      BY <1>1, <1>6 DEF AgentOf, AgentOfKind
    <2>2. ~CodexParses(f)
      BY <1>2, <1>4, <1>6 DEF CodexParses, OfKind, lines
    <2>3. ~GeminiParses(f)
      <3> SUFFICES ASSUME d # 0, lines[d].text = "json",
                          lines[d].type = "session_metadata" \/ ~Has(lines[d], "message")
                   PROVE  FALSE
        BY <2>1 DEF GeminiParses, d, lines
      <3>1. d \in 1 .. Len(lines) /\ Decides(lines[d])
        BY <1>3
      <3>2. OfKind("claude", d, lines[d])
        BY <1>2, <1>6, <3>1
      <3> QED
        BY <3>1, <3>2 DEF OfKind, Decides
    <2> QED
      BY <2>1, <2>2, <2>3 DEF Detect, f
  <1>7. CASE kind[s] = "gemini-json"
    <2>1. IsJson(f) /\ AgentOf(s) = "gemini-cli"
      BY <1>1, <1>7 DEF AgentOf, AgentOfKind
    <2> QED
      BY <2>1 DEF Detect, CodexParses, ClaudeParses, f
  <1>8. CASE kind[s] = "gemini-jsonl"
    <2>1. ~IsJson(f) /\ AgentOf(s) = "gemini-cli"
      BY <1>1, <1>8 DEF AgentOf, AgentOfKind
    <2>2. CASE lines # <<>> /\ lines[1].text = "json"
      <3>1. OfKind("gemini-jsonl", 1, lines[1])
        BY <1>2, <1>4, <1>8, <2>2
      <3>2. ~CodexParses(f)
        BY <3>1 DEF CodexParses, OfKind, lines
      <3>3. Decides(lines[1])
        BY <3>1 DEF OfKind, Decides
      <3>4. d = 1
        BY <1>1, <1>3, <1>4, <2>2, <3>3
      <3>5. GeminiParses(f)
        BY <2>1, <2>2, <3>1, <3>4 DEF GeminiParses, OfKind, d, lines
      <3> QED
        BY <2>1, <3>2, <3>5 DEF Detect, f
    <2> QED
      BY <1>5, <2>1, <2>2 DEF f
  <1>9. CASE kind[s] = "codex"
    <2>1. ~IsJson(f) /\ AgentOf(s) = "codex-cli"
      BY <1>1, <1>9 DEF AgentOf, AgentOfKind
    <2>2. CASE lines # <<>> /\ lines[1].text = "json"
      <3>1. OfKind("codex", 1, lines[1])
        BY <1>2, <1>4, <1>9, <2>2
      <3>2. CodexParses(f)
        BY <2>1, <2>2, <3>1 DEF CodexParses, OfKind, lines
      <3> QED
        BY <2>1, <3>2 DEF Detect, f
    <2> QED
      BY <1>5, <2>1, <2>2 DEF f
  <1> QED
    BY <1>1, <1>6, <1>7, <1>8, <1>9 DEF AllKinds

LEMMA TurnsReadAreGapless ==
  ASSUME Transcribed, NEW s \in Sessions
  PROVE  Gapless(said[s], Numbers(ParseTurns(file[s], AgentOf(s))))
  <1> DEFINE lines == file[s].lines
             n == Len(Sound(lines))
  <1>1. kind[s] \in AllKinds /\ lines \in Seq(Line) /\ said[s] \in Seq(BOOLEAN)
    BY KindKnown
  <1>2. /\ Sound(lines) \in Seq(Line) /\ n \in 0 .. Len(lines) /\ AllJson(lines, n)
        /\ \A i \in 1 .. n : Sound(lines)[i] = lines[i]
    BY <1>1, SoundIsPrefix
  <1>3. \A i \in 1 .. Len(lines) :
           /\ OfKind(kind[s], i, lines[i]) /\ lines[i].no \in i .. Len(said[s])
           /\ said[s][lines[i].no] = lines[i].turn
           /\ AllJson(lines, i - 1) => lines[i].no = i
    BY KindKnown DEF Written
  <1>4. CASE IsJson(file[s]) /\ ~Whole(file[s])
    <2>1. Numbers(ParseTurns(file[s], AgentOf(s))) = {}
      BY <1>4 DEF ParseTurns, Numbers
    <2> QED
      BY <2>1 DEF Gapless
  <1>5. CASE ~(IsJson(file[s]) /\ ~Whole(file[s]))
    <2> DEFINE nos == Numbers(ParseTurns(file[s], AgentOf(s)))
    <2>1. ParseTurns(file[s], AgentOf(s)) = TurnsOf(Sound(lines), AgentOf(s))
      BY <1>5 DEF ParseTurns
    <2> HIDE DEF lines, n
    <2>2. \A i \in 1 .. n : AllJson(lines, i - 1) /\ lines[i].text = "json"
      BY <1>2 DEF AllJson
    <2>3. \A i \in 1 .. n : lines[i].no = i /\ said[s][i] = lines[i].turn /\ i \in 1 .. Len(said[s])
      BY <1>1, <1>2, <1>3, <2>2
    <2>4. \A i \in 1 .. n : lines[i].turn => lines[i].type \in TurnTypes(AgentOf(s))
      <3> SUFFICES ASSUME NEW i \in 1 .. n, lines[i].turn
                   PROVE  lines[i].type \in TurnTypes(AgentOf(s))
        OBVIOUS
      <3>1. i \in 1 .. Len(lines)
        BY <1>1, <1>2
      <3>2. OfKind(kind[s], i, lines[i])
        BY <1>3, <3>1
      <3> QED
        BY <1>1, <3>2 DEF OfKind, TurnTypes, AgentOf, AgentOfKind, AllKinds
    <2>5. DOMAIN Sound(lines) = 1 .. n
      BY <1>2 DEF n
    <2>6. nos = { i \in 1 .. n : said[s][i] }
      <3>1. ASSUME NEW i \in 1 .. n, said[s][i]
            PROVE  i \in nos
        <4>1. lines[i] \in TurnsOf(Sound(lines), AgentOf(s)) /\ lines[i].no = i
          BY <1>2, <2>2, <2>3, <2>4, <2>5, <3>1 DEF TurnsOf, ToSet
        <4> QED
          BY <2>1, <4>1 DEF Numbers
      <3>2. ASSUME NEW i \in nos
            PROVE  i \in 1 .. n /\ said[s][i]
        <4>1. PICK l \in TurnsOf(Sound(lines), AgentOf(s)) : l.no = i
          BY <2>1 DEF Numbers
        <4>2. PICK j \in 1 .. n : l = lines[j] /\ l.turn
          BY <1>2, <2>5, <4>1 DEF TurnsOf, ToSet
        <4> QED
          BY <2>3, <4>1, <4>2
      <3> HIDE DEF nos
      <3> QED
        BY <3>1, <3>2
    <2> HIDE DEF nos
    <2>7. n \in Nat
      BY <1>1, <1>2
    <2> QED
      BY <2>3, <2>6, <2>7 DEF Gapless, nos
  <1> QED
    BY <1>4, <1>5

-----------------------------------------------------------------------------
(* A transcript goes on: the lines that were JSON stay.                    *)
SessionGoesOn(s) ==
    /\ file'[s].suffix = file[s].suffix
    /\ GoesOn(file[s].lines, file'[s].lines)
    /\ Len(said[s]) <= Len(said'[s])
    /\ \A m \in 1 .. Len(said[s]) : said'[s][m] = said[s][m]

FilesGrow ==
    /\ machine' = machine /\ kind' = kind
    /\ \A s \in Sessions : SessionGoesOn(s)

LEMMA InitTranscribed == Init => Transcribed
  <1> SUFFICES ASSUME Init
               PROVE  Transcribed
    OBVIOUS
  <1>1. <<>> \in Seq(Line) /\ <<>> \in Seq(BOOLEAN)
    OBVIOUS
  <1>2. \A s \in Sessions : file[s].lines = <<>> /\ said[s] = <<>> /\ live[s] = "new"
    BY DEF Init
  <1>3. \A s \in Sessions : Written(s)
    BY <1>2 DEF Written, AllJson
  <1> QED
    BY <1>1, <1>3 DEF Init, Transcribed

(* A session whose file stays, and does what is between its lines.         *)
LEMMA UnchangedIsWritten ==
  ASSUME Transcribed, NEW s \in Sessions, kind' = kind,
         file'[s] = file[s], said'[s] = said[s],
         \/ live'[s] = live[s]
         \/ live'[s] = "closed"
         \/ live'[s] = "open" /\ (file[s].lines # <<>> => Last(file[s].lines).text # "cut")
  PROVE  Written(s)' /\ SessionGoesOn(s)
  <1>1. /\ Written(s)
        /\ file[s].lines \in Seq(Line) /\ said[s] \in Seq(BOOLEAN)
    BY KindKnown
  <1>2. SessionGoesOn(s)
    BY <1>1 DEF SessionGoesOn, GoesOn
  <1>3. Written(s)'
    BY <1>1 DEF Written, AllJson
  <1> QED
    BY <1>2, <1>3

LEMMA OneIsWritten ==
  ASSUME Transcribed, NEW s \in Sessions, machine' = machine, kind' = kind,
         live' \in [Sessions -> {"new", "open", "writing", "closed"}],
         said' \in [Sessions -> Seq(BOOLEAN)],
         file' \in [Sessions -> [suffix : {"json", "jsonl"}, lines : Seq(Line)]],
         file'[s].suffix = file[s].suffix, Written(s)', SessionGoesOn(s),
         \A q \in Sessions \ {s} :
            live'[q] = live[q] /\ said'[q] = said[q] /\ file'[q] = file[q]
  PROVE  Transcribed' /\ FilesGrow
  <1>1. ASSUME NEW q \in Sessions, q # s
        PROVE  Written(q)' /\ SessionGoesOn(q)
    BY <1>1, UnchangedIsWritten
  <1>2. \A q \in Sessions : Written(q)' /\ SessionGoesOn(q)
    BY <1>1
  <1>3. \A q \in Sessions :
           file'[q].suffix = (IF kind'[q] = "gemini-json" THEN "json" ELSE "jsonl")
    BY DEF Transcribed
  <1>4. Transcribed'
    BY <1>2, <1>3 DEF Transcribed
  <1> QED
    BY <1>2, <1>4 DEF FilesGrow

LEMMA BeginIsWritten ==
  ASSUME Transcribed, NEW s \in Sessions, BeginLine(s)
  PROVE  Transcribed' /\ FilesGrow
  <1> DEFINE lines == file[s].lines
             N == Len(lines)
             T == Len(said[s])
  <1>1. /\ Written(s) /\ kind[s] \in AllKinds
        /\ lines \in Seq(Line) /\ said[s] \in Seq(BOOLEAN)
    BY KindKnown
  <1>2. /\ live[s] = "open" /\ live' = [live EXCEPT ![s] = "writing"]
        /\ machine' = machine /\ kind' = kind
    BY DEF BeginLine
  <1>3. PICK line \in IF said[s] = <<>> THEN FirstLines(kind[s]) ELSE LaterLines(kind[s]),
             text \in {"torn", "cut"} :
          /\ said' = [said EXCEPT ![s] = Append(@, line.turn)]
          /\ file' = IF lines # <<>> /\ Last(lines).text = "torn" THEN file
                     ELSE [file EXCEPT ![s].lines =
                             Append(@, [line EXCEPT !.no = T + 1, !.text = text])]
    BY DEF BeginLine
  <1>4. T \in Nat /\ N \in Nat /\ N <= T /\ (T > 0 => N > 0)
    BY <1>1 DEF Written
  <1>5. (said[s] = <<>>) <=> (N + 1 = 1)
    BY <1>1, <1>4
  <1> DEFINE new == [line EXCEPT !.no = T + 1, !.text = text]
  <1>6. /\ new \in Line /\ OfKind(kind[s], N + 1, new)
        /\ new.no = T + 1 /\ new.text = text /\ new.turn = line.turn /\ line.turn \in BOOLEAN
    <2>1. N + 1 \in Nat \ {0} /\ T + 1 \in Nat /\ text \in Texts
      BY <1>4 DEF Texts
    <2> DEFINE i == N + 1
               n == T + 1
               k == kind[s]
    <2>2. line \in LinesOf(k, i)
      BY <1>5 DEF LinesOf
    <2>3. i \in Nat \ {0} /\ n \in Nat /\ text \in Texts /\ k \in AllKinds
      BY <1>1, <2>1
    <2> HIDE DEF i, n, k
    <2>4. line \in Line /\ OfKind(k, i, line)
      BY <2>2, <2>3, LinesOfAgents
    <2>5. LET l == [line EXCEPT !.no = n, !.text = text]
          IN  /\ l \in Line /\ l.no = n /\ l.text = text /\ l.turn = line.turn
              /\ OfKind(k, i, line) => OfKind(k, i, l)
      BY <2>3, <2>4, NumberedLine
    <2>6. line.turn \in BOOLEAN
      BY <2>4 DEF Line
    <2> QED
      BY <2>4, <2>5, <2>6 DEF i, n, k
  <1> HIDE DEF new
  <1>7. /\ said' \in [Sessions -> Seq(BOOLEAN)] /\ said'[s] = Append(said[s], line.turn)
        /\ \A q \in Sessions \ {s} : said'[q] = said[q]
    BY <1>1, <1>3, <1>6 DEF Transcribed
  <1>8. /\ live' \in [Sessions -> {"new", "open", "writing", "closed"}]
        /\ live'[s] = "writing" /\ \A q \in Sessions \ {s} : live'[q] = live[q]
    BY <1>2 DEF Transcribed
  <1>9. /\ file' \in [Sessions -> [suffix : {"json", "jsonl"}, lines : Seq(Line)]]
        /\ file'[s].lines = IF lines # <<>> /\ Last(lines).text = "torn" THEN lines
                            ELSE Append(lines, new)
        /\ \A q \in Sessions : file'[q].suffix = file[q].suffix
        /\ \A q \in Sessions \ {s} : file'[q] = file[q]
    <2>1. file \in [Sessions -> [suffix : {"json", "jsonl"}, lines : Seq(Line)]]
      BY DEF Transcribed
    <2>2. Append(lines, new) \in Seq(Line)
      BY <1>1, <1>6
    <2>3. CASE lines # <<>> /\ Last(lines).text = "torn"
      BY <1>3, <2>1, <2>3
    <2>4. CASE ~(lines # <<>> /\ Last(lines).text = "torn")
      <3>1. file' = [file EXCEPT ![s].lines = Append(lines, new)]
        BY <1>3, <2>4 DEF new
      <3> QED
        BY <2>1, <2>2, <2>4, <3>1
    <2> QED
      BY <2>3, <2>4
  <1>10. /\ Len(said'[s]) = T + 1 /\ said'[s][T + 1] = line.turn
         /\ \A m \in 1 .. T : said'[s][m] = said[s][m]
    BY <1>1, <1>6, <1>7
  <1>11. /\ \A i \in 1 .. N :
               /\ OfKind(kind[s], i, lines[i]) /\ lines[i].no \in i .. T
               /\ said[s][lines[i].no] = lines[i].turn
               /\ AllJson(lines, i - 1) => lines[i].no = i
               /\ i < N => lines[i].text \in {"json", "broken"}
         /\ AllJson(lines, N) => N = T
         /\ lines # <<>> => Last(lines).text # "cut"
    BY <1>1, <1>2 DEF Written
  <1>12. \A i \in 1 .. N : said'[s][lines[i].no] = lines[i].turn /\ lines[i].no \in i .. T + 1
    BY <1>4, <1>10, <1>11
  <1>13. CASE lines # <<>> /\ Last(lines).text = "torn"
    <2>1. file'[s].lines = lines /\ kind'[s] = kind[s]
      BY <1>2, <1>9, <1>13
    <2>2. N # 0 /\ lines[N].text = "torn"
      BY <1>1, <1>13 DEF Last
    <2>3. ~AllJson(lines, N)
      BY <1>4, <2>2 DEF AllJson
    <2>4. Written(s)'
      <3> HIDE DEF lines, N, T
      <3>1. \A i \in 1 .. N :
               /\ OfKind(kind[s], i, lines[i])
               /\ lines[i].no \in i .. Len(said'[s])
               /\ said'[s][lines[i].no] = lines[i].turn
               /\ AllJson(lines, i - 1) => lines[i].no = i
               /\ i < N => lines[i].text \in {"json", "broken"}
        BY <1>10, <1>11, <1>12
      <3>2. N <= Len(said'[s]) /\ lines # <<>> /\ Last(lines).text \in {"torn", "cut"}
        BY <1>4, <1>10, <1>13
      <3> QED
        BY <1>8, <2>1, <2>3, <3>1, <3>2 DEF Written, N
    <2>5. SessionGoesOn(s)
      BY <1>4, <1>9, <1>10, <2>1 DEF SessionGoesOn, GoesOn
    <2> QED
      BY <1>2, <1>7, <1>8, <1>9, <2>4, <2>5, OneIsWritten
  <1>14. CASE ~(lines # <<>> /\ Last(lines).text = "torn")
    <2> DEFINE more == Append(lines, new)
    <2>1. file'[s].lines = more /\ kind'[s] = kind[s]
      BY <1>2, <1>9, <1>14
    <2>2. /\ Len(more) = N + 1 /\ more[N + 1] = new /\ \A i \in 1 .. N : more[i] = lines[i]
          /\ more \in Seq(Line) /\ more # <<>> /\ Last(more) = new
      BY <1>1, <1>6 DEF Last
    <2> HIDE DEF lines, more
    <2>3. N # 0 => lines[N].text \in {"json", "broken"}
      <3> SUFFICES ASSUME N # 0
                   PROVE  lines[N].text \in {"json", "broken"}
        OBVIOUS
      <3>1. lines # <<>> /\ Last(lines) = lines[N] /\ lines[N] \in Line
        BY <1>1 DEF Last, lines
      <3> QED
        BY <1>11, <1>14, <3>1 DEF Line, Texts
    <2>4. \A i \in 1 .. N + 1 : AllJson(more, i - 1) <=> AllJson(lines, i - 1)
      BY <1>4, <2>2 DEF AllJson
    <2>5. ~AllJson(more, N + 1)
      BY <1>4, <1>6, <2>2 DEF AllJson
    <2>6. \A i \in 1 .. N + 1 :
             /\ OfKind(kind[s], i, more[i]) /\ more[i].no \in i .. T + 1
             /\ said'[s][more[i].no] = more[i].turn
             /\ AllJson(more, i - 1) => more[i].no = i
             /\ i < N + 1 => more[i].text \in {"json", "broken"}
      <3> SUFFICES ASSUME NEW i \in 1 .. N + 1
                   PROVE  /\ OfKind(kind[s], i, more[i]) /\ more[i].no \in i .. T + 1
                          /\ said'[s][more[i].no] = more[i].turn
                          /\ AllJson(more, i - 1) => more[i].no = i
                          /\ i < N + 1 => more[i].text \in {"json", "broken"}
        OBVIOUS
      <3>1. CASE i = N + 1
        BY <1>4, <1>6, <1>10, <1>11, <2>2, <2>4, <3>1
      <3>2. CASE i # N + 1
        <4>1. i \in 1 .. N /\ more[i] = lines[i] /\ (i < N \/ i = N)
          BY <1>4, <2>2, <3>2
        <4> QED
          BY <1>4, <1>11, <1>12, <2>3, <2>4, <4>1
      <3> QED
        BY <3>1, <3>2
    <2>7. Written(s)'
      <3> HIDE DEF N, T
      <3>1. N + 1 <= Len(said'[s]) /\ Last(more).text \in {"torn", "cut"}
        BY <1>4, <1>6, <1>10, <2>2
      <3> QED
        BY <1>8, <1>10, <2>1, <2>2, <2>5, <2>6, <3>1 DEF Written
    <2>8. SessionGoesOn(s)
      BY <1>4, <1>9, <1>10, <2>1, <2>2 DEF SessionGoesOn, GoesOn, lines
    <2> QED
      BY <1>2, <1>7, <1>8, <1>9, <2>7, <2>8, OneIsWritten
  <1> QED
    BY <1>13, <1>14

LEMMA EndIsWritten ==
  ASSUME Transcribed, NEW s \in Sessions, EndLine(s)
  PROVE  Transcribed' /\ FilesGrow
  <1> DEFINE lines == file[s].lines
             N == Len(lines)
             T == Len(said[s])
             text == IF Last(lines).no = T THEN "json" ELSE "broken"
             more == [lines EXCEPT ![N].text = text]
  <1>1. /\ Written(s) /\ lines \in Seq(Line) /\ said[s] \in Seq(BOOLEAN)
    BY KindKnown
  <1>2. /\ live[s] = "writing" /\ live' = [live EXCEPT ![s] = "open"]
        /\ machine' = machine /\ kind' = kind /\ said' = said
        /\ file' = [file EXCEPT ![s].lines = more]
    BY DEF EndLine
  <1>3. /\ lines # <<>> /\ Last(lines) = lines[N] /\ lines[N].text \in {"torn", "cut"}
        /\ N \in Nat \ {0} /\ T \in Nat /\ N <= T
    BY <1>1, <1>2 DEF Written, Last
  <1>4. /\ more \in Seq(Line) /\ Len(more) = N
        /\ \A i \in 1 .. N - 1 : more[i] = lines[i]
        /\ more[N] = [lines[N] EXCEPT !.text = text]
    <2>1. text \in Texts /\ lines[N] \in Line
      BY <1>1, <1>3 DEF Texts
    <2> HIDE DEF text
    <2>3. [lines[N] EXCEPT !.text = text] \in Line
      BY <2>1 DEF Line
    <2>2. more = [lines EXCEPT ![N] = [lines[N] EXCEPT !.text = text]]
      OBVIOUS
    <2> QED
      BY <1>1, <1>3, <2>2, <2>3
  <1>5. /\ more[N].type = lines[N].type /\ more[N].keys = lines[N].keys
        /\ more[N].blank = lines[N].blank /\ more[N].turn = lines[N].turn
        /\ more[N].no = lines[N].no /\ more[N].text = text
    BY <1>1, <1>3, <1>4 DEF Line
  <1>6. /\ file' \in [Sessions -> [suffix : {"json", "jsonl"}, lines : Seq(Line)]]
        /\ file'[s].lines = more
        /\ \A q \in Sessions : file'[q].suffix = file[q].suffix
        /\ \A q \in Sessions \ {s} : file'[q] = file[q]
    <2> HIDE DEF more
    <2>1. file \in [Sessions -> [suffix : {"json", "jsonl"}, lines : Seq(Line)]]
      BY DEF Transcribed
    <2>2. file' = [file EXCEPT ![s].lines = more] /\ more \in Seq(Line)
      BY <1>2, <1>4
    <2> QED
      BY <2>1, <2>2
  <1>7. /\ live' \in [Sessions -> {"new", "open", "writing", "closed"}]
        /\ live'[s] = "open" /\ \A q \in Sessions \ {s} : live'[q] = live[q]
    BY <1>2 DEF Transcribed
  <1>8. /\ \A i \in 1 .. N :
              /\ OfKind(kind[s], i, lines[i]) /\ lines[i].no \in i .. T
              /\ said[s][lines[i].no] = lines[i].turn
              /\ AllJson(lines, i - 1) => lines[i].no = i
              /\ i < N => lines[i].text \in {"json", "broken"}
    BY <1>1 DEF Written
  <1>9. text \in {"json", "broken"} /\ (text = "json" => lines[N].no = T)
    BY <1>3
  <1> HIDE DEF lines, more, text
  <1>10. \A i \in 1 .. N : AllJson(more, i - 1) <=> AllJson(lines, i - 1)
    <2> SUFFICES ASSUME NEW i \in 1 .. N
                 PROVE  AllJson(more, i - 1) <=> AllJson(lines, i - 1)
      OBVIOUS
    <2>1. \A j \in 1 .. i - 1 : more[j] = lines[j]
      BY <1>3, <1>4
    <2> QED
      BY <2>1 DEF AllJson
  <1>11. OfKind(kind[s], N, more[N])
    <2>1. OfKind(kind[s], N, lines[N])
      BY <1>3, <1>8
    <2>2. kind[s] \in AllKinds
      BY KindKnown
    <2> QED
      BY <1>5, <2>1, <2>2 DEF OfKind, Has, AllKinds
  <1>12. \A i \in 1 .. N :
            /\ OfKind(kind[s], i, more[i]) /\ more[i].no \in i .. T
            /\ said[s][more[i].no] = more[i].turn
            /\ AllJson(more, i - 1) => more[i].no = i
            /\ i < N => more[i].text \in {"json", "broken"}
    <2> SUFFICES ASSUME NEW i \in 1 .. N
                 PROVE  /\ OfKind(kind[s], i, more[i]) /\ more[i].no \in i .. T
                        /\ said[s][more[i].no] = more[i].turn
                        /\ AllJson(more, i - 1) => more[i].no = i
                        /\ i < N => more[i].text \in {"json", "broken"}
      OBVIOUS
    <2>1. CASE i = N
      BY <1>3, <1>5, <1>8, <1>10, <1>11, <2>1
    <2>2. CASE i # N
      <3>1. i \in 1 .. N - 1 /\ more[i] = lines[i]
        BY <1>3, <1>4, <2>2
      <3> QED
        BY <1>3, <1>8, <1>10, <3>1
    <2> QED
      BY <2>1, <2>2
  <1>13. AllJson(more, N) => N = T
    <2> SUFFICES ASSUME AllJson(more, N)
                 PROVE  N = T
      OBVIOUS
    <2>1. more[N].text = "json" /\ AllJson(more, N - 1)
      BY <1>3 DEF AllJson
    <2> QED
      BY <1>3, <1>5, <1>8, <1>9, <1>10, <2>1
  <1>14. more # <<>> /\ Last(more).text # "cut"
    BY <1>3, <1>4, <1>5, <1>9 DEF Last
  <1>15. Written(s)'
    <2>1. kind'[s] = kind[s] /\ said'[s] = said[s] /\ file'[s].lines = more
      BY <1>2, <1>6
    <2> HIDE DEF N, T
    <2> QED
      BY <1>3, <1>4, <1>7, <1>12, <1>13, <1>14, <2>1 DEF Written, T
  <1>16. SessionGoesOn(s)
    <2>1. \A i \in 1 .. N : lines[i].text = "json" => i \in 1 .. N - 1
      BY <1>3
    <2> QED
      BY <1>2, <1>3, <1>4, <1>6, <2>1 DEF SessionGoesOn, GoesOn, lines
  <1> QED
    BY <1>2, <1>6, <1>7, <1>15, <1>16, OneIsWritten DEF Transcribed

LEMMA NextIsTranscribed ==
  ASSUME Transcribed, [Next]_vars
  PROVE  Transcribed' /\ FilesGrow
  <1>1. ASSUME UNCHANGED <<machine, kind, said, file>>,
               live' \in [Sessions -> {"new", "open", "writing", "closed"}],
               \A s \in Sessions :
                  \/ live'[s] = live[s]
                  \/ live'[s] = "closed"
                  \/ /\ live'[s] = "open"
                     /\ file[s].lines # <<>> => Last(file[s].lines).text # "cut"
        PROVE  Transcribed' /\ FilesGrow
    BY <1>1, UnchangedIsWritten DEF Transcribed, FilesGrow
  <1>2. CASE UNCHANGED agentVars
    BY <1>1, <1>2 DEF agentVars, Transcribed
  <1>3. ASSUME NEW s \in Sessions, Open(s)
        PROVE  Transcribed' /\ FilesGrow
    <2>1. /\ UNCHANGED <<machine, kind, said, file>> /\ live' = [live EXCEPT ![s] = "open"]
          /\ file[s].lines # <<>> => Last(file[s].lines).text # "cut"
      BY <1>3 DEF Open
    <2> QED
      BY <1>1, <2>1 DEF Transcribed
  <1>4. ASSUME NEW s \in Sessions, Close(s)
        PROVE  Transcribed' /\ FilesGrow
    <2>1. UNCHANGED <<machine, kind, said, file>> /\ live' = [live EXCEPT ![s] = "closed"]
      BY <1>4 DEF Close
    <2> QED
      BY <1>1, <2>1 DEF Transcribed
  <1>5. \/ UNCHANGED agentVars
        \/ \E s \in Sessions : Open(s) \/ BeginLine(s) \/ EndLine(s) \/ Close(s)
    <2>1. CASE UNCHANGED vars
      BY <2>1 DEF vars
    <2>2. CASE Next
      BY <2>2 DEF Next, EndTurn, TakeJob, Edit, DetectSource, ReadTurns,
                  ReadMeta, StoreJob,
         Discover, ReadDate, UploadText, Scan, NextFile, StoreBatch, Skip, WriteScript,
         ReadFails, Begin, ReadUserFile, Truncate, Fill, Die, UnreadVars, UploadLeaves
    <2> QED
      BY <2>1, <2>2
  <1> QED
    BY <1>2, <1>3, <1>4, <1>5, BeginIsWritten, EndIsWritten

-----------------------------------------------------------------------------
(* What was known of a transcript still holds when it has gone on.         *)
LEMMA NoMetadataLine ==
  ASSUME NEW f, f.lines \in Seq(Line), ~IsJson(f),
         \A i \in 1 .. Len(f.lines) : OfKind("gemini-jsonl", i, f.lines[i]),
         FirstIsJson(f), f.lines[1].type = "gemini"
  PROVE  Identity(f, "gemini-cli") = 0
  <1> DEFINE lines == f.lines
             found == Sound(lines)
  <1>1. /\ found \in Seq(Line) /\ Len(found) \in 0 .. Len(lines)
        /\ \A i \in 1 .. Len(found) : found[i] = lines[i]
    BY SoundIsPrefix
  <1> HIDE DEF found
  <1>2. \A i \in 1 .. Len(lines) : lines[i].type # "session_metadata"
    BY DEF OfKind
  <1>3. \A i \in 1 .. Len(found) : found[i].type # "session_metadata"
    BY <1>1, <1>2
  <1>4. MetaLine(found, "gemini-cli") = 0
    BY <1>3 DEF MetaLine, SelectInSeq
  <1> QED
    BY <1>4 DEF Identity, found

LEMMA KnownStays ==
  ASSUME Transcribed, Transcribed', FilesGrow, NEW s \in Sessions
  PROVE  /\ kind'[s] = kind[s] /\ AgentOf(s)' = AgentOf(s)
         /\ \A nos : Gapless(said[s], nos) => Gapless(said'[s], nos)
         /\ Identity(file[s], AgentOf(s)) \in 0 .. Len(file[s].lines)
         /\ Identity(file[s], AgentOf(s)) # 0 =>
               Identity(file'[s], AgentOf(s)) = Identity(file[s], AgentOf(s))
         /\ FirstIsJson(file[s]) => FirstIsJson(file'[s])
         /\ IsJson(file'[s]) <=> IsJson(file[s])
         /\ Settled(kind[s], file[s]) =>
               /\ Settled(kind[s], file'[s])
               /\ Identity(file'[s], AgentOf(s)) = Identity(file[s], AgentOf(s))
  <1> DEFINE lines == file[s].lines
             more  == file'[s].lines
             source == AgentOf(s)
  <1>1. /\ kind'[s] = kind[s] /\ AgentOf(s)' = source
        /\ IsJson(file'[s]) <=> IsJson(file[s])
        /\ GoesOn(lines, more) /\ Len(said[s]) <= Len(said'[s])
        /\ \A m \in 1 .. Len(said[s]) : said'[s][m] = said[s][m]
    BY DEF FilesGrow, SessionGoesOn, AgentOf, IsJson
  <1>2. lines \in Seq(Line) /\ source \in Agents /\ said[s] \in Seq(BOOLEAN)
    BY KindKnown
  <1>3. more \in Seq(Line) /\ said'[s] \in Seq(BOOLEAN)
    BY DEF Transcribed
  <1>4. \A nos : Gapless(said[s], nos) => Gapless(said'[s], nos)
    <2> SUFFICES ASSUME NEW nos, Gapless(said[s], nos)
                 PROVE  Gapless(said'[s], nos)
      OBVIOUS
    <2>1. nos \subseteq 1 .. Len(said'[s])
      BY <1>1, <1>2, <1>3 DEF Gapless
    <2>2. ASSUME NEW n \in nos, NEW m \in 1 .. n - 1, said'[s][m]
          PROVE  m \in nos
      <3>1. n \in 1 .. Len(said[s]) /\ m \in 1 .. Len(said[s])
        BY <1>2, <2>2 DEF Gapless
      <3> QED
        BY <1>1, <2>2, <3>1 DEF Gapless
    <2> QED
      BY <2>1, <2>2 DEF Gapless
  <1>5. /\ Len(Sound(lines)) <= Len(Sound(more)) /\ Len(Sound(lines)) \in 0 .. Len(lines)
        /\ \A i \in 1 .. Len(Sound(lines)) : Sound(more)[i] = Sound(lines)[i]
        /\ Sound(lines) \in Seq(Line) /\ Sound(more) \in Seq(Line)
    BY <1>1, <1>2, <1>3, SoundGrows, SoundIsPrefix
  <1>6. /\ MetaLine(Sound(lines), source) \in 0 .. Len(Sound(lines))
        /\ MetaLine(Sound(lines), source) # 0 =>
              MetaLine(Sound(more), source) = MetaLine(Sound(lines), source)
    <2> DEFINE a == Sound(lines)
               b == Sound(more)
    <2> HIDE DEF a, b, source
    <2> QED
      BY <1>2, <1>5, MetaLineStays DEF a, b
  <1>7. lines # <<>> => more # <<>> /\ 1 \in 1 .. Len(lines)
    BY <1>1, <1>2, <1>3 DEF GoesOn
  <1>8. FirstIsJson(file[s]) => FirstIsJson(file'[s]) /\ file'[s].lines[1] = file[s].lines[1]
    BY <1>1, <1>7 DEF FirstIsJson, GoesOn
  <1>9. Identity(file[s], source) \in 0 .. Len(lines)
    <2>1. CASE IsJson(file[s])
      BY <1>2, <1>7, <2>1 DEF Identity
    <2>2. CASE ~IsJson(file[s])
      BY <1>2, <1>5, <1>6, <2>2 DEF Identity
    <2> QED
      BY <2>1, <2>2
  <1>10. Identity(file[s], source) # 0 => Identity(file'[s], source) = Identity(file[s], source)
    BY <1>1, <1>6, <1>7 DEF Identity
  <1>11. ASSUME Settled(kind[s], file[s])
         PROVE  /\ Settled(kind[s], file'[s])
                /\ Identity(file'[s], source) = Identity(file[s], source)
    <2>1. CASE Identity(file[s], source) # 0
      BY <1>10, <2>1 DEF Settled, AgentOf
    <2>2. CASE ~(Identity(file[s], source) # 0)
      <3>1. /\ kind[s] = "gemini-jsonl" /\ FirstIsJson(file[s])
            /\ file[s].lines[1].type = "gemini"
        BY <1>11, <2>2 DEF Settled, AgentOf
      <3>2. FirstIsJson(file'[s]) /\ file'[s].lines[1].type = "gemini"
        BY <1>8, <3>1
      <3>3. Identity(file'[s], source) = 0
        <4>1. source = "gemini-cli" /\ ~IsJson(file'[s])
          BY <1>1, <3>1, KindKnown DEF AgentOf, AgentOfKind
        <4>2. \A i \in 1 .. Len(more) : OfKind("gemini-jsonl", i, more[i])
          BY <1>1, <3>1 DEF Transcribed, Written
        <4> HIDE DEF source
        <4> QED
          BY <1>3, <3>2, <4>1, <4>2, NoMetadataLine
      <3> QED
        BY <1>1, <2>2, <3>1, <3>2, <3>3 DEF Settled
    <2> QED
      BY <2>1, <2>2
  <1> QED
    BY <1>1, <1>4, <1>8, <1>9, <1>10, <1>11

-----------------------------------------------------------------------------
(* What the readers make of a transcript at the time.                      *)
LEMMA MetaIsIdentity ==
  ASSUME Transcribed, NEW s \in Sessions
  PROVE  /\ ParseMeta(file[s], AgentOf(s)) \in {0, Identity(file[s], AgentOf(s))}
         /\ ~IsJson(file[s]) =>
               ParseMeta(file[s], AgentOf(s)) = Identity(file[s], AgentOf(s))
         /\ IsJson(file[s]) /\ ParseTurns(file[s], AgentOf(s)) # {} =>
               /\ ParseMeta(file[s], AgentOf(s)) = 1
               /\ Identity(file[s], AgentOf(s)) = 1
  BY DEF ParseMeta, Identity, ParseTurns, Whole

LEMMA FoundByFirst ==
  ASSUME Transcribed, NEW s \in Sessions, CanParse(file[s], AgentOf(s))
  PROVE  IsJson(file[s]) \/ FirstIsJson(file[s])
  <1> DEFINE f == file[s]
             d == GeminiDecidesAt(f)
  <1>1. f.lines \in Seq(Line) /\ AgentOf(s) \in Agents
    BY KindKnown
  <1>2. CASE AgentOf(s) \in {"claude-code", "codex-cli"}
    BY <1>2 DEF CanParse, CodexParses, ClaudeParses, FirstIsJson
  <1>3. CASE AgentOf(s) = "gemini-cli"
    <2> SUFFICES ASSUME ~IsJson(f)
                 PROVE  FirstIsJson(f)
      OBVIOUS
    <2>1. d # 0 /\ f.lines[d].text = "json"
      BY <1>3 DEF CanParse, GeminiParses
    <2>2. /\ d \in 1 .. Len(f.lines)
          /\ \A i \in 1 .. d - 1 : ~Decides(f.lines[i])
      BY <1>1, <2>1, DecidesAtIsFirst
    <2>3. f.lines # <<>>
      BY <1>1, <2>2
    <2> HIDE DEF f, d
    <2>4. f.lines[1].text = "json"
      <3>1. CASE d = 1
        BY <2>1, <3>1
      <3>2. CASE d # 1
        <4>1. 1 \in 1 .. d - 1
          BY <1>1, <2>2, <3>2
        <4> QED
          BY <2>2, <4>1 DEF Decides
      <3> QED
        BY <3>1, <3>2
    <2> QED
      BY <2>3, <2>4 DEF FirstIsJson
  <1> QED
    BY <1>1, <1>2, <1>3 DEF Agents

LEMMA GivenIsSettled ==
  ASSUME Transcribed, NEW s \in Sessions,
         IsJson(file[s]) \/ FirstIsJson(file[s]), MetaGiven(file[s], AgentOf(s))
  PROVE  /\ Settled(kind[s], file[s])
         /\ ParseMeta(file[s], AgentOf(s)) = Identity(file[s], AgentOf(s))
  <1> DEFINE f == file[s]
             lines == f.lines
             source == AgentOf(s)
  <1>1. /\ kind[s] \in AllKinds /\ lines \in Seq(Line)
        /\ IsJson(f) <=> kind[s] = "gemini-json"
        /\ \A i \in 1 .. Len(lines) : OfKind(kind[s], i, lines[i])
    BY KindKnown DEF Written
  <1>2. CASE IsJson(f)
    BY <1>2, MetaIsIdentity DEF MetaGiven, Settled, AgentOf
  <1>3. CASE ~IsJson(f)
    <2>1. ParseMeta(f, source) = Identity(f, source)
      BY <1>3, MetaIsIdentity
    <2>2. Identity(f, source) = MetaLine(Sound(lines), source)
      BY <1>3 DEF Identity
    <2>3. lines # <<>> /\ lines[1].text = "json" /\ 1 \in 1 .. Len(lines)
      BY <1>1, <1>3 DEF FirstIsJson
    <2>4. 1 \in 1 .. Len(Sound(lines)) /\ Sound(lines)[1] = lines[1]
      <3> DEFINE n == Len(Sound(lines))
      <3>1. /\ n \in 0 .. Len(lines) /\ (n < Len(lines) => lines[n + 1].text # "json")
            /\ \A i \in 1 .. n : Sound(lines)[i] = lines[i]
        BY <1>1, SoundIsPrefix
      <3> HIDE DEF lines, n
      <3>2. n # 0
        BY <1>1, <2>3, <3>1
      <3> QED
        BY <1>1, <3>1, <3>2 DEF n
    <2> DEFINE a == Sound(lines)
    <2>5. a \in Seq(Line)
      BY <1>1, SoundIsPrefix
    <2>6. ASSUME NEW type, lines[1].type = type,
                 MetaLine(a, source) = SelectInSeq(a, LAMBDA l : l.type = type)
          PROVE  MetaLine(a, source) # 0
      <3> DEFINE I == { i \in 1 .. Len(a) : a[i].type = type }
      <3>1. MetaLine(a, source) = IF I # {} THEN Min(I) ELSE 0
        BY <2>6 DEF SelectInSeq
      <3>2. I \in SUBSET Nat /\ 1 \in I
        BY <2>4, <2>6
      <3>3. Min(I) \in I
        BY <3>2, MinIsLeast
      <3> HIDE DEF a
      <3> QED
        BY <3>1, <3>2, <3>3
    <2> HIDE DEF a
    <2>7. CASE kind[s] = "claude"
      <3>1. source = "claude-code"
        BY <2>7 DEF AgentOf, AgentOfKind
      <3> QED
        BY <1>3, <2>1, <2>2, <3>1 DEF MetaGiven, Settled, AgentOf
    <2>8. CASE kind[s] = "codex"
      <3>1. source = "codex-cli" /\ lines[1].type = "session_meta"
        BY <1>1, <2>3, <2>8 DEF AgentOf, AgentOfKind, OfKind
      <3>2. MetaLine(a, source) # 0
        BY <2>6, <3>1 DEF MetaLine, SelectInSeq
      <3> QED
        BY <2>1, <2>2, <3>2 DEF Settled, AgentOf, a
    <2>9. CASE kind[s] = "gemini-jsonl"
      <3>1. source = "gemini-cli" /\ lines[1].type \in {"session_metadata", "gemini"}
        BY <1>1, <2>3, <2>9 DEF AgentOf, AgentOfKind, OfKind
      <3>2. CASE lines[1].type = "session_metadata"
        <4>1. MetaLine(a, source) # 0
          BY <2>6, <3>1, <3>2 DEF MetaLine, SelectInSeq
        <4> QED
          BY <2>1, <2>2, <4>1 DEF Settled, AgentOf, a
      <3>3. CASE lines[1].type = "gemini"
        BY <2>1, <2>3, <2>9, <3>3 DEF Settled, FirstIsJson
      <3> QED
        BY <3>1, <3>2, <3>3
    <2> QED
      BY <1>1, <1>3, <2>7, <2>8, <2>9 DEF AllKinds
  <1> QED
    BY <1>2, <1>3

-----------------------------------------------------------------------------
(* The steps of the readers.                                               *)
LEMMA TurnsAreNumbers ==
  ASSUME NEW spoken \in Seq(BOOLEAN), NEW nos, Gapless(spoken, nos)
  PROVE  nos \in SUBSET Nat /\ IsFiniteSet(nos) /\ Cardinality(nos) \in Nat
  <1>1. Len(spoken) \in Nat /\ nos \subseteq 1 .. Len(spoken)
    BY DEF Gapless
  <1>2. IsFiniteSet(1 .. Len(spoken))
    BY <1>1, FS_Interval
  <1>3. IsFiniteSet(nos)
    BY <1>1, <1>2, FS_Subset
  <1> QED
    BY <1>1, <1>3, FS_CardinalityType

LEMMA ReadersKnown ==
  /\ Worker \in Readers /\ Uploader \in Readers /\ Setups \subseteq Readers
  /\ Worker \notin Setups /\ Uploader \notin Setups /\ Worker # Uploader
  /\ Setups \subseteq Processes /\ Worker \notin Processes /\ Uploader \notin Processes
  BY ProcessesAssumption DEF Readers, Processes

(* A reader gives up what cannot be read or has too few turns, as far as   *)
(* it knows, or goes on with what the file gives.                          *)
GivesUp(p) ==
    /\ Raised(p) \/ Rejected(p)
    /\ Fresh(p) => ~Ingestible(file[reading[p].session])

LearnsSource(p) ==
    /\ reading[p].step = "detect"
    /\ Detect(file[reading[p].session]) = AgentOf(reading[p].session)
    /\ Advance(p, [reading[p] EXCEPT !.source = AgentOf(reading[p].session),
                                     !.step = "turns"])

LearnsTurns(p) ==
    /\ reading[p].step = "turns"
    /\ Advance(p, [reading[p] EXCEPT
            !.nos = Numbers(ParseTurns(file[reading[p].session], AgentOf(reading[p].session))),
            !.step = "meta"])

Prepares(p) ==
    /\ reading[p].step = "meta"
    /\ batch' = [batch EXCEPT ![p] = @ \cup
          {[session |-> reading[p].session, nos |-> reading[p].nos,
            meta |-> ParseMeta(file[reading[p].session], AgentOf(reading[p].session))]}]
    /\ reading' = [reading EXCEPT ![p] =
          IF p = Worker THEN [@ EXCEPT !.step = "store"] ELSE NoRead]
    /\ UNCHANGED <<at, todo, job>>

Reading3(p) == DetectSource(p) \/ ReadTurns(p) \/ ReadMeta(p)

LEMMA ReadingEffect ==
  ASSUME TranscriptsInv, NEW p \in Setups \cup {Worker}, Reading3(p)
  PROVE  /\ UnreadVars' = UnreadVars
         /\ reading[p].session \in Sessions /\ reading[p].step \in {"detect", "turns", "meta"}
         /\ GivesUp(p) \/ LearnsSource(p) \/ LearnsTurns(p) \/ Prepares(p)
  <1> DEFINE s == reading[p].session
             f == file[s]
             source == reading[p].source
  <1>1. UnreadVars' = UnreadVars
    BY DEF Reading3, DetectSource, ReadTurns, ReadMeta
  <1>2. reading[p].step \in {"detect", "turns", "meta"}
    BY DEF Reading3, DetectSource, ReadTurns, ReadMeta, Reads
  <1>3. s \in Sessions
    BY <1>2, ReadersKnown DEF TranscriptsInv, ReadersTyped
  <1>4. Detect(f) \in {AgentOf(s), "none"} /\ AgentOf(s) # "none"
    BY <1>3, WriterDetected, KindKnown DEF TranscriptsInv
  <1>5. CASE DetectSource(p)
    <2> USE DEF DetectSource
    <2>1. reading[p].step = "detect"
      BY <1>5 DEF Reads
    <2>2. CASE DetectRaises(f) /\ Raised(p)
      BY <1>1, <1>2, <1>3, <2>2 DEF GivesUp, Ingestible
    <2>3. CASE ~DetectRaises(f) /\ Detect(f) = "none" /\ Rejected(p)
      BY <1>1, <1>2, <1>3, <2>3 DEF GivesUp, Ingestible
    <2>4. CASE /\ ~DetectRaises(f) /\ Detect(f) # "none"
               /\ Advance(p, [reading[p] EXCEPT !.source = Detect(f), !.step = "turns"])
      <3>1. Detect(f) = AgentOf(s)
        BY <1>4, <2>4
      <3>2. LearnsSource(p)
        BY <2>1, <2>4, <3>1 DEF LearnsSource
      <3> QED
        BY <1>1, <1>2, <1>3, <3>2
    <2> QED
      BY <1>5, <2>2, <2>3, <2>4
  <1>6. ASSUME ~DetectSource(p)
        PROVE  /\ reading[p].step \in {"turns", "meta"} /\ source = AgentOf(s)
               /\ Fresh(p) => Detect(f) = source
    <2>1. reading[p].step \in {"turns", "meta"}
      BY <1>6 DEF Reading3, ReadTurns, ReadMeta, Reads
    <2> QED
      BY <2>1 DEF TranscriptsInv, ReadsAreTrue, ReaderIsTrue, Fresh
  <1>7. CASE ReadTurns(p)
    <2> DEFINE turns == ParseTurns(f, source)
    <2>1. reading[p].step = "turns" /\ ~DetectSource(p)
      BY <1>7 DEF ReadTurns, DetectSource, Reads
    <2>2. \/ ParseTurnsRaises(f, source) /\ Raised(p)
          \/ turns = {} /\ Rejected(p)
          \/ Advance(p, [reading[p] EXCEPT !.nos = Numbers(turns), !.step = "meta"])
      BY <1>7 DEF ReadTurns
    <2>3. CASE ParseTurnsRaises(f, source) /\ Raised(p)
      BY <1>1, <1>2, <1>3, <1>6, <2>1, <2>3 DEF GivesUp, Ingestible
    <2>4. CASE turns = {} /\ Rejected(p)
      <3>1. Fresh(p) => ReadableTurns(f) = {}
        BY <1>6, <2>1, <2>4 DEF ReadableTurns, Numbers
      <3>2. Cardinality({}) = 0
        BY FS_EmptySet
      <3>3. Fresh(p) => ~(Cardinality(ReadableTurns(f)) >= MinTurns)
        BY <3>1, <3>2, BoundsAssumption
      <3>4. Fresh(p) => ~Ingestible(f)
        BY <3>3 DEF Ingestible
      <3> QED
        BY <1>1, <1>2, <1>3, <2>4, <3>4 DEF GivesUp
    <2>5. CASE Advance(p, [reading[p] EXCEPT !.nos = Numbers(turns), !.step = "meta"])
      <3>1. LearnsTurns(p)
        BY <1>6, <2>1, <2>5 DEF LearnsTurns
      <3> QED
        BY <1>1, <1>2, <1>3, <3>1
    <2> QED
      BY <2>2, <2>3, <2>4, <2>5
  <1>8. CASE ReadMeta(p)
    <2>1. reading[p].step = "meta" /\ ~DetectSource(p)
      BY <1>8 DEF ReadMeta, DetectSource, Reads
    <2>2. \/ ParseMetaRaises(f, source) /\ Raised(p)
          \/ Few(reading[p].nos) /\ Rejected(p)
          \/ /\ batch' = [batch EXCEPT ![p] = @ \cup
                    {[session |-> s, nos |-> reading[p].nos, meta |-> ParseMeta(f, source)]}]
             /\ reading' = [reading EXCEPT ![p] =
                    IF p = Worker THEN [@ EXCEPT !.step = "store"] ELSE NoRead]
             /\ UNCHANGED <<at, todo, job>>
      BY <1>8 DEF ReadMeta
    <2>3. CASE ParseMetaRaises(f, source) /\ Raised(p)
      BY <1>1, <1>2, <1>3, <1>6, <2>1, <2>3 DEF GivesUp, Ingestible
    <2>4. CASE Few(reading[p].nos) /\ Rejected(p)
      <3>1. Gapless(said[s], reading[p].nos)
        BY <2>1 DEF TranscriptsInv, ReadsAreTrue, ReaderIsTrue
      <3>2. Cardinality(reading[p].nos) \in Nat
        BY <1>3, <3>1, TurnsAreNumbers, KindKnown DEF TranscriptsInv
      <3>3. Cardinality(reading[p].nos) < MinTurns
        BY <2>4 DEF Few
      <3>4. ~(Cardinality(reading[p].nos) >= MinTurns)
        BY <3>2, <3>3, BoundsAssumption
      <3>5. Fresh(p) => reading[p].nos = ReadableTurns(f)
        BY <2>1 DEF Fresh
      <3>6. Fresh(p) => ~Ingestible(f)
        BY <3>4, <3>5 DEF Ingestible
      <3> QED
        BY <1>1, <1>2, <1>3, <2>4, <3>6 DEF GivesUp
    <2>5. CASE /\ batch' = [batch EXCEPT ![p] = @ \cup
                    {[session |-> s, nos |-> reading[p].nos, meta |-> ParseMeta(f, source)]}]
               /\ reading' = [reading EXCEPT ![p] =
                    IF p = Worker THEN [@ EXCEPT !.step = "store"] ELSE NoRead]
               /\ UNCHANGED <<at, todo, job>>
      <3>1. Prepares(p)
        BY <1>6, <2>1, <2>5 DEF Prepares
      <3> QED
        BY <1>1, <1>2, <1>3, <3>1
    <2> QED
      BY <2>2, <2>3, <2>4, <2>5
  <1> QED
    BY <1>5, <1>7, <1>8 DEF Reading3

-----------------------------------------------------------------------------
(* The types of what is read and stored.                                   *)
LEMMA OneReading ==
  ASSUME ReadersTyped, NEW p \in Readers, NEW r \in Reading,
         r.step \in StepsOfReader(p), r.step # "none" => r.session \in Sessions,
         reading' = [reading EXCEPT ![p] = r]
  PROVE  ReadersTyped' /\ reading'[p] = r /\ \A q \in Readers \ {p} : reading'[q] = reading[q]
  BY DEF ReadersTyped, StepsOfReader

LEMMA NoReadTyped ==
  /\ NoRead \in Reading /\ NoRead.step = "none" /\ NoRead.current = TRUE
  /\ \A p : NoRead.step \in StepsOfReader(p)
  BY DEF NoRead, Reading, ReadSteps, StepsOfReader

LEMMA LeavingTyped ==
  ASSUME ReadersTyped, NEW p \in Readers, Leave(p)
  PROVE  /\ ReadersTyped' /\ reading'[p] = NoRead
         /\ \A q \in Readers \ {p} : reading'[q] = reading[q]
  <1>1. reading' = [reading EXCEPT ![p] = NoRead]
    BY DEF Leave
  <1> HIDE DEF NoRead
  <1> QED
    BY <1>1, NoReadTyped, OneReading

(* A reader begins to read a transcript.                                   *)
LEMMA BeginningTyped ==
  ASSUME ReadersTyped, NEW p \in Readers, NEW s \in Sessions, p # Uploader,
         reading' = [reading EXCEPT ![p] = [NoRead EXCEPT !.session = s, !.step = "detect"]]
  PROVE  /\ ReadersTyped' /\ reading'[p].session = s /\ reading'[p].step = "detect"
         /\ \A q \in Readers \ {p} : reading'[q] = reading[q]
  <1> DEFINE r == [NoRead EXCEPT !.session = s, !.step = "detect"]
  <1>1. r \in Reading /\ r.step = "detect" /\ r.session = s
    BY DEF NoRead, Reading, ReadSteps
  <1>2. r.step \in StepsOfReader(p)
    BY <1>1 DEF StepsOfReader
  <1>3. reading' = [reading EXCEPT ![p] = r]
    OBVIOUS
  <1> HIDE DEF r
  <1> QED
    BY <1>1, <1>2, <1>3, OneReading

(* A turn of s ends while the worker may read s.                           *)
LEMMA TurnEndTyped ==
  ASSUME ReadersTyped, NEW s,
         reading' = [reading EXCEPT ![Worker].current = @ /\ reading[Worker].session # s]
  PROVE  /\ ReadersTyped'
         /\ reading'[Worker].step = reading[Worker].step
         /\ reading'[Worker].session = reading[Worker].session
         /\ reading'[Worker].source = reading[Worker].source
         /\ reading'[Worker].nos = reading[Worker].nos
         /\ reading'[Worker].current => reading[Worker].current /\ reading[Worker].session # s
         /\ \A q \in Readers \ {Worker} : reading'[q] = reading[q]
  <1> DEFINE b == reading[Worker].current /\ reading[Worker].session # s
             r == [reading[Worker] EXCEPT !.current = b]
  <1>1. reading[Worker] \in Reading /\ reading[Worker].step \in StepsOfReader(Worker)
    BY ReadersKnown DEF ReadersTyped
  <1>2. b \in BOOLEAN
    OBVIOUS
  <1>3. reading' = [reading EXCEPT ![Worker] = r]
    BY ReadersKnown DEF ReadersTyped
  <1>4. b => reading[Worker].current /\ reading[Worker].session # s
    OBVIOUS
  <1> HIDE DEF b
  <1>5. /\ r \in Reading /\ r.step = reading[Worker].step /\ r.session = reading[Worker].session
        /\ r.source = reading[Worker].source /\ r.nos = reading[Worker].nos /\ r.current = b
    BY <1>1, <1>2 DEF Reading
  <1>6. r.step # "none" => r.session \in Sessions
    BY <1>5, ReadersKnown DEF ReadersTyped
  <1> HIDE DEF r
  <1>7. /\ ReadersTyped' /\ reading'[Worker] = r
        /\ \A q \in Readers \ {Worker} : reading'[q] = reading[q]
    BY <1>1, <1>3, <1>5, <1>6, ReadersKnown, OneReading
  <1> QED
    BY <1>4, <1>5, <1>7

(* What a reading step leaves to p.                                        *)
LEMMA SourceLearned ==
  ASSUME TranscriptsInv, NEW p \in Setups \cup {Worker}, LearnsSource(p),
         reading[p].session \in Sessions
  PROVE  /\ ReadersTyped' /\ reading'[p].step = "turns"
         /\ reading'[p].session = reading[p].session
         /\ reading'[p].source = AgentOf(reading[p].session)
         /\ reading'[p].current = reading[p].current
         /\ \A q \in Readers \ {p} : reading'[q] = reading[q]
  <1> DEFINE a == AgentOf(reading[p].session)
             r == [reading[p] EXCEPT !.source = a, !.step = "turns"]
  <1>1. p \in Readers /\ p # Uploader /\ ReadersTyped /\ reading[p] \in Reading
    BY ReadersKnown DEF TranscriptsInv, ReadersTyped
  <1>2. a \in Agents
    BY KindKnown DEF TranscriptsInv
  <1> HIDE DEF a
  <1>3. /\ r \in Reading /\ r.step = "turns" /\ r.source = a
        /\ r.session = reading[p].session /\ r.current = reading[p].current
    BY <1>1, <1>2 DEF Reading, ReadSteps
  <1>4. r.step \in StepsOfReader(p)
    BY <1>1, <1>3 DEF StepsOfReader
  <1>5. reading' = [reading EXCEPT ![p] = r]
    BY DEF LearnsSource, Advance, a
  <1> HIDE DEF r
  <1> QED
    BY <1>1, <1>3, <1>4, <1>5, OneReading DEF a

LEMMA TurnsLearned ==
  ASSUME TranscriptsInv, NEW p \in Setups \cup {Worker}, LearnsTurns(p),
         reading[p].session \in Sessions
  PROVE  /\ ReadersTyped' /\ reading'[p].step = "meta"
         /\ reading'[p].session = reading[p].session
         /\ reading'[p].source = reading[p].source
         /\ reading'[p].nos = Numbers(ParseTurns(file[reading[p].session],
                                                 AgentOf(reading[p].session)))
         /\ reading'[p].current = reading[p].current
         /\ \A q \in Readers \ {p} : reading'[q] = reading[q]
  <1> DEFINE s == reading[p].session
             nos == Numbers(ParseTurns(file[s], AgentOf(s)))
             r == [reading[p] EXCEPT !.nos = nos, !.step = "meta"]
  <1>1. p \in Readers /\ p # Uploader /\ ReadersTyped /\ reading[p] \in Reading
    BY ReadersKnown DEF TranscriptsInv, ReadersTyped
  <1>2. nos \in SUBSET Nat
    BY KindKnown, TurnsReadAreGapless, TurnsAreNumbers DEF TranscriptsInv
  <1> HIDE DEF nos
  <1>3. /\ r \in Reading /\ r.step = "meta" /\ r.nos = nos /\ r.source = reading[p].source
        /\ r.session = reading[p].session /\ r.current = reading[p].current
    BY <1>1, <1>2 DEF Reading, ReadSteps
  <1>4. r.step \in StepsOfReader(p)
    BY <1>1, <1>3 DEF StepsOfReader
  <1>5. reading' = [reading EXCEPT ![p] = r]
    BY DEF LearnsTurns, Advance, nos
  <1> HIDE DEF r
  <1> QED
    BY <1>1, <1>3, <1>4, <1>5, OneReading DEF nos

LEMMA PreparedTyped ==
  ASSUME TranscriptsInv, NEW p \in Setups \cup {Worker}, Prepares(p),
         reading[p].session \in Sessions
  PROVE  LET s == reading[p].session
             new == [session |-> s, nos |-> reading[p].nos,
                     meta |-> ParseMeta(file[s], AgentOf(s))]
         IN  /\ ReadersTyped' /\ new \in Prepared
             /\ new.session = s /\ new.nos = reading[p].nos
             /\ new.meta = ParseMeta(file[s], AgentOf(s))
             /\ batch' = [batch EXCEPT ![p] = @ \cup {new}]
             /\ p # Worker => reading'[p] = NoRead
             /\ p = Worker =>
                   /\ reading'[p].step = "store" /\ reading'[p].session = s
                   /\ reading'[p].source = reading[p].source
                   /\ reading'[p].nos = reading[p].nos
                   /\ reading'[p].current = reading[p].current
             /\ \A q \in Readers \ {p} : reading'[q] = reading[q]
  <1> DEFINE s == reading[p].session
             meta == ParseMeta(file[s], AgentOf(s))
             new == [session |-> s, nos |-> reading[p].nos, meta |-> meta]
             r == [reading[p] EXCEPT !.step = "store"]
  <1>1. p \in Readers /\ p # Uploader /\ ReadersTyped /\ reading[p] \in Reading
    BY ReadersKnown DEF TranscriptsInv, ReadersTyped
  <1>2. meta \in Nat
    <2>1. /\ file[s].lines \in Seq(Line) /\ AgentOf(s) \in Agents
      BY KindKnown DEF TranscriptsInv
    <2>2. Sound(file[s].lines) \in Seq(Line)
      BY <2>1, SoundIsPrefix
    <2>3. MetaLine(Sound(file[s].lines), AgentOf(s)) \in 0 .. Len(Sound(file[s].lines))
      BY <2>1, <2>2, MetaLineStays
    <2> QED
      BY <2>3 DEF ParseMeta
  <1> HIDE DEF meta
  <1>3. new \in Prepared /\ new.session = s /\ new.nos = reading[p].nos /\ new.meta = meta
    BY <1>1, <1>2 DEF Reading, Prepared
  <1>4. /\ r \in Reading /\ r.step = "store" /\ r.session = s /\ r.nos = reading[p].nos
        /\ r.source = reading[p].source /\ r.current = reading[p].current
    BY <1>1 DEF Reading, ReadSteps
  <1>5. p = Worker => r.step \in StepsOfReader(p)
    BY <1>1, <1>4 DEF StepsOfReader
  <1>6. batch' = [batch EXCEPT ![p] = @ \cup {new}]
    BY DEF Prepares, meta
  <1>7. /\ p = Worker => reading' = [reading EXCEPT ![p] = r]
        /\ p # Worker => Leave(p)
    BY <1>1 DEF Prepares, Leave, ReadersTyped
  <1> HIDE DEF r, new
  <1>8. CASE p = Worker
    <2>1. /\ ReadersTyped' /\ reading'[p] = r
          /\ \A q \in Readers \ {p} : reading'[q] = reading[q]
      BY <1>1, <1>4, <1>5, <1>7, <1>8, OneReading
    <2> QED
      BY <1>3, <1>4, <1>6, <1>8, <2>1 DEF new, meta
  <1>9. CASE p # Worker
    <2>1. /\ ReadersTyped' /\ reading'[p] = NoRead
          /\ \A q \in Readers \ {p} : reading'[q] = reading[q]
      BY <1>1, <1>7, <1>9, LeavingTyped
    <2> QED
      BY <1>3, <1>6, <1>9, <2>1 DEF new, meta
  <1> QED
    BY <1>8, <1>9

LEMMA DateTyped ==
  ASSUME TranscriptsInv, ReadDate
  PROVE  /\ ReadersTyped'
         /\ \A q \in Readers \ {Uploader} : reading'[q] = reading[q]
         /\ LET s == reading[Uploader].session
            IN  \/ reading'[Uploader] = NoRead
                \/ /\ MetaGiven(file[s], reading[Uploader].source)
                   /\ reading'[Uploader].step = "text" /\ reading'[Uploader].session = s
                   /\ reading'[Uploader].source = reading[Uploader].source
                   /\ reading'[Uploader].meta = ParseMeta(file[s], reading[Uploader].source)
  <1> DEFINE s == reading[Uploader].session
             source == reading[Uploader].source
             meta == ParseMeta(file[s], source)
             r == [reading[Uploader] EXCEPT !.meta = meta, !.step = "text"]
  <1>1. /\ Uploader \in Readers /\ ReadersTyped /\ reading[Uploader] \in Reading
        /\ reading[Uploader].step = "date" /\ s \in Sessions
    BY ReadersKnown DEF TranscriptsInv, ReadersTyped, ReadDate
  <1>2. \/ Leave(Uploader)
        \/ MetaGiven(file[s], source) /\ reading' = [reading EXCEPT ![Uploader] = r]
    BY <1>1 DEF ReadDate, ReadersTyped
  <1>3. source = AgentOf(s)
    BY <1>1 DEF TranscriptsInv, UploadsAreTrue
  <1>4. meta \in Nat
    <2>1. /\ file[s].lines \in Seq(Line) /\ AgentOf(s) \in Agents
      BY <1>1, KindKnown DEF TranscriptsInv
    <2>2. Sound(file[s].lines) \in Seq(Line)
      BY <2>1, SoundIsPrefix
    <2>3. MetaLine(Sound(file[s].lines), AgentOf(s)) \in 0 .. Len(Sound(file[s].lines))
      BY <2>1, <2>2, MetaLineStays
    <2> QED
      BY <1>3, <2>3 DEF ParseMeta
  <1> HIDE DEF meta
  <1>5. /\ r \in Reading /\ r.step = "text" /\ r.session = s /\ r.source = source
        /\ r.meta = meta
    BY <1>1, <1>4 DEF Reading, ReadSteps
  <1>6. r.step \in StepsOfReader(Uploader)
    BY <1>5 DEF StepsOfReader
  <1> HIDE DEF r
  <1>7. CASE Leave(Uploader)
    BY <1>1, <1>7, LeavingTyped
  <1>8. CASE MetaGiven(file[s], source) /\ reading' = [reading EXCEPT ![Uploader] = r]
    <2>1. /\ ReadersTyped' /\ reading'[Uploader] = r
          /\ \A q \in Readers \ {Uploader} : reading'[q] = reading[q]
      BY <1>1, <1>5, <1>6, <1>8, OneReading
    <2> QED
      BY <1>5, <1>8, <2>1 DEF meta
  <1> QED
    BY <1>2, <1>7, <1>8

LEMMA DiscoverTyped ==
  ASSUME TranscriptsInv, NEW s \in Sessions, Discover(s)
  PROVE  /\ ReadersTyped'
         /\ \A q \in Readers \ {Uploader} : reading'[q] = reading[q]
         /\ reading'[Uploader].step = "date" /\ reading'[Uploader].session = s
         /\ reading'[Uploader].source = AgentOf(s)
  <1> DEFINE a == AgentOf(s)
             r == [NoRead EXCEPT !.session = s, !.source = a, !.step = "date"]
  <1>1. a \in Agents
    BY KindKnown DEF TranscriptsInv
  <1>2. reading' = [reading EXCEPT ![Uploader] = r]
    BY DEF Discover
  <1> HIDE DEF a
  <1>3. r \in Reading /\ r.step = "date" /\ r.session = s /\ r.source = a
    BY <1>1 DEF NoRead, Reading, ReadSteps
  <1>4. r.step \in StepsOfReader(Uploader)
    BY <1>3 DEF StepsOfReader
  <1> HIDE DEF r
  <1> QED
    BY <1>2, <1>3, <1>4, ReadersKnown, OneReading DEF TranscriptsInv, a

-----------------------------------------------------------------------------
(* What a step does to the reading and the batch of a reader.              *)
Same(q) ==
    /\ reading'[q].step = reading[q].step /\ reading'[q].session = reading[q].session
    /\ reading'[q].source = reading[q].source /\ reading'[q].nos = reading[q].nos
    /\ reading'[q].current => reading[q].current
    /\ batch'[q] = batch[q]

Anew(q) == reading'[q].step \in {"none", "detect"} /\ batch'[q] \in {batch[q], {}}

Learns(q) ==
    /\ reading[q].session \in Sessions
    /\ LearnsSource(q) \/ LearnsTurns(q) \/ Prepares(q)
    /\ UNCHANGED <<file, said, quiet, rested>>

LEMMA NextReaders ==
  ASSUME SettingsInv, TranscriptsInv, [Next]_vars
  PROVE  /\ ReadersTyped' /\ batch' \in [Setups \cup {Worker} -> SUBSET Prepared]
         /\ \A q \in Setups \cup {Worker} : Same(q) \/ Anew(q) \/ Learns(q)
  <1> DEFINE Goal == /\ ReadersTyped' /\ batch' \in [Setups \cup {Worker} -> SUBSET Prepared]
                     /\ \A q \in Setups \cup {Worker} : Same(q) \/ Anew(q) \/ Learns(q)
  <1>1. /\ ReadersTyped /\ batch \in [Setups \cup {Worker} -> SUBSET Prepared]
        /\ Setups \cup {Worker} \subseteq Readers \ {Uploader}
    BY ReadersKnown DEF TranscriptsInv, StoresTyped
  <1>2. CASE UNCHANGED <<reading, batch>>
    BY <1>1, <1>2 DEF Same, ReadersTyped
  <1>3. ASSUME NEW s \in Sessions, EndTurn(s)
        PROVE  Goal
    <2>1. /\ batch' = batch
          /\ reading' = [reading EXCEPT ![Worker].current = @ /\ reading[Worker].session # s]
      BY <1>3 DEF EndTurn
    <2>2. ReadersTyped' /\ \A q \in Readers : Same(q)
      BY <1>1, <2>1, TurnEndTyped DEF Same
    <2> QED
      BY <1>1, <2>1, <2>2
  <1>4. ASSUME NEW s \in Sessions, TakeJob(s)
        PROVE  Goal
    <2>1. /\ batch' = batch
          /\ reading' = [reading EXCEPT ![Worker] =
                            [NoRead EXCEPT !.session = s, !.step = "detect"]]
      BY <1>4 DEF TakeJob
    <2>2. /\ ReadersTyped' /\ reading'[Worker].step = "detect"
          /\ \A q \in Readers \ {Worker} : reading'[q] = reading[q]
      BY <1>1, <2>1, ReadersKnown, BeginningTyped
    <2> QED
      BY <1>1, <2>1, <2>2 DEF Same, Anew
  <1>5. CASE StoreJob
    <2>1. batch' = [batch EXCEPT ![Worker] = {}] /\ Leave(Worker)
      BY <1>5 DEF StoreJob
    <2>2. /\ ReadersTyped' /\ reading'[Worker] = NoRead
          /\ \A q \in Readers \ {Worker} : reading'[q] = reading[q]
      BY <1>1, <2>1, ReadersKnown, LeavingTyped
    <2> QED
      BY <1>1, <2>1, <2>2, NoReadTyped DEF Same, Anew
  <1>6. ASSUME \/ \E s \in Sessions : Discover(s)
               \/ ReadDate
               \/ UploadText
        PROVE  Goal
    <2>1. batch' = batch
      BY <1>6 DEF Discover, ReadDate, UploadText, UploadLeaves
    <2>2. ReadersTyped' /\ \A q \in Readers \ {Uploader} : reading'[q] = reading[q]
      <3>1. CASE \E s \in Sessions : Discover(s)
        BY <3>1, DiscoverTyped
      <3>2. CASE ReadDate
        BY <3>2, DateTyped
      <3>3. CASE UploadText
        <4>1. Leave(Uploader)
          BY <3>3 DEF UploadText
        <4> QED
          BY <1>1, <4>1, ReadersKnown, LeavingTyped
      <3> QED
        BY <1>6, <3>1, <3>2, <3>3
    <2> QED
      BY <1>1, <2>1, <2>2 DEF Same
  <1>7. ASSUME NEW p \in Setups \cup {Worker}, Reading3(p)
        PROVE  Goal
    <2>1. /\ UNCHANGED <<file, said, quiet, rested>> /\ reading[p].session \in Sessions
          /\ GivesUp(p) \/ LearnsSource(p) \/ LearnsTurns(p) \/ Prepares(p)
      BY <1>7, ReadingEffect DEF UnreadVars, agentVars, sessionHistory
    <2>2. CASE GivesUp(p)
      <3>1. Leave(p) /\ (batch' = batch \/ batch' = [batch EXCEPT ![p] = {}])
        BY <2>2 DEF GivesUp, Raised, Rejected
      <3>2. /\ ReadersTyped' /\ reading'[p] = NoRead
            /\ \A q \in Readers \ {p} : reading'[q] = reading[q]
        BY <1>1, <3>1, LeavingTyped
      <3>3. /\ batch' \in [Setups \cup {Worker} -> SUBSET Prepared]
            /\ batch'[p] \in {batch[p], {}}
            /\ \A q \in (Setups \cup {Worker}) \ {p} : batch'[q] = batch[q]
        BY <1>1, <3>1
      <3> QED
        BY <1>1, <3>2, <3>3, NoReadTyped DEF Same, Anew
    <2>3. CASE LearnsSource(p)
      <3>1. batch' = batch
        BY <2>3 DEF LearnsSource, Advance
      <3>2. ReadersTyped' /\ \A q \in Readers \ {p} : reading'[q] = reading[q]
        BY <2>1, <2>3, SourceLearned
      <3> QED
        BY <1>1, <2>1, <2>3, <3>1, <3>2 DEF Same, Learns
    <2>4. CASE LearnsTurns(p)
      <3>1. batch' = batch
        BY <2>4 DEF LearnsTurns, Advance
      <3>2. ReadersTyped' /\ \A q \in Readers \ {p} : reading'[q] = reading[q]
        BY <2>1, <2>4, TurnsLearned
      <3> QED
        BY <1>1, <2>1, <2>4, <3>1, <3>2 DEF Same, Learns
    <2>5. CASE Prepares(p)
      <3>1. /\ ReadersTyped' /\ \A q \in Readers \ {p} : reading'[q] = reading[q]
            /\ \E new \in Prepared : batch' = [batch EXCEPT ![p] = @ \cup {new}]
        BY <2>1, <2>5, PreparedTyped
      <3>2. /\ batch' \in [Setups \cup {Worker} -> SUBSET Prepared]
            /\ \A q \in (Setups \cup {Worker}) \ {p} : batch'[q] = batch[q]
        BY <1>1, <3>1
      <3> QED
        BY <1>1, <2>1, <2>5, <3>1, <3>2 DEF Same, Learns
    <2> QED
      BY <2>1, <2>2, <2>3, <2>4, <2>5
  <1>8. ASSUME NEW p \in Setups, NextFile(p)
        PROVE  Goal
    <2>1. PICK s \in todo[p] :
             reading' = [reading EXCEPT ![p] = [NoRead EXCEPT !.session = s, !.step = "detect"]]
      BY <1>8 DEF NextFile
    <2>2. s \in Sessions /\ batch' = batch
      BY <1>8, ReadersKnown DEF NextFile, TranscriptsInv, StoresTyped
    <2>3. /\ ReadersTyped' /\ reading'[p].step = "detect"
          /\ \A q \in Readers \ {p} : reading'[q] = reading[q]
      BY <1>1, <2>1, <2>2, ReadersKnown, BeginningTyped
    <2> QED
      BY <1>1, <2>2, <2>3 DEF Same, Anew
  <1>9. ASSUME NEW p \in Setups, StoreBatch(p)
        PROVE  Goal
    <2>1. /\ UNCHANGED reading /\ batch' = [batch EXCEPT ![p] = {}]
          /\ reading[p].step = "none"
      BY <1>9 DEF StoreBatch
    <2> QED
      BY <1>1, <2>1 DEF Same, Anew, ReadersTyped
  <1>10. ASSUME NEW p \in Processes, Die(p)
         PROVE  Goal
    <2>1. /\ p \in Setups => batch' = [batch EXCEPT ![p] = {}] /\ Leave(p)
          /\ p \notin Setups => UNCHANGED <<reading, batch>>
      BY <1>10 DEF Die, Leave
    <2>2. CASE p \notin Setups
      BY <1>2, <2>1, <2>2
    <2>3. CASE p \in Setups
      <3>1. /\ ReadersTyped' /\ reading'[p] = NoRead
            /\ \A q \in Readers \ {p} : reading'[q] = reading[q]
        BY <1>1, <2>1, <2>3, LeavingTyped
      <3> QED
        BY <1>1, <2>1, <2>3, <3>1, NoReadTyped DEF Same, Anew
    <2> QED
      BY <2>2, <2>3
  <1>11. \/ UNCHANGED <<reading, batch>>
         \/ \E s \in Sessions : EndTurn(s) \/ TakeJob(s)
         \/ StoreJob
         \/ (\E s \in Sessions : Discover(s)) \/ ReadDate \/ UploadText
         \/ \E p \in Setups \cup {Worker} : Reading3(p)
         \/ \E p \in Setups : NextFile(p) \/ StoreBatch(p)
         \/ \E p \in Processes : Die(p)
    <2>1. CASE UNCHANGED vars
      BY <2>1 DEF vars, localVars
    <2>2. CASE Next
      BY <2>2 DEF Next, Open, BeginLine, EndLine, Close, Edit, Scan, Skip,
                  WriteScript,
         ReadFails, Begin, ReadUserFile, Truncate, Fill, Reading3, localVars
    <2> QED
      BY <2>1, <2>2
  <1> HIDE DEF Goal
  <1>12. CASE Goal
    BY <1>12 DEF Goal
  <1>13. Goal
    BY <1>2, <1>3, <1>4, <1>5, <1>6, <1>7, <1>8, <1>9, <1>10, <1>11 DEF Goal
  <1> QED
    BY <1>12, <1>13

(* A session at rest, or whose hook has run, keeps its file.               *)
LEMMA NextRests ==
  ASSUME SettingsInv, TranscriptsInv, [Next]_vars
  PROVE  /\ quiet' \in [Sessions -> BOOLEAN] /\ rested' \in [Setups -> SUBSET Sessions]
         /\ \A s \in Sessions : Still(s)' => live'[s] # "writing" /\ file'[s] = file[s]
         /\ \A s \in Sessions : quiet'[s] => quiet[s] \/ EndTurn(s)
         /\ \A p \in Setups : \A s \in rested'[p] :
               s \in rested[p] \/ (Begin(p) /\ reading[Worker].session # s)
  <1> DEFINE Goal ==
               /\ quiet' \in [Sessions -> BOOLEAN] /\ rested' \in [Setups -> SUBSET Sessions]
               /\ \A s \in Sessions : Still(s)' => live'[s] # "writing" /\ file'[s] = file[s]
               /\ \A s \in Sessions : quiet'[s] => quiet[s] \/ EndTurn(s)
               /\ \A p \in Setups : \A s \in rested'[p] :
                     s \in rested[p] \/ (Begin(p) /\ reading[Worker].session # s)
  <1>1. /\ quiet \in [Sessions -> BOOLEAN] /\ rested \in [Setups -> SUBSET Sessions]
        /\ \A s \in Sessions : Still(s) => live[s] # "writing"
        /\ live \in [Sessions -> {"new", "open", "writing", "closed"}]
        /\ file \in [Sessions -> [suffix : {"json", "jsonl"}, lines : Seq(Line)]]
    BY DEF TranscriptsInv, StoresTyped, StillIsClosed, Transcribed
  <1>2. CASE UNCHANGED <<live, file, quiet, rested>>
    BY <1>1, <1>2 DEF Still
  <1>3. ASSUME NEW s \in Sessions, Open(s) \/ Close(s)
        PROVE  Goal
    <2>1. /\ UNCHANGED <<file, quiet, rested>>
          /\ live' = [live EXCEPT ![s] = "open"] \/ live' = [live EXCEPT ![s] = "closed"]
      BY <1>3 DEF Open, Close, sessionHistory
    <2>2. \A q \in Sessions : live'[q] = "writing" => live[q] = "writing"
      BY <1>1, <2>1
    <2> QED
      BY <1>1, <2>1, <2>2 DEF Still
  <1>4. ASSUME NEW s \in Sessions, BeginLine(s)
        PROVE  Goal
    <2>1. /\ quiet' = [quiet EXCEPT ![s] = FALSE]
          /\ rested' = [p \in Setups |-> rested[p] \ {s}]
          /\ live' = [live EXCEPT ![s] = "writing"]
      BY <1>4 DEF BeginLine, Touched
    <2>2. ~Still(s)'
      BY <1>1, <2>1 DEF Still
    <2>3. \A q \in Sessions \ {s} : live'[q] = live[q] /\ file'[q] = file[q]
      BY <1>1, <1>4, <2>1 DEF BeginLine
    <2>4. \A q \in Sessions : Still(q)' => q # s /\ Still(q)
      BY <1>1, <2>1, <2>2 DEF Still
    <2> QED
      BY <1>1, <2>1, <2>3, <2>4
  <1>5. ASSUME NEW s \in Sessions, EndLine(s)
        PROVE  Goal
    <2>1. UNCHANGED <<quiet, rested>> /\ live[s] = "writing" /\ live' = [live EXCEPT ![s] = "open"]
      BY <1>5 DEF EndLine, sessionHistory
    <2>2. \A q \in Sessions \ {s} : live'[q] = live[q] /\ file'[q] = file[q]
      BY <1>1, <1>5, <2>1 DEF EndLine
    <2>3. \A q \in Sessions : Still(q)' => q # s /\ Still(q)
      BY <1>1, <2>1 DEF Still
    <2> QED
      BY <1>1, <2>1, <2>2, <2>3
  <1>6. ASSUME NEW s \in Sessions, EndTurn(s)
        PROVE  Goal
    <2>1. UNCHANGED <<live, file, rested>> /\ live[s] = "open" /\ quiet' = [quiet EXCEPT ![s] = TRUE]
      BY <1>6 DEF EndTurn, agentVars
    <2>2. \A q \in Sessions : Still(q)' => q = s \/ Still(q)
      BY <1>1, <2>1 DEF Still
    <2> QED
      BY <1>1, <1>6, <2>1, <2>2
  <1>7. ASSUME NEW p \in Processes, Begin(p)
        PROVE  Goal
    <2>1. /\ UNCHANGED <<live, file, quiet>>
          /\ rested' = IF p \in Setups
                       THEN [rested EXCEPT ![p] =
                          { s \in Sessions : live[s] = "closed" /\ reading[Worker].session # s }]
                       ELSE rested
      BY <1>7 DEF Begin, agentVars
    <2>2. /\ rested' \in [Setups -> SUBSET Sessions]
          /\ \A q \in Setups : \A s \in rested'[q] :
                s \in rested[q] \/ (q = p /\ live[s] = "closed" /\ reading[Worker].session # s)
      BY <1>1, <2>1
    <2>3. \A s \in Sessions : Still(s)' => Still(s) \/ live[s] = "closed"
      BY <2>1, <2>2 DEF Still
    <2> QED
      BY <1>1, <1>7, <2>1, <2>2, <2>3
  <1>8. \/ UNCHANGED <<live, file, quiet, rested>>
        \/ \E s \in Sessions :
              Open(s) \/ BeginLine(s) \/ EndLine(s) \/ Close(s) \/ EndTurn(s)
        \/ \E p \in Processes : Begin(p)
    <2>1. CASE UNCHANGED vars
      BY <2>1 DEF vars, agentVars, sessionHistory
    <2>2. CASE Next
      BY <2>2 DEF Next, TakeJob, Edit, DetectSource, ReadTurns, ReadMeta,
                  StoreJob,
         Discover, ReadDate, UploadText, Scan, NextFile, StoreBatch, Skip, WriteScript,
         ReadFails, ReadUserFile, Truncate, Fill, Die, UnreadVars, UploadLeaves,
         agentVars, sessionHistory
    <2> QED
      BY <2>1, <2>2
  <1>9. Goal
    <2> HIDE DEF Goal
    <2>1. CASE UNCHANGED <<live, file, quiet, rested>>
      BY <1>2, <2>1 DEF Goal
    <2> QED
      BY <1>3, <1>4, <1>5, <1>6, <1>7, <1>8, <2>1
  <1> QED
    BY <1>9

-----------------------------------------------------------------------------
(* What a step does to the place of a setup: it is in no part after one    *)
(* that ingests, it goes on elsewhere, or it ingests.                      *)
Nowhere(p) ==
    /\ ~IsAt(p, "ingest", "files")' /\ \A n \in 2 .. 4 : ~PastPart(p, n)'
    /\ batch'[p] = {}

Elsewhere(p) ==
    /\ ~IsAt(p, "ingest", "files")' /\ \A n \in 2 .. 4 : PastPart(p, n)' => PastPart(p, n)
    /\ batch'[p] = {} /\ UNCHANGED <<file, rested>>

Stays(p) ==
    /\ at'[p] = at[p] /\ todo'[p] = todo[p] /\ rested'[p] \subseteq rested[p]
    /\ \/ Same(p)
       \/ Learns(p)
       \/ GivesUp(p) /\ Rejected(p) /\ UNCHANGED <<file, rested>>

Scans(p) == Scan(p) /\ batch'[p] = {}

(* A setup whose part ends is past the part it was in.                     *)
LEMMA PartsGoOn ==
  ASSUME SettingsInv, NEW p \in Setups, Active(p), NextPart(p)
  PROVE  /\ ~IsAt(p, "ingest", "files")'
         /\ \A n \in 2 .. 4 : PastPart(p, n)' => PastPart(p, n) \/ Part(p) = PlanOf(p)[n]
  <1> DEFINE n == at[p].phase
             N == Len(PlanOf(p))
  <1>1. /\ n \in 1 .. N /\ at \in [Processes -> [phase : Nat, step : Steps]]
        /\ at[p].step \notin Over /\ p \in Processes
    BY PlaceKnown DEF SettingsInv, FilesInv, SettingsTypes, Active, Processes
  <1>2. N \in {6, 7}
    BY PlanOfSetup
  <1>3. /\ n = N => at'[p] = [phase |-> 1, step |-> "ended"]
        /\ n # N => at'[p] = [phase |-> n + 1, step |-> "begin"]
    BY <1>1 DEF NextPart
  <1>4. ~IsAt(p, "ingest", "files")'
    BY <1>3 DEF IsAt
  <1>5. ASSUME NEW m \in 2 .. 4, PastPart(p, m)'
        PROVE  PastPart(p, m) \/ Part(p) = PlanOf(p)[m]
    <2> HIDE DEF N
    <2>1. n >= m
      BY <1>1, <1>2, <1>3, <1>5 DEF PastPart
    <2>2. CASE n = m
      BY <2>2 DEF Part
    <2>3. CASE n # m
      BY <1>1, <1>2, <2>1, <2>3 DEF PastPart
    <2> QED
      BY <2>2, <2>3
  <1> QED
    BY <1>4, <1>5

(* What belongs to no part that ingests.                                   *)
LEMMA IngestParts ==
  ASSUME NEW p \in Setups, NEW n \in 2 .. 4
  PROVE  /\ PlanOf(p)[n].do = "ingest" /\ PlanOf(p)[n].agent \in Agents
         /\ \A a \in Agents : IngestPhase(a) \in 2 .. 4
         /\ \A a \in Agents : IngestPhase(a) = n <=> PlanOf(p)[n].agent = a
  BY PlanOfSetup DEF IngestPhase, Agents, Do

LEMMA HaltedNowhere ==
  ASSUME SettingsInv, NEW p \in Setups, NEW how \in {"aborted", "died"}, Halt(p, how),
         batch'[p] = {}
  PROVE  Nowhere(p)
  <1>1. at'[p] = [phase |-> 1, step |-> how]
    BY ReadersKnown DEF Halt, SettingsInv, FilesInv, SettingsTypes
  <1> QED
    BY <1>1 DEF Nowhere, IsAt, PastPart, Active, Over

LEMMA NextPlaces ==
  ASSUME SettingsInv, TranscriptsInv, [Next]_vars, NEW p \in Setups
  PROVE  Nowhere(p) \/ Elsewhere(p) \/ Stays(p) \/ NextFile(p) \/ StoreBatch(p) \/ Scans(p)
  <1> DEFINE Goal == \/ Nowhere(p) \/ Elsewhere(p) \/ Stays(p)
                     \/ NextFile(p) \/ StoreBatch(p) \/ Scans(p)
  <1>1. /\ at \in [Processes -> [phase : Nat, step : Steps]] /\ todo \in [Processes -> SUBSET Sessions]
        /\ batch \in [Setups \cup {Worker} -> SUBSET Prepared] /\ p \in Processes
        /\ p \in Setups \cup {Worker} /\ p # Worker /\ p \in Readers
        /\ batch[p] # {} => IsAt(p, "ingest", "files")
        /\ reading[p].step # "none" => IsAt(p, "ingest", "files")
    BY ReadersKnown DEF SettingsInv, FilesInv, SettingsTypes, TranscriptsInv,
                        StoresTyped,
       BatchesInPlace, ReadsInIngest
  <1>2. Same(p) \/ Anew(p) \/ Learns(p)
    BY <1>1, NextReaders
  <1>3. ASSUME at'[p] = at[p], todo'[p] = todo[p], reading'[p] = reading[p],
               batch'[p] = batch[p], rested'[p] \subseteq rested[p]
        PROVE  Goal
    BY <1>3 DEF Stays, Same
  <1>4. CASE UNCHANGED <<at, todo, reading, batch, rested>>
    BY <1>3, <1>4
  <1>5. ASSUME NEW s \in Sessions, BeginLine(s)
        PROVE  Goal
    <2>1. UNCHANGED <<at, todo, reading, batch>> /\ rested' = [q \in Setups |-> rested[q] \ {s}]
      BY <1>5 DEF BeginLine, Touched, localVars
    <2> QED
      BY <1>3, <2>1
  <1>6. ASSUME \/ \E s \in Sessions : EndTurn(s) \/ TakeJob(s) \/ Discover(s)
               \/ StoreJob \/ ReadDate \/ UploadText
        PROVE  Goal
    <2>1. UNCHANGED <<at, todo, rested>>
      BY <1>6 DEF EndTurn, TakeJob, Discover, StoreJob, ReadDate, UploadText,
                  UploadLeaves,
         sessionHistory
    <2>2. batch'[p] = batch[p]
      BY <1>1, <1>6 DEF EndTurn, TakeJob, Discover, StoreJob, ReadDate,
                        UploadText,
         UploadLeaves
    <2>3. reading'[p] = reading[p]
      <3>1. ReadersTyped /\ p # Uploader
        BY ReadersKnown DEF TranscriptsInv
      <3>2. CASE \E s \in Sessions : EndTurn(s)
        <4>1. PICK s \in Sessions : EndTurn(s)
          BY <3>2
        <4>2. reading' = [reading EXCEPT ![Worker].current = @ /\ reading[Worker].session # s]
          BY <4>1 DEF EndTurn
        <4> QED
          BY <1>1, <3>1, <4>2, TurnEndTyped
      <3>3. CASE \E s \in Sessions : TakeJob(s)
        <4>1. PICK s \in Sessions : TakeJob(s)
          BY <3>3
        <4>2. reading' = [reading EXCEPT ![Worker] =
                             [NoRead EXCEPT !.session = s, !.step = "detect"]]
          BY <4>1 DEF TakeJob
        <4> QED
          BY <1>1, <3>1, <4>2, ReadersKnown, BeginningTyped
      <3>4. CASE \E s \in Sessions : Discover(s)
        BY <1>1, <3>1, <3>4, DiscoverTyped
      <3>5. CASE ReadDate
        BY <1>1, <3>1, <3>5, DateTyped
      <3>6. CASE StoreJob
        <4>1. Leave(Worker)
          BY <3>6 DEF StoreJob
        <4> QED
          BY <1>1, <3>1, <4>1, ReadersKnown, LeavingTyped
      <3>7. CASE UploadText
        <4>1. Leave(Uploader)
          BY <3>7 DEF UploadText
        <4> QED
          BY <1>1, <3>1, <4>1, ReadersKnown, LeavingTyped
      <3> QED
        BY <1>6, <3>2, <3>3, <3>4, <3>5, <3>6, <3>7
    <2> QED
      BY <1>3, <2>1, <2>2, <2>3
  <1>7. ASSUME NEW q \in Setups \cup {Worker}, Reading3(q)
        PROVE  Goal
    <2>1. /\ UNCHANGED <<file, said, quiet, rested>> /\ reading[q].session \in Sessions
          /\ reading[q].step \in {"detect", "turns", "meta"}
          /\ GivesUp(q) \/ LearnsSource(q) \/ LearnsTurns(q) \/ Prepares(q)
      BY <1>7, ReadingEffect DEF UnreadVars, agentVars, sessionHistory
    <2>2. ASSUME Goal \/ (at'[p] = at[p] /\ todo'[p] = todo[p]), q # p
          PROVE  Goal
      <3>1. \E x : reading' = [reading EXCEPT ![q] = x]
        BY <2>1 DEF GivesUp, Raised, Rejected, Leave, LearnsSource, LearnsTurns,
                    Advance, Prepares
      <3>2. \E x : batch' = [batch EXCEPT ![q] = x]
        <4>1. batch' = batch \/ \E x : batch' = [batch EXCEPT ![q] = x]
          BY <2>1 DEF GivesUp, Raised, Rejected, LearnsSource, LearnsTurns,
                      Advance, Prepares
        <4>2. batch = [batch EXCEPT ![q] = batch[q]]
          BY <1>1
        <4> QED
          BY <4>1, <4>2
      <3>3. reading'[p] = reading[p] /\ batch'[p] = batch[p]
        <4>1. reading = [x \in Readers |-> reading[x]]
          BY DEF SettingsInv, ReadsInIngest
        <4> QED
          BY <1>1, <2>2, <3>1, <3>2, <4>1
      <3> QED
        BY <1>3, <2>1, <2>2, <3>3
    <2>3. CASE LearnsSource(q) \/ LearnsTurns(q) \/ Prepares(q)
      <3>1. at' = at /\ todo' = todo
        BY <2>3 DEF LearnsSource, LearnsTurns, Prepares, Advance
      <3>2. CASE q = p
        BY <2>1, <2>3, <3>1, <3>2 DEF Stays, Learns
      <3> QED
        BY <2>2, <3>1, <3>2
    <2>4. CASE GivesUp(q) /\ Rejected(q)
      <3>1. at' = at /\ todo' = todo
        BY <2>4 DEF Rejected
      <3>2. CASE q = p
        BY <2>1, <2>4, <3>1, <3>2 DEF Stays
      <3> QED
        BY <2>2, <3>1, <3>2
    <2>5. CASE Raised(q)
      <3>1. CASE q = p
        <4>1. Halt(p, "aborted") /\ batch'[p] = {}
          BY <1>1, <2>5, <3>1 DEF Raised
        <4> QED
          BY <4>1, HaltedNowhere
      <3>2. CASE q # p
        <4>1. at'[p] = at[p] /\ todo'[p] = todo[p]
          BY <1>1, <2>5, <3>2 DEF Raised, Halt
        <4> QED
          BY <2>2, <3>2, <4>1
      <3> QED
        BY <3>1, <3>2
    <2> QED
      BY <2>1, <2>3, <2>4, <2>5 DEF GivesUp
  <1>8. ASSUME NEW q \in Setups, NextFile(q) \/ StoreBatch(q) \/ Scan(q)
        PROVE  Goal
    <2>1. CASE q = p
      <3>1. CASE NextFile(q) \/ StoreBatch(q)
        BY <2>1, <3>1
      <3>2. CASE Scan(q)
        <4>1. batch'[p] = batch[p] /\ ~IsAt(p, "ingest", "files")
          BY <2>1, <3>2 DEF Scan, IsAt
        <4> QED
          BY <1>1, <2>1, <3>2, <4>1 DEF Scans
      <3> QED
        BY <1>8, <3>1, <3>2
    <2>2. CASE q # p
      <3>1. /\ at'[p] = at[p] /\ todo'[p] = todo[p] /\ rested' = rested /\ batch'[p] = batch[p]
        BY <1>1, <1>8, <2>2 DEF NextFile, StoreBatch, Scan, NextPart, Goto,
                                sessionHistory
      <3>2. reading'[p] = reading[p]
        <4>1. reading = [x \in Readers |-> reading[x]]
          BY DEF SettingsInv, ReadsInIngest
        <4> QED
          BY <1>1, <1>8, <2>2, <4>1 DEF NextFile, StoreBatch, Scan
      <3> QED
        BY <1>3, <3>1, <3>2
    <2> QED
      BY <2>1, <2>2
  <1>9. ASSUME NEW q \in Processes, Begin(q)
        PROVE  Goal
    <2>1. /\ at' = [at EXCEPT ![q].phase = 1] /\ at[q].phase = 0
          /\ UNCHANGED <<todo, batch, reading>>
      BY <1>9 DEF Begin
    <2>2. CASE q = p
      <3>1. at[p].step = "begin" /\ ~IsAt(p, "ingest", "files")
        BY <1>1, <2>1, <2>2 DEF SettingsInv, FilesInv, PlaceOfPart, Placed,
                                IsAt, Active
      <3>2. at'[p].phase = 1 /\ at'[p].step = "begin"
        BY <1>1, <2>1, <2>2, <3>1
      <3> QED
        BY <1>1, <2>1, <3>1, <3>2 DEF Nowhere, IsAt, PastPart, Over
    <2>3. CASE q # p
      <3>1. at'[p] = at[p] /\ rested'[p] = rested[p]
        BY <1>1, <1>9, <2>1, <2>3 DEF Begin, TranscriptsInv, StoresTyped
      <3> QED
        BY <1>3, <2>1, <3>1
    <2> QED
      BY <2>2, <2>3
  <1>10. ASSUME NEW q \in Processes, Die(q)
         PROVE  Goal
    <2>1. CASE q = p
      <3>1. Halt(p, "died") /\ batch'[p] = {}
        BY <1>1, <1>10, <2>1 DEF Die
      <3> QED
        BY <3>1, HaltedNowhere
    <2>2. CASE q # p
      <3>1. /\ at'[p] = at[p] /\ todo'[p] = todo[p] /\ rested' = rested /\ batch'[p] = batch[p]
        BY <1>1, <1>10, <2>2 DEF Die, Halt, sessionHistory
      <3>2. reading'[p] = reading[p]
        <4>1. reading = [x \in Readers |-> reading[x]]
          BY DEF SettingsInv, ReadsInIngest
        <4> QED
          BY <1>1, <1>10, <2>2, <4>1 DEF Die
      <3> QED
        BY <1>3, <3>1, <3>2
    <2> QED
      BY <2>1, <2>2
  <1>11. ASSUME NEW q \in Processes,
                \/ q \in Setups /\ (Skip(q) \/ WriteScript(q) \/ ReadFails(q))
                \/ ReadUserFile(q) \/ Truncate(q) \/ Fill(q)
         PROVE  Goal
    <2>1. UNCHANGED <<todo, batch, reading, rested, file>>
      BY <1>11 DEF Skip, WriteScript, ReadFails, ReadUserFile, Truncate, Fill,
         sessionHistory, agentVars
    <2>2. /\ Active(q) /\ Part(q).do # "ingest"
          /\ \/ NextPart(q)
             \/ Halt(q, "aborted")
             \/ \E step \in {"read", "truncate", "fill"} : Goto(q, step)
      <3>1. Truncate(q) \/ Fill(q) => Part(q).do # "ingest"
        BY PlaceKnown DEF Truncate, Fill, StepsOf
      <3> QED
        BY <1>11, <3>1 DEF Skip, WriteScript, ReadFails, ReadUserFile, Truncate,
                           Fill, IsAt
    <2>3. CASE q # p
      <3>1. at'[p] = at[p]
        BY <1>1, <2>2, <2>3 DEF NextPart, Halt, Goto
      <3> QED
        BY <1>3, <2>1, <3>1
    <2>4. CASE q = p
      <3>1. batch'[p] = {}
        BY <1>1, <2>1, <2>2, <2>4 DEF IsAt
      <3>2. CASE NextPart(q)
        <4>1. \A n \in 2 .. 4 : Part(p) # PlanOf(p)[n]
          BY <2>2, <2>4, IngestParts
        <4> QED
          BY <2>1, <2>2, <2>4, <3>1, <3>2, <4>1, PartsGoOn DEF Elsewhere
      <3>3. CASE Halt(q, "aborted")
        BY <2>4, <3>1, <3>3, HaltedNowhere
      <3>4. ASSUME NEW step \in {"read", "truncate", "fill"}, Goto(q, step)
            PROVE  Goal
        <4>1. at'[p].phase = at[p].phase /\ at'[p].step = step
          BY <1>1, <2>4, <3>4 DEF Goto
        <4>2. at[p].step \notin Over
          BY <2>2, <2>4 DEF Active
        <4> QED
          BY <2>1, <3>1, <4>1, <4>2 DEF Elsewhere, IsAt, PastPart, Over
      <3> QED
        BY <2>2, <3>2, <3>3, <3>4
    <2> QED
      BY <2>3, <2>4
  <1>12. \/ UNCHANGED <<at, todo, reading, batch, rested>>
         \/ \E s \in Sessions : BeginLine(s)
         \/ (\E s \in Sessions : EndTurn(s) \/ TakeJob(s) \/ Discover(s))
         \/ StoreJob \/ ReadDate \/ UploadText
         \/ \E q \in Setups \cup {Worker} : Reading3(q)
         \/ \E q \in Setups : NextFile(q) \/ StoreBatch(q) \/ Scan(q)
         \/ \E q \in Processes : Begin(q) \/ Die(q)
         \/ \E q \in Processes :
               \/ q \in Setups /\ (Skip(q) \/ WriteScript(q) \/ ReadFails(q))
               \/ ReadUserFile(q) \/ Truncate(q) \/ Fill(q)
    <2>1. CASE UNCHANGED vars
      BY <2>1 DEF vars, localVars, sessionHistory
    <2>2. CASE Next
      BY <2>2, ReadersKnown DEF Next, Open, EndLine, Close, Edit, Reading3,
                                localVars,
         sessionHistory
    <2> QED
      BY <2>1, <2>2
  <1>13. Goal
    <2> HIDE DEF Goal
    <2>1. CASE UNCHANGED <<at, todo, reading, batch, rested>>
      BY <1>4, <2>1 DEF Goal
    <2> QED
      BY <1>5, <1>6, <1>7, <1>8, <1>9, <1>10, <1>11, <1>12, <2>1
  <1> QED
    BY <1>13

-----------------------------------------------------------------------------
(* What a step does to the worker's job, and to what is stored.            *)
WorkerRests ==
    /\ reading'[Worker] = reading[Worker] /\ batch'[Worker] = batch[Worker]
    /\ job' = job

LEMMA NextWork ==
  ASSUME SettingsInv, TranscriptsInv, [Next]_vars
  PROVE  \/ WorkerRests
         \/ \E s \in Sessions : EndTurn(s) \/ TakeJob(s)
         \/ StoreJob
         \/ Reading3(Worker)
  <1>1. /\ batch \in [Setups \cup {Worker} -> SUBSET Prepared] /\ ReadersTyped
        /\ reading = [x \in Readers |-> reading[x]]
    BY DEF TranscriptsInv, StoresTyped, SettingsInv, ReadsInIngest
  <1>2. CASE UNCHANGED <<reading, batch, job>>
    BY <1>2 DEF WorkerRests
  <1>3. ASSUME \/ \E s \in Sessions : Discover(s)
               \/ ReadDate
               \/ UploadText
        PROVE  WorkerRests
    <2>1. job' = job /\ batch' = batch
      BY <1>3 DEF Discover, ReadDate, UploadText, UploadLeaves
    <2>2. \A q \in Readers \ {Uploader} : reading'[q] = reading[q]
      <3>1. CASE \E s \in Sessions : Discover(s)
        BY <3>1, DiscoverTyped
      <3>2. CASE ReadDate
        BY <3>2, DateTyped
      <3>3. CASE UploadText
        <4>1. Leave(Uploader)
          BY <3>3 DEF UploadText
        <4> QED
          BY <1>1, <4>1, ReadersKnown, LeavingTyped
      <3> QED
        BY <1>3, <3>1, <3>2, <3>3
    <2> QED
      BY <2>1, <2>2, ReadersKnown DEF WorkerRests
  <1>4. ASSUME NEW q \in Setups, Reading3(q)
        PROVE  WorkerRests
    <2>1. \/ GivesUp(q)
          \/ LearnsSource(q) \/ LearnsTurns(q) \/ Prepares(q)
      BY <1>4, ReadingEffect
    <2>2. q # Worker
      BY ReadersKnown
    <2>3. job' = job
      BY <2>1, <2>2 DEF GivesUp, Raised, Rejected, LearnsSource, LearnsTurns,
                        Prepares, Advance
    <2>4. reading'[Worker] = reading[Worker]
      <3>1. \E x : reading' = [reading EXCEPT ![q] = x]
        BY <2>1 DEF GivesUp, Raised, Rejected, Leave, LearnsSource, LearnsTurns,
                    Advance, Prepares
      <3> QED
        BY <1>1, <2>2, <3>1, ReadersKnown
    <2>5. batch'[Worker] = batch[Worker]
      <3>1. batch' = batch \/ \E x : batch' = [batch EXCEPT ![q] = x]
        BY <2>1 DEF GivesUp, Raised, Rejected, LearnsSource, LearnsTurns,
                    Advance, Prepares
      <3> QED
        BY <1>1, <2>2, <3>1
    <2> QED
      BY <2>3, <2>4, <2>5 DEF WorkerRests
  <1>5. ASSUME NEW p \in Processes,
               \/ p \in Setups /\ (NextFile(p) \/ StoreBatch(p))
               \/ Die(p)
        PROVE  WorkerRests
    <2>1. p # Worker /\ job' = job
      BY <1>5, ReadersKnown DEF NextFile, StoreBatch, Die
    <2>2. reading' = reading \/ \E x : reading' = [reading EXCEPT ![p] = x]
      BY <1>5 DEF NextFile, StoreBatch, Die
    <2>3. batch' = batch \/ \E x : batch' = [batch EXCEPT ![p] = x]
      BY <1>5 DEF NextFile, StoreBatch, Die
    <2>4. reading'[Worker] = reading[Worker]
      BY <1>1, <2>1, <2>2, ReadersKnown
    <2>5. batch'[Worker] = batch[Worker]
      BY <1>1, <2>1, <2>3
    <2> QED
      BY <2>1, <2>4, <2>5 DEF WorkerRests
  <1>6. \/ UNCHANGED <<reading, batch, job>>
        \/ \E s \in Sessions : EndTurn(s) \/ TakeJob(s)
        \/ StoreJob
        \/ (\E s \in Sessions : Discover(s)) \/ ReadDate \/ UploadText
        \/ \E q \in Setups \cup {Worker} : Reading3(q)
        \/ \E p \in Processes : (p \in Setups /\ (NextFile(p) \/ StoreBatch(p))) \/ Die(p)
    <2>1. CASE UNCHANGED vars
      BY <2>1 DEF vars, localVars
    <2>2. CASE Next
      BY <2>2, ReadersKnown DEF Next, Open, BeginLine, EndLine, Close, Edit,
                                Scan, Skip,
         WriteScript, ReadFails, Begin, ReadUserFile, Truncate, Fill, Reading3, localVars
    <2> QED
      BY <2>1, <2>2
  <1> QED
    BY <1>2, <1>3, <1>4, <1>5, <1>6

LEMMA NextStored ==
  ASSUME [Next]_vars
  PROVE  /\ stored' = stored \/ StoreJob \/ \E p \in Setups : StoreBatch(p)
         /\ uploaded' = uploaded \/ UploadText
  <1>1. CASE UNCHANGED vars
    BY <1>1 DEF vars, storeVars
  <1>2. CASE Next
    BY <1>2 DEF Next, Open, BeginLine, EndLine, Close, EndTurn, TakeJob, Edit,
                DetectSource,
       ReadTurns, ReadMeta, StoreJob, Discover, ReadDate, UploadText, Scan, NextFile,
       StoreBatch, Skip, WriteScript, ReadFails, Begin, ReadUserFile, Truncate, Fill, Die,
       UnreadVars, UploadLeaves, storeVars
  <1> QED
    BY <1>1, <1>2

-----------------------------------------------------------------------------
(* Where there is something to store.                                      *)
WorkInPlace ==
    /\ reading[Worker].step # "none" => job[reading[Worker].session] = "pending"
    /\ \A found \in batch[Worker] :
          /\ reading[Worker].step = "store"
          /\ found.session = reading[Worker].session /\ found.nos = reading[Worker].nos

LEMMA BatchesStayInPlace ==
  ASSUME SettingsInv, TranscriptsInv, [Next]_vars
  PROVE  BatchesInPlace'
  <1>1. /\ batch \in [Setups \cup {Worker} -> SUBSET Prepared] /\ ReadersTyped
        /\ job \in [Sessions -> {"none", "pending", "failed"}]
        /\ BatchesInPlace
    BY DEF TranscriptsInv, StoresTyped
  <1>2. ASSUME NEW p \in Setups, batch'[p] # {}
        PROVE  IsAt(p, "ingest", "files")'
    <2>1. \/ at'[p] = at[p] /\ batch'[p] = batch[p]
          \/ at'[p] = at[p] /\ reading[p].step # "none"
      <3>1. CASE Nowhere(p) \/ Elsewhere(p) \/ Scans(p)
        BY <1>2, <3>1 DEF Nowhere, Elsewhere, Scans
      <3>2. CASE Stays(p)
        BY <3>2 DEF Stays, Same, Rejected, Learns, LearnsSource, LearnsTurns,
                    Prepares
      <3>3. CASE NextFile(p)
        BY <3>3 DEF NextFile
      <3>4. CASE StoreBatch(p)
        BY <1>1, <1>2, <3>4 DEF StoreBatch
      <3> QED
        BY <3>1, <3>2, <3>3, <3>4, NextPlaces
    <2>2. IsAt(p, "ingest", "files")
      BY <1>1, <1>2, <2>1 DEF BatchesInPlace, SettingsInv, ReadsInIngest
    <2> QED
      BY <2>1, <2>2 DEF IsAt, Active, Part
  <1>3. WorkInPlace
    BY <1>1 DEF BatchesInPlace, WorkInPlace
  <1>4. reading[Worker].step # "store" => batch[Worker] = {}
    BY <1>3 DEF WorkInPlace
  <1>5. ASSUME WorkerRests
        PROVE  WorkInPlace'
    BY <1>3, <1>5 DEF WorkerRests, WorkInPlace
  <1>6. ASSUME NEW s \in Sessions, EndTurn(s)
        PROVE  WorkInPlace'
    <2>1. /\ job' = [job EXCEPT ![s] = "pending"] /\ batch' = batch
          /\ reading' = [reading EXCEPT ![Worker].current = @ /\ reading[Worker].session # s]
      BY <1>6 DEF EndTurn
    <2>2. /\ reading'[Worker].step = reading[Worker].step
          /\ reading'[Worker].session = reading[Worker].session
          /\ reading'[Worker].nos = reading[Worker].nos
      BY <1>1, <2>1, TurnEndTyped
    <2>3. reading[Worker].step # "none" => reading[Worker].session \in Sessions
      BY ReadersKnown, <1>1 DEF ReadersTyped
    <2> QED
      BY <1>1, <1>3, <2>1, <2>2, <2>3 DEF WorkInPlace
  <1>7. ASSUME NEW s \in Sessions, TakeJob(s)
        PROVE  WorkInPlace'
    <2>1. /\ job' = job /\ batch' = batch /\ job[s] = "pending"
          /\ reading[Worker].step = "none"
          /\ reading' = [reading EXCEPT ![Worker] =
                            [NoRead EXCEPT !.session = s, !.step = "detect"]]
      BY <1>7 DEF TakeJob
    <2>2. reading'[Worker].session = s
      BY <1>1, <2>1, ReadersKnown, BeginningTyped
    <2> QED
      BY <1>4, <2>1, <2>2 DEF WorkInPlace
  <1>8. ASSUME StoreJob
        PROVE  WorkInPlace'
    <2>1. batch' = [batch EXCEPT ![Worker] = {}] /\ Leave(Worker)
      BY <1>8 DEF StoreJob
    <2>2. reading'[Worker] = NoRead
      BY <1>1, <2>1, ReadersKnown, LeavingTyped
    <2> QED
      BY <1>1, <2>1, <2>2, NoReadTyped DEF WorkInPlace
  <1>9. ASSUME Reading3(Worker)
        PROVE  WorkInPlace'
    <2>1. /\ reading[Worker].session \in Sessions
          /\ reading[Worker].step \in {"detect", "turns", "meta"}
          /\ \/ GivesUp(Worker)
             \/ LearnsSource(Worker) \/ LearnsTurns(Worker) \/ Prepares(Worker)
      BY <1>9, ReadingEffect
    <2>2. batch[Worker] = {} /\ job[reading[Worker].session] = "pending"
      BY <1>3, <1>4, <2>1 DEF WorkInPlace
    <2>3. CASE GivesUp(Worker)
      <3>1. Leave(Worker) /\ (batch' = batch \/ batch' = [batch EXCEPT ![Worker] = {}])
        BY <2>3 DEF GivesUp, Raised, Rejected
      <3>2. reading'[Worker] = NoRead
        BY <1>1, <3>1, ReadersKnown, LeavingTyped
      <3>3. batch'[Worker] = {}
        BY <1>1, <2>2, <3>1
      <3> QED
        BY <3>2, <3>3, NoReadTyped DEF WorkInPlace
    <2>4. CASE LearnsSource(Worker)
      <3>1. batch' = batch /\ job' = job
        BY <2>4 DEF LearnsSource, Advance
      <3>2. reading'[Worker].session = reading[Worker].session
        BY <2>1, <2>4, SourceLearned
      <3> QED
        BY <2>2, <3>1, <3>2 DEF WorkInPlace
    <2>5. CASE LearnsTurns(Worker)
      <3>1. batch' = batch /\ job' = job
        BY <2>5 DEF LearnsTurns, Advance
      <3>2. reading'[Worker].session = reading[Worker].session
        BY <2>1, <2>5, TurnsLearned
      <3> QED
        BY <2>2, <3>1, <3>2 DEF WorkInPlace
    <2>6. CASE Prepares(Worker)
      <3>1. job' = job
        BY <2>6 DEF Prepares
      <3>2. PICK new : /\ new.session = reading[Worker].session
                       /\ new.nos = reading[Worker].nos
                       /\ batch' = [batch EXCEPT ![Worker] = @ \cup {new}]
                       /\ reading'[Worker].step = "store"
                       /\ reading'[Worker].session = reading[Worker].session
                       /\ reading'[Worker].nos = reading[Worker].nos
        BY <2>1, <2>6, PreparedTyped
      <3>3. batch'[Worker] = {new}
        BY <1>1, <2>2, <3>2
      <3> QED
        BY <2>2, <3>1, <3>2, <3>3 DEF WorkInPlace
    <2> QED
      BY <2>1, <2>3, <2>4, <2>5, <2>6
  <1>10. WorkInPlace'
    BY <1>5, <1>6, <1>7, <1>8, <1>9, NextWork
  <1> QED
    BY <1>2, <1>10 DEF BatchesInPlace, WorkInPlace

-----------------------------------------------------------------------------
(* What the stores hold after a step: the worker replaces what is stored   *)
(* of its session, a setup adds to it, and an upload replaces the turns.   *)
Replaced(s) ==
    /\ StoreJob /\ s = reading[Worker].session
    /\ \E found \in batch[Worker] :
          /\ found.session = s
          /\ stored'[s].nos = found.nos /\ stored'[s].meta = found.meta

Grown(p, s) ==
    LET new == { found \in batch[p] : found.session = s }
    IN  /\ StoreBatch(p)
        /\ stored'[s].nos = stored[s].nos \cup UNION { found.nos : found \in new }
        /\ \/ stored'[s].meta = stored[s].meta
           \/ \E found \in new : stored'[s].meta = found.meta

LEMMA StoredEffect ==
  ASSUME TranscriptsInv, [Next]_vars
  PROVE  /\ stored' \in [Sessions -> [nos : SUBSET Nat, meta : Nat]]
         /\ \A s \in Sessions : \/ stored'[s] = stored[s]
                                \/ Replaced(s)
                                \/ \E p \in Setups : Grown(p, s)
  <1>1. /\ batch \in [Setups \cup {Worker} -> SUBSET Prepared]
        /\ stored \in [Sessions -> [nos : SUBSET Nat, meta : Nat]]
    BY DEF TranscriptsInv, StoresTyped
  <1>2. CASE stored' = stored
    BY <1>1, <1>2
  <1>3. CASE StoreJob
    <2>1. PICK found \in batch[Worker] :
             stored' = [stored EXCEPT ![found.session] =
                           [nos |-> found.nos, meta |-> found.meta]]
      BY <1>3 DEF StoreJob
    <2>2. /\ found \in Prepared /\ found.session = reading[Worker].session
      BY <1>1 DEF TranscriptsInv, BatchesInPlace
    <2>3. found.session \in Sessions /\ found.nos \in SUBSET Nat /\ found.meta \in Nat
      BY <2>2 DEF Prepared
    <2>4. /\ stored' \in [Sessions -> [nos : SUBSET Nat, meta : Nat]]
          /\ stored'[found.session] = [nos |-> found.nos, meta |-> found.meta]
          /\ \A s \in Sessions \ {found.session} : stored'[s] = stored[s]
      BY <1>1, <2>1, <2>3
    <2>5. Replaced(found.session)
      BY <1>3, <2>2, <2>4 DEF Replaced
    <2> QED
      BY <2>4, <2>5
  <1>4. ASSUME NEW p \in Setups, StoreBatch(p)
        PROVE  /\ stored' \in [Sessions -> [nos : SUBSET Nat, meta : Nat]]
               /\ \A s \in Sessions : Grown(p, s)
    <2> DEFINE new(s) == { found \in batch[p] : found.session = s }
               nos(s) == stored[s].nos \cup UNION { found.nos : found \in new(s) }
               meta(s) == IF new(s) = {} THEN stored[s].meta
                          ELSE (CHOOSE found \in new(s) : TRUE).meta
    <2>1. stored' = [s \in Sessions |-> [nos |-> nos(s), meta |-> meta(s)]]
      BY <1>4 DEF StoreBatch
    <2>2. ASSUME NEW s \in Sessions
          PROVE  /\ nos(s) \in SUBSET Nat /\ meta(s) \in Nat
                 /\ \/ meta(s) = stored[s].meta
                    \/ \E found \in new(s) : meta(s) = found.meta
      <3>1. \A found \in new(s) : found.nos \in SUBSET Nat /\ found.meta \in Nat
        BY <1>1 DEF Prepared
      <3>2. nos(s) \in SUBSET Nat
        BY <1>1, <3>1
      <3>3. stored[s].meta \in Nat
        BY <1>1
      <3>4. CASE new(s) = {}
        BY <3>2, <3>3, <3>4
      <3>5. CASE new(s) # {}
        <4>1. (CHOOSE found \in new(s) : TRUE) \in new(s)
          BY <3>5
        <4> HIDE DEF new, nos
        <4> QED
          BY <3>1, <3>2, <3>5, <4>1
      <3> QED
        BY <3>4, <3>5
    <2> HIDE DEF nos, meta
    <2>3. stored' \in [Sessions -> [nos : SUBSET Nat, meta : Nat]]
      BY <2>1, <2>2
    <2>4. ASSUME NEW s \in Sessions
          PROVE  Grown(p, s)
      <3>1. stored'[s].nos = nos(s) /\ stored'[s].meta = meta(s)
        BY <2>1
      <3> QED
        BY <1>4, <2>2, <3>1 DEF Grown, nos
    <2> QED
      BY <2>3, <2>4
  <1> QED
    BY <1>2, <1>3, <1>4, NextStored

LEMMA UploadEffect ==
  ASSUME TranscriptsInv, UploadText
  PROVE  LET s == reading[Uploader].session
         IN  /\ s \in Sessions /\ reading[Uploader].meta \in Nat
             /\ \/ uploaded' = uploaded
                \/ \E nos : /\ Gapless(said[s], nos) /\ nos \in SUBSET Nat
                            /\ uploaded' = [uploaded EXCEPT ![s] =
                                  [nos |-> nos,
                                   metas |-> @.metas \cup {reading[Uploader].meta}]]
  <1> DEFINE s == reading[Uploader].session
             source == Detect(file[s])
             read == Numbers(ParseTurns(file[s], source))
             nos == IF Few(read) THEN uploaded[s].nos ELSE read
  <1>1. s \in Sessions /\ reading[Uploader].meta \in Nat
    BY ReadersKnown DEF UploadText, TranscriptsInv, ReadersTyped, Reading
  <1>2. \/ uploaded' = uploaded
        \/ /\ source # "none"
           /\ uploaded' = [uploaded EXCEPT ![s] =
                 [nos |-> nos, metas |-> @.metas \cup {reading[Uploader].meta}]]
    BY DEF UploadText
  <1>3. ASSUME source # "none"
        PROVE  Gapless(said[s], nos) /\ nos \in SUBSET Nat
    <2>1. source = AgentOf(s) /\ said[s] \in Seq(BOOLEAN)
      BY <1>1, <1>3, WriterDetected, KindKnown DEF TranscriptsInv
    <2>2. Gapless(said[s], read)
      BY <1>1, <2>1, TurnsReadAreGapless DEF TranscriptsInv
    <2>3. read \in SUBSET Nat
      BY <2>1, <2>2, TurnsAreNumbers
    <2>4. Gapless(said[s], uploaded[s].nos) /\ uploaded[s].nos \in SUBSET Nat
      BY <1>1 DEF TranscriptsInv, StoresAreTrue, StoresTyped
    <2> HIDE DEF read
    <2> QED
      BY <2>2, <2>3, <2>4
  <1> HIDE DEF nos
  <1> QED
    BY <1>1, <1>2, <1>3

LEMMA StoresStayTyped ==
  ASSUME SettingsInv, TranscriptsInv, [Next]_vars
  PROVE  StoresTyped'
  <1>1. /\ todo \in [Processes -> SUBSET Sessions]
        /\ uploaded \in [Sessions -> [nos : SUBSET Nat, metas : SUBSET Nat]]
        /\ job \in [Sessions -> {"none", "pending", "failed"}]
    BY DEF TranscriptsInv, StoresTyped
  <1>2. job' \in [Sessions -> {"none", "pending", "failed"}]
    <2>1. CASE WorkerRests
      BY <1>1, <2>1 DEF WorkerRests
    <2>2. ASSUME NEW s \in Sessions, EndTurn(s) \/ TakeJob(s)
          PROVE  job' \in [Sessions -> {"none", "pending", "failed"}]
      BY <1>1, <2>2 DEF EndTurn, TakeJob
    <2>3. CASE StoreJob
      <3>1. PICK s : \/ job' = [job EXCEPT ![s] = "none"]
                     \/ job' = [job EXCEPT ![s] = @]
        BY <2>3 DEF StoreJob
      <3> QED
        BY <1>1, <3>1
    <2>4. CASE Reading3(Worker)
      <3>1. job' = job \/ MarkFailed
        BY <2>4, ReadingEffect DEF GivesUp, Raised, Rejected, LearnsSource,
                                   LearnsTurns,
           Prepares, Advance
      <3> QED
        BY <1>1, <3>1 DEF MarkFailed
    <2> QED
      BY <2>1, <2>2, <2>3, <2>4, NextWork
  <1>3. uploaded' \in [Sessions -> [nos : SUBSET Nat, metas : SUBSET Nat]]
    <2>1. CASE uploaded' = uploaded
      BY <1>1, <2>1
    <2>2. CASE UploadText
      <3> DEFINE s == reading[Uploader].session
                 meta == reading[Uploader].meta
      <3>1. /\ s \in Sessions /\ meta \in Nat
            /\ \/ uploaded' = uploaded
               \/ \E nos \in SUBSET Nat :
                     uploaded' = [uploaded EXCEPT ![s] =
                        [nos |-> nos, metas |-> @.metas \cup {meta}]]
        BY <2>2, UploadEffect
      <3> HIDE DEF s, meta
      <3>2. uploaded[s].metas \cup {meta} \in SUBSET Nat
        BY <1>1, <3>1
      <3>3. ASSUME NEW nos \in SUBSET Nat, NEW metas \in SUBSET Nat,
                   uploaded' = [uploaded EXCEPT ![s] = [nos |-> nos, metas |-> metas]]
            PROVE  uploaded' \in [Sessions -> [nos : SUBSET Nat, metas : SUBSET Nat]]
        BY <1>1, <3>3
      <3>4. CASE uploaded' = uploaded
        BY <2>1, <3>4
      <3> QED
        BY <3>1, <3>2, <3>3, <3>4
    <2> QED
      BY <2>1, <2>2, NextStored
  <1>4. todo' \in [Processes -> SUBSET Sessions]
    <2>1. CASE UNCHANGED todo
      BY <1>1, <2>1
    <2>2. ASSUME NEW p, NEW x \in SUBSET Sessions, todo' = [todo EXCEPT ![p] = x]
          PROVE  todo' \in [Processes -> SUBSET Sessions]
      BY <1>1, <2>2
    <2>3. ASSUME NEW p \in Setups \cup {Worker}, Reading3(p)
          PROVE  todo' \in [Processes -> SUBSET Sessions]
      <3>1. todo' = todo \/ todo' = [todo EXCEPT ![p] = {}]
        BY <2>3, ReadingEffect DEF GivesUp, Raised, Rejected, LearnsSource,
                                   LearnsTurns,
           Prepares, Advance
      <3> QED
        BY <2>1, <2>2, <3>1
    <2>4. ASSUME NEW p \in Setups, Scan(p)
          PROVE  todo' \in [Processes -> SUBSET Sessions]
      <3>1. todo' = [todo EXCEPT ![p] = Found(Target(p))] /\ Found(Target(p)) \in SUBSET Sessions
        BY <2>4 DEF Scan, Found
      <3> QED
        BY <2>2, <3>1
    <2>5. ASSUME NEW p \in Setups, NextFile(p)
          PROVE  todo' \in [Processes -> SUBSET Sessions]
      <3>1. PICK s : todo' = [todo EXCEPT ![p] = todo[p] \ {s}]
        BY <2>5 DEF NextFile
      <3>2. todo[p] \ {s} \in SUBSET Sessions
        BY <1>1, ReadersKnown
      <3> QED
        BY <2>2, <3>1, <3>2
    <2>6. ASSUME NEW p, Die(p)
          PROVE  todo' \in [Processes -> SUBSET Sessions]
      BY <2>2, <2>6 DEF Die
    <2>7. \/ UNCHANGED todo
          \/ \E p \in Setups \cup {Worker} : Reading3(p)
          \/ \E p \in Setups : Scan(p) \/ NextFile(p)
          \/ \E p \in Processes : Die(p)
      <3>1. CASE UNCHANGED vars
        BY <3>1 DEF vars, localVars
      <3>2. CASE Next
        BY <3>2 DEF Next, Open, BeginLine, EndLine, Close, EndTurn, TakeJob,
                    Edit, StoreJob,
           Discover, ReadDate, UploadText, StoreBatch, Skip, WriteScript, ReadFails, Begin,
           ReadUserFile, Truncate, Fill, UploadLeaves, Reading3, localVars
      <3> QED
        BY <3>1, <3>2
    <2> QED
      BY <2>1, <2>3, <2>4, <2>5, <2>6, <2>7
  <1> QED
    BY <1>2, <1>3, <1>4, StoredEffect, NextReaders, NextRests DEF StoresTyped

-----------------------------------------------------------------------------
(* What is read is the agent's, without gaps, and of the one project.      *)
LEMMA ReadsStayTrue ==
  ASSUME SettingsInv, TranscriptsInv, [Next]_vars
  PROVE  ReadsAreTrue'
  <1> SUFFICES ASSUME NEW p \in Setups \cup {Worker}
               PROVE  ReaderIsTrue(p)'
    BY DEF ReadsAreTrue
  <1> DEFINE s == reading[p].session
  <1>1. /\ Transcribed /\ Transcribed' /\ FilesGrow /\ ReadersTyped /\ ReadersTyped'
        /\ p \in Readers /\ p # Uploader
        /\ kind' = kind
    BY NextIsTranscribed, NextReaders, ReadersKnown DEF TranscriptsInv,
                                                        FilesGrow
  <1>2. ReaderIsTrue(p)
    BY DEF TranscriptsInv, ReadsAreTrue
  <1>3. /\ batch \in [Setups \cup {Worker} -> SUBSET Prepared]
        /\ reading[p].step # "none" => s \in Sessions
    BY <1>1 DEF TranscriptsInv, StoresTyped, ReadersTyped
  <1>4. ASSUME NEW q \in Sessions
        PROVE  /\ \A nos : Gapless(said[q], nos) => Gapless(said'[q], nos)
               /\ Identity(file[q], AgentOf(q)) # 0 =>
                     Identity(file'[q], AgentOf(q)) = Identity(file[q], AgentOf(q))
    BY <1>1, KnownStays
  <1>5. ASSUME NEW found \in batch[p]
        PROVE  /\ Gapless(said'[found.session], found.nos)
               /\ found.meta \in {0, Identity(file'[found.session], AgentOf(found.session))}
    <2>1. found.session \in Sessions
      BY <1>3 DEF Prepared
    <2> QED
      BY <1>2, <1>4, <2>1 DEF ReaderIsTrue
  <1>6. CASE Same(p)
    <2>1. ASSUME reading'[p].step \in {"turns", "meta", "store"}
          PROVE  reading'[p].source = AgentOf(reading'[p].session)
      BY <1>2, <1>6, <2>1 DEF Same, ReaderIsTrue
    <2>2. ASSUME reading'[p].step \in {"meta", "store"}
          PROVE  Gapless(said'[reading'[p].session], reading'[p].nos)
      BY <1>2, <1>3, <1>4, <1>6, <2>2 DEF Same, ReaderIsTrue
    <2> QED
      BY <1>1, <1>5, <1>6, <2>1, <2>2 DEF Same, ReaderIsTrue, AgentOf
  <1>7. CASE Anew(p)
    BY <1>1, <1>5, <1>7 DEF Anew, ReaderIsTrue, AgentOf
  <1>8. CASE Learns(p)
    <2>1. UNCHANGED <<file, said>> /\ s \in Sessions
      BY <1>8 DEF Learns
    <2>3. CASE LearnsSource(p)
      <3>1. batch' = batch
        BY <2>3 DEF LearnsSource, Advance
      <3>2. /\ reading'[p].step = "turns" /\ reading'[p].session = s
            /\ reading'[p].source = AgentOf(s)
        BY <2>1, <2>3, SourceLearned
      <3> QED
        BY <1>1, <1>5, <3>1, <3>2 DEF ReaderIsTrue, AgentOf
    <2>4. CASE LearnsTurns(p)
      <3>1. batch' = batch /\ reading[p].step = "turns"
        BY <2>4 DEF LearnsTurns, Advance
      <3>2. /\ reading'[p].step = "meta" /\ reading'[p].session = s
            /\ reading'[p].source = reading[p].source
            /\ reading'[p].nos = Numbers(ParseTurns(file[s], AgentOf(s)))
        BY <2>1, <2>4, TurnsLearned
      <3>3. Gapless(said'[s], reading'[p].nos)
        BY <1>1, <1>4, <2>1, <3>2, TurnsReadAreGapless
      <3>4. reading'[p].source = AgentOf(s)
        BY <1>2, <3>1, <3>2 DEF ReaderIsTrue
      <3> QED
        BY <1>1, <1>5, <3>1, <3>2, <3>3, <3>4 DEF ReaderIsTrue, AgentOf
    <2>5. CASE Prepares(p)
      <3>1. reading[p].step = "meta"
        BY <2>5 DEF Prepares
      <3>2. reading[p].source = AgentOf(s) /\ Gapless(said[s], reading[p].nos)
        BY <1>2, <3>1 DEF ReaderIsTrue
      <3>3. PICK new : /\ new.session = s /\ new.nos = reading[p].nos
                       /\ new.meta = ParseMeta(file[s], AgentOf(s))
                       /\ batch' = [batch EXCEPT ![p] = @ \cup {new}]
                       /\ p # Worker => reading'[p] = NoRead
                       /\ p = Worker =>
                             /\ reading'[p].step = "store" /\ reading'[p].session = s
                             /\ reading'[p].source = reading[p].source
                             /\ reading'[p].nos = reading[p].nos
        BY <2>1, <2>5, PreparedTyped
      <3>4. batch'[p] = batch[p] \cup {new}
        BY <1>3, <3>3
      <3>5. /\ Gapless(said'[new.session], new.nos)
            /\ new.meta \in {0, Identity(file'[new.session], AgentOf(new.session))}
        BY <1>1, <2>1, <3>2, <3>3, MetaIsIdentity
      <3>6. \A found \in batch'[p] :
               /\ Gapless(said'[found.session], found.nos)
               /\ found.meta \in {0, Identity(file'[found.session], AgentOf(found.session))}
        BY <1>5, <3>4, <3>5
      <3>7. CASE p = Worker
        BY <1>1, <2>1, <3>2, <3>3, <3>6, <3>7 DEF ReaderIsTrue, AgentOf
      <3>8. CASE p # Worker
        BY <1>1, <3>3, <3>6, <3>8, NoReadTyped DEF ReaderIsTrue, AgentOf
      <3> QED
        BY <3>7, <3>8
    <2> QED
      BY <1>8, <2>3, <2>4, <2>5 DEF Learns
  <1> QED
    BY <1>6, <1>7, <1>8, NextReaders

(* What is stored is without gaps and of the one project.                  *)
LEMMA StoresStayTrue ==
  ASSUME SettingsInv, TranscriptsInv, [Next]_vars
  PROVE  StoresAreTrue'
  <1> SUFFICES ASSUME NEW s \in Sessions
               PROVE  /\ Gapless(said'[s], stored'[s].nos) /\ Gapless(said'[s], uploaded'[s].nos)
                      /\ stored'[s].meta \in {0, Identity(file'[s], AgentOf(s)')}
    BY DEF StoresAreTrue, AgentOf
  <1>1. /\ Transcribed /\ Transcribed' /\ FilesGrow /\ said'[s] \in Seq(BOOLEAN)
    BY NextIsTranscribed DEF TranscriptsInv, Transcribed
  <1>2. /\ AgentOf(s)' = AgentOf(s)
        /\ \A nos : Gapless(said[s], nos) => Gapless(said'[s], nos)
        /\ \A meta \in {0, Identity(file[s], AgentOf(s))} :
              meta \in {0, Identity(file'[s], AgentOf(s)')}
    BY <1>1, KnownStays
  <1>3. /\ Gapless(said[s], stored[s].nos) /\ Gapless(said[s], uploaded[s].nos)
        /\ stored[s].meta \in {0, Identity(file[s], AgentOf(s))}
    BY DEF TranscriptsInv, StoresAreTrue
  <1>4. ASSUME NEW p \in Setups \cup {Worker}, NEW found \in batch[p], found.session = s
        PROVE  /\ Gapless(said[s], found.nos)
               /\ found.meta \in {0, Identity(file[s], AgentOf(s))}
    BY <1>4 DEF TranscriptsInv, ReadsAreTrue, ReaderIsTrue
  <1>5. /\ Gapless(said[s], stored'[s].nos)
        /\ stored'[s].meta \in {0, Identity(file[s], AgentOf(s))}
    <2>1. CASE stored'[s] = stored[s]
      BY <1>3, <2>1
    <2>2. CASE Replaced(s)
      BY <1>4, <2>2 DEF Replaced
    <2>3. ASSUME NEW p \in Setups, Grown(p, s)
          PROVE  /\ Gapless(said[s], stored'[s].nos)
                 /\ stored'[s].meta \in {0, Identity(file[s], AgentOf(s))}
      <3> DEFINE new == { found \in batch[p] : found.session = s }
      <3>1. /\ stored'[s].nos = stored[s].nos \cup UNION { found.nos : found \in new }
            /\ \/ stored'[s].meta = stored[s].meta
               \/ \E found \in new : stored'[s].meta = found.meta
        BY <2>3 DEF Grown
      <3>2. \A found \in new : /\ Gapless(said[s], found.nos)
                               /\ found.meta \in {0, Identity(file[s], AgentOf(s))}
        BY <1>4
      <3> HIDE DEF new
      <3>3. Gapless(said[s], stored'[s].nos)
        BY <1>3, <3>1, <3>2 DEF Gapless
      <3> QED
        BY <1>3, <3>1, <3>2, <3>3
    <2> QED
      BY <2>1, <2>2, <2>3, StoredEffect
  <1>6. Gapless(said[s], uploaded'[s].nos)
    <2>1. CASE uploaded' = uploaded
      BY <1>3, <2>1
    <2>2. CASE UploadText
      <3> DEFINE q == reading[Uploader].session
      <3>1. uploaded \in [Sessions -> [nos : SUBSET Nat, metas : SUBSET Nat]]
        BY DEF TranscriptsInv, StoresTyped
      <3>2. \/ uploaded' = uploaded
            \/ \E nos, metas : Gapless(said[q], nos) /\
                  uploaded' = [uploaded EXCEPT ![q] = [nos |-> nos, metas |-> metas]]
        BY <2>2, UploadEffect
      <3> HIDE DEF q
      <3> QED
        BY <1>3, <3>1, <3>2
    <2> QED
      BY <2>1, <2>2, NextStored
  <1> QED
    BY <1>2, <1>5, <1>6

-----------------------------------------------------------------------------
(* A reader that works on s and began since s rests did so before the step. *)
WorksOn(p, s) ==
    \/ reading[p].step # "none" /\ reading[p].session = s
    \/ \E found \in batch[p] : found.session = s

LEMMA SinceStays ==
  ASSUME SettingsInv, TranscriptsInv, [Next]_vars,
         NEW p \in Setups \cup {Worker}, NEW s \in Sessions, WorksOn(p, s),
         p = Worker => (reading'[Worker].current => reading[Worker].current),
         Since(p, s)'
  PROVE  Since(p, s) /\ file'[s] = file[s]
  <1>1. /\ quiet'[s] => quiet[s] \/ EndTurn(s)
        /\ \A q \in Setups : s \in rested'[q] =>
              s \in rested[q] \/ (Begin(q) /\ reading[Worker].session # s)
        /\ Still(s)' => file'[s] = file[s]
    BY NextRests
  <1>2. Still(s)'
    BY DEF Since, Still
  <1>3. CASE p = Worker
    <2>1. reading[Worker].session = s
      BY <1>3 DEF WorksOn, TranscriptsInv, BatchesInPlace
    <2>2. ASSUME EndTurn(s)
          PROVE  ~reading'[Worker].current
      <3>1. reading' = [reading EXCEPT ![Worker].current = @ /\ reading[Worker].session # s]
        BY <2>2 DEF EndTurn
      <3> QED
        BY <2>1, <3>1, TurnEndTyped DEF TranscriptsInv
    <2>3. CASE quiet'[s] /\ reading'[Worker].current
      BY <1>1, <1>2, <1>3, <2>2, <2>3 DEF Since
    <2>4. CASE \E q \in Setups : s \in rested'[q]
      BY <1>1, <1>2, <1>3, <2>1, <2>4 DEF Since
    <2> QED
      BY <1>3, <2>3, <2>4 DEF Since
  <1>4. CASE p # Worker
    <2>1. p \in Setups /\ s \in rested'[p]
      BY <1>4 DEF Since
    <2>2. IsAt(p, "ingest", "files")
      BY <2>1 DEF WorksOn, TranscriptsInv, BatchesInPlace, SettingsInv,
                  ReadsInIngest
    <2>3. ~Begin(p)
      BY <2>2 DEF Begin, IsAt, Active
    <2> QED
      BY <1>1, <1>2, <1>4, <2>1, <2>3 DEF Since
  <1> QED
    BY <1>3, <1>4

LEMMA ReadsStayFresh ==
  ASSUME SettingsInv, TranscriptsInv, [Next]_vars
  PROVE  ReadsAreFresh'
  <1> SUFFICES ASSUME NEW p \in Setups \cup {Worker}
               PROVE  ReaderIsFresh(p)'
    BY DEF ReadsAreFresh
  <1>1. /\ Transcribed /\ ReadersTyped /\ ReadersTyped' /\ p \in Readers /\ p # Uploader
        /\ batch \in [Setups \cup {Worker} -> SUBSET Prepared]
        /\ batch' \in [Setups \cup {Worker} -> SUBSET Prepared]
    BY NextReaders, ReadersKnown DEF TranscriptsInv, StoresTyped
  <1>2. ReaderIsFresh(p) /\ ReaderIsTrue(p)
    BY DEF TranscriptsInv, ReadsAreFresh, ReadsAreTrue
  <1>3. ASSUME p = Worker => (reading'[Worker].current => reading[Worker].current),
               NEW found \in batch[p], Since(p, found.session)'
        PROVE  found.nos = ReadableTurns(file'[found.session])
    <2> DEFINE s == found.session
    <2>1. s \in Sessions /\ WorksOn(p, s)
      BY <1>1 DEF Prepared, WorksOn
    <2>2. Since(p, s) /\ file'[s] = file[s]
      BY <1>3, <2>1, SinceStays
    <2> QED
      BY <1>2, <2>2 DEF ReaderIsFresh
  <1>4. ASSUME p = Worker => (reading'[Worker].current => reading[Worker].current),
               NEW s \in Sessions, reading[p].session = s, reading[p].step # "none", Since(p, s)'
        PROVE  Fresh(p) /\ file'[s] = file[s]
    <2>1. WorksOn(p, s)
      BY <1>4 DEF WorksOn
    <2>2. Since(p, s) /\ file'[s] = file[s]
      BY <1>4, <2>1, SinceStays
    <2> QED
      BY <1>2, <1>4, <2>2 DEF ReaderIsFresh
  <1>5. CASE Same(p)
    <2>1. ASSUME reading'[p].step # "none", Since(p, reading[p].session)'
          PROVE  Fresh(p)'
      <3>1. PICK s \in Sessions : reading[p].session = s
        BY <1>1, <1>5, <2>1 DEF Same, ReadersTyped
      <3>2. reading[p].step # "none" /\ reading'[p].session = s
        BY <1>5, <2>1, <3>1 DEF Same
      <3>3. Since(p, s)'
        BY <2>1, <3>2 DEF Since
      <3>4. Fresh(p) /\ file'[s] = file[s]
        BY <1>4, <1>5, <3>1, <3>2, <3>3 DEF Same
      <3> QED
        BY <1>5, <3>1, <3>2, <3>4 DEF Fresh, Same
    <2> QED
      BY <1>3, <1>5, <2>1 DEF Same, ReaderIsFresh
  <1>6. CASE Anew(p)
    <2>1. Fresh(p)'
      BY <1>6 DEF Anew, Fresh
    <2>2. p = Worker => batch'[p] = {}
      <3>1. BatchesInPlace'
        BY BatchesStayInPlace
      <3> QED
        BY <1>6, <3>1 DEF BatchesInPlace, Anew
    <2>3. ASSUME NEW found \in batch'[p], Since(p, found.session)'
          PROVE  found.nos = ReadableTurns(file'[found.session])
      <3>1. p # Worker /\ found \in batch[p]
        BY <1>6, <2>2, <2>3 DEF Anew
      <3> QED
        BY <1>3, <2>3, <3>1
    <2> QED
      BY <2>1, <2>3 DEF ReaderIsFresh
  <1>7. CASE Learns(p)
    <2>1. PICK s \in Sessions : reading[p].session = s
      BY <1>7 DEF Learns
    <2>2. file' = file
      BY <1>7 DEF Learns
    <2>3. CASE LearnsSource(p)
      <3>1. batch' = batch /\ Detect(file[s]) = AgentOf(s) /\ reading[p].step = "detect"
        BY <2>1, <2>3 DEF LearnsSource, Advance
      <3>2. /\ reading'[p].step = "turns" /\ reading'[p].session = s
            /\ reading'[p].source = AgentOf(s) /\ reading'[p].current = reading[p].current
        BY <2>1, <2>3, SourceLearned
      <3>3. Fresh(p)'
        BY <2>2, <3>1, <3>2 DEF Fresh
      <3> QED
        BY <1>3, <3>1, <3>2, <3>3 DEF ReaderIsFresh
    <2>4. CASE LearnsTurns(p)
      <3>1. batch' = batch /\ reading[p].step = "turns"
        BY <2>4 DEF LearnsTurns, Advance
      <3>2. /\ reading'[p].step = "meta" /\ reading'[p].session = s
            /\ reading'[p].source = reading[p].source
            /\ reading'[p].nos = Numbers(ParseTurns(file[s], AgentOf(s)))
            /\ reading'[p].current = reading[p].current
        BY <2>1, <2>4, TurnsLearned
      <3>3. ASSUME Since(p, reading[p].session)'
            PROVE  Fresh(p)'
        <4>1. Since(p, s)'
          BY <3>2, <3>3 DEF Since
        <4>2. Fresh(p)
          BY <1>4, <2>1, <3>1, <3>2, <4>1
        <4>3. reading[p].source = Detect(file[s]) /\ reading[p].source = AgentOf(s)
          BY <1>2, <2>1, <3>1, <4>2 DEF Fresh, ReaderIsTrue
        <4> QED
          BY <2>2, <3>2, <4>3 DEF Fresh, ReadableTurns
      <3> QED
        BY <1>3, <3>1, <3>2, <3>3 DEF ReaderIsFresh
    <2>5. CASE Prepares(p)
      <3>1. reading[p].step = "meta"
        BY <2>5 DEF Prepares
      <3>2. PICK new : /\ new.session = s /\ new.nos = reading[p].nos
                       /\ batch' = [batch EXCEPT ![p] = @ \cup {new}]
                       /\ p # Worker => reading'[p] = NoRead
                       /\ p = Worker =>
                             /\ reading'[p].step = "store" /\ reading'[p].session = s
                             /\ reading'[p].source = reading[p].source
                             /\ reading'[p].nos = reading[p].nos
                             /\ reading'[p].current = reading[p].current
        BY <2>1, <2>5, PreparedTyped
      <3>3. batch'[p] = batch[p] \cup {new}
        BY <1>1, <3>2
      <3>4. p = Worker => (reading'[Worker].current => reading[Worker].current)
        BY <3>2
      <3>5. ASSUME Since(p, s)'
            PROVE  /\ reading[p].source = Detect(file[s])
                   /\ reading[p].nos = ReadableTurns(file[s])
        <4>1. Fresh(p)
          BY <1>4, <2>1, <3>1, <3>4, <3>5
        <4> QED
          BY <2>1, <3>1, <4>1 DEF Fresh
      <3>6. ASSUME reading'[p].step # "none", Since(p, reading[p].session)'
            PROVE  Fresh(p)'
        <4>1. p = Worker
          BY <3>2, <3>6, NoReadTyped
        <4>2. Since(p, s)'
          BY <3>2, <3>6, <4>1 DEF Since
        <4> QED
          BY <2>2, <3>2, <3>5, <4>1, <4>2 DEF Fresh
      <3>7. ASSUME NEW found \in batch'[p], Since(p, found.session)'
            PROVE  found.nos = ReadableTurns(file'[found.session])
        <4>1. CASE found = new
          <5>1. Since(p, s)'
            BY <3>2, <3>7, <4>1
          <5> QED
            BY <2>2, <3>2, <3>5, <4>1, <5>1
        <4>2. CASE found \in batch[p]
          BY <1>3, <3>4, <3>7, <4>2
        <4> QED
          BY <3>3, <4>1, <4>2
      <3> QED
        BY <3>6, <3>7 DEF ReaderIsFresh
    <2> QED
      BY <1>7, <2>3, <2>4, <2>5 DEF Learns
  <1> QED
    BY <1>5, <1>6, <1>7, NextReaders

-----------------------------------------------------------------------------
(* What a step does to the row of s in the queue.                          *)
LEMMA JobEffect ==
  ASSUME SettingsInv, TranscriptsInv, [Next]_vars, NEW s \in Sessions
  PROVE  \/ job'[s] = job[s]
         \/ job'[s] = "pending"
         \/ job'[s] = "none" /\ reading[Worker].current /\ Replaced(s)
         \/ /\ job'[s] = "failed" /\ reading[Worker].current /\ reading[Worker].session = s
            /\ reading[Worker].step # "none" /\ GivesUp(Worker)
  <1>1. /\ batch \in [Setups \cup {Worker} -> SUBSET Prepared]
        /\ stored \in [Sessions -> [nos : SUBSET Nat, meta : Nat]]
        /\ job \in [Sessions -> {"none", "pending", "failed"}]
    BY DEF TranscriptsInv, StoresTyped
  <1>2. CASE WorkerRests
    BY <1>2 DEF WorkerRests
  <1>3. ASSUME NEW q \in Sessions, EndTurn(q) \/ TakeJob(q)
        PROVE  job'[s] = job[s] \/ job'[s] = "pending"
    BY <1>1, <1>3 DEF EndTurn, TakeJob
  <1>4. CASE StoreJob
    <2>1. PICK found \in batch[Worker] :
             /\ stored' = [stored EXCEPT ![found.session] =
                              [nos |-> found.nos, meta |-> found.meta]]
             /\ job' = [job EXCEPT ![found.session] =
                           IF reading[Worker].current THEN "none" ELSE @]
      BY <1>4 DEF StoreJob
    <2>2. found.session \in Sessions /\ found.session = reading[Worker].session
      BY <1>1 DEF TranscriptsInv, BatchesInPlace, Prepared
    <2>3. CASE s = found.session
      <3>1. Replaced(s)
        BY <1>1, <1>4, <2>1, <2>2, <2>3 DEF Replaced
      <3> QED
        BY <1>1, <2>1, <2>3, <3>1
    <2>4. CASE s # found.session
      BY <1>1, <2>1, <2>4
    <2> QED
      BY <2>3, <2>4
  <1>5. CASE Reading3(Worker)
    <2>1. /\ reading[Worker].step \in {"detect", "turns", "meta"}
          /\ \/ job' = job
             \/ GivesUp(Worker) /\ MarkFailed
      BY <1>5, ReadingEffect DEF GivesUp, Raised, Rejected, LearnsSource,
                                 LearnsTurns,
         Prepares, Advance
    <2> QED
      BY <1>1, <2>1 DEF MarkFailed
  <1> QED
    BY <1>2, <1>3, <1>4, <1>5, NextWork

(* A transcript at rest waits in the queue, is stored, or cannot be read.  *)
LEMMA QuietStaysCaptured ==
  ASSUME SettingsInv, TranscriptsInv, [Next]_vars
  PROVE  QuietIsCaptured'
  <1> SUFFICES ASSUME NEW s \in Sessions, quiet'[s]
               PROVE  /\ job'[s] = "none" => ReadableTurns(file'[s]) \subseteq stored'[s].nos
                      /\ job'[s] = "failed" => ~Ingestible(file'[s])
                      /\ job'[s] \in {"none", "pending", "failed"}
    BY DEF QuietIsCaptured
  <1>1. /\ file'[s] = file[s]
        /\ quiet[s] \/ EndTurn(s)
    BY NextRests DEF Still
  <1>2. job'[s] \in {"none", "pending", "failed"}
    BY StoresStayTyped DEF StoresTyped
  <1>3. CASE EndTurn(s)
    <2>1. job'[s] = "pending"
      BY <1>3 DEF EndTurn, TranscriptsInv, StoresTyped
    <2> QED
      BY <2>1
  <1>4. CASE quiet[s]
    <2>1. /\ job[s] = "none" => ReadableTurns(file[s]) \subseteq stored[s].nos
          /\ job[s] = "failed" => ~Ingestible(file[s])
      BY <1>4 DEF TranscriptsInv, QuietIsCaptured
    <2>2. ASSUME reading[Worker].current
          PROVE  Since(Worker, s)
      BY <1>4, <2>2 DEF Since
    <2>3. ReaderIsFresh(Worker)
      BY DEF TranscriptsInv, ReadsAreFresh
    <2>4. CASE job'[s] = job[s]
      <3>1. CASE Replaced(s)
        <4>1. job[s] = "pending"
          BY <3>1 DEF Replaced, StoreJob, TranscriptsInv, BatchesInPlace
        <4> QED
          BY <1>2, <2>4, <4>1
      <3>2. CASE ~Replaced(s)
        <4>1. stored[s].nos \subseteq stored'[s].nos
          BY <3>2, StoredEffect DEF Grown
        <4> QED
          BY <1>1, <1>2, <2>1, <2>4, <4>1
      <3> QED
        BY <3>1, <3>2
    <2>5. CASE job'[s] = "pending"
      BY <2>5
    <2>6. CASE job'[s] = "none" /\ reading[Worker].current /\ Replaced(s)
      <3>1. PICK found \in batch[Worker] : found.session = s /\ stored'[s].nos = found.nos
        BY <2>6 DEF Replaced
      <3>2. found.nos = ReadableTurns(file[s])
        BY <2>2, <2>3, <2>6, <3>1 DEF ReaderIsFresh
      <3> QED
        BY <1>1, <2>6, <3>1, <3>2
    <2>7. CASE /\ job'[s] = "failed" /\ reading[Worker].current /\ reading[Worker].session = s
               /\ reading[Worker].step # "none" /\ GivesUp(Worker)
      <3>1. Fresh(Worker)
        BY <2>2, <2>3, <2>7 DEF ReaderIsFresh
      <3> QED
        BY <1>1, <2>7, <3>1 DEF GivesUp
    <2> QED
      BY <2>4, <2>5, <2>6, <2>7, JobEffect
  <1> QED
    BY <1>1, <1>3, <1>4

-----------------------------------------------------------------------------
(* The reading of the uploads.                                             *)
LEMMA NextUpload ==
  ASSUME SettingsInv, TranscriptsInv, [Next]_vars
  PROVE  \/ reading'[Uploader] = reading[Uploader]
         \/ \E s \in Sessions : Discover(s)
         \/ ReadDate
         \/ UploadText
  <1>1. reading = [x \in Readers |-> reading[x]] /\ ReadersTyped
    BY DEF SettingsInv, ReadsInIngest, TranscriptsInv
  <1>2. ASSUME NEW p, p # Uploader, NEW x, reading' = [reading EXCEPT ![p] = x]
        PROVE  reading'[Uploader] = reading[Uploader]
    BY <1>1, <1>2, ReadersKnown
  <1>3. ASSUME NEW s \in Sessions, EndTurn(s) \/ TakeJob(s)
        PROVE  reading'[Uploader] = reading[Uploader]
    <2>1. \/ reading' = [reading EXCEPT ![Worker].current = @ /\ reading[Worker].session # s]
          \/ reading' = [reading EXCEPT ![Worker] =
                            [NoRead EXCEPT !.session = s, !.step = "detect"]]
      BY <1>3 DEF EndTurn, TakeJob
    <2> QED
      BY <1>1, <2>1, ReadersKnown, TurnEndTyped, BeginningTyped
  <1>4. ASSUME \/ \E q \in Setups \cup {Worker} : Reading3(q)
               \/ StoreJob
               \/ \E p \in Setups : NextFile(p)
               \/ \E p \in Processes : Die(p)
        PROVE  reading'[Uploader] = reading[Uploader]
    <2>1. ASSUME NEW q \in Setups \cup {Worker}, Reading3(q)
          PROVE  reading'[Uploader] = reading[Uploader]
      <3>1. \E x : reading' = [reading EXCEPT ![q] = x]
        BY <2>1, ReadingEffect DEF GivesUp, Raised, Rejected, Leave,
                                   LearnsSource, LearnsTurns,
           Advance, Prepares
      <3> QED
        BY <1>2, <3>1, ReadersKnown
    <2>2. CASE StoreJob
      BY <1>2, <2>2, ReadersKnown DEF StoreJob, Leave
    <2>3. ASSUME NEW p \in Setups, NextFile(p)
          PROVE  reading'[Uploader] = reading[Uploader]
      BY <1>2, <2>3, ReadersKnown DEF NextFile
    <2>4. ASSUME NEW p \in Processes, Die(p)
          PROVE  reading'[Uploader] = reading[Uploader]
      BY <1>2, <2>4, ReadersKnown DEF Die
    <2> QED
      BY <1>4, <2>1, <2>2, <2>3, <2>4
  <1>5. \/ UNCHANGED reading
        \/ \E s \in Sessions : EndTurn(s) \/ TakeJob(s) \/ Discover(s)
        \/ StoreJob \/ ReadDate \/ UploadText
        \/ \E q \in Setups \cup {Worker} : Reading3(q)
        \/ \E p \in Setups : NextFile(p)
        \/ \E p \in Processes : Die(p)
    <2>1. CASE UNCHANGED vars
      BY <2>1 DEF vars, localVars
    <2>2. CASE Next
      BY <2>2 DEF Next, Open, BeginLine, EndLine, Close, Edit, Scan, StoreBatch,
                  Skip,
         WriteScript, ReadFails, Begin, ReadUserFile, Truncate, Fill, Reading3, localVars
    <2> QED
      BY <2>1, <2>2
  <1> QED
    BY <1>3, <1>4, <1>5

(* An upload knows a project and a date that stay.                         *)
LEMMA UploadsStayTrue ==
  ASSUME SettingsInv, TranscriptsInv, [Next]_vars
  PROVE  UploadsAreTrue'
  <1> DEFINE r == reading[Uploader]
  <1>1. /\ Transcribed /\ Transcribed' /\ FilesGrow /\ ReadersTyped /\ kind' = kind
        /\ uploaded \in [Sessions -> [nos : SUBSET Nat, metas : SUBSET Nat]]
    BY NextIsTranscribed DEF TranscriptsInv, FilesGrow, StoresTyped
  <1>2. ASSUME NEW s \in Sessions
        PROVE  /\ IsJson(file[s]) \/ FirstIsJson(file[s]) =>
                     IsJson(file'[s]) \/ FirstIsJson(file'[s])
               /\ Settled(kind[s], file[s]) =>
                     /\ Settled(kind[s], file'[s])
                     /\ Identity(file'[s], AgentOf(s)) = Identity(file[s], AgentOf(s))
    BY <1>1, KnownStays
  <1>3. UploadsAreTrue /\ (r.step # "none" => r.session \in Sessions)
    BY ReadersKnown DEF TranscriptsInv, ReadersTyped
  <1> DEFINE After(step, s, source, meta) ==
               /\ step \in {"date", "text"} =>
                     /\ source = AgentOf(s)
                     /\ IsJson(file'[s]) \/ FirstIsJson(file'[s])
               /\ step = "text" =>
                     /\ Settled(kind[s], file'[s])
                     /\ meta = Identity(file'[s], AgentOf(s))
  <1>4. \E step, s, source, meta :
           /\ reading'[Uploader].step = step /\ reading'[Uploader].session = s
           /\ reading'[Uploader].source = source /\ reading'[Uploader].meta = meta
           /\ After(step, s, source, meta)
    <2>1. CASE reading'[Uploader] = reading[Uploader]
      <3>1. After(r.step, r.session, r.source, r.meta)
        BY <1>2, <1>3 DEF UploadsAreTrue
      <3> QED
        BY <2>1, <3>1
    <2>2. ASSUME NEW s \in Sessions, Discover(s)
          PROVE  /\ reading'[Uploader].step = "date" /\ reading'[Uploader].session = s
                 /\ reading'[Uploader].source = AgentOf(s)
                 /\ IsJson(file'[s]) \/ FirstIsJson(file'[s])
      <3>1. CanParse(file[s], AgentOf(s))
        BY <2>2 DEF Discover
      <3>2. IsJson(file[s]) \/ FirstIsJson(file[s])
        BY <1>1, <3>1, FoundByFirst
      <3> QED
        BY <1>2, <2>2, <3>2, DiscoverTyped
    <2>3. CASE ReadDate
      <3> DEFINE s == r.session
      <3>1. /\ s \in Sessions /\ r.source = AgentOf(s)
            /\ IsJson(file[s]) \/ FirstIsJson(file[s])
        BY <1>3, <2>3 DEF ReadDate, UploadsAreTrue
      <3>2. CASE reading'[Uploader] = NoRead
        BY <3>2, NoReadTyped
      <3>3. CASE /\ MetaGiven(file[s], r.source)
                 /\ reading'[Uploader].step = "text" /\ reading'[Uploader].session = s
                 /\ reading'[Uploader].source = r.source
                 /\ reading'[Uploader].meta = ParseMeta(file[s], r.source)
        <4>1. /\ Settled(kind[s], file[s])
              /\ ParseMeta(file[s], AgentOf(s)) = Identity(file[s], AgentOf(s))
          BY <1>1, <3>1, <3>3, GivenIsSettled
        <4>2. After("text", s, r.source, ParseMeta(file[s], r.source))
          BY <1>2, <3>1, <4>1
        <4> HIDE DEF After
        <4> QED
          BY <3>3, <4>2
      <3> QED
        BY <2>3, <3>2, <3>3, DateTyped
    <2>4. CASE UploadText
      <3>1. Leave(Uploader)
        BY <2>4 DEF UploadText
      <3>2. reading'[Uploader] = NoRead
        BY <1>1, <3>1, ReadersKnown, LeavingTyped
      <3> QED
        BY <3>2, NoReadTyped
    <2> QED
      BY <2>1, <2>2, <2>3, <2>4, NextUpload
  <1>5. ASSUME NEW s \in Sessions
        PROVE  uploaded'[s].metas # {} =>
                  /\ Settled(kind[s], file'[s])
                  /\ uploaded'[s].metas \subseteq {Identity(file'[s], AgentOf(s))}
    <2>1. uploaded[s].metas # {} =>
             /\ Settled(kind[s], file[s])
             /\ uploaded[s].metas \subseteq {Identity(file[s], AgentOf(s))}
      BY <1>3 DEF UploadsAreTrue
    <2>2. \/ uploaded'[s].metas = uploaded[s].metas
          \/ /\ Settled(kind[s], file[s])
             /\ uploaded'[s].metas = uploaded[s].metas \cup {Identity(file[s], AgentOf(s))}
      <3>1. CASE uploaded' = uploaded
        BY <3>1
      <3>2. CASE UploadText
        <4>1. /\ Settled(kind[r.session], file[r.session])
              /\ r.meta = Identity(file[r.session], AgentOf(r.session))
          BY <1>3, <3>2 DEF UploadText, UploadsAreTrue
        <4>2. \/ uploaded' = uploaded
              \/ \E nos : uploaded' = [uploaded EXCEPT ![r.session] =
                              [nos |-> nos, metas |-> @.metas \cup {r.meta}]]
          BY <3>2, UploadEffect
        <4>3. CASE s = r.session
          <5>1. ASSUME NEW nos, NEW meta,
                       uploaded' = [uploaded EXCEPT ![s] =
                          [nos |-> nos, metas |-> @.metas \cup {meta}]]
                PROVE  uploaded'[s].metas = uploaded[s].metas \cup {meta}
            BY <1>1, <5>1
          <5> HIDE DEF r
          <5>2. CASE uploaded' = uploaded
            BY <5>2
          <5>3. CASE uploaded' # uploaded
            BY <4>1, <4>2, <4>3, <5>1, <5>3
          <5> QED
            BY <5>2, <5>3
        <4>4. CASE s # r.session
          BY <1>1, <4>2, <4>4
        <4> QED
          BY <4>3, <4>4
      <3> QED
        BY <3>1, <3>2, NextStored
    <2> QED
      BY <1>2, <2>1, <2>2
  <1> QED
    BY <1>1, <1>4, <1>5 DEF UploadsAreTrue, AgentOf

-----------------------------------------------------------------------------
(* What rests since a setup began is ingested by it.                       *)
LEMMA IngestibleIsFound ==
  ASSUME Transcribed, NEW s \in Sessions, Due(s)
  PROVE  s \in Found(AgentOf(s))
  <1>1. Detect(file[s]) # "none" /\ Globbed(s) /\ file[s].lines \in Seq(Line)
    BY KindKnown DEF Due, Ingestible
  <1>2. ASSUME file[s].lines = <<>>
        PROVE  FALSE
    <2>1. GeminiDecidesAt(file[s]) = 0
      <3>1. GeminiDecidesAt(file[s]) # 0 => GeminiDecidesAt(file[s]) \in 1 .. 0
        BY <1>1, <1>2, DecidesAtIsFirst
      <3> QED
        BY <3>1
    <2> QED
      BY <1>1, <1>2, <2>1 DEF Detect, CodexParses, GeminiParses, ClaudeParses,
                              Whole
  <1> QED
    BY <1>1, <1>2 DEF Found

(* Nothing that was stored of a session at rest is lost.                   *)
LEMMA StoredStays ==
  ASSUME SettingsInv, TranscriptsInv, [Next]_vars,
         NEW p \in Setups, NEW s \in Sessions, s \in rested'[p],
         ReadableTurns(file[s]) \subseteq stored[s].nos
  PROVE  ReadableTurns(file[s]) \subseteq stored'[s].nos
  <1>1. s \in rested[p] \/ reading[Worker].session # s
    BY NextRests
  <1>2. CASE Replaced(s)
    <2>1. Since(Worker, s)
      BY <1>1, <1>2 DEF Replaced, Since
    <2>2. PICK found \in batch[Worker] : found.session = s /\ stored'[s].nos = found.nos
      BY <1>2 DEF Replaced
    <2> QED
      BY <2>1, <2>2 DEF TranscriptsInv, ReadsAreFresh, ReaderIsFresh
  <1>3. CASE ~Replaced(s)
    BY <1>3, StoredEffect DEF Grown
  <1> QED
    BY <1>2, <1>3

(* What setup p has before it of a session that rests.                     *)
HasBefore(p, s) ==
    \/ s \in todo[p]
    \/ reading[p].step # "none" /\ reading[p].session = s
    \/ \E found \in batch[p] : found.session = s

LEMMA RestStaysIngested ==
  ASSUME SettingsInv, TranscriptsInv, [Next]_vars,
         NEW p \in Setups, NEW s \in rested'[p], Due(s)'
  PROVE  RestIsIngested(p, s)'
  <1>1. /\ Transcribed /\ kind' = kind /\ s \in Sessions
        /\ batch \in [Setups \cup {Worker} -> SUBSET Prepared]
        /\ todo \in [Processes -> SUBSET Sessions]
        /\ at \in [Processes -> [phase : Nat, step : Steps]] /\ p \in Processes
    BY NextIsTranscribed, NextRests, ReadersKnown
       DEF TranscriptsInv, FilesGrow, StoresTyped, SettingsInv, FilesInv, SettingsTypes
  <1>2. file'[s] = file[s]
    BY <1>1, NextRests DEF Still
  <1>3. Due(s)
    BY <1>1, <1>2 DEF Due, Globbed
  <1>4. PICK a \in Agents, n \in 2 .. 4 : a = AgentOf(s) /\ n = IngestPhase(a)
    <2>1. AgentOf(s) \in Agents
      BY <1>1, KindKnown
    <2> QED
      BY <2>1, IngestParts
  <1>5. ASSUME s \in rested[p]
        PROVE  /\ IsAt(p, "ingest", "files") /\ Target(p) = a => HasBefore(p, s)
               /\ PastPart(p, n) => ReadableTurns(file[s]) \subseteq stored[s].nos
    BY <1>3, <1>4, <1>5 DEF TranscriptsInv, RestedAreIngested, RestIsIngested,
                            HasBefore
  <1>6. ASSUME s \in rested[p], PastPart(p, n)
        PROVE  ReadableTurns(file[s]) \subseteq stored'[s].nos
    BY <1>1, <1>5, <1>6, StoredStays
  <1>7. ASSUME IsAt(p, "ingest", "files")' /\ Target(p)' = a => HasBefore(p, s)',
               PastPart(p, n)' => ReadableTurns(file[s]) \subseteq stored'[s].nos
        PROVE  RestIsIngested(p, s)'
    BY <1>1, <1>2, <1>4, <1>7 DEF RestIsIngested, HasBefore, AgentOf, PastPart
  <1>8. CASE Nowhere(p)
    <2>1. ~IsAt(p, "ingest", "files")' /\ \A m \in 2 .. 4 : ~PastPart(p, m)'
      BY <1>8 DEF Nowhere
    <2> QED
      BY <1>4, <1>7, <2>1
  <1>9. CASE Elsewhere(p)
    BY <1>4, <1>6, <1>7, <1>9 DEF Elsewhere
  <1>10. CASE Stays(p)
    <2>1. /\ s \in rested[p] /\ at'[p] = at[p] /\ todo'[p] = todo[p]
      BY <1>10 DEF Stays
    <2>2. PastPart(p, n)' => PastPart(p, n)
      BY <2>1 DEF PastPart
    <2>3. IsAt(p, "ingest", "files")' /\ Target(p)' = a =>
             IsAt(p, "ingest", "files") /\ Target(p) = a
      BY <2>1 DEF IsAt, Active, Part, Target
    <2>4. ASSUME HasBefore(p, s)
          PROVE  HasBefore(p, s)'
      <3>1. CASE Same(p)
        BY <2>1, <2>4, <3>1 DEF Same, HasBefore
      <3>2. CASE LearnsSource(p)
        <4>1. reading'[p].step = "turns" /\ reading'[p].session = reading[p].session /\ batch' = batch
          <5>1. reading[p].session \in Sessions
            BY <3>2, ReadersKnown DEF LearnsSource, TranscriptsInv, ReadersTyped
          <5> QED
            BY <3>2, <5>1, SourceLearned DEF LearnsSource, Advance
        <4> QED
          BY <2>1, <2>4, <4>1 DEF HasBefore
      <3>3. CASE LearnsTurns(p)
        <4>1. reading'[p].step = "meta" /\ reading'[p].session = reading[p].session /\ batch' = batch
          <5>1. reading[p].session \in Sessions
            BY <3>3, ReadersKnown DEF LearnsTurns, TranscriptsInv, ReadersTyped
          <5> QED
            BY <3>3, <5>1, TurnsLearned DEF LearnsTurns, Advance
        <4> QED
          BY <2>1, <2>4, <4>1 DEF HasBefore
      <3>4. CASE Prepares(p)
        <4>1. reading[p].session \in Sessions
          BY <3>4, ReadersKnown DEF Prepares, TranscriptsInv, ReadersTyped
        <4>2. PICK new \in Prepared : /\ new.session = reading[p].session
                                     /\ batch' = [batch EXCEPT ![p] = @ \cup {new}]
          <5> DEFINE q == reading[p].session
                     x == [session |-> q, nos |-> reading[p].nos,
                           meta |-> ParseMeta(file[q], AgentOf(q))]
          <5>1. /\ x \in Prepared /\ x.session = q
                /\ batch' = [batch EXCEPT ![p] = @ \cup {x}]
            BY <3>4, <4>1, PreparedTyped
          <5> HIDE DEF x
          <5> QED
            BY <5>1
        <4>3. batch'[p] = batch[p] \cup {new}
          BY <1>1, <4>2
        <4> QED
          BY <2>1, <2>4, <4>2, <4>3 DEF HasBefore
      <3>5. CASE GivesUp(p) /\ Rejected(p)
        <4>1. batch' = batch
          BY <3>5 DEF Rejected
        <4>2. ASSUME reading[p].step # "none", reading[p].session = s
              PROVE  FALSE
          <5>1. Since(p, s)
            BY <2>1, ReadersKnown DEF Since
          <5>2. Fresh(p)
            BY <4>2, <5>1 DEF TranscriptsInv, ReadsAreFresh, ReaderIsFresh
          <5> QED
            BY <1>3, <3>5, <4>2, <5>2 DEF GivesUp, Due
        <4> QED
          BY <2>1, <2>4, <4>1, <4>2 DEF HasBefore
      <3> QED
        BY <1>10, <3>1, <3>2, <3>3, <3>4, <3>5 DEF Stays, Learns
    <2> QED
      BY <1>5, <1>6, <1>7, <2>1, <2>2, <2>3, <2>4
  <1>11. CASE NextFile(p)
    <2>1. /\ s \in rested[p] /\ at' = at /\ batch' = batch /\ reading[p].step = "none"
      BY <1>11 DEF NextFile, sessionHistory
    <2>2. PICK q \in todo[p] :
             /\ todo' = [todo EXCEPT ![p] = @ \ {q}]
             /\ reading' = [reading EXCEPT ![p] = [NoRead EXCEPT !.session = q, !.step = "detect"]]
      BY <1>11 DEF NextFile
    <2>3. todo'[p] = todo[p] \ {q} /\ q \in Sessions
      BY <1>1, <2>2
    <2>4. reading'[p].session = q /\ reading'[p].step = "detect"
      BY <2>2, <2>3, ReadersKnown, BeginningTyped DEF TranscriptsInv
    <2>5. HasBefore(p, s) => HasBefore(p, s)'
      BY <2>1, <2>3, <2>4 DEF HasBefore
    <2>6. /\ PastPart(p, n)' => PastPart(p, n)
          /\ IsAt(p, "ingest", "files")' /\ Target(p)' = a =>
                IsAt(p, "ingest", "files") /\ Target(p) = a
      BY <2>1 DEF PastPart, IsAt, Active, Part, Target
    <2> QED
      BY <1>5, <1>6, <1>7, <2>1, <2>5, <2>6
  <1>12. CASE StoreBatch(p)
    <2>1. /\ s \in rested[p] /\ IsAt(p, "ingest", "files") /\ NextPart(p)
          /\ reading[p].step = "none" /\ todo[p] = {} /\ Active(p)
      BY <1>12 DEF StoreBatch, sessionHistory, IsAt
    <2>2. /\ ~IsAt(p, "ingest", "files")'
          /\ PastPart(p, n)' => PastPart(p, n) \/ Part(p) = PlanOf(p)[n]
      BY <1>4, <2>1, PartsGoOn
    <2>3. ASSUME Part(p) = PlanOf(p)[n]
          PROVE  ReadableTurns(file[s]) \subseteq stored'[s].nos
      <3>1. Target(p) = a
        BY <1>4, <2>3, IngestParts DEF Target
      <3>2. PICK found \in batch[p] : found.session = s
        BY <1>5, <2>1, <3>1 DEF HasBefore
      <3>3. Since(p, s)
        BY <2>1, ReadersKnown DEF Since
      <3>4. found.nos = ReadableTurns(file[s])
        BY <3>2, <3>3 DEF TranscriptsInv, ReadsAreFresh, ReaderIsFresh
      <3>5. stored'[s].nos = stored[s].nos \cup
               UNION { x.nos : x \in { y \in batch[p] : y.session = s } }
        BY <1>1, <1>12 DEF StoreBatch
      <3> QED
        BY <3>2, <3>4, <3>5
    <2> QED
      BY <1>6, <1>7, <2>1, <2>2, <2>3
  <1>13. CASE Scans(p)
    <2>1. /\ s \in rested[p] /\ IsAt(p, "ingest", "begin") /\ Active(p)
          /\ IF Found(Target(p)) = {} THEN NextPart(p) ELSE Goto(p, "files")
          /\ todo' = [todo EXCEPT ![p] = Found(Target(p))]
      BY <1>13 DEF Scans, Scan, sessionHistory, IsAt
    <2>2. s \in Found(a)
      BY <1>1, <1>3, <1>4, IngestibleIsFound
    <2>3. CASE NextPart(p) /\ Found(Target(p)) = {}
      <3>1. /\ ~IsAt(p, "ingest", "files")'
            /\ PastPart(p, n)' => PastPart(p, n) \/ Part(p) = PlanOf(p)[n]
        BY <1>4, <2>1, <2>3, PartsGoOn
      <3>2. Part(p) # PlanOf(p)[n]
        <4>1. Part(p) = PlanOf(p)[n] => Target(p) = a
          BY <1>4, IngestParts DEF Target
        <4> QED
          BY <2>2, <2>3, <4>1
      <3> QED
        BY <1>6, <1>7, <2>1, <3>1, <3>2
    <2>4. CASE Goto(p, "files")
      <3>1. at'[p].phase = at[p].phase /\ at'[p].step = "files" /\ at[p].step = "begin"
        BY <1>1, <2>1, <2>4 DEF Goto, IsAt
      <3>2. PastPart(p, n)' => PastPart(p, n)
        BY <3>1 DEF PastPart, Over
      <3>3. Target(p)' = a => HasBefore(p, s)'
        <4>1. Target(p)' = Target(p)
          BY <3>1 DEF Target, Part
        <4>2. todo'[p] = Found(Target(p))
          BY <1>1, <2>1
        <4> QED
          BY <2>2, <4>1, <4>2 DEF HasBefore
      <3> QED
        BY <1>6, <1>7, <2>1, <3>2, <3>3
    <2> QED
      BY <2>1, <2>3, <2>4
  <1> QED
    BY <1>8, <1>9, <1>10, <1>11, <1>12, <1>13, NextPlaces

-----------------------------------------------------------------------------
(* A session that is opened when a setup is done knows its hook.           *)
LEMMA LateStayHooked ==
  ASSUME SettingsInv, TranscriptsInv, [Next]_vars
  PROVE  LateAreHooked'
  <1>1. LateAreHooked /\ Transcribed
    BY DEF TranscriptsInv
  <1>2. CASE UNCHANGED <<hooked, late>>
    BY <1>1, <1>2 DEF LateAreHooked
  <1>3. ASSUME NEW s \in Sessions, Open(s)
        PROVE  LateAreHooked'
    <2> DEFINE a == AgentOf(s)
               knows == Contains(owned[a].text, "wwt")
               promised == SomeSetupEnded /\ owned[a].state # "empty" /\ a \notin disturbed
    <2>1. /\ hooked' = [hooked EXCEPT ![s] = knows]
          /\ late' = [late EXCEPT ![s] = promised]
      BY <1>3 DEF Open
    <2>2. knows \in BOOLEAN /\ promised \in BOOLEAN
      BY DEF Contains
    <2>3. ASSUME promised
          PROVE  knows
      <3>1. PICK p \in Setups : at[p].step = "ended"
        BY <2>3 DEF SomeSetupEnded
      <3>2. a \in machine.agents
        BY <1>1, KindKnown
      <3>3. PastPart(p, InstallPhase(a))
        BY <3>1 DEF PastPart
      <3> QED
        BY <2>3, <3>2, <3>3 DEF SettingsInv, FilesInv, HookStands
    <2> HIDE DEF knows, promised
    <2> QED
      BY <1>1, <2>1, <2>2, <2>3 DEF LateAreHooked
  <1>4. UNCHANGED <<hooked, late>> \/ \E s \in Sessions : Open(s)
    <2>1. CASE UNCHANGED vars
      BY <2>1 DEF vars, agentVars, sessionHistory
    <2>2. CASE Next
      BY <2>2 DEF Next, BeginLine, EndLine, Close, EndTurn, TakeJob, Edit,
                  DetectSource,
         ReadTurns, ReadMeta, StoreJob, Discover, ReadDate, UploadText, Scan, NextFile,
         StoreBatch, Skip, WriteScript, ReadFails, Begin, ReadUserFile, Truncate, Fill, Die,
         UnreadVars, UploadLeaves, agentVars, sessionHistory
    <2> QED
      BY <2>1, <2>2
  <1> QED
    BY <1>2, <1>3, <1>4

-----------------------------------------------------------------------------
LEMMA InitTranscripts == Init => TranscriptsInv
  <1> SUFFICES ASSUME Init
               PROVE  TranscriptsInv
    OBVIOUS
  <1>1. Transcribed
    BY InitTranscribed
  <1>2. /\ reading = [p \in Readers |-> NoRead]
        /\ batch = [p \in Setups \cup {Worker} |-> {}]
        /\ \A p \in Readers : reading[p] = NoRead
        /\ \A p \in Setups \cup {Worker} : batch[p] = {}
    BY DEF Init
  <1>3. ReadersTyped
    BY <1>2, NoReadTyped DEF ReadersTyped
  <1>4. StoresTyped
    <2>1. NoData \in [nos : SUBSET Nat, meta : Nat] /\ NoUpload \in [nos : SUBSET Nat, metas : SUBSET Nat]
      BY DEF NoData, NoUpload
    <2> QED
      BY <2>1 DEF Init, StoresTyped
  <1>5. ReadsAreTrue /\ ReadsAreFresh /\ BatchesInPlace
    BY <1>2, NoReadTyped, ReadersKnown DEF ReadsAreTrue, ReaderIsTrue,
                                           ReadsAreFresh,
       ReaderIsFresh, BatchesInPlace
  <1>6. StoresAreTrue
    BY DEF Init, StoresAreTrue, NoData, NoUpload, Gapless
  <1>7. UploadsAreTrue
    BY <1>2, NoReadTyped, ReadersKnown DEF Init, UploadsAreTrue, NoUpload
  <1>8. StillIsClosed /\ QuietIsCaptured /\ RestedAreIngested
    BY DEF Init, StillIsClosed, Still, QuietIsCaptured, RestedAreIngested
  <1>9. LateAreHooked
    BY DEF Init, LateAreHooked
  <1> QED
    BY <1>1, <1>3, <1>4, <1>5, <1>6, <1>7, <1>8, <1>9 DEF TranscriptsInv

LEMMA NextKeepsTranscripts ==
  ASSUME SettingsInv, TranscriptsInv, [Next]_vars
  PROVE  TranscriptsInv'
  <1>1. Transcribed'
    BY NextIsTranscribed DEF TranscriptsInv
  <1>2. ReadersTyped' /\ StoresTyped' /\ BatchesInPlace'
    BY NextReaders, StoresStayTyped, BatchesStayInPlace
  <1>3. ReadsAreTrue' /\ StoresAreTrue' /\ UploadsAreTrue'
    BY ReadsStayTrue, StoresStayTrue, UploadsStayTrue
  <1>4. StillIsClosed' /\ ReadsAreFresh' /\ QuietIsCaptured'
    BY NextRests, ReadsStayFresh, QuietStaysCaptured DEF StillIsClosed
  <1>5. RestedAreIngested'
    BY RestStaysIngested DEF RestedAreIngested
  <1>6. LateAreHooked'
    BY LateStayHooked
  <1> QED
    BY <1>1, <1>2, <1>3, <1>4, <1>5, <1>6 DEF TranscriptsInv

(* The inductive invariant of the transcripts and of what is read of them. *)
THEOREM TranscriptsInvariant == Spec => [](SettingsInv /\ TranscriptsInv)
  <1>1. Init => SettingsInv /\ TranscriptsInv
    BY InitSettings, InitTranscripts
  <1>2. SettingsInv /\ TranscriptsInv /\ [Next]_vars => (SettingsInv /\ TranscriptsInv)'
    BY NextKeepsSettings, NextKeepsTranscripts
  <1> QED
    BY <1>1, <1>2, PTL DEF Spec

-----------------------------------------------------------------------------
LEMMA IdentityInLines ==
  ASSUME Transcribed, NEW s \in Sessions
  PROVE  Identity(file[s], AgentOf(s)) \in 0 .. Len(file[s].lines)
  <1> DEFINE lines == file[s].lines
  <1>1. lines \in Seq(Line) /\ AgentOf(s) \in Agents
    BY KindKnown
  <1>2. Sound(lines) \in Seq(Line) /\ Len(Sound(lines)) \in 0 .. Len(lines)
    BY <1>1, SoundIsPrefix
  <1>3. MetaLine(Sound(lines), AgentOf(s)) \in 0 .. Len(Sound(lines))
    BY <1>1, <1>2, MetaLineStays
  <1> HIDE DEF lines
  <1>4. IF lines = <<>> THEN Len(lines) = 0 ELSE Len(lines) \in Nat \ {0}
    BY <1>1
  <1> QED
    BY <1>2, <1>3, <1>4 DEF Identity, lines

(* Every variable of the setup keeps its type: what is stored are turns    *)
(* said and lines written, and a line is told apart by its number.         *)
THEOREM TypeCorrect == Spec => []TypeOK
  <1>1. ASSUME SettingsInv, TranscriptsInv
        PROVE  TypeOK
    <2>1. \A s \in Sessions :
             /\ said[s] \in Seq(BOOLEAN)
             /\ file[s].suffix = IF kind[s] = "gemini-json" THEN "json" ELSE "jsonl"
             /\ Len(file[s].lines) <= Len(said[s])
             /\ \A i \in DOMAIN file[s].lines :
                   /\ file[s].lines[i].text \in Texts
                   /\ file[s].lines[i].no \in i .. Len(said[s])
                   /\ i < Len(file[s].lines) => file[s].lines[i].text \in {"json", "broken"}
      <3> SUFFICES ASSUME NEW s \in Sessions
                   PROVE  /\ said[s] \in Seq(BOOLEAN)
                          /\ file[s].suffix = IF kind[s] = "gemini-json" THEN "json" ELSE "jsonl"
                          /\ Len(file[s].lines) <= Len(said[s])
                          /\ \A i \in DOMAIN file[s].lines :
                                /\ file[s].lines[i].text \in Texts
                                /\ file[s].lines[i].no \in i .. Len(said[s])
                                /\ i < Len(file[s].lines) =>
                                      file[s].lines[i].text \in {"json", "broken"}
        OBVIOUS
      <3>1. /\ file[s].lines \in Seq(Line) /\ said[s] \in Seq(BOOLEAN) /\ Written(s)
        BY <1>1, KindKnown DEF TranscriptsInv
      <3>2. file[s].suffix = IF kind[s] = "gemini-json" THEN "json" ELSE "jsonl"
        BY <1>1 DEF TranscriptsInv, Transcribed
      <3>3. \A i \in 1 .. Len(file[s].lines) : file[s].lines[i].text \in Texts
        <4>1. \A i \in 1 .. Len(file[s].lines) : file[s].lines[i] \in Line
          BY <3>1
        <4> QED
          BY <4>1 DEF Line
      <3>4. DOMAIN file[s].lines = 1 .. Len(file[s].lines)
        BY <3>1
      <3>5. /\ Len(file[s].lines) <= Len(said[s])
            /\ \A i \in 1 .. Len(file[s].lines) :
                  /\ file[s].lines[i].no \in i .. Len(said[s])
                  /\ i < Len(file[s].lines) => file[s].lines[i].text \in {"json", "broken"}
        BY <3>1 DEF Written
      <3> QED
        BY <3>1, <3>2, <3>3, <3>4, <3>5
    <2>2. \A s \in Sessions :
             /\ stored[s].nos \cup uploaded[s].nos \subseteq 1 .. Len(said[s])
             /\ stored[s].meta \in 0 .. Len(file[s].lines)
      BY <1>1, IdentityInLines DEF TranscriptsInv, StoresAreTrue, Gapless
    <2>3. \A p \in Processes : at[p].phase \in 0 .. Len(PlanOf(p))
      <3>1. \A p \in Processes : Len(PlanOf(p)) \in Nat \ {0}
        BY PlanOfSetup, PlanOfRemover DEF Processes
      <3> QED
        BY <1>1, <3>1 DEF SettingsInv, FilesInv, PlaceOfPart, Placed
    <2>4. \A k \in UserFiles : owned[k].state \in {"missing", "empty", "whole"}
      BY <1>1 DEF SettingsInv, FilesInv, SettingsTypes
    <2> QED
      BY <1>1, <2>1, <2>2, <2>3, <2>4 DEF TypeOK, SettingsInv, FilesInv,
                                          SettingsTypes,
         TranscriptsInv, Transcribed, StoresTyped, LateAreHooked
  <1> QED
    BY <1>1, TranscriptsInvariant, PTL

(* However much of a transcript is written, torn, cut or broken, the       *)
(* parsers take it for a file of its agent or of nobody.                   *)
THEOREM TranscriptsAreOfTheirAgents == Spec => []SourceIsWriter
  <1>1. TranscriptsInv => SourceIsWriter
    BY WriterDetected DEF TranscriptsInv, SourceIsWriter
  <1> QED
    BY <1>1, TranscriptsInvariant, PTL

(* What is stored of a session here and at the gateway has no gaps.        *)
THEOREM StoredTurnsAreGapless == Spec => []GaplessTurns
  <1>1. TranscriptsInv => GaplessTurns
    BY DEF TranscriptsInv, StoresAreTrue, GaplessTurns, Gapless
  <1> QED
    BY <1>1, TranscriptsInvariant, PTL

(* The project and date stored for a session are those it began with.      *)
THEOREM ProjectsStay == Spec => []ProjectStays
  <1>1. TranscriptsInv => ProjectStays
    BY DEF TranscriptsInv, StoresAreTrue, ProjectStays, Identity
  <1> QED
    BY <1>1, TranscriptsInvariant, PTL

(* However far a session is written when it is uploaded, its uploads take  *)
(* its id, project and date from the same line, or every one from no line: *)
(* the id is then the name of the file, the date that of each upload.      *)
THEOREM UploadsAreOfOneSession == Spec => []OneUploadIdentity
  <1>1. ASSUME TranscriptsInv
        PROVE  OneUploadIdentity
    <2> SUFFICES ASSUME NEW s \in Sessions
                 PROVE  Cardinality(uploaded[s].metas) <= 1
      BY DEF OneUploadIdentity
    <2> DEFINE m == Identity(file[s], AgentOf(s))
    <2>1. uploaded[s].metas = {} \/ uploaded[s].metas = {m}
      BY <1>1 DEF TranscriptsInv, UploadsAreTrue
    <2> HIDE DEF m
    <2>2. Cardinality({}) = 0 /\ Cardinality({m}) = 1
      BY FS_EmptySet, FS_Singleton
    <2> QED
      BY <2>1, <2>2
  <1> QED
    BY <1>1, TranscriptsInvariant, PTL

(* When a setup has ended, every session that was closed before it began   *)
(* is stored as far as it can be read, and one opened later is hooked.     *)
THEOREM SetupKeepsItsPromise == Spec => []SetupPromise
  <1>1. ASSUME SettingsInv, TranscriptsInv
        PROVE  SetupPromise
    <2>1. ASSUME NEW p \in Setups, at[p].step = "ended", NEW s \in rested[p],
                 Globbed(s), Ingestible(file[s])
          PROVE  ReadableTurns(file[s]) \subseteq stored[s].nos
      <3>1. RestIsIngested(p, s)
        BY <1>1, <2>1 DEF TranscriptsInv, RestedAreIngested, Due
      <3> QED
        BY <2>1, <3>1 DEF RestIsIngested, PastPart
    <2>2. \A s \in Sessions : late[s] => hooked[s]
      BY <1>1 DEF TranscriptsInv, LateAreHooked
    <2> QED
      BY <2>1, <2>2 DEF SetupPromise
  <1> QED
    BY <1>1, TranscriptsInvariant, PTL

(* After the hook of a turn that nothing followed, the transcript waits in *)
(* the queue, is stored as far as it can be read, or failed because it     *)
(* cannot be read.                                                         *)
THEOREM HooksCapture == Spec => []QuietIsCaptured
  <1>1. TranscriptsInv => QuietIsCaptured
    BY DEF TranscriptsInv
  <1> QED
    BY <1>1, TranscriptsInvariant, PTL
===============================================================================
