--------------------------------- MODULE Setup ---------------------------------
(***************************************************************************)
(* wwt setup, step by step, while the agents write their transcripts and   *)
(* settings, hooks queue transcripts, the worker reads them and a command  *)
(* uploads them; several setups may run, and die, and run again as another *)
(* process.                                                                *)
(*                                                                         *)
(* A setup writes the hook script and the settings of Claude Code, ingests *)
(* the logs that exist, installs the hooks of Gemini CLI and Codex CLI,    *)
(* and may put the usage rules into a memory file.  The registration of    *)
(* MCP servers is left to the agents' own commands and is left out.        *)
(*                                                                         *)
(* A file that belongs to the user (settings, memory) is a sequence of     *)
(* pieces: "own" is a piece of the user, "wwt" the registration of a hook. *)
(***************************************************************************)
EXTENDS Transcript, MemoryBlock, FiniteSets

CONSTANTS
    Sessions,   \* transcripts that agents write
    Machines,   \* what may be on the machine: the agents, the kinds of their
                \* sessions, the sessions they open, the lines they write at
                \* most (a bound), the processes that run, and the files
                \* that the user edits
    Setups,     \* processes that run wwt setup
    WithMemory, \* those of them that run it with --with-memory
    Removers,   \* processes that run remove_memory_block()
    Worker,     \* the worker that reads queued transcripts
    Uploader,   \* the command that uploads sessions to a gateway
    MinTurns,   \* turns of which chunk_turns() makes a chunk
    MaxEdits    \* bound: pieces that the user writes to each file

Agents == {"claude-code", "gemini-cli", "codex-cli"}
AllKinds == {"claude", "gemini-json", "gemini-jsonl", "codex"}
Memory == "memory"
UserFiles == Agents \cup {Memory}
Processes == Setups \cup Removers
Readers == Setups \cup {Worker, Uploader}

(* The agent that writes transcripts of a kind.                            *)
AgentOfKind(k) ==
    CASE k = "claude" -> "claude-code"
      [] k \in {"gemini-json", "gemini-jsonl"} -> "gemini-cli"
      [] k = "codex" -> "codex-cli"

ASSUME MachinesAssumption ==
    /\ Machines \subseteq
          [agents : SUBSET Agents, kinds : SUBSET AllKinds, sessions : SUBSET Sessions,
           lines : Nat, processes : SUBSET (Processes \cup {Uploader}),
           edited : SUBSET UserFiles]
    /\ \A m \in Machines : \A k \in m.kinds : AgentOfKind(k) \in m.agents
ASSUME ProcessesAssumption ==
    /\ WithMemory \subseteq Setups /\ Setups \cap Removers = {}
    /\ Worker # Uploader /\ {Worker, Uploader} \cap Processes = {}
ASSUME BoundsAssumption ==
    MinTurns \in Nat \ {0} /\ MaxEdits \in Nat

VARIABLES
    machine,    \* the one of Machines that this is
    kind,       \* kind[s]: the agent and the format of s
    live,       \* live[s]: what the agent of s is doing
    said,       \* said[s]: for each line meant for s, whether it is a turn
    file,       \* file[s]: the transcript
    hooked,     \* hooked[s]: the agent of s knows the hook
    job,        \* job[s]: the row of s in the queue
    stored,     \* stored[s]: the turns of s in the stores, and its meta data
    uploaded,   \* uploaded[s]: the same at the gateway, with all its uploads
    homes,      \* the agents whose directory exists
    scripts,    \* the agents whose hook script exists
    owned,      \* owned[k]: a file of the user
    at,         \* at[p]: the phase of a setup, and the step in it
    copy,       \* copy[p]: the text p has read of a file of the user
    todo,       \* todo[p]: transcripts p has found
    batch,      \* batch[p]: what p has to store
    reading,    \* reading[p]: the transcript p reads, and what it has read
    quiet,      \* history: s has not changed since its hook ran
    rested,     \* rested[p]: history: s has not changed since p began
    late,       \* history: s was opened when a setup was done
    wrote,      \* history: pieces of the user written to each file
    disturbed   \* history: files changed under a process, or met half written

agentVars == <<machine, kind, live, said, file, hooked>>
userVars == <<owned, wrote, disturbed>>
localVars == <<at, copy, todo, batch, reading>>
sessionHistory == <<quiet, rested, late>>
hookVars == <<homes, scripts>>
storeVars == <<stored, uploaded>>
vars == <<agentVars, userVars, localVars, sessionHistory, job, storeVars, hookVars>>

-----------------------------------------------------------------------------
AgentOf(s) == AgentOfKind(kind[s])

(* The lines that agents write, first and later.                           *)
ClaudeMessage(turn) == LineOf("user", MetaKeys \cup {"message"}, {}, turn)
OutsideGit == LineOf("user", {"sessionId", "cwd", "timestamp", "message"}, {"gitBranch"}, TRUE)
ClaudeEvent == LineOf("system", {"sessionId", "cwd"}, {}, FALSE)
GeminiMessage(turn) == LineOf("gemini", {"content"}, {}, turn)
CodexEvent(turn) == LineOf("event_msg", {"payload"}, {}, turn)

FirstLines(k) ==
    CASE k = "claude"       -> {OutsideGit, ClaudeEvent}
      [] k = "gemini-json"  -> {LineOf("", {"messages", "sessionId"}, {}, FALSE)}
      [] k = "gemini-jsonl" -> {LineOf("session_metadata", {"sessionId"}, {}, FALSE),
                                GeminiMessage(TRUE)}
      [] k = "codex"        -> {LineOf("session_meta", {"payload"}, {}, FALSE)}

LaterLines(k) ==
    CASE k = "claude" -> {ClaudeMessage(TRUE), ClaudeMessage(FALSE)}
      [] k \in {"gemini-json", "gemini-jsonl"} -> {GeminiMessage(TRUE), GeminiMessage(FALSE)}
      [] k = "codex"  -> {CodexEvent(TRUE), LineOf("response_item", {"payload"}, {}, FALSE)}

Numbers(lines) == { l.no : l \in lines }

Missing == [state |-> "missing", text |-> <<>>]
NoRead == [step |-> "none", session |-> "none", source |-> "none", nos |-> {},
           meta |-> 0, current |-> TRUE]
NoData == [nos |-> {}, meta |-> 0]
NoUpload == [nos |-> {}, metas |-> {}]

Do(action, agent) == [do |-> action, agent |-> agent]

(* setup(): the order of its parts, and of remove_memory_block().          *)
PlanOf(p) ==
    IF p \in Removers
    THEN <<Do("remove", Memory)>>
    ELSE <<Do("install", "claude-code"),
           Do("ingest", "claude-code"), Do("ingest", "gemini-cli"), Do("ingest", "codex-cli"),
           Do("install", "gemini-cli"), Do("install", "codex-cli")>>
         \o IF p \in WithMemory THEN <<Do("remember", Memory)>> ELSE <<>>

Over == {"ended", "aborted", "died"}
Active(p) == at[p].phase # 0 /\ at[p].step \notin Over
Part(p) == PlanOf(p)[at[p].phase]

(* p is at that step of a part of its plan.                                *)
IsAt(p, action, step) == Active(p) /\ Part(p).do = action /\ at[p].step = step

Goto(p, step) == at' = [at EXCEPT ![p].step = step]

(* The locals of a process that is over are gone.                          *)
Halt(p, how) == at' = [at EXCEPT ![p] = [phase |-> 1, step |-> how]]

(* Mutant: a setup does not notice that it is at its last part.            *)
NextPartPastLast(p) == at' = [at EXCEPT ![p] = [phase |-> @.phase + 1, step |-> "begin"]]

NextPart(p) ==
    at' = [at EXCEPT ![p] =
        IF @.phase = Len(PlanOf(p))
        THEN [phase |-> 1, step |-> "ended"]
        ELSE [phase |-> @.phase + 1, step |-> "begin"]]

(* The agent and file of the user that a part is about.                    *)
Target(p) == Part(p).agent

(* A setup has read the file and is going to write what it made of it.     *)
Holds(p, k) ==
    Active(p) /\ Part(p).do # "ingest" /\ Target(p) = k /\ at[p].step \in {"truncate", "fill"}

TypeOK ==
    /\ machine \in Machines
    /\ kind \in [Sessions -> machine.kinds]
    /\ live \in [Sessions -> {"new", "open", "writing", "closed"}]
    /\ \A s \in Sessions :
          /\ said[s] \in Seq(BOOLEAN)
          /\ file[s].suffix = IF kind[s] = "gemini-json" THEN "json" ELSE "jsonl"
          /\ Len(file[s].lines) <= Len(said[s])
          /\ \A i \in DOMAIN file[s].lines :
                /\ file[s].lines[i].text \in Texts
                /\ file[s].lines[i].no \in i .. Len(said[s])
                /\ i < Len(file[s].lines) => file[s].lines[i].text \in {"json", "broken"}
          /\ stored[s].nos \cup uploaded[s].nos \subseteq 1 .. Len(said[s])
          /\ stored[s].meta \in 0 .. Len(file[s].lines)
    /\ hooked \in [Sessions -> BOOLEAN]
    /\ job \in [Sessions -> {"none", "pending", "failed"}]
    /\ scripts \subseteq homes /\ homes \subseteq Agents
    /\ \A k \in UserFiles : owned[k].state \in {"missing", "empty", "whole"}
    /\ \A p \in Processes : at[p].phase \in 0 .. Len(PlanOf(p))

Init ==
    /\ machine \in Machines
    /\ kind \in [Sessions -> machine.kinds]
    /\ live = [s \in Sessions |-> "new"]
    /\ said = [s \in Sessions |-> <<>>]
    /\ file = [s \in Sessions |->
                  [suffix |-> IF kind[s] = "gemini-json" THEN "json" ELSE "jsonl",
                   lines  |-> <<>>]]
    /\ hooked = [s \in Sessions |-> FALSE]
    /\ job = [s \in Sessions |-> "none"]
    /\ stored = [s \in Sessions |-> NoData]
    /\ uploaded = [s \in Sessions |-> NoUpload]
    /\ homes = machine.agents
    /\ scripts = {}
    /\ owned = [k \in UserFiles |-> Missing]
    /\ at = [p \in Processes |-> [phase |-> 0, step |-> "begin"]]
    /\ copy = [p \in Processes |-> <<>>]
    /\ todo = [p \in Processes |-> {}]
    /\ batch = [p \in Setups \cup {Worker} |-> {}]
    /\ reading = [p \in Readers |-> NoRead]
    /\ quiet = [s \in Sessions |-> FALSE]
    /\ rested = [p \in Setups |-> {}]
    /\ late = [s \in Sessions |-> FALSE]
    /\ wrote = [k \in UserFiles |-> 0]
    /\ disturbed = {}

-----------------------------------------------------------------------------
(* The agents.  A session knows the hooks that the settings register when  *)
(* it is opened.                                                           *)
SomeSetupEnded == \E p \in Setups : at[p].step = "ended"

Open(s) ==
    /\ live[s] \in {"new", "closed"}
    /\ s \in machine.sessions
    /\ file[s].lines # <<>> =>
          LET tail == Last(file[s].lines)
          IN  tail.text # "cut" /\ (IsJson(file[s]) => tail.text = "json")
    /\ live' = [live EXCEPT ![s] = "open"]
    /\ hooked' = [hooked EXCEPT ![s] = Contains(owned[AgentOf(s)].text, "wwt")]
    /\ late' = [late EXCEPT ![s] =
                   /\ SomeSetupEnded
                   /\ owned[AgentOf(s)].state # "empty"
                   /\ AgentOf(s) \notin disturbed]
    /\ UNCHANGED <<machine, kind, said, file, userVars, localVars, quiet, rested,
                   job, storeVars, hookVars>>

Touched(s) ==
    /\ quiet' = [quiet EXCEPT ![s] = FALSE]
    /\ rested' = [p \in Setups |-> rested[p] \ {s}]

(* A line is torn, or cut, while the agent is writing it.  A .json file is *)
(* written anew each time.  What follows a line that was left torn joins   *)
(* that line.                                                              *)
BeginLine(s) ==
    /\ live[s] = "open"
    /\ Len(said[s]) < machine.lines
    /\ \E line \in IF said[s] = <<>> THEN FirstLines(kind[s]) ELSE LaterLines(kind[s]),
          text \in {"torn", "cut"} :
          /\ said' = [said EXCEPT ![s] = Append(@, line.turn)]
          /\ file' =
                IF file[s].lines # <<>> /\ Last(file[s].lines).text = "torn"
                THEN file
                ELSE [file EXCEPT ![s].lines =
                        Append(@, [line EXCEPT !.no = Len(said[s]) + 1, !.text = text])]
    /\ live' = [live EXCEPT ![s] = "writing"]
    /\ Touched(s)
    /\ UNCHANGED <<machine, kind, hooked, late, userVars, localVars, job, storeVars, hookVars>>

EndLine(s) ==
    /\ live[s] = "writing"
    /\ LET lines == file[s].lines
           whole == Last(lines).no = Len(said[s])
       IN  file' = [file EXCEPT ![s].lines =
                       [lines EXCEPT ![Len(lines)].text = IF whole THEN "json" ELSE "broken"]]
    /\ live' = [live EXCEPT ![s] = "open"]
    /\ UNCHANGED <<machine, kind, said, hooked, userVars, localVars, sessionHistory,
                   job, storeVars, hookVars>>

(* The agent ends, or dies while it writes and leaves a torn line.         *)
Close(s) ==
    /\ live[s] \in {"open", "writing"}
    /\ live' = [live EXCEPT ![s] = "closed"]
    /\ UNCHANGED <<machine, kind, said, file, hooked, userVars, localVars,
                   sessionHistory, job, storeVars, hookVars>>

(* A turn has ended: the hook script, if the agent knows it, runs          *)
(* wwt enqueue, for a transcript that exists.                              *)
EndTurn(s) ==
    /\ live[s] = "open"
    /\ hooked[s] /\ AgentOf(s) \in scripts
    /\ file[s].lines # <<>>
    /\ job' = [job EXCEPT ![s] = "pending"]
    /\ quiet' = [quiet EXCEPT ![s] = TRUE]
    /\ reading' = [reading EXCEPT ![Worker].current = @ /\ reading[Worker].session # s]
    /\ UNCHANGED <<agentVars, userVars, at, copy, todo, batch, rested, late, storeVars,
                   hookVars>>

(* The user, or the agent, changes a file of the user.                     *)
Edit(k) ==
    /\ k \in machine.edited
    /\ wrote[k] < MaxEdits
    /\ wrote' = [wrote EXCEPT ![k] = @ + 1]
    /\ owned' = [owned EXCEPT ![k] = [state |-> "whole", text |-> Append(@.text, "own")]]
    /\ disturbed' = IF \E p \in Processes : Holds(p, k)
                    THEN disturbed \cup {k} ELSE disturbed
    /\ UNCHANGED <<agentVars, localVars, sessionHistory, job, storeVars, hookVars>>

-----------------------------------------------------------------------------
(* Reading a transcript: detect_parser(), parse_turns() and parse_meta()   *)
(* open the file one after the other, in a setup and in the worker's       *)
(* prepare_transcript().                                                   *)
Reads(p, step) == reading[p].step = step /\ (p # Worker => Active(p))

Leave(p) == reading' = [reading EXCEPT ![p] = NoRead]

(* Mutant: the row is failed, though it was queued again meanwhile.        *)
MarkFailedAnyway == job' = [job EXCEPT ![reading[Worker].session] = "failed"]

(* The row that the worker read for is still the current one.              *)
MarkFailed == job' = [job EXCEPT ![reading[Worker].session] =
                         IF reading[Worker].current THEN "failed" ELSE @]

(* A parser raises: a setup ends with the error; the worker tries again,   *)
(* or has tried often enough.                                              *)
Raised(p) ==
    /\ Leave(p)
    /\ batch' = [batch EXCEPT ![p] = {}]
    /\ IF p = Worker
       THEN UNCHANGED <<at, todo>> /\ (UNCHANGED job \/ MarkFailed)
       ELSE Halt(p, "aborted") /\ todo' = [todo EXCEPT ![p] = {}] /\ UNCHANGED job

(* Nothing to store: a setup goes on with the next transcript, and for the *)
(* worker it is a PermanentIngestError.                                    *)
Rejected(p) ==
    /\ Leave(p)
    /\ UNCHANGED <<at, todo, batch>>
    /\ IF p = Worker THEN MarkFailed ELSE UNCHANGED job

Advance(p, read) ==
    /\ reading' = [reading EXCEPT ![p] = read]
    /\ UNCHANGED <<at, todo, job, batch>>

UnreadVars == <<agentVars, userVars, copy, sessionHistory, storeVars, hookVars>>

DetectSource(p) ==
    /\ Reads(p, "detect")
    /\ LET f == file[reading[p].session]
       IN  \/ DetectRaises(f) /\ Raised(p)
           \/ ~DetectRaises(f) /\ Detect(f) = "none" /\ Rejected(p)
           \/ /\ ~DetectRaises(f) /\ Detect(f) # "none"
              /\ Advance(p, [reading[p] EXCEPT !.source = Detect(f), !.step = "turns"])
    /\ UNCHANGED UnreadVars

ReadTurns(p) ==
    /\ Reads(p, "turns")
    /\ LET f     == file[reading[p].session]
           turns == ParseTurns(f, reading[p].source)
           fails == ParseTurnsRaises(f, reading[p].source)
       IN  \/ fails /\ Raised(p)
           \/ ~fails /\ turns = {} /\ Rejected(p)
           \/ /\ ~fails /\ turns # {}
              /\ Advance(p, [reading[p] EXCEPT !.nos = Numbers(turns), !.step = "meta"])
    /\ UNCHANGED UnreadVars

(* Mutant: off by one.                                                     *)
FewOrJustEnough(nos) == Cardinality(nos) <= MinTurns

(* chunk_turns() makes no chunk of these turns.  That a turn of the user   *)
(* is among them, and text enough for a chunk, is left out.                *)
Few(nos) == Cardinality(nos) < MinTurns

(* The chunks are made after the third read.                               *)
ReadMeta(p) ==
    /\ Reads(p, "meta")
    /\ LET f     == file[reading[p].session]
           fails == ParseMetaRaises(f, reading[p].source)
           few   == Few(reading[p].nos)
       IN  \/ fails /\ Raised(p)
           \/ ~fails /\ few /\ Rejected(p)
           \/ /\ ~fails /\ ~few
              /\ batch' = [batch EXCEPT ![p] = @ \cup
                    {[session |-> reading[p].session, nos |-> reading[p].nos,
                      meta |-> ParseMeta(f, reading[p].source)]}]
              /\ reading' = [reading EXCEPT ![p] =
                    IF p = Worker THEN [@ EXCEPT !.step = "store"] ELSE NoRead]
              /\ UNCHANGED <<at, todo, job>>
    /\ UNCHANGED UnreadVars

-----------------------------------------------------------------------------
(* The worker takes a job, and stores what it has prepared in place of     *)
(* what was stored; the row is deleted if it is still the current one.     *)
TakeJob(s) ==
    /\ reading[Worker].step = "none"
    /\ job[s] = "pending"
    /\ reading' = [reading EXCEPT ![Worker] =
                      [NoRead EXCEPT !.session = s, !.step = "detect"]]
    /\ UNCHANGED <<agentVars, userVars, at, copy, todo, batch, sessionHistory,
                   job, storeVars, hookVars>>

StoreJob ==
    /\ reading[Worker].step = "store"
    /\ \E found \in batch[Worker] :
          /\ stored' = [stored EXCEPT ![found.session] =
                           [nos |-> found.nos, meta |-> found.meta]]
          /\ job' = [job EXCEPT ![found.session] =
                        IF reading[Worker].current THEN "none" ELSE @]
    /\ batch' = [batch EXCEPT ![Worker] = {}]
    /\ Leave(Worker)
    /\ UNCHANGED <<agentVars, userVars, at, copy, todo, sessionHistory, uploaded, hookVars>>

-----------------------------------------------------------------------------
(* The upload of a session: discover_sessions() asks the parser of the     *)
(* agent, then the meta data and then the text are read; the gateway       *)
(* parses the text.  Only what is stored at the gateway changes.  An upload*)
(* gives the session the id and date of the line that `meta` names; what no*)
(* line gives is the name of the file and the date of that upload, another *)
(* at every upload (Gemini CLI and Codex CLI; discovery.py passes them on).*)
UploadLeaves == UNCHANGED <<agentVars, userVars, at, copy, todo, batch,
                            sessionHistory, job, stored, hookVars>>

Discover(s) ==
    /\ Uploader \in machine.processes
    /\ reading[Uploader].step = "none"
    /\ CanParse(file[s], AgentOf(s))
    /\ reading' = [reading EXCEPT ![Uploader] =
                      [NoRead EXCEPT !.session = s, !.source = AgentOf(s), !.step = "date"]]
    /\ UploadLeaves /\ UNCHANGED uploaded

(* Without meta data (Claude Code) there is no started_at, and nothing to  *)
(* upload.                                                                 *)
ReadDate ==
    /\ reading[Uploader].step = "date"
    /\ LET f == file[reading[Uploader].session]
           source == reading[Uploader].source
       IN  IF ~ParseMetaRaises(f, source) /\ MetaGiven(f, source)
           THEN reading' = [reading EXCEPT ![Uploader].meta = ParseMeta(f, source),
                                           ![Uploader].step = "text"]
           ELSE Leave(Uploader)
    /\ UploadLeaves /\ UNCHANGED uploaded

(* read_text(), and what ingest_sessions() of the gateway makes of it: an  *)
(* unsupported format or a parser's error leaves the stores alone, and so  *)
(* does a text without chunks, which is recorded all the same.             *)
UploadText ==
    /\ reading[Uploader].step = "text"
    /\ LET s == reading[Uploader].session
           source == Detect(file[s])
           refused == Undecodable(file[s]) \/ source = "none" \/ ParseTurnsRaises(file[s], source)
           nos == Numbers(ParseTurns(file[s], source))
       IN  uploaded' =
              IF refused THEN uploaded
              ELSE [uploaded EXCEPT ![s] =
                      [nos   |-> IF Few(nos) THEN @.nos ELSE nos,
                       metas |-> @.metas \cup {reading[Uploader].meta}]]
    /\ Leave(Uploader)
    /\ UploadLeaves

-----------------------------------------------------------------------------
(* The parts of a setup.                                                   *)
Begin(p) ==
    /\ at[p].phase = 0
    /\ p \in machine.processes
    /\ at' = [at EXCEPT ![p].phase = 1]
    /\ rested' = IF p \in Setups
                 THEN [rested EXCEPT ![p] =
                    { s \in Sessions : live[s] = "closed" /\ reading[Worker].session # s }]
                 ELSE rested
    /\ UNCHANGED <<agentVars, userVars, copy, todo, batch, reading, quiet, late,
                   job, storeVars, hookVars>>

(* A file pattern of _bulk_ingest_directory(): Gemini's .jsonl files are   *)
(* not among those that a setup reads.                                     *)
Globbed(s) == kind[s] # "gemini-jsonl"

Found(agent) ==
    { s \in Sessions : AgentOf(s) = agent /\ Globbed(s) /\ file[s].lines # <<>> }

Scan(p) ==
    /\ IsAt(p, "ingest", "begin")
    /\ IF Found(Target(p)) = {} THEN NextPart(p) ELSE Goto(p, "files")
    /\ todo' = [todo EXCEPT ![p] = Found(Target(p))]
    /\ UNCHANGED <<agentVars, userVars, copy, batch, reading, sessionHistory,
                   job, storeVars, hookVars>>

NextFile(p) ==
    /\ IsAt(p, "ingest", "files")
    /\ reading[p].step = "none"
    /\ \E s \in todo[p] :
          /\ todo' = [todo EXCEPT ![p] = @ \ {s}]
          /\ reading' = [reading EXCEPT ![p] = [NoRead EXCEPT !.session = s, !.step = "detect"]]
    /\ UNCHANGED <<agentVars, userVars, at, copy, batch, sessionHistory, job, storeVars, hookVars>>

(* The upserts delete nothing: what is stored of a session can only grow.  *)
(* The keyword index, rebuilt at the end of the part of Codex CLI if that  *)
(* part had chunks and otherwise not at all, is left to Bm25Cache.         *)
StoreBatch(p) ==
    /\ IsAt(p, "ingest", "files")
    /\ reading[p].step = "none" /\ todo[p] = {}
    /\ stored' = [s \in Sessions |->
          LET new == { found \in batch[p] : found.session = s }
          IN  [nos  |-> stored[s].nos \cup UNION { found.nos : found \in new },
               meta |-> IF new = {} THEN stored[s].meta
                        ELSE (CHOOSE found \in new : TRUE).meta]]
    /\ batch' = [batch EXCEPT ![p] = {}]
    /\ NextPart(p)
    /\ UNCHANGED <<agentVars, userVars, copy, todo, reading, sessionHistory, job,
                   uploaded, hookVars>>

(* The hook script of an agent, written again by every setup.  The         *)
(* directory of Claude Code is made, the others must be there.             *)
Skip(p) ==
    /\ IsAt(p, "install", "begin")
    /\ Target(p) \notin homes \cup {"claude-code"}
    /\ NextPart(p)
    /\ UNCHANGED <<agentVars, userVars, copy, todo, batch, reading, sessionHistory,
                   job, storeVars, hookVars>>

WriteScript(p) ==
    /\ IsAt(p, "install", "begin")
    /\ Target(p) \in homes \cup {"claude-code"}
    /\ homes' = homes \cup {Target(p)}
    /\ scripts' = scripts \cup {Target(p)}
    /\ Goto(p, "read")
    /\ UNCHANGED <<agentVars, userVars, copy, todo, batch, reading, sessionHistory, job, storeVars>>

(* json.loads() of a settings file that is empty raises.                   *)
ReadFails(p) ==
    /\ IsAt(p, "install", "read")
    /\ owned[Target(p)].state = "empty"
    /\ Halt(p, "aborted")
    /\ UNCHANGED <<agentVars, userVars, copy, todo, batch, reading, sessionHistory,
                   job, storeVars, hookVars>>

(* Mutant: the hook is registered without a look for it.                   *)
RegisteredAgain(text) == Append(text, "wwt")

(* What a part makes of the text it has read; nothing is written if that   *)
(* is the same text.                                                       *)
Registered(text) == IF Contains(text, "wwt") THEN text ELSE Append(text, "wwt")

Edited(p, text) ==
    CASE Part(p).do = "install"  -> Registered(text)
      [] Part(p).do = "remember" -> Upserted(text)
      [] Part(p).do = "remove"   -> Removed(text)

(* Mutant: an empty settings file is read as settings without entries.     *)
ReadUserFileHalfWritten(p) ==
    /\ \/ IsAt(p, "install", "read")
       \/ IsAt(p, "remember", "begin")
       \/ IsAt(p, "remove", "begin")
    /\ LET text == owned[Target(p)].text
       IN  IF Edited(p, text) = text
           THEN NextPart(p) /\ UNCHANGED copy
           ELSE Goto(p, "truncate") /\ copy' = [copy EXCEPT ![p] = text]
    /\ disturbed' = IF Target(p) = Memory /\ owned[Memory].state = "empty"
                    THEN disturbed \cup {Memory} ELSE disturbed
    /\ homes' = IF Part(p).do = "remember" THEN Agents ELSE homes
    /\ UNCHANGED <<agentVars, owned, wrote, todo, batch, reading, sessionHistory,
                   job, storeVars, scripts>>

(* Reading the file of a part.  The memory files of all agents are written,*)
(* and the directories for them made: Memory stands for each of them.  Text*)
(* that another process has truncated and not yet written is lost.         *)
ReadUserFile(p) ==
    /\ \/ IsAt(p, "install", "read") /\ owned[Target(p)].state # "empty"
       \/ IsAt(p, "remember", "begin")
       \/ IsAt(p, "remove", "begin")
    /\ LET text == owned[Target(p)].text
       IN  IF Edited(p, text) = text
           THEN NextPart(p) /\ UNCHANGED copy
           ELSE Goto(p, "truncate") /\ copy' = [copy EXCEPT ![p] = text]
    /\ disturbed' = IF Target(p) = Memory /\ owned[Memory].state = "empty"
                    THEN disturbed \cup {Memory} ELSE disturbed
    /\ homes' = IF Part(p).do = "remember" THEN Agents ELSE homes
    /\ UNCHANGED <<agentVars, owned, wrote, todo, batch, reading, sessionHistory,
                   job, storeVars, scripts>>

(* write_text(): the file is empty before it is written.                   *)
Truncate(p) ==
    /\ Active(p) /\ at[p].step = "truncate"
    /\ owned' = [owned EXCEPT ![Target(p)] = [state |-> "empty", text |-> <<>>]]
    /\ Goto(p, "fill")
    /\ UNCHANGED <<agentVars, wrote, disturbed, copy, todo, batch, reading,
                   sessionHistory, job, storeVars, hookVars>>

Fill(p) ==
    /\ Active(p) /\ at[p].step = "fill"
    /\ owned' = [owned EXCEPT ![Target(p)] =
                    [state |-> "whole", text |-> Edited(p, copy[p])]]
    /\ copy' = [copy EXCEPT ![p] = <<>>]
    /\ NextPart(p)
    /\ UNCHANGED <<agentVars, wrote, disturbed, todo, batch, reading, sessionHistory,
                   job, storeVars, hookVars>>

Die(p) ==
    /\ Active(p)
    /\ Halt(p, "died")
    /\ disturbed' = IF at[p].step = "fill" THEN disturbed \cup {Target(p)} ELSE disturbed
    /\ copy' = [copy EXCEPT ![p] = <<>>]
    /\ todo' = [todo EXCEPT ![p] = {}]
    /\ batch' = IF p \in Setups THEN [batch EXCEPT ![p] = {}] ELSE batch
    /\ reading' = IF p \in Setups THEN [reading EXCEPT ![p] = NoRead] ELSE reading
    /\ UNCHANGED <<agentVars, owned, wrote, sessionHistory, job, storeVars, hookVars>>

-----------------------------------------------------------------------------
Next ==
    \/ \E s \in Sessions :
          \/ Open(s) \/ BeginLine(s) \/ EndLine(s) \/ Close(s) \/ EndTurn(s)
          \/ TakeJob(s)
    \/ \E k \in UserFiles : Edit(k)
    \/ \E p \in Setups \cup {Worker} : DetectSource(p) \/ ReadTurns(p) \/ ReadMeta(p)
    \/ StoreJob
    \/ (\E s \in Sessions : Discover(s)) \/ ReadDate \/ UploadText
    \/ \E p \in Setups : Scan(p) \/ NextFile(p) \/ StoreBatch(p) \/ Skip(p)
                            \/ WriteScript(p) \/ ReadFails(p)
    \/ \E p \in Processes : Begin(p) \/ ReadUserFile(p) \/ Truncate(p) \/ Fill(p) \/ Die(p)

Spec == Init /\ [][Next]_vars

-----------------------------------------------------------------------------
(* However much of a transcript is written, whether a line of it is torn,  *)
(* cut or broken, detect_parser() takes it for a file of the agent that    *)
(* writes it or of nobody.                                                 *)
SourceIsWriter ==
    \A s \in Sessions : Detect(file[s]) \in {AgentOf(s), "none"}

(* What setups and the worker store of a session, and what the gateway     *)
(* stores of it, has no gaps: with a turn it has every turn that was said  *)
(* before.                                                                 *)
GaplessTurns ==
    \A s \in Sessions : \A nos \in {stored[s].nos, uploaded[s].nos} :
        \A n \in nos : \A m \in 1 .. n - 1 : said[s][m] => m \in nos

(* The project and date stored for a session come from the line that gives *)
(* them in the longer file too, or from no line: then they are not known   *)
(* (Claude Code), or the date is that of the reading.                      *)
ProjectStays ==
    \A s \in Sessions :
        stored[s].meta \in {0, IF IsJson(file[s]) THEN 1
                                ELSE MetaLine(Sound(file[s].lines), AgentOf(s))}

(* However far a session is written when it is uploaded, its uploads take  *)
(* its id, project and date from the same line, or every one from no line. *)
(* So it never appears twice at the gateway, once by the name of its file  *)
(* and once by its id, and a date that came from the transcript is never   *)
(* replaced by that of an upload.  (A session of which no line gives a date*)
(* has the date of its last upload.)                                       *)
OneUploadIdentity ==
    \A s \in Sessions : Cardinality(uploaded[s].metas) <= 1

ReadableTurns(f) == Numbers(ParseTurns(f, Detect(f)))

(* The parsers read the file, and find a chunk in it.                      *)
Ingestible(f) ==
    /\ ~DetectRaises(f) /\ Detect(f) # "none"
    /\ ~ParseTurnsRaises(f, Detect(f)) /\ ~ParseMetaRaises(f, Detect(f))
    /\ Cardinality(ReadableTurns(f)) >= MinTurns

(* "Existing logs are auto-ingested. Future sessions auto-capture": when a *)
(* setup has ended, every session that was closed before it began is       *)
(* stored as far as it can be read, and a session that is opened later     *)
(* knows its hook.                                                         *)
SetupPromise ==
    /\ \A p \in Setups : at[p].step = "ended" =>
          \A s \in rested[p] : Globbed(s) /\ Ingestible(file[s]) =>
              ReadableTurns(file[s]) \subseteq stored[s].nos
    /\ \A s \in Sessions : late[s] => hooked[s]

(* After the hook of a turn that nothing followed, the transcript waits in *)
(* the queue, is stored as far as it can be read, or failed because it     *)
(* cannot be read; what the worker read before does not count.             *)
QuietIsCaptured ==
    \A s \in Sessions : quiet[s] =>
        CASE job[s] = "pending" -> TRUE
          [] job[s] = "none"    -> ReadableTurns(file[s]) \subseteq stored[s].nos
          [] job[s] = "failed"  -> ~Ingestible(file[s])

(* Where a piece stands in a file of the user.                             *)
Places(text, piece) == { i \in DOMAIN text : text[i] = piece }

(* However often setups run, side by side or after one that died, no hook  *)
(* is registered twice, and none whose script is not there.                *)
HooksRegistered ==
    \A a \in Agents :
        /\ Cardinality(Places(owned[a].text, "wwt")) <= 1
        /\ Contains(owned[a].text, "wwt") => a \in scripts

(* What the user wrote to a file that setups edit is still there, however  *)
(* many setups edit it side by side, unless one died while it wrote the    *)
(* file, the user wrote to it while a setup was between its read and its   *)
(* write, or, of a memory file only, a process read it while it was        *)
(* truncated.  Settings are safe from that: json.loads('') raises.         *)
OthersKept ==
    \A k \in UserFiles :
        \/ k \in disturbed
        \/ \E p \in Processes : Holds(p, k) /\ at[p].step = "fill"
        \/ Cardinality(Places(owned[k].text, "own")) = wrote[k]

(* "idempotent": a setup that reads a memory file in which the rules       *)
(* already stand has nothing to write (usage_guide.py:169).                *)
MemoryIdempotent ==
    \A p \in Setups : Holds(p, Memory) /\ at[p].step = "truncate" => ~HasBlock(copy[p])
=============================================================================
