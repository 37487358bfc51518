-------------------------------- MODULE Chunker --------------------------------
(***************************************************************************)
(* chunker.py: the chunks that chunk_turns() makes of the turns of a       *)
(* session, at three granularities at once.                                *)
(*                                                                         *)
(* A turn is its role and the length of its formatted line, 0 if it has no *)
(* text; turns are numbered from 0.  The text of a session only grows, so  *)
(* its chunks are told apart by their granularity and the turns they start *)
(* and end with.                                                           *)
(***************************************************************************)
EXTENDS Integers, Sequences, FiniteSets, FiniteSetsExt

CONSTANTS
    MinTurns,        \* min_turns
    MaxTurns,        \* max_turns
    Overlap,         \* overlap
    MinChunkChars,   \* _MIN_CHUNK_CHARS
    MinOutlineTurns  \* _MIN_OUTLINE_TURNS

ASSUME WindowAssumption ==
    /\ MinTurns \in Nat \ {0} /\ MaxTurns \in Nat /\ Overlap \in Nat
    /\ MinTurns <= MaxTurns
ASSUME LimitAssumption ==
    MinChunkChars \in Nat \ {0} /\ MinOutlineTurns \in Nat \ {0}

Turn == [role : {"user", "assistant"}, chars : Nat]

TurnAt(turns, i) == turns[i + 1]

(* turns[start_index : start_index + size], by the numbers of its turns.   *)
Batch(turns, start, size) ==
    { i \in start .. start + size - 1 : i < Len(turns) }

HasUser(turns, batch) == \E i \in batch : TurnAt(turns, i).role = "user"

(* len(_format_turns(batch, "raw_text")): lines, without the empty ones.   *)
RawLength(turns, batch) ==
    LET lines == { i \in batch : TurnAt(turns, i).chars > 0 }
        text == MapThenSumSet(LAMBDA i : TurnAt(turns, i).chars, lines)
    IN  IF lines = {} THEN 0 ELSE text + Cardinality(lines) - 1

(* The keys that _make_*_chunk_id() hashes.  An outline starts with turn 0.*)
ChunkId(granularity, start) == <<granularity, start>>

(* _make_*_span_id(): the span of an outline keeps its id as it grows.     *)
SpanId(granularity, start, end) ==
    IF granularity = "session-outline"
    THEN <<granularity, start>> ELSE <<granularity, start, end>>

Chunk(granularity, start, end) ==
    [granularity |-> granularity, start |-> start, end |-> end]

IdOf(chunk) == ChunkId(chunk.granularity, chunk.start)

SpanOf(chunk) == SpanId(chunk.granularity, chunk.start, chunk.end)

-----------------------------------------------------------------------------
WindowStep == IF MaxTurns - Overlap > 1 THEN MaxTurns - Overlap ELSE 1

(* Mutant: the windows are aligned with the end of the session.            *)
WindowStartsFromTheEnd(turns) ==
    { i \in 0 .. Len(turns) - 1 :
        (Len(turns) - i) % WindowStep = 0 /\ Len(turns) - i >= MinTurns }

(* Mutant: windows that do not overlap.                                    *)
WindowStartsApart(turns) ==
    { i \in 0 .. Len(turns) - 1 :
        i % MaxTurns = 0 /\ Len(turns) - i >= MinTurns }

(* range(0, len(turns), step), without the batches that are too short.     *)
WindowStarts(turns) ==
    { i \in 0 .. Len(turns) - 1 :
        i % WindowStep = 0 /\ Len(turns) - i >= MinTurns }

PairStarts(turns) == { i \in 0 .. Len(turns) - 2 : i % 2 = 0 }

(* _build_chunk_and_span() with enforce_min_chars.                         *)
Kept(turns, batch) ==
    HasUser(turns, batch) /\ RawLength(turns, batch) >= MinChunkChars

LastTurn(turns, start, size) ==
    IF start + size < Len(turns) THEN start + size - 1 ELSE Len(turns) - 1

BatchChunks(turns, granularity, starts, size) ==
    { Chunk(granularity, i, LastTurn(turns, i, size)) :
        i \in { j \in starts : Kept(turns, Batch(turns, j, size)) } }

SmallWindows(turns) ==
    BatchChunks(turns, "small-window", WindowStarts(turns), MaxTurns)

TurnPairs(turns) == BatchChunks(turns, "turn-pair", PairStarts(turns), 2)

Outline(turns) ==
    IF Len(turns) >= MinOutlineTurns /\ HasUser(turns, 0 .. Len(turns) - 1)
    THEN { Chunk("session-outline", 0, Len(turns) - 1) }
    ELSE {}

(* chunk_turns()                                                           *)
Chunks(turns) == SmallWindows(turns) \cup TurnPairs(turns) \cup Outline(turns)

ChunkIds(turns) == { IdOf(c) : c \in Chunks(turns) }
=============================================================================
