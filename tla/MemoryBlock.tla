------------------------------ MODULE MemoryBlock ------------------------------
(***************************************************************************)
(* usage_guide.py: the block of usage rules in the memory file of an agent *)
(* (CLAUDE.md, GEMINI.md, AGENTS.md).                                      *)
(*                                                                         *)
(* A file is a sequence of pieces: the markers "start" and "end", texts of *)
(* the rules, and pieces of the user.  Blank lines are left out.  The last *)
(* section of the rules says how to remove the block, and spells out both  *)
(* markers (lines 150-153).                                                *)
(***************************************************************************)
EXTENDS Naturals, Sequences, SequencesExt

(* USAGE_GUIDE_MARKDOWN                                                    *)
Block == <<"start", "rules", "start", "to", "end", "closing", "end">>

HasMarkers(text) == Contains(text, "start") /\ Contains(text, "end")

(* The first piece of that kind from place `from` on, 0 if there is none.  *)
NextAt(text, piece, from) ==
    LET places == { i \in from .. Len(text) : text[i] = piece }
    IN  IF places = {} THEN 0 ELSE Min(places)

(* _BLOCK_PATTERN.sub(new, text): from left to right, every start marker   *)
(* with the text up to the next end marker.                                *)
ReplaceBlocks(text, new) ==
    LET replaced[from \in 1 .. Len(text) + 1] ==
            LET start == NextAt(text, "start", from)
                end   == IF start = 0 THEN 0 ELSE NextAt(text, "end", start)
            IN  IF end = 0
                THEN SubSeq(text, from, Len(text))
                ELSE SubSeq(text, from, start - 1) \o new \o replaced[end + 1]
    IN  replaced[1]

(* upsert_memory_block(): what the file holds afterwards.                  *)
Upserted(text) ==
    IF HasMarkers(text) THEN ReplaceBlocks(text, Block) ELSE text \o Block

(* remove_memory_block()                                                   *)
Removed(text) ==
    IF HasMarkers(text) THEN ReplaceBlocks(text, <<>>) ELSE text

(* The file holds the block as it is written today.                        *)
HasBlock(text) ==
    \E i \in 1 .. Len(text) : IsPrefix(Block, SubSeq(text, i, Len(text)))
=============================================================================
