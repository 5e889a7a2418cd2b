----------------------------- MODULE LineReader -----------------------------
(***************************************************************************)
(* LineReader: lines cut out of a buffer that is refilled in blocks.  A    *)
(* line may straddle two reads, and the buffer is compacted, and doubled   *)
(* when a whole buffer holds no newline.  A byte is one of "x", "\r" and   *)
(* "\n"; a read may return fewer bytes than asked for.                     *)
(***************************************************************************)
EXTENDS Integers, Sequences, SequencesExt, FiniteSetsExt

CONSTANTS
  BlockSize,    \* the buffer's first size
  MaxBytes      \* bound: the length of a file

ASSUME BlockAssumption == BlockSize \in Nat \ {0} /\ MaxBytes \in Nat

VARIABLES
  file,        \* the bytes of the file
  unread,      \* the bytes read_block has not returned yet
  block,       \* block_[begin_ .. end_), the bytes not yet cut into lines
  offset,      \* begin_
  capacity,    \* block_.size()
  drained,     \* drained_
  lines,       \* history: the lines next_line returned
  at_end       \* next_line returned false

lineVars == <<file, unread, block, offset, capacity, drained, lines, at_end>>

Bytes == {"x", "\r", "\n"}

Files == UNION {[1 .. n -> Bytes] : n \in 0 .. MaxBytes}

LineInit(bytes) ==
  /\ file = bytes
  /\ unread = file
  /\ block = <<>> /\ offset = 0 /\ capacity = BlockSize
  /\ drained = FALSE /\ lines = <<>> /\ at_end = FALSE

(* A carriage return before the end of a line is dropped. *)
Trimmed(line) ==
  IF line # <<>> /\ Last(line) = "\r" THEN SubSeq(line, 1, Len(line) - 1) ELSE line

(* memchr: where the first newline of the buffer is, or 0. *)
Newline == SelectInSeq(block, LAMBDA c : c = "\n")

(* next_line finds a newline in the buffer. *)
CutLine ==
  /\ Newline > 0
  /\ lines' = Append(lines, Trimmed(SubSeq(block, 1, Newline - 1)))
  /\ block' = SubSeq(block, Newline + 1, Len(block))
  /\ offset' = offset + Newline
  /\ UNCHANGED <<file, unread, capacity, drained, at_end>>

(* The final line, which has no newline, or the end. *)
LastLine ==
  /\ Newline = 0 /\ drained /\ ~at_end
  /\ IF block = <<>> THEN at_end' = TRUE /\ UNCHANGED <<lines, block, offset>>
     ELSE /\ lines' = Append(lines, Trimmed(block))
          /\ block' = <<>> /\ offset' = offset + Len(block)
          /\ UNCHANGED at_end
  /\ UNCHANGED <<file, unread, capacity, drained>>

(* Mutant: the refill starts a new buffer, and the pending part of a line is lost. *)
RefillDiscards ==
  /\ Newline = 0 /\ ~drained
  /\ capacity' = capacity /\ offset' = 0
  /\ IF unread = <<>> THEN drained' = TRUE /\ UNCHANGED <<block, unread>>
     ELSE \E n \in 1 .. Min({capacity, Len(unread)}) :
            /\ block' = SubSeq(unread, 1, n)
            /\ unread' = SubSeq(unread, n + 1, Len(unread))
            /\ UNCHANGED drained
  /\ UNCHANGED <<file, lines, at_end>>

(* Compact, double a full buffer, read a block; nothing read is the end. *)
Refill ==
  /\ Newline = 0 /\ ~drained
  /\ LET room == IF Len(block) = capacity THEN 2 * capacity ELSE capacity IN
     /\ capacity' = room /\ offset' = 0
     /\ IF unread = <<>> THEN drained' = TRUE /\ UNCHANGED <<block, unread>>
        ELSE \E n \in 1 .. Min({room - Len(block), Len(unread)}) :
               /\ block' = block \o SubSeq(unread, 1, n)
               /\ unread' = SubSeq(unread, n + 1, Len(unread))
               /\ UNCHANGED drained
  /\ UNCHANGED <<file, lines, at_end>>

LineNext == CutLine \/ LastLine \/ Refill

LineSpec == (\E f \in Files : LineInit(f)) /\ [][LineNext]_lineVars

-----------------------------------------------------------------------------
(* Properties. *)

Ends == {i \in DOMAIN file : file[i] = "\n"}

(* How many lines a newline has ended up to byte e. *)
EndedBy(e) == Cardinality({i \in Ends : i <= e})

(* The line of the file that ends before byte e. *)
LineBefore(e) ==
  LET starts == {s + 1 : s \in {0} \cup {i \in Ends : i < e}}
  IN  Trimmed(SubSeq(file, Max(starts), e - 1))

(* The lines are the file's, whatever the sizes of the blocks the reads return:
   those a newline ends, in order, and at the end of the file the rest of it
   when there is any; and the buffer never holds more than its size. *)
LinesAreTheFiles ==
  LET n == Len(lines)
      whole == Cardinality(Ends)
      rest == file # <<>> /\ Last(file) # "\n"
  IN
  /\ offset + Len(block) <= capacity
  /\ \A e \in Ends : EndedBy(e) <= n => lines[EndedBy(e)] = LineBefore(e)
  /\ n > whole => rest /\ n = whole + 1 /\ lines[n] = LineBefore(Len(file) + 1)
  /\ at_end => n = whole + (IF rest THEN 1 ELSE 0)

-----------------------------------------------------------------------------
(* The inductive invariant. *)

(* The bytes of the file already cut into lines. *)
Cut == Len(file) - Len(block) - Len(unread)

(* The buffer and what is unread are the rest of the file, and fit. *)
BufferIsTheFile ==
  /\ Cut \in Nat
  /\ \A i \in 1 .. Len(block) : block[i] = file[Cut + i]
  /\ \A i \in 1 .. Len(unread) : unread[i] = file[Cut + Len(block) + i]
  /\ offset + Len(block) <= capacity
  /\ drained => unread = <<>>
  /\ at_end => drained /\ block = <<>>

(* The cut is at the start of a line, with a line for every newline before it, or
   the unfinished last line has been cut too. *)
LinesSoFar ==
  /\ \/ Cut \in {0} \cup Ends /\ Len(lines) = EndedBy(Cut)
     \/ /\ Cut = Len(file) /\ Cut > 0 /\ Cut \notin Ends
        /\ Len(lines) = EndedBy(Cut) + 1
        /\ lines[Len(lines)] = LineBefore(Cut + 1)
  /\ \A e \in Ends : e <= Cut => lines[EndedBy(e)] = LineBefore(e)

LineTypes ==
  /\ file \in Seq(Bytes) /\ unread \in Seq(Bytes) /\ block \in Seq(Bytes)
  /\ offset \in Nat /\ capacity \in Nat \ {0} /\ lines \in Seq(Seq(Bytes))

LineInv == LineTypes /\ BufferIsTheFile /\ LinesSoFar
=============================================================================
