------------------------------- MODULE HexDump -------------------------------
(***************************************************************************)
(* PacketAnalyzer::SetPrintHexData: the hex dump of the packet buffer.     *)
(* Each byte adds " xx" at hexIndex and one character at the right of the  *)
(* line; a line is put out when it holds 16 bytes or the buffer ends.      *)
(*                                                                         *)
(* A byte is represented by its index in the buffer.  A column of the line *)
(* is " ", the terminator "\0", or the index of the byte it shows and how. *)
(***************************************************************************)
EXTENDS Integers, Sequences

CONSTANTS PACKET_SIZE,   \* 188
          CONSOLE_COLS,  \* 80, the length of currentLine
          SPACER,        \* 15, between the two halves of a line
          HEX_LINES,     \* 12, the lines of a packet
          Space, Null    \* the characters ' ' and '\0'

ASSUME DumpAssumption == /\ PACKET_SIZE \in Nat \ {0}
                         /\ CONSOLE_COLS \in Nat
                         /\ SPACER \in Nat \ {0}
                         /\ CONSOLE_COLS > 48 + SPACER + 16
                         /\ Space # Null
                         /\ Null \notin {"hex", "char"} \X Nat
                         /\ HEX_LINES = (PACKET_SIZE + 15) \div 16

VARIABLES i, hexIndex, printablesIndex, currentLine, hex_data_buffer_

vars == <<i, hexIndex, printablesIndex, currentLine, hex_data_buffer_>>

Columns == 0 .. CONSOLE_COLS - 1

\* memset(currentLine, ' ', CONSOLE_COLS) and the terminator behind it.
EmptyLine == [col \in Columns |-> IF col = CONSOLE_COLS - 1 THEN Null ELSE Space]

Hex(byte)  == <<"hex", byte>>
Char(byte) == <<"char", byte>>

Init == /\ i = 0
        /\ hexIndex = 0
        /\ printablesIndex = 0
        /\ currentLine = EmptyLine
        /\ hex_data_buffer_ = <<>>

CharColumn == 48 + SPACER + printablesIndex

\* Mutant: the terminator of sprintf stays in the line.
WithByteTerminated == [col \in Columns |->
                CASE col = CharColumn                     -> Char(i)
                  [] col \in {hexIndex + 1, hexIndex + 2} -> Hex(i)
                  [] col = hexIndex                       -> Space
                  [] col = hexIndex + 3                   -> Null
                  [] OTHER                                -> currentLine[col]]

\* sprintf writes three characters and a terminator, which is then blanked.
\* A column outside the line would be a write outside the array.
WithByte == [col \in Columns |->
                CASE col = CharColumn                     -> Char(i)
                  [] col \in {hexIndex + 1, hexIndex + 2} -> Hex(i)
                  [] col \in {hexIndex, hexIndex + 3}     -> Space
                  [] OTHER                                -> currentLine[col]]

\* Mutants: a line is full one byte later; the last line is not put out.
LineFullLate    == printablesIndex = 16 \/ i = PACKET_SIZE - 1
LineFullAt16Only == printablesIndex + 1 = 16

LineFull == printablesIndex + 1 = 16 \/ i = PACKET_SIZE - 1

\* A byte is never EOF: packet_data_ holds unsigned characters.
AddByte == /\ i < PACKET_SIZE
           /\ ~LineFull
           /\ currentLine' = WithByte
           /\ hexIndex' = hexIndex + 3
           /\ printablesIndex' = printablesIndex + 1
           /\ i' = i + 1
           /\ UNCHANGED hex_data_buffer_

\* Mutant: the next line starts at the column where this one ended.
AddLastByteKeepsIndex ==
    /\ i < PACKET_SIZE
    /\ LineFull
    /\ hex_data_buffer_' = Append(hex_data_buffer_, WithByte)
    /\ currentLine' = EmptyLine
    /\ hexIndex' = hexIndex + 3
    /\ printablesIndex' = 0
    /\ i' = i + 1

AddLastByteOfLine == /\ i < PACKET_SIZE
                     /\ LineFull
                     /\ hex_data_buffer_' = Append(hex_data_buffer_, WithByte)
                     /\ currentLine' = EmptyLine
                     /\ hexIndex' = 0
                     /\ printablesIndex' = 0
                     /\ i' = i + 1

Next == AddByte \/ AddLastByteOfLine

Spec == Init /\ [][Next]_vars

-----------------------------------------------------------------------------
(* Properties.                                                             *)

TypeOK == /\ i \in 0 .. PACKET_SIZE
          /\ hexIndex \in Nat
          /\ printablesIndex \in 0 .. 15
          /\ DOMAIN currentLine = Columns
          /\ hex_data_buffer_ \in Seq([Columns -> {Space, Null} \cup
                 {"hex", "char"} \X (0 .. PACKET_SIZE - 1)])

\* No byte is written outside currentLine or over its terminator: the last
\* character sprintf writes and the printable one stay left of the last column.
WritesInLine == i < PACKET_SIZE =>
                    /\ hexIndex + 3 < CONSOLE_COLS - 1
                    /\ CharColumn < CONSOLE_COLS - 1

\* What a finished line has to show of byte k.
Shown(k) == LET line == hex_data_buffer_[(k \div 16) + 1]
                n    == k % 16
            IN  /\ line[3 * n + 1] = Hex(k)
                /\ line[3 * n + 2] = Hex(k)
                /\ line[48 + SPACER + n] = Char(k)

\* Every byte of the finished lines is there once as hex and once as character,
\* in its place: neither the blanked terminator of sprintf nor the text on the
\* right erases a byte.  A line ends at its last column and not before.
DumpShowsBytes ==
    /\ \A k \in 0 .. PACKET_SIZE - 1 :
           (k \div 16) + 1 <= Len(hex_data_buffer_) => Shown(k)
    /\ \A n \in DOMAIN hex_data_buffer_ : \A col \in Columns :
           hex_data_buffer_[n][col] = Null <=> col = CONSOLE_COLS - 1

\* The dump of a packet takes the twelve lines HEX_LINES announces.
DumpHasHexLines == i = PACKET_SIZE => Len(hex_data_buffer_) = HEX_LINES
=============================================================================
