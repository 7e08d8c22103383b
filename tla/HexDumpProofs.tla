---------------------------- MODULE HexDumpProofs ----------------------------
(***************************************************************************)
(* The hex dump for packets of every size: it stays within its line and    *)
(* shows every byte.                                                       *)
(***************************************************************************)
EXTENDS HexDump, SequenceTheorems, TLAPS

-----------------------------------------------------------------------------
(* The inductive invariant.                                                *)

\* The bytes put out and the columns of the line in work say which byte is next.
IndexInv ==
    /\ hexIndex = 3 * printablesIndex
    /\ i < PACKET_SIZE => i = 16 * Len(hex_data_buffer_) + printablesIndex
    /\ i = PACKET_SIZE => /\ printablesIndex = 0
                          /\ Len(hex_data_buffer_) = HEX_LINES

\* The line shows byte "first + n" in place n.
ShowsAt(line, first, n) == /\ line[3 * n + 1] = Hex(first + n)
                           /\ line[3 * n + 2] = Hex(first + n)
                           /\ line[48 + SPACER + n] = Char(first + n)

EndsAtLastColumn(line) ==
    \A col \in Columns : line[col] = Null <=> col = CONSOLE_COLS - 1

\* The line in work shows the bytes since the last line.
LineInv ==
    /\ \A n \in 0 .. printablesIndex - 1 :
          ShowsAt(currentLine, 16 * Len(hex_data_buffer_), n)
    /\ EndsAtLastColumn(currentLine)

Line == [Columns -> {Space, Null} \cup {"hex", "char"} \X (0 .. PACKET_SIZE - 1)]

\* TypeOK has the domain of the line only: its values follow from this.
Inv == TypeOK /\ currentLine \in Line /\ IndexInv /\ LineInv /\ DumpShowsBytes

-----------------------------------------------------------------------------

\* Before the first byte the line is empty.
LEMMA InitInv == ASSUME Init PROVE Inv
<1>1. EmptyLine \in Line /\ EndsAtLastColumn(EmptyLine)
  BY DumpAssumption DEF EmptyLine, Line, Columns, EndsAtLastColumn
<1>2. hex_data_buffer_ = <<>> /\ Len(hex_data_buffer_) = 0
  BY DEF Init
<1>3. hex_data_buffer_ \in Seq(Line)
  BY <1>2
<1>4. TypeOK /\ currentLine \in Line
  BY <1>1, <1>3, DumpAssumption DEF Init, TypeOK, Line
<1>5. IndexInv
  BY <1>2, DumpAssumption DEF Init, IndexInv
<1>6. LineInv
  BY <1>1 DEF Init, LineInv
<1>7. DumpShowsBytes
  BY <1>2, DumpAssumption DEF DumpShowsBytes
<1> QED BY <1>4, <1>5, <1>6, <1>7 DEF Inv

\* What a byte does to the line: it appears in its place, the bytes before it
\* stay, and the terminator stays the only one.
LEMMA WithByteShows ==
    ASSUME Inv, i < PACKET_SIZE
    PROVE  /\ WithByte \in Line
           /\ EndsAtLastColumn(WithByte)
           /\ \A n \in 0 .. printablesIndex :
                 ShowsAt(WithByte, 16 * Len(hex_data_buffer_), n)
<1> DEFINE p == printablesIndex
           m == 16 * Len(hex_data_buffer_)
<1>1. /\ p \in 0 .. 15 /\ hexIndex = 3 * p /\ i = m + p
      /\ i \in 0 .. PACKET_SIZE - 1 /\ m \in Nat
  BY DumpAssumption DEF Inv, TypeOK, IndexInv
<1>2. /\ SPACER \in Nat /\ SPACER > 0 /\ CONSOLE_COLS \in Nat
      /\ CONSOLE_COLS > 48 + SPACER + 16 /\ PACKET_SIZE \in Nat
  BY DumpAssumption
<1>3. /\ Hex(i) \in {"hex", "char"} \X (0 .. PACKET_SIZE - 1) /\ Hex(i) # Null
      /\ Char(i) \in {"hex", "char"} \X (0 .. PACKET_SIZE - 1) /\ Char(i) # Null
  BY <1>1, <1>2, DumpAssumption DEF Hex, Char
<1> HIDE DEF p, m
<1>4. \A col \in Columns :
         WithByte[col] = CASE col = 48 + SPACER + p                  -> Char(i)
                           [] col \in {3 * p + 1, 3 * p + 2} -> Hex(i)
                           [] col \in {3 * p, 3 * p + 3}     -> Space
                           [] OTHER                          -> currentLine[col]
  BY <1>1 DEF WithByte, CharColumn, p
<1>5. WithByte \in Line
  <2>1. currentLine \in Line
    BY DEF Inv
  <2>2. \A col \in Columns :
           WithByte[col] \in {Space, Null} \cup {"hex", "char"} \X (0 .. PACKET_SIZE - 1)
    BY <1>3, <1>4, <2>1 DEF Line
  <2>3. WithByte = [col \in Columns |-> WithByte[col]]
    BY DEF WithByte
  <2> QED BY <2>2, <2>3 DEF Line
<1>6. EndsAtLastColumn(WithByte)
  <2>1. EndsAtLastColumn(currentLine)
    BY DEF Inv, LineInv
  <2> SUFFICES ASSUME NEW col \in Columns
               PROVE  WithByte[col] = Null <=> col = CONSOLE_COLS - 1
    BY DEF EndsAtLastColumn
  <2>2. /\ col = 48 + SPACER + p => col # CONSOLE_COLS - 1
        /\ col \in {3 * p + 1, 3 * p + 2} => col # CONSOLE_COLS - 1
        /\ col \in {3 * p, 3 * p + 3} => col # CONSOLE_COLS - 1
    BY <1>1, <1>2
  <2> QED BY <1>3, <1>4, <2>1, <2>2, DumpAssumption DEF EndsAtLastColumn
<1>7. ASSUME NEW n \in 0 .. p
      PROVE  ShowsAt(WithByte, m, n)
  <2>1. n \in Int /\ 0 <= n /\ n <= p /\ p <= 15
    BY <1>1, <1>7
  <2>2. {3 * n + 1, 3 * n + 2, 48 + SPACER + n} \subseteq Columns
    <3>1. /\ 3 * n + 1 \in 0 .. CONSOLE_COLS - 1
          /\ 3 * n + 2 \in 0 .. CONSOLE_COLS - 1
          /\ 48 + SPACER + n \in 0 .. CONSOLE_COLS - 1
      BY <1>1, <1>2, <2>1
    <3> QED BY <3>1 DEF Columns
  <2>3. CASE n = p
    <3>1. /\ WithByte[3 * p + 1] = Hex(i)
          /\ WithByte[3 * p + 2] = Hex(i)
          /\ WithByte[48 + SPACER + p] = Char(i)
      BY <1>1, <1>2, <1>4, <2>2, <2>3
    <3> QED BY <1>1, <2>3, <3>1 DEF ShowsAt
  <2>4. CASE n # p
    <3>1. ShowsAt(currentLine, m, n)
      <4>1. n \in 0 .. printablesIndex - 1
        BY <1>1, <2>1, <2>4 DEF p
      <4> QED BY <4>1 DEF Inv, LineInv, m
    <3>2. \A col \in {3 * n + 1, 3 * n + 2, 48 + SPACER + n} :
             /\ col # 48 + SPACER + p
             /\ col \notin {3 * p + 1, 3 * p + 2, 3 * p, 3 * p + 3}
      BY <1>1, <1>2, <2>1, <2>4
    <3>3. \A col \in {3 * n + 1, 3 * n + 2, 48 + SPACER + n} :
             WithByte[col] = currentLine[col]
      BY <1>4, <2>2, <3>2
    <3> QED BY <3>1, <3>3 DEF ShowsAt
  <2> QED BY <2>3, <2>4
<1> QED BY <1>5, <1>6, <1>7 DEF p, m

\* A byte in the middle of a line.
LEMMA AddByteInv == ASSUME Inv, AddByte PROVE Inv'
<1>1. /\ i < PACKET_SIZE /\ i # PACKET_SIZE - 1 /\ printablesIndex + 1 # 16
      /\ currentLine' = WithByte
      /\ hexIndex' = hexIndex + 3 /\ printablesIndex' = printablesIndex + 1
      /\ i' = i + 1 /\ hex_data_buffer_' = hex_data_buffer_
  BY DEF AddByte, LineFull
<1>2. /\ WithByte \in Line /\ EndsAtLastColumn(WithByte)
      /\ \A n \in 0 .. printablesIndex :
            ShowsAt(WithByte, 16 * Len(hex_data_buffer_), n)
  BY <1>1, WithByteShows
<1>3. /\ TypeOK /\ IndexInv /\ DumpShowsBytes
      /\ i \in 0 .. PACKET_SIZE /\ printablesIndex \in 0 .. 15 /\ PACKET_SIZE \in Nat
  BY DumpAssumption DEF Inv, TypeOK
<1>4. i' \in 0 .. PACKET_SIZE - 1 /\ printablesIndex' \in 0 .. 15
  BY <1>1, <1>3
<1>5. TypeOK' /\ currentLine' \in Line
  BY <1>1, <1>2, <1>3, <1>4 DEF TypeOK, Line
<1>6. IndexInv'
  <2>1. Len(hex_data_buffer_) \in Nat
    BY <1>3 DEF TypeOK
  <2> QED BY <1>1, <1>3, <1>4, <2>1 DEF IndexInv
<1>7. LineInv'
  <2>1. printablesIndex' - 1 = printablesIndex
    BY <1>1, <1>3
  <2> QED BY <1>1, <1>2, <2>1 DEF LineInv, ShowsAt, EndsAtLastColumn
<1>8. DumpShowsBytes'
  BY <1>1, <1>3 DEF DumpShowsBytes, Shown
<1> QED BY <1>5, <1>6, <1>7, <1>8 DEF Inv

\* The byte that ends a line: the line in work becomes the last finished one and
\* an empty line takes its place.
LEMMA AddLastByteInv == ASSUME Inv, AddLastByteOfLine PROVE Inv'
<1> DEFINE L == Len(hex_data_buffer_)
<1>1. /\ i < PACKET_SIZE
      /\ printablesIndex = 15 \/ i = PACKET_SIZE - 1
      /\ hex_data_buffer_' = Append(hex_data_buffer_, WithByte)
      /\ currentLine' = EmptyLine
      /\ hexIndex' = 0 /\ printablesIndex' = 0 /\ i' = i + 1
  BY DEF AddLastByteOfLine, LineFull, Inv, TypeOK
<1>2. /\ WithByte \in Line /\ EndsAtLastColumn(WithByte)
      /\ \A n \in 0 .. printablesIndex : ShowsAt(WithByte, 16 * L, n)
  BY <1>1, WithByteShows
<1>3. /\ TypeOK /\ IndexInv /\ DumpShowsBytes
      /\ i \in 0 .. PACKET_SIZE /\ printablesIndex \in 0 .. 15 /\ PACKET_SIZE \in Nat
  BY DumpAssumption DEF Inv, TypeOK
<1>4. hex_data_buffer_ \in Seq(Line) /\ L \in Nat
  BY <1>3 DEF TypeOK, Line
<1>5. /\ hex_data_buffer_' \in Seq(Line) /\ Len(hex_data_buffer_') = L + 1
      /\ \A n \in 1 .. L : hex_data_buffer_'[n] = hex_data_buffer_[n]
      /\ hex_data_buffer_'[L + 1] = WithByte
  BY <1>1, <1>2, <1>4, AppendProperties
<1>6. /\ DOMAIN hex_data_buffer_ = 1 .. L /\ DOMAIN hex_data_buffer_' = 1 .. L + 1
  BY <1>4, <1>5, LenProperties
<1>7. EmptyLine \in Line /\ EndsAtLastColumn(EmptyLine)
  BY DumpAssumption DEF EmptyLine, Line, Columns, EndsAtLastColumn
<1>8. i = 16 * L + printablesIndex
  BY <1>1, <1>3 DEF IndexInv
<1> HIDE DEF L
<1>9. TypeOK' /\ currentLine' \in Line
  BY <1>1, <1>3, <1>5, <1>7 DEF TypeOK, Line
<1>10. IndexInv'
  <2>1. i' < PACKET_SIZE => i' = 16 * (L + 1)
    BY <1>1, <1>3, <1>4, <1>8
  <2>2. i' = PACKET_SIZE => L + 1 = HEX_LINES
    BY <1>1, <1>3, <1>4, <1>8, DumpAssumption
  <2> QED BY <1>1, <1>4, <1>5, <2>1, <2>2 DEF IndexInv
<1>11. LineInv'
  BY <1>1, <1>7 DEF LineInv, EndsAtLastColumn
<1>12. DumpShowsBytes'
  <2>1. ASSUME NEW k \in 0 .. PACKET_SIZE - 1, (k \div 16) + 1 <= L + 1
        PROVE  Shown(k)'
    <3>1. /\ k \div 16 \in Nat /\ k % 16 \in 0 .. 15
          /\ k = 16 * (k \div 16) + (k % 16)
      BY <1>3
    <3>2. CASE (k \div 16) + 1 <= L
      <4>1. Shown(k)
        BY <1>3, <3>2 DEF DumpShowsBytes, L
      <4>2. hex_data_buffer_'[(k \div 16) + 1] = hex_data_buffer_[(k \div 16) + 1]
        BY <1>4, <1>5, <3>1, <3>2
      <4> QED BY <4>1, <4>2 DEF Shown
    <3>3. CASE (k \div 16) + 1 = L + 1
      <4> DEFINE n == k % 16
      <4>1. k = 16 * L + n /\ n \in 0 .. 15
        BY <1>4, <3>1, <3>3
      <4>2. n \in 0 .. printablesIndex
        BY <1>1, <1>3, <1>4, <1>8, <4>1
      <4>3. ShowsAt(WithByte, 16 * L, n)
        BY <1>2, <4>2
      <4>4. hex_data_buffer_'[(k \div 16) + 1] = WithByte
        BY <1>5, <3>3
      <4> QED BY <4>1, <4>3, <4>4 DEF ShowsAt, Shown
    <3> QED BY <1>4, <2>1, <3>1, <3>2, <3>3
  <2>2. ASSUME NEW n \in 1 .. L + 1
        PROVE  EndsAtLastColumn(hex_data_buffer_'[n])
    <3>1. n \in 1 .. L \/ n = L + 1
      BY <1>4
    <3> QED BY <1>2, <1>3, <1>5, <1>6, <3>1 DEF DumpShowsBytes, EndsAtLastColumn
  <2> QED BY <1>5, <1>6, <2>1, <2>2 DEF DumpShowsBytes, EndsAtLastColumn
<1> QED BY <1>9, <1>10, <1>11, <1>12 DEF Inv

\* The invariant holds after every byte.
THEOREM Invariance == Spec => []Inv
<1>1. Init => Inv
  BY InitInv
<1>2. Inv /\ [Next]_vars => Inv'
  <2> SUFFICES ASSUME Inv, [Next]_vars PROVE Inv'
    OBVIOUS
  <2>1. CASE UNCHANGED vars
    BY <2>1 DEF vars, Inv, TypeOK, IndexInv, LineInv, ShowsAt, EndsAtLastColumn,
                DumpShowsBytes, Shown
  <2> QED BY <2>1, AddByteInv, AddLastByteInv DEF Next
<1> QED BY <1>1, <1>2, PTL DEF Spec

\* The counters and the lines of the dump have their types.
THEOREM TypeCorrect == Spec => []TypeOK
<1>1. Inv => TypeOK
  BY DEF Inv
<1> QED BY <1>1, Invariance, PTL

\* SetPrintHexData never writes outside currentLine, whatever the packet size,
\* when a line has room for 48 columns, the spacer and 16 characters.
THEOREM NoWriteOutside == Spec => []WritesInLine
<1>1. Inv => WritesInLine
  BY DumpAssumption DEF Inv, TypeOK, IndexInv, WritesInLine, CharColumn
<1> QED BY <1>1, Invariance, PTL

\* The dump shows every byte of a packet of any size in its place, the bytes of
\* an incomplete last line included.
THEOREM ShowsEveryByte == Spec => []DumpShowsBytes
<1>1. Inv => DumpShowsBytes
  BY DEF Inv
<1> QED BY <1>1, Invariance, PTL

\* A packet of any size takes as many lines as it has begun groups of 16 bytes.
THEOREM LinesOfPacket == Spec => []DumpHasHexLines
<1>1. Inv => DumpHasHexLines
  BY DEF Inv, IndexInv, DumpHasHexLines
<1> QED BY <1>1, Invariance, PTL

=============================================================================
