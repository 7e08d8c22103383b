--------------------------- MODULE PacketAnalyzer ---------------------------
(***************************************************************************)
(* PacketAnalyzer: one open file, a position in packets, the buffer of one *)
(* packet and the parser.  An analyser is a record; every method is an     *)
(* operator from the analyser before the call to the analyser after it.    *)
(*                                                                         *)
(* A byte of a file is represented by its offset, so a buffer shows where  *)
(* every one of its bytes was read.  Offsets are passed to fseek as a      *)
(* 32-bit long: they wrap around at LONG_MAX.                              *)
(***************************************************************************)
EXTENDS TSPacket

CONSTANTS PACKET_SIZE,  \* 188
          LONG_MAX,     \* the largest offset fseek can be given
          Files,        \* the names that can be opened
          Size,         \* file -> its size in bytes
          Kind,         \* file -> packet number -> its content
          Blank,        \* the byte ' '
          Garbage       \* a byte of packet_data_ before it was ever written

ASSUME AnalyzerAssumption == /\ PACKET_SIZE \in Nat \ {0}
                             /\ LONG_MAX \in Nat
                             /\ Size \in [Files -> Nat]
                             /\ Blank \notin Int
                             /\ Garbage \notin Int \cup {Blank}

Positions == 0 .. PACKET_SIZE - 1
Bytes     == Nat \cup {Blank, Garbage}
Buffers   == [Positions -> Bytes]

BlankBuffer == [i \in Positions |-> Blank]

\* Packet number p of any file, when it is there in full.
Packet(p)      == [i \in Positions |-> p * PACKET_SIZE + i]
InFile(f, p)   == p >= 0 /\ (p + 1) * PACKET_SIZE <= Size[f]

\* The number of packets, the last one of which may be short.
TotalPackets(f) == (Size[f] + PACKET_SIZE - 1) \div PACKET_SIZE

\* The conversion of a 64-bit offset to long.
ToLong(x) == LET range == 2 * (LONG_MAX + 1)
                 low   == x % range
             IN  IF low > LONG_MAX THEN low - range ELSE low

\* Bytes of a packet that can be read from offset start of file f.
Available(f, start) == IF start >= Size[f] THEN 0
                       ELSE IF Size[f] - start < PACKET_SIZE
                            THEN Size[f] - start ELSE PACKET_SIZE

\* What the parser finds in a buffer: a blank buffer is a packet with an
\* adaptation field and nothing else; bytes that are not one packet of the
\* file may look like anything.
BlankContent == [adaptation |-> "plain", unit |-> "none"]

WholePackets(f, data) ==
    {p \in 0 .. TotalPackets(f) - 1 : InFile(f, p) /\ data = Packet(p)}

ContentsOf(f, data) ==
    IF data = BlankBuffer THEN {BlankContent}
    ELSE IF WholePackets(f, data) # {}
         THEN {Kind[f][p] : p \in WholePackets(f, data)}
         ELSE Content

ASSUME KindAssumption ==
    \A f \in Files : \A p \in 0 .. TotalPackets(f) - 1 : Kind[f][p] \in Content

\* The type of an analyser; its dump is empty before the first SetPrintHexData.
Dumps     == Buffers \cup {<<>>}
Analyzers == [file : Files, open : BOOLEAN, offset : Nat,
              packet_data_ : Buffers, current_packet_ : Int,
              total_packet_ : Nat, ts_packet_ : Parsers(Buffers),
              hex_data_buffer_ : Dumps,
              send_buffer_ : [report : Seq([part : Parts,
                                            from : Buffers \cup {Zero}]),
                              hex : Dumps]]

-----------------------------------------------------------------------------
(* Methods.                                                                *)

\* fseek to the current packet, which fails on a negative offset and then
\* leaves the position where it was; fread as many bytes as there are.
GetPacketData(pa) ==
    LET target == ToLong(pa.current_packet_ * PACKET_SIZE)
        start  == IF target >= 0 THEN target ELSE pa.offset
        count  == Available(pa.file, start)
    IN  [pa EXCEPT !.offset = start + count,
                   !.packet_data_ = [i \in Positions |->
                       IF i < count THEN start + i ELSE pa.packet_data_[i]]]

\* Mutant: packets are counted from 1.
FindPakcetDataFromOne(pa, num) ==
    GetPacketData([pa EXCEPT !.current_packet_ = num - 1])

FindPakcetData(pa, num) == GetPacketData([pa EXCEPT !.current_packet_ = num])

\* Mutants: the last packet is passed, or never reached.
GetNextPacketDataPastEnd(pa) ==
    IF pa.current_packet_ < pa.total_packet_
    THEN [pa EXCEPT !.current_packet_ = @ + 1] ELSE pa
GetNextPacketDataTooEarly(pa) ==
    IF pa.current_packet_ + 2 < pa.total_packet_
    THEN [pa EXCEPT !.current_packet_ = @ + 1] ELSE pa

GetNextPacketData(pa) ==
    IF pa.current_packet_ + 1 < pa.total_packet_
    THEN [pa EXCEPT !.current_packet_ = @ + 1] ELSE pa

GetPreviousPacketData(pa) ==
    IF pa.current_packet_ > 0
    THEN [pa EXCEPT !.current_packet_ = @ - 1] ELSE pa

\* c is the content of the buffer, one of ContentsOf(pa.file, pa.packet_data_).
TSPacketDataAnalysis(pa, c) ==
    [pa EXCEPT !.ts_packet_ = GetHeaderInfo(@, pa.packet_data_, c)]

ResetAnalyzer(pa) == [pa EXCEPT !.ts_packet_ = Reset(@)]

\* Mutant: the buffer is not blanked.
SetPrintHexDataKeepsBuffer(pa) == [pa EXCEPT !.hex_data_buffer_ = pa.packet_data_]

\* The hex dump of the buffer; the buffer is blanked afterwards.
SetPrintHexData(pa) == [pa EXCEPT !.hex_data_buffer_ = pa.packet_data_,
                                  !.packet_data_ = BlankBuffer]

\* The report, then the dump, then both together.
SetPrintInfo(pa) ==
    LET printed == SetPrintHexData(
                       [pa EXCEPT !.ts_packet_ = SetPrintHeaderInfo(@)])
    IN  [printed EXCEPT !.send_buffer_ =
            [report |-> printed.ts_packet_.report,
             hex    |-> printed.hex_data_buffer_]]

CloseFile(pa) == [pa EXCEPT !.open = FALSE]

\* The object after FileOpen and SetTotalPacket.
Opened(f) == [file |-> f, open |-> TRUE, offset |-> 0,
              packet_data_ |-> [i \in Positions |-> Garbage],
              current_packet_ |-> 0, total_packet_ |-> TotalPackets(f),
              ts_packet_ |-> NewParser, hex_data_buffer_ |-> <<>>,
              send_buffer_ |-> [report |-> <<>>, hex |-> <<>>]]

\* Mutant: the packet is analysed without being read.
SetPidValueInitUnread(pa, c) == ResetAnalyzer(TSPacketDataAnalysis(pa, c))

\* SetPidValueInit reads and analyses packet 1, keeps its elementary PIDs for
\* the continuity check (module ContinuityCounter) and resets the parser; the
\* buffer keeps what was read.
SetPidValueInit(pa, c) ==
    [ResetAnalyzer(TSPacketDataAnalysis(FindPakcetData(pa, 1), c))
        EXCEPT !.current_packet_ = 0]

\* The analysers the constructor may return.
Constructed(f) ==
    LET opened == Opened(f)
    IN  {SetPidValueInit(opened, c) :
            c \in ContentsOf(f, FindPakcetData(opened, 1).packet_data_)}
=============================================================================
