---------------------------- MODULE PacketParser ----------------------------
(***************************************************************************)
(* TSPacket::GetHeaderInfo on one packet: the walk of pos_ over the header,*)
(* the adaptation field and, where a unit starts, the PES header or the    *)
(* section behind it (PESPacket, PATPacket, CCATPacket and                 *)
(* PMTPacket::SetHeaderInfo, which take pos_ over with SetPos).            *)
(*                                                                         *)
(* One action per if statement, loop pass or run of unconditional reads.   *)
(* read records where the code read each field; the bytes there are those  *)
(* of the packet's layout (PacketLayout).  A read behind the packet ends   *)
(* the walk as "overrun"; only the loop over the streams of a programme    *)
(* map, whose exit nothing but its own arithmetic decides, is followed on  *)
(* behind the packet and behind its list, until it ends or the process     *)
(* does ("crashed").                                                       *)
(***************************************************************************)
EXTENDS PacketLayout, FieldBits, ReportSize

CONSTANTS Packets,    \* the packets that are parsed
          AnyLength,  \* es_info_length_ where no stream of the packet stands
          Memory      \* the bytes from data on that the process can read

\* A packet has a start indicator only with a payload to start in, its
\* adaptation field is long enough for its content, and a stream entry of a
\* programme map has at least five bytes.
PacketOK(p) ==
    /\ p.control \in 0 .. 3
    /\ p.length \in Nat /\ p.private \in Nat /\ p.pack \in Nat /\ p.info \in Nat
    /\ p.section_length \in 0 .. 1023 /\ p.pts_dts \in 0 .. 3
    /\ p.start \in BOOLEAN /\ p.unit \in Units
    /\ p.flags \subseteq Flags
    /\ \A bit \in p.bits : bit[2] \in 0 .. 5 /\ bit[3] \in 0 .. 7
    /\ p.ends \in Seq(Nat) /\ p.ends # <<>> /\ p.ends[1] = 0
    /\ \A i \in 1 .. Len(p.ends) - 1 : p.ends[i + 1] >= p.ends[i] + 5

ASSUME PacketsAssumption == \A p \in Packets : PacketOK(p)
ASSUME FitAssumption ==
    \A p \in Packets : /\ Stuffing(p) >= 0
                       /\ p.start => PayloadStart(p) + 3 <= PACKET_SIZE
ASSUME LengthAssumption == AnyLength \subseteq 0 .. 1023
ASSUME MemoryAssumption == Memory \in Nat /\ Memory >= PACKET_SIZE

VARIABLES packet,   \* the packet
          pc,       \* what is read next
          pos_,     \* the cursor into data
          read,     \* field -> where it was read
          list_,    \* where each entry of pid_info_ or stream_info_ was read
          pointer,  \* pointer of PMTPacket::SetHeaderInfo
          exist,    \* the parts whose is_exist_data_ is set
          blocks    \* <<owner, elements>> of every malloc

vars == <<packet, pc, pos_, read, list_, pointer, exist, blocks>>

NotRead == -1

\* Where the unconditional reads of a section or PES header are, from its start.
SectionAt == [pointer_field_ |-> 0, table_id_ |-> 1, section_length_ |-> 2,
              table_id_extension |-> 4, version_number_ |-> 6,
              section_number_ |-> 7, last_section_number_ |-> 8]
PMTAt     == [pointer_field_ |-> 0, table_id_ |-> 1, section_length_ |-> 2,
              table_id_extension |-> 4, version_number_ |-> 6,
              section_number_ |-> 7, last_section_number_ |-> 8,
              pcr_pid_ |-> 9, program_info_length_ |-> 11]
PESAt     == [packet_start_code_prefix_ |-> 0, stream_id_ |-> 3,
              pes_packet_length_ |-> 4]
PESFlagsAt == [pes_flags |-> 0, pes_header_data_length_ |-> 2]

Fields == DOMAIN PMTAt \cup DOMAIN PESAt \cup DOMAIN PESFlagsAt \cup
    {"header", "adaptation_field_length_", "adaptation_flags", "pcr", "opcr",
     "splice_countdown_", "transport_private_data_length_", "private_data_byte_",
     "adaptation_field_extension_length_", "extension_flags", "ltw_offset_",
     "piecewise_rate_", "dts_next_au_", "pts_", "dts_", "escr_", "es_rate_", "trick_mode_control_",
     "additional_copy_info_", "previous_pes_packet_crc_", "pes_extension_flags",
     "pes_private_data_", "pack_field_length_",
     "program_packet_sequence_counter_", "p_std_buffer_size_",
     "pes_extension_field_length_", "crc_32_"}

NoField == [f \in {} |-> 0]

Init == /\ packet \in Packets
        /\ pc = "header"
        /\ pos_ = 0
        /\ read = [f \in Fields |-> NotRead]
        /\ list_ = <<>>
        /\ pointer = 0
        /\ exist = {}
        /\ blocks = {}

-----------------------------------------------------------------------------
(* Reading.                                                                *)

\* Read n bytes, the fields of at at their distance from the cursor, and move
\* the cursor on.
Decode(at, n, move, after) ==
    IF pos_ + n <= PACKET_SIZE
    THEN /\ pc' = after
         /\ pos_' = pos_ + move
         /\ read' = [f \in Fields |-> IF f \in DOMAIN at THEN pos_ + at[f] ELSE read[f]]
    ELSE pc' = "overrun" /\ UNCHANGED <<pos_, read>>

Skip(after) == pc' = after /\ UNCHANGED <<pos_, read>>

\* if (flag) { one field of n bytes }
IfPresent(here, flag, field, n, after) ==
    /\ pc = here
    /\ IF flag \in packet.flags THEN Decode([f \in {field} |-> 0], n, n, after)
                               ELSE Skip(after)
    /\ UNCHANGED <<packet, list_, pointer, exist, blocks>>

\* Reads that always happen.
Reads(here, at, n, after) ==
    /\ pc = here
    /\ Decode(at, n, n, after)
    /\ UNCHANGED <<packet, list_, pointer, blocks>>

Exists(part) == exist' = exist \cup {part}

-----------------------------------------------------------------------------
(* TSPacket::GetHeaderInfo and GetAdaptationField.                         *)

Header == Reads("header", [header |-> 0], 4,
                IF HasAdaptation(packet) THEN "adaptation" ELSE "unit")
             /\ UNCHANGED exist

AdaptationLength ==
    /\ Reads("adaptation", [adaptation_field_length_ |-> 0], 1,
             IF packet.length > 0 THEN "flags" ELSE "unit")
    /\ Exists("adaptation")

AdaptationFlagsByte == Reads("flags", [adaptation_flags |-> 0], 1, "pcr")
                          /\ UNCHANGED exist

\* Mutant: the cursor stays in front of an OPCR.
OPCRNotSkipped ==
    /\ pc = "opcr"
    /\ IF "opcr" \in packet.flags THEN Decode([opcr |-> 0], 6, 0, "splice")
                                  ELSE Skip("splice")
    /\ UNCHANGED <<packet, list_, pointer, exist, blocks>>

PCR    == IfPresent("pcr", "pcr", "pcr", 6, "opcr")
OPCR   == IfPresent("opcr", "opcr", "opcr", 6, "splice")
Splice == IfPresent("splice", "splice", "splice_countdown_", 1, "private")

\* The private data is copied, byte by byte, to an allocated block.
PrivateData ==
    /\ pc = "private"
    /\ IF "private" \in packet.flags
       THEN /\ Decode([transport_private_data_length_ |-> 0, private_data_byte_ |-> 1],
                      1 + packet.private, 1 + packet.private, "extension")
            /\ blocks' = blocks \cup {<<"private", packet.private>>}
       ELSE Skip("extension") /\ UNCHANGED blocks
    /\ UNCHANGED <<packet, list_, pointer, exist>>

Extension ==
    /\ pc = "extension"
    /\ IF "extension" \in packet.flags
       THEN Decode([adaptation_field_extension_length_ |-> 0, extension_flags |-> 1],
                   2, 2, "ltw")
       ELSE Skip("unit")
    /\ UNCHANGED <<packet, list_, pointer, exist, blocks>>

LTW       == IfPresent("ltw", "ltw", "ltw_offset_", 2, "piecewise")
Piecewise == IfPresent("piecewise", "piecewise", "piecewise_rate_", 3, "seamless")
Seamless  == IfPresent("seamless", "seamless", "dts_next_au_", 5, "unit")

\* What the three bytes at the cursor are taken for: the start of the unit
\* only if the cursor stands on it; stuffing, 0xFF, starts nothing.
Recognised == IF pos_ = PayloadStart(packet) THEN packet.unit ELSE "other"

\* Mutant: a unit is looked for whether or not one starts here.
UnitStartAnywhere ==
    /\ pc = "unit"
    /\ pc' = IF Recognised = "other" THEN "done" ELSE Recognised
    /\ UNCHANGED <<packet, pos_, read, list_, pointer, exist, blocks>>

UnitStart ==
    /\ pc = "unit"
    /\ pc' = IF packet.start /\ Recognised # "other" THEN Recognised ELSE "done"
    /\ UNCHANGED <<packet, pos_, read, list_, pointer, exist, blocks>>

-----------------------------------------------------------------------------
(* PATPacket, CCATPacket and PMTPacket::SetHeaderInfo.                     *)

\* Integer division of C, towards zero.
Quotient(x, y) == IF x >= 0 THEN x \div y ELSE -((-x) \div y)

PATSize == Quotient(packet.section_length - 9, 4)
PMTSize == (packet.section_length - 13) - packet.info

\* Nothing is allocated if the header runs out of the packet.
Allocate(owner, n) == blocks' = IF pc' = "overrun" THEN blocks
                                ELSE blocks \cup {<<owner, n>>}

PATHeader == /\ pc = "pat"
             /\ Decode(SectionAt, 9, 9, "programmes")
             /\ Exists("pat")
             /\ Allocate("pat", PATSize)
             /\ UNCHANGED <<packet, list_, pointer>>

\* Mutant: the loop continues without counting a programme.
PATEntryContinue ==
    /\ pc = "programmes"
    /\ Len(list_) < PATSize
    /\ Decode(NoField, 4, 0, "programmes")
    /\ UNCHANGED <<packet, list_, pointer, exist, blocks>>

\* One pass of the loop: program_number_ and, in either branch, a PID.
PATEntry == /\ pc = "programmes"
            /\ Len(list_) < PATSize
            /\ Decode(NoField, 4, 4, "programmes")
            /\ list_' = IF pc' = "overrun" THEN list_ ELSE Append(list_, pos_)
            /\ UNCHANGED <<packet, pointer, exist, blocks>>

PATListEnd == /\ pc = "programmes"
              /\ Len(list_) >= PATSize
              /\ pc' = "crc_32"
              /\ UNCHANGED <<packet, pos_, read, list_, pointer, exist, blocks>>

\* Mutant: a list is allocated for a CAT, too.
CATHeaderAllocates ==
    /\ pc = "cat"
    /\ Decode(SectionAt, 9, 9, "crc_32")
    /\ Exists("cat")
    /\ Allocate("cat", PATSize)
    /\ UNCHANGED <<packet, list_, pointer>>

\* The loop over the descriptors of a CAT is empty: the CRC is read next.
CATHeader == /\ pc = "cat"
             /\ Decode(SectionAt, 9, 9, "crc_32")
             /\ Exists("cat")
             /\ UNCHANGED <<packet, list_, pointer, blocks>>

\* Mutant: the descriptors of the programme are not skipped.
PMTHeaderKeepsInfo ==
    /\ pc = "pmt"
    /\ Decode(PMTAt, 13, 13, "streams")
    /\ Exists("pmt")
    /\ Allocate("pmt", PMTSize)
    /\ pointer' = 1
    /\ UNCHANGED <<packet, list_>>

PMTHeader == /\ pc = "pmt"
             /\ Decode(PMTAt, 13, 13 + packet.info, "streams")
             /\ Exists("pmt")
             /\ Allocate("pmt", PMTSize)
             /\ pointer' = 1
             /\ UNCHANGED <<packet, list_>>

\* The es_info_length_ that is read for entry i: that of the stream that stands
\* there, or two bits and a byte of whatever else does.
ESInfoLengths(i) == IF i < Len(packet.ends) /\ pos_ + 5 <= PACKET_SIZE
                    THEN {packet.ends[i + 1] - packet.ends[i] - 5}
                    ELSE AnyLength

\* stream_info_ has PMTSize elements; a negative size is more than malloc has.
Allocated      == PMTSize >= 0
BehindTheList  == Len(list_) >= PMTSize
BehindMemory   == pos_ + 5 > Memory

\* Mutant: the pointer counts the header of the entry as four bytes.
PMTEntryMiscounted ==
    /\ pc = "streams"
    /\ pointer # PMTSize + 1
    /\ Allocated /\ ~BehindMemory
    /\ \E es_info_length_ \in ESInfoLengths(Len(list_) + 1) :
         /\ pos_' = pos_ + 5 + es_info_length_
         /\ pointer' = pointer + 4 + es_info_length_
    /\ list_' = Append(list_, pos_)
    /\ UNCHANGED <<packet, pc, read, exist, blocks>>

\* One pass of the loop, which looks neither at the end of the packet nor at
\* that of the list.
PMTEntry ==
    /\ pc = "streams"
    /\ pointer # PMTSize + 1
    /\ Allocated /\ ~BehindMemory
    /\ \E es_info_length_ \in ESInfoLengths(Len(list_) + 1) :
         /\ pos_' = pos_ + 5 + es_info_length_
         /\ pointer' = pointer + 5 + es_info_length_
    /\ list_' = Append(list_, pos_)
    /\ UNCHANGED <<packet, pc, read, exist, blocks>>

\* A pass that the process does not survive: it writes through NULL or behind
\* the block, which may do harm or not, or reads where no memory is.
PMTCrash ==
    /\ pc = "streams"
    /\ pointer # PMTSize + 1
    /\ ~Allocated \/ BehindTheList \/ BehindMemory
    /\ pc' = "crashed"
    /\ UNCHANGED <<packet, pos_, read, list_, pointer, exist, blocks>>

\* Mutant: the loop ends once the entries reach the end of the section.
PMTListEndReached ==
    /\ pc = "streams"
    /\ pointer >= PMTSize + 1
    /\ pc' = "crc_32"
    /\ UNCHANGED <<packet, pos_, read, list_, pointer, exist, blocks>>

PMTListEnd == /\ pc = "streams"
              /\ pointer = PMTSize + 1
              /\ pc' = "crc_32"
              /\ UNCHANGED <<packet, pos_, read, list_, pointer, exist, blocks>>

SectionCRC == Reads("crc_32", [crc_32_ |-> 0], 4, "done") /\ UNCHANGED exist

-----------------------------------------------------------------------------
(* PESPacket::SetHeaderInfo.                                               *)

\* The streams the code excludes from the optional header.
HasNoOptionalHeader(id) == id \in {188, 190, 191, 240, 241, 255, 242, 248}

PESStart == /\ Reads("pes", PESAt, 6,
                     IF HasNoOptionalHeader(packet.stream_id) THEN "done" ELSE "pes_flags")
            /\ Exists("pes")

PESFlagBytes == Reads("pes_flags", PESFlagsAt, 3, "pts") /\ UNCHANGED exist

\* pts_dts_flags_ 2: a PTS; 3: a PTS and a DTS; anything else: neither.
PTS == /\ pc = "pts"
       /\ CASE packet.pts_dts = 2 -> Decode([pts_ |-> 0], 5, 5, "escr")
            [] packet.pts_dts = 3 -> Decode([pts_ |-> 0, dts_ |-> 5], 10, 10, "escr")
            [] OTHER -> Skip("escr")
       /\ UNCHANGED <<packet, list_, pointer, exist, blocks>>

ESCR      == IfPresent("escr", "escr", "escr_", 6, "es_rate")
ESRate    == IfPresent("es_rate", "es_rate", "es_rate_", 3, "trick")
TrickMode == IfPresent("trick", "trick", "trick_mode_control_", 1, "copy_info")
CopyInfo  == IfPresent("copy_info", "copy_info", "additional_copy_info_", 1, "crc")
PESCRC    == IfPresent("crc", "crc", "previous_pes_packet_crc_", 2, "pes_extension")

PESExtensionFlags ==
    /\ pc = "pes_extension"
    /\ IF "pes_extension" \in packet.flags
       THEN Decode([pes_extension_flags |-> 0], 1, 1, "pes_private")
       ELSE Skip("done")
    /\ UNCHANGED <<packet, list_, pointer, exist, blocks>>

PESPrivate == IfPresent("pes_private", "pes_private", "pes_private_data_", 16, "pack")

\* Only the length of the pack header is passed over, not the header.
PackLength == IfPresent("pack", "pack", "pack_field_length_", 1, "sequence")
Sequence   == IfPresent("sequence", "sequence",
                        "program_packet_sequence_counter_", 2, "p_std")
PSTDBuffer == IfPresent("p_std", "p_std", "p_std_buffer_size_", 2, "extension_2")

\* The cursor stays in front of the length of the second extension.
Extension2 ==
    /\ pc = "extension_2"
    /\ IF "extension_2" \in packet.flags
       THEN Decode([pes_extension_field_length_ |-> 0], 1, 0, "done")
       ELSE Skip("done")
    /\ UNCHANGED <<packet, list_, pointer, exist, blocks>>

-----------------------------------------------------------------------------
Adaptation == \/ AdaptationLength \/ AdaptationFlagsByte \/ PCR \/ OPCR \/ Splice
              \/ PrivateData \/ Extension \/ LTW \/ Piecewise \/ Seamless

SectionWalk == \/ PATHeader \/ PATEntry \/ PATListEnd \/ CATHeader
               \/ PMTHeader \/ PMTEntry \/ PMTCrash \/ PMTListEnd \/ SectionCRC

PESWalk == \/ PESStart \/ PESFlagBytes \/ PTS \/ ESCR \/ ESRate \/ TrickMode
           \/ CopyInfo \/ PESCRC \/ PESExtensionFlags \/ PESPrivate
           \/ PackLength \/ Sequence \/ PSTDBuffer \/ Extension2

Next == Header \/ Adaptation \/ UnitStart \/ SectionWalk \/ PESWalk

Spec == Init /\ [][Next]_vars /\ WF_vars(Next)

-----------------------------------------------------------------------------
(* Properties.                                                             *)

Labels == {"header", "adaptation", "flags", "pcr", "opcr", "splice", "private",
           "extension", "ltw", "piecewise", "seamless", "unit", "pat",
           "programmes", "cat", "pmt", "streams", "crc_32", "pes", "pes_flags",
           "pts", "escr", "es_rate", "trick", "copy_info", "crc", "pes_extension",
           "pes_private", "pack", "sequence", "p_std", "extension_2", "done",
           "overrun", "crashed"}
Parts  == {"adaptation", "pes", "pat", "cat", "pmt"}
Owners == {"private", "pat", "pmt"}

TypeOK == /\ PacketOK(packet)
          /\ pc \in Labels
          /\ pos_ \in Nat
          /\ read \in [Fields -> Nat \cup {NotRead}]
          /\ list_ \in Seq(Nat)
          /\ pointer \in Nat
          /\ exist \subseteq Parts
          /\ blocks \subseteq Owners \X Int

Done  == pc = "done"
Place == Places(packet)

\* The fields of the unit the packet carries, and those that follow a pack
\* header in a PES header.
UnitFields      == {Unit(packet)[i][1] : i \in DOMAIN Unit(packet)}
AfterPackHeader == IF "pack" \in packet.flags /\ packet.unit = "pes"
                   THEN {"program_packet_sequence_counter_", "p_std_buffer_size_",
                         "pes_extension_field_length_"}
                   ELSE {}

\* How far before its place the code reads a field: it does not skip the pack
\* header of a PES header nor the descriptors of a CAT.
Early(f) == CASE f \in AfterPackHeader -> packet.pack
              [] f = "crc_32_" /\ packet.unit = "cat" -> ListSize(packet)
              [] OTHER -> 0

\* GetHeaderInfo reads every field a packet has, and no other, where it stands;
\* except that stuffing hides the unit behind it, and that two lists that are
\* not skipped move what follows them.
FieldsReadInPlace ==
    Done /\ WellFormed(packet) =>
        \A f \in Fields :
            read[f] = IF f \in DOMAIN Place /\ (f \in UnitFields => Stuffing(packet) = 0)
                      THEN Place[f] - Early(f)
                      ELSE NotRead

\* Parsing a packet whose unit it holds completely reads no byte behind it and
\* does not end the process, whatever the lengths in it (PATPacket.cpp:130,
\* PMTPacket.cpp:192).
StaysInPacket == pc \in {"overrun", "crashed"} => ~WellFormed(packet)

\* The loop over the streams of a programme map compares its pointer for
\* equality (PMTPacket.cpp:192).  If the section length is right it ends with
\* the entry that ends there; if not, it has taken bytes behind the last stream
\* of the packet for a stream by the time it ends.
EndsOnEntry ==
    Done /\ "pmt" \in exist =>
        IF EntriesFit(packet)
        THEN packet.ends[Len(list_) + 1] = PMTSize
        ELSE Len(list_) >= Len(packet.ends)

\* Where each entry was read: the entries of a PAT have four bytes, those of a
\* programme map end where packet.ends says, as far as the packet holds them.
EntriesInPlace ==
    pc \in {"done", "overrun", "crashed"} /\ list_ # <<>> =>
        LET first == Place["list"]
        IN  \A i \in DOMAIN list_ :
              IF "pat" \in exist THEN list_[i] = first + 4 * (i - 1)
              ELSE i < Len(packet.ends) /\ list_[i] + 5 <= PACKET_SIZE =>
                       list_[i] = first + packet.ends[i]

\* The loop over a PAT counts its entries, that over a programme map does not.
ListHasRoom ==
    packet.unit # "pmt" \/ WellFormed(packet) =>
        \A block \in blocks :
            block[1] # "private" => list_ = <<>> \/ Len(list_) <= block[2]

ListComplete == Done /\ "pat" \in exist /\ WellFormed(packet) =>
                    4 * Len(list_) = ListSize(packet)

\* Every entry of pid_info_ and stream_info_ is read where that programme or
\* stream stands; the list that was allocated has room for it, in a programme
\* map if its lengths add up, and none is left out (PATPacket.cpp:127,
\* PMTPacket.cpp:188).
ListHoldsEntries == EntriesInPlace /\ ListHasRoom /\ ListComplete

\* Parsing a packet whose lengths add up ends, and not by the end of the
\* process: no list is walked for ever (PATPacket.cpp:130, PMTPacket.cpp:192).
ParsingEnds == WellFormed(packet) => <>Done

\* TSPacket, which takes GetHeaderInfo as one step, agrees with the walk on the
\* parts that are decoded and on the blocks that are allocated.
TS == INSTANCE TSPacket WITH Zero <- NotRead

Content == [adaptation |-> CASE ~HasAdaptation(packet) -> "none"
                             [] HasAdaptation(packet) /\ packet.length = 0 -> "empty"
                             [] OTHER -> IF "private" \in packet.flags
                                         THEN "private" ELSE "plain",
            unit |-> IF packet.start /\ Stuffing(packet) = 0 /\ packet.unit # "other"
                     THEN packet.unit ELSE "none"]

AgreesWithTSPacket ==
    Done => LET parser == TS!GetHeaderInfo(TS!NewParser, packet, Content)
            IN  /\ exist = parser.exist
                /\ {block[1] : block \in blocks} = parser.live

\* The bits at a position: those of the byte of the field there.
ByteAt(pos) ==
    LET here  == {f \in DOMAIN Place : Place[f] <= pos}
        field == CHOOSE f \in here : \A g \in here : Place[g] <= Place[f]
    IN  {bit[3] : bit \in {b \in packet.bits :
                              b[1] = field /\ b[2] = pos - Place[field]}}

\* What the code has in v, and what the standard says the field holds that was
\* stored there; what it says of the field that v is for.
SourceOf(v) == Source(v, packet.flags)
Found(v) == Assembled(v, [k \in 0 .. 5 |-> ByteAt(read[SourceOf(v)] + k)])
Real(v)  == Meant(v, [k \in 0 .. 5 |-> ByteAt(Place[SourceOf(v)] + k)])
Due(v)   == Meant(v, [k \in 0 .. 5 |-> ByteAt(Place[Code(v).field] + k)])

Decoded == {v \in Values : read[SourceOf(v)] # NotRead}

\* Masks and shifts put every bit of a value that is read at its place to the
\* right one; of a 33-bit time stamp bit 32 is lost, and of some values the bits
\* that Kept leaves out.  A packet with an OPCR has this in place of its PCR.
ValuesDecoded ==
    Done /\ WellFormed(packet) /\ packet.bits # {} =>
        \A v \in Decoded \ Misplaced :
            Early(SourceOf(v)) = 0 => Found(v) = Real(v) \cap Kept(v)

\* PESPacket.h:28 and 29, TSPacket.h:60, 66 and 93, and the comments behind the
\* other fields: pts_ and dts_ have 33 bits, the PCR and the OPCR, too,
\* ltw_offset_ 15, es_rate_ 22.  A value whose field the packet has holds all
\* the bits its comment counts.
CommentedBits ==
    Done /\ packet.bits # {} =>
        \A v \in Values : read[Code(v).field] # NotRead => Found(v) = Due(v)

\* Packets whose report is bounded: of the optional fields at most those of
\* flags, and at most n entries, or with an adaptation field m.
Ordinary ==
    LET AtMost(n, m) == Len(list_) <= IF "adaptation" \in exist THEN m ELSE n
    IN  /\ packet.flags \subseteq {"pcr", "escr", "es_rate", "copy_info"}
        /\ "pat" \in exist => AtMost(12, 6)
        /\ "pmt" \in exist => AtMost(6, 3)

\* The text of one packet, report and dump, fits the 2048 bytes strcpy copies
\* it to (ServerSocket.cpp:150), its terminator included, up to those numbers
\* of programmes and streams.
ReportFits == Done /\ Ordinary =>
                  SendText(packet, exist, Len(list_)) < SendBufSize
=============================================================================
