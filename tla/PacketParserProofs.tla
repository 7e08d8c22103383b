------------------------- MODULE PacketParserProofs -------------------------
(***************************************************************************)
(* The parser, for every set of packets.                                   *)
(*                                                                         *)
(* First Inv: types, and the loops over programmes and streams.  The loop  *)
(* over a PAT never leaves its list; where that over a programme map ends, *)
(* whatever its lengths and whatever stands behind it.                     *)
(*                                                                         *)
(* Then Walk: at each label the cursor is in the layout of the packet      *)
(* where the fields read so far end, or as far before that as the code has *)
(* not skipped.  From it, every field, entry and value is read where it    *)
(* stands, and GetHeaderInfo is the one step TSPacket takes it for.        *)
(*                                                                         *)
(* Last, a number that falls with every step over a packet whose lengths   *)
(* add up.                                                                 *)
(***************************************************************************)
EXTENDS PacketParser, LayoutProofs

-----------------------------------------------------------------------------
(* The inductive invariant.                                                *)

\* While and after a list is filled.
ListLabels == {"programmes", "streams", "crc_32", "done", "overrun", "crashed"}

\* A PAT or a programme map is decoded where one was recognised, and nothing is
\* decoded behind it but its CRC.
UnitInv == /\ pc = "pat" => packet.unit = "pat"
           /\ pc = "pmt" => packet.unit = "pmt"
           /\ pc = "streams" => "pmt" \in exist
           /\ "pmt" \in exist => packet.unit = "pmt" /\ pc \in ListLabels \ {"programmes"}

\* The blocks that hold lists, and the entries they hold.
RoomInv ==
    /\ pc \notin ListLabels => list_ = <<>> /\ \A block \in blocks : block[1] = "private"
    /\ pc = "programmes" => \A block \in blocks : block[1] = "private" \/ block[2] = PATSize
    /\ packet.unit = "pmt" =>
           \A block \in blocks : block[1] = "private" \/ block[2] = PMTSize
    /\ packet.unit # "pmt" =>
           \A block \in blocks :
               block[1] = "private" \/ list_ = <<>> \/ Len(list_) <= block[2]

\* The pointer is where an entry ends.
OnEntry == /\ Len(list_) < Len(packet.ends)
           /\ pointer = packet.ends[Len(list_) + 1] + 1

\* ... and has not passed the end of the section.
BeforeEnd == \E k \in DOMAIN packet.ends : /\ packet.ends[k] = ListSize(packet)
                                          /\ Len(list_) + 1 <= k

\* The loop over the streams stands behind an entry of the packet, or has taken
\* something else for one, which a section whose length is right does not make
\* it do inside the packet.
LoopInv == pc \in {"streams", "crc_32", "done"} /\ "pmt" \in exist =>
               /\ \/ OnEntry
                  \/ Len(list_) >= Len(packet.ends)
                  \/ pos_ > PACKET_SIZE
               /\ EntriesFit(packet) => (OnEntry /\ BeforeEnd) \/ pos_ > PACKET_SIZE
               /\ pc # "streams" => pointer = PMTSize + 1

EndInv == Done /\ "pmt" \in exist => pos_ <= PACKET_SIZE

Types == TypeOK /\ packet \in Packets

Inv == Types /\ UnitInv /\ RoomInv /\ LoopInv /\ EndInv

-----------------------------------------------------------------------------
(* Reading.                                                                *)

\* What reading leaves behind.
LEMMA DecodeStep ==
    ASSUME Types, NEW at, \A f \in DOMAIN at : at[f] \in Nat,
           NEW n \in Nat, NEW move \in Nat, NEW after,
           Decode(at, n, move, after)
    PROVE  /\ pos_' \in Nat
           /\ read' \in [Fields -> Nat \cup {NotRead}]
           /\ \/ pc' = "overrun" /\ pos_' = pos_
              \/ pc' = after /\ pos_ + n <= PACKET_SIZE /\ pos_' = pos_ + move
<1>1. pos_ \in Nat /\ read \in [Fields -> Nat \cup {NotRead}]
  BY DEF Types, TypeOK
<1>2. CASE pos_ + n <= PACKET_SIZE
  <2>1. /\ pos_' = pos_ + move /\ pc' = after
        /\ read' = [f \in Fields |-> IF f \in DOMAIN at THEN pos_ + at[f] ELSE read[f]]
    BY <1>2 DEF Decode
  <2>2. ASSUME NEW f \in Fields
        PROVE  (IF f \in DOMAIN at THEN pos_ + at[f] ELSE read[f]) \in Nat \cup {NotRead}
    BY <1>1
  <2> QED BY <1>1, <1>2, <2>1, <2>2
<1>3. CASE ~(pos_ + n <= PACKET_SIZE)
  BY <1>1, <1>3 DEF Decode
<1> QED BY <1>2, <1>3

\* The distances of the fields from the cursor.
LEMMA Distances ==
    /\ \A f \in DOMAIN SectionAt : SectionAt[f] \in Nat
    /\ \A f \in DOMAIN PMTAt : PMTAt[f] \in Nat
    /\ \A f \in DOMAIN PESAt : PESAt[f] \in Nat
    /\ \A f \in DOMAIN PESFlagsAt : PESFlagsAt[f] \in Nat
    /\ \A f \in DOMAIN NoField : NoField[f] \in Nat
<1>1. \A f \in DOMAIN SectionAt : SectionAt[f] \in Nat
  BY DEF SectionAt
<1>2. \A f \in DOMAIN PMTAt : PMTAt[f] \in Nat
  BY DEF PMTAt
<1>3. \A f \in DOMAIN PESAt : PESAt[f] \in Nat
  BY DEF PESAt
<1>4. \A f \in DOMAIN PESFlagsAt : PESFlagsAt[f] \in Nat
  BY DEF PESFlagsAt
<1> QED BY <1>1, <1>2, <1>3, <1>4 DEF NoField

Reading == pos_' \in Nat /\ read' \in [Fields -> Nat \cup {NotRead}]

\* An optional field is read, or not.
LEMMA IfPresentStep ==
    ASSUME Types, NEW here, NEW flag, NEW field, NEW n \in Nat, NEW after,
           IfPresent(here, flag, field, n, after)
    PROVE  /\ pc = here /\ pc' \in {after, "overrun"} /\ Reading
           /\ UNCHANGED <<packet, list_, pointer, exist, blocks>>
<1>1. CASE flag \in packet.flags
  <2>1. Decode([f \in {field} |-> 0], n, n, after)
    BY <1>1 DEF IfPresent
  <2>2. \A f \in DOMAIN [g \in {field} |-> 0] : [g \in {field} |-> 0][f] \in Nat
    OBVIOUS
  <2>3. Reading /\ pc' \in {after, "overrun"}
    BY <2>1, <2>2, DecodeStep DEF Reading
  <2> QED BY <2>3 DEF IfPresent
<1>2. CASE flag \notin packet.flags
  <2>1. Skip(after)
    BY <1>2 DEF IfPresent
  <2> QED BY <2>1 DEF IfPresent, Skip, Reading, Types, TypeOK
<1> QED BY <1>1, <1>2

\* Fields are read.
LEMMA ReadsStep ==
    ASSUME Types, NEW here, NEW at, \A f \in DOMAIN at : at[f] \in Nat,
           NEW n \in Nat, NEW after, Reads(here, at, n, after)
    PROVE  /\ pc = here /\ pc' \in {after, "overrun"} /\ Reading
           /\ pc' # "overrun" => pos_ + n <= PACKET_SIZE /\ pos_' = pos_ + n
           /\ UNCHANGED <<packet, list_, pointer, blocks>>
<1>1. Decode(at, n, n, after)
  BY DEF Reads
<1>2. Reading /\ pc' \in {after, "overrun"}
  BY <1>1, DecodeStep DEF Reading
<1>3. pc' # "overrun" => pos_ + n <= PACKET_SIZE /\ pos_' = pos_ + n
  BY <1>1 DEF Decode
<1> QED BY <1>2, <1>3 DEF Reads

-----------------------------------------------------------------------------
(* The steps outside the sections.                                         *)

\* A step that decodes no section and fills no list.
Quiet == /\ pc \notin ListLabels
         /\ UNCHANGED <<packet, list_, pointer>>
         /\ blocks' \subseteq blocks \cup ({"private"} \X Int)
         /\ exist' \subseteq exist \cup {"adaptation", "pes"}
         /\ Reading
         /\ pc' \in Labels \ {"programmes", "streams", "crc_32"}
         /\ pc' = "pat" => packet.unit = "pat"
         /\ pc' = "pmt" => packet.unit = "pmt"

\* A quiet step preserves the invariant.
LEMMA QuietStep == ASSUME Inv, Quiet PROVE Inv'
<1>1. /\ pc \notin ListLabels
      /\ "pmt" \notin exist'
      /\ list_ = <<>> /\ list_' = <<>> /\ packet' = packet
  BY DEF Inv, UnitInv, RoomInv, Quiet
<1>2. blocks' \subseteq Owners \X Int /\ exist' \subseteq Parts
  BY DEF Inv, Types, TypeOK, Quiet, Owners, Parts
<1>3. \A block \in blocks' : block[1] = "private"
  BY <1>1 DEF Inv, RoomInv, Quiet
<1>4. Types'
  BY <1>1, <1>2 DEF Inv, Types, TypeOK, Quiet, Reading
<1>5. /\ pc' \notin {"programmes", "streams", "crc_32"}
      /\ pc' = "pat" => packet'.unit = "pat"
      /\ pc' = "pmt" => packet'.unit = "pmt"
  BY <1>1 DEF Quiet
<1>6. UnitInv'
  BY <1>1, <1>5 DEF UnitInv
<1>7. RoomInv'
  BY <1>1, <1>3, <1>5 DEF RoomInv
<1>8. LoopInv' /\ EndInv'
  BY <1>1, <1>5 DEF LoopInv, EndInv
<1> QED BY <1>4, <1>6, <1>7, <1>8 DEF Inv

\* The labels of a step outside the sections.
QuietLabels == Labels \ {"programmes", "streams", "crc_32", "pat", "pmt"}

\* An optional field is a quiet step.
LEMMA OptionalIsQuiet ==
    ASSUME Inv, NEW here, here \notin ListLabels, NEW flag, NEW field, NEW n \in Nat,
           NEW after \in QuietLabels, IfPresent(here, flag, field, n, after)
    PROVE  Quiet
<1>1. /\ pc = here /\ pc' \in {after, "overrun"} /\ Reading
      /\ UNCHANGED <<packet, list_, pointer, exist, blocks>>
  BY IfPresentStep DEF Inv
<1> QED BY <1>1 DEF Quiet, QuietLabels, Labels

\* The header, the adaptation field, and what is recognised behind them.
LEMMA AdaptationIsQuiet ==
    ASSUME Inv, Header \/ Adaptation \/ UnitStart
    PROVE  Quiet
<1> USE DEF QuietLabels, Labels, ListLabels
<1>1. CASE Header
  <2>1. Reads("header", [header |-> 0], 4, IF HasAdaptation(packet) THEN "adaptation" ELSE "unit")
        /\ UNCHANGED exist
    BY <1>1 DEF Header
  <2>2. /\ pc = "header" /\ pc' \in {"adaptation", "unit", "overrun"} /\ Reading
        /\ UNCHANGED <<packet, list_, pointer, blocks>>
    BY <2>1, ReadsStep DEF Inv
  <2> QED BY <2>1, <2>2 DEF Quiet
<1>2. CASE AdaptationLength
  <2>1. Reads("adaptation", [adaptation_field_length_ |-> 0], 1,
              IF packet.length > 0 THEN "flags" ELSE "unit")
        /\ exist' = exist \cup {"adaptation"}
    BY <1>2 DEF AdaptationLength, Exists
  <2>2. /\ pc = "adaptation" /\ pc' \in {"flags", "unit", "overrun"} /\ Reading
        /\ UNCHANGED <<packet, list_, pointer, blocks>>
    BY <2>1, ReadsStep DEF Inv
  <2> QED BY <2>1, <2>2 DEF Quiet
<1>3. CASE AdaptationFlagsByte
  <2>1. /\ pc = "flags" /\ pc' \in {"pcr", "overrun"} /\ Reading
        /\ UNCHANGED <<packet, list_, pointer, blocks, exist>>
    BY <1>3, ReadsStep DEF Inv, AdaptationFlagsByte
  <2> QED BY <2>1 DEF Quiet
<1>4. CASE PCR
  BY <1>4, OptionalIsQuiet DEF PCR
<1>5. CASE OPCR
  BY <1>5, OptionalIsQuiet DEF OPCR
<1>6. CASE Splice
  BY <1>6, OptionalIsQuiet DEF Splice
<1>7. CASE PrivateData
  <2>1. packet.private \in Nat /\ blocks \subseteq Owners \X Int
    BY DEF Inv, Types, TypeOK, PacketOK
  <2>2. CASE "private" \in packet.flags
    <3>1. Decode([transport_private_data_length_ |-> 0, private_data_byte_ |-> 1],
                 1 + packet.private, 1 + packet.private, "extension")
      BY <1>7, <2>2 DEF PrivateData
    <3>2. Reading /\ pc' \in {"extension", "overrun"}
      BY <2>1, <3>1, DecodeStep DEF Inv, Reading
    <3>3. /\ pc = "private" /\ blocks' = blocks \cup {<<"private", packet.private>>}
          /\ UNCHANGED <<packet, list_, pointer, exist>>
      BY <1>7, <2>2 DEF PrivateData
    <3> QED BY <2>1, <3>2, <3>3 DEF Quiet
  <2>3. CASE "private" \notin packet.flags
    BY <1>7, <2>3 DEF PrivateData, Skip, Quiet, Reading, Inv, Types, TypeOK
  <2> QED BY <2>2, <2>3
<1>8. CASE Extension
  <2>1. CASE "extension" \in packet.flags
    <3>1. Decode([adaptation_field_extension_length_ |-> 0, extension_flags |-> 1],
                 2, 2, "ltw")
      BY <1>8, <2>1 DEF Extension
    <3>2. Reading /\ pc' \in {"ltw", "overrun"}
      BY <3>1, DecodeStep DEF Inv, Reading
    <3> QED BY <1>8, <3>2 DEF Extension, Quiet
  <2>2. CASE "extension" \notin packet.flags
    BY <1>8, <2>2 DEF Extension, Skip, Quiet, Reading, Inv, Types, TypeOK
  <2> QED BY <2>1, <2>2
<1>9. CASE LTW
  BY <1>9, OptionalIsQuiet DEF LTW
<1>10. CASE Piecewise
  BY <1>10, OptionalIsQuiet DEF Piecewise
<1>11. CASE Seamless
  BY <1>11, OptionalIsQuiet DEF Seamless
<1>12. CASE UnitStart
  <2>1. /\ pc = "unit" /\ pc' \in {packet.unit, "done"}
        /\ pc' # "other"
        /\ UNCHANGED <<packet, pos_, read, list_, pointer, exist, blocks>>
    BY <1>12 DEF UnitStart, Recognised
  <2>2. packet.unit \in {"pes", "pat", "cat", "pmt", "other"}
    BY DEF Inv, Types, TypeOK, PacketOK, Units
  <2>3. Reading
    BY <2>1 DEF Reading, Inv, Types, TypeOK
  <2> QED BY <2>1, <2>2, <2>3 DEF Quiet
<1> QED BY <1>1, <1>2, <1>3, <1>4, <1>5, <1>6, <1>7, <1>8, <1>9, <1>10, <1>11, <1>12
        DEF Adaptation

\* The PES header.
LEMMA PESIsQuiet == ASSUME Inv, PESWalk PROVE Quiet
<1> USE DEF QuietLabels, Labels, ListLabels
<1>1. CASE PESStart
  <2>1. Reads("pes", PESAt, 6,
              IF HasNoOptionalHeader(packet.stream_id) THEN "done" ELSE "pes_flags")
        /\ exist' = exist \cup {"pes"}
    BY <1>1 DEF PESStart, Exists
  <2>2. /\ pc = "pes" /\ pc' \in {"done", "pes_flags", "overrun"} /\ Reading
        /\ UNCHANGED <<packet, list_, pointer, blocks>>
    BY <2>1, ReadsStep, Distances DEF Inv
  <2> QED BY <2>1, <2>2 DEF Quiet
<1>2. CASE PESFlagBytes
  <2>1. /\ pc = "pes_flags" /\ pc' \in {"pts", "overrun"} /\ Reading
        /\ UNCHANGED <<packet, list_, pointer, blocks, exist>>
    BY <1>2, ReadsStep, Distances DEF Inv, PESFlagBytes
  <2> QED BY <2>1 DEF Quiet
<1>3. CASE PTS
  <2>1. CASE packet.pts_dts = 2
    <3>1. Decode([pts_ |-> 0], 5, 5, "escr")
      BY <1>3, <2>1 DEF PTS
    <3>2. Reading /\ pc' \in {"escr", "overrun"}
      BY <3>1, DecodeStep DEF Inv, Reading
    <3> QED BY <1>3, <3>2 DEF PTS, Quiet
  <2>2. CASE packet.pts_dts = 3
    <3>1. Decode([pts_ |-> 0, dts_ |-> 5], 10, 10, "escr")
      BY <1>3, <2>2 DEF PTS
    <3>2. Reading /\ pc' \in {"escr", "overrun"}
      BY <3>1, DecodeStep DEF Inv, Reading
    <3> QED BY <1>3, <3>2 DEF PTS, Quiet
  <2>3. CASE packet.pts_dts # 2 /\ packet.pts_dts # 3
    <3>1. Skip("escr")
      BY <1>3, <2>3 DEF PTS
    <3> QED BY <1>3, <3>1 DEF PTS, Skip, Quiet, Reading, Inv, Types, TypeOK
  <2> QED BY <2>1, <2>2, <2>3
<1>4. CASE ESCR
  BY <1>4, OptionalIsQuiet DEF ESCR
<1>5. CASE ESRate
  BY <1>5, OptionalIsQuiet DEF ESRate
<1>6. CASE TrickMode
  BY <1>6, OptionalIsQuiet DEF TrickMode
<1>7. CASE CopyInfo
  BY <1>7, OptionalIsQuiet DEF CopyInfo
<1>8. CASE PESCRC
  BY <1>8, OptionalIsQuiet DEF PESCRC
<1>9. CASE PESExtensionFlags
  <2>1. CASE "pes_extension" \in packet.flags
    <3>1. Decode([pes_extension_flags |-> 0], 1, 1, "pes_private")
      BY <1>9, <2>1 DEF PESExtensionFlags
    <3>2. Reading /\ pc' \in {"pes_private", "overrun"}
      BY <3>1, DecodeStep DEF Inv, Reading
    <3> QED BY <1>9, <3>2 DEF PESExtensionFlags, Quiet
  <2>2. CASE "pes_extension" \notin packet.flags
    BY <1>9, <2>2 DEF PESExtensionFlags, Skip, Quiet, Reading, Inv, Types, TypeOK
  <2> QED BY <2>1, <2>2
<1>10. CASE PESPrivate
  BY <1>10, OptionalIsQuiet DEF PESPrivate
<1>11. CASE PackLength
  BY <1>11, OptionalIsQuiet DEF PackLength
<1>12. CASE Sequence
  BY <1>12, OptionalIsQuiet DEF Sequence
<1>13. CASE PSTDBuffer
  BY <1>13, OptionalIsQuiet DEF PSTDBuffer
<1>14. CASE Extension2
  <2>1. CASE "extension_2" \in packet.flags
    <3>1. Decode([pes_extension_field_length_ |-> 0], 1, 0, "done")
      BY <1>14, <2>1 DEF Extension2
    <3>2. Reading /\ pc' \in {"done", "overrun"}
      BY <3>1, DecodeStep DEF Inv, Reading
    <3> QED BY <1>14, <3>2 DEF Extension2, Quiet
  <2>2. CASE "extension_2" \notin packet.flags
    BY <1>14, <2>2 DEF Extension2, Skip, Quiet, Reading, Inv, Types, TypeOK
  <2> QED BY <2>1, <2>2
<1> QED BY <1>1, <1>2, <1>3, <1>4, <1>5, <1>6, <1>7, <1>8, <1>9, <1>10, <1>11,
           <1>12, <1>13, <1>14 DEF PESWalk

-----------------------------------------------------------------------------
(* The sections.                                                           *)

\* The sizes of the lists, which may be negative.
LEMMA Sizes == ASSUME Types PROVE PATSize \in Int /\ PMTSize \in Int
<1>1. packet.section_length \in Int /\ packet.info \in Int
  <2>1. packet.section_length \in 0 .. 1023 /\ packet.info \in Nat
    BY DEF Types, TypeOK, PacketOK
  <2> QED BY SMTT(30), <2>1
<1>2. \A x, y \in Nat : y > 0 => x \div y \in Nat
  OBVIOUS
<1>3. PATSize \in Int
  <2>1. CASE packet.section_length - 9 >= 0
    BY <1>1, <1>2, <2>1 DEF PATSize, Quotient
  <2>2. CASE ~(packet.section_length - 9 >= 0)
    <3>1. -(packet.section_length - 9) \in Nat
      BY <1>1, <2>2
    <3>2. (-(packet.section_length - 9)) \div 4 \in Nat
      BY <1>2, <3>1
    <3> QED BY <2>2, <3>2 DEF PATSize, Quotient
  <2> QED BY <2>1, <2>2
<1> QED BY <1>1, <1>3 DEF PMTSize

\* The header of a PAT or CAT is followed by an empty list.
LEMMA TableHeader ==
    ASSUME Inv, PATHeader \/ CATHeader
    PROVE  Inv'
<1> USE DEF Labels, ListLabels
<1>1. /\ pc \notin ListLabels /\ "pmt" \notin exist /\ list_ = <<>>
      /\ \A block \in blocks : block[1] = "private"
  BY DEF Inv, UnitInv, RoomInv, PATHeader, CATHeader
<1>2. /\ Reading /\ pc' \in {"programmes", "crc_32", "overrun"}
      /\ pc' = "programmes" => pc = "pat"
  <2>1. CASE PATHeader
    <3>1. Decode(SectionAt, 9, 9, "programmes")
      BY <2>1 DEF PATHeader
    <3>2. Reading /\ pc' \in {"programmes", "overrun"}
      BY <3>1, Distances, DecodeStep DEF Inv, Reading
    <3> QED BY <2>1, <3>2 DEF PATHeader
  <2>2. CASE CATHeader
    <3>1. Decode(SectionAt, 9, 9, "crc_32")
      BY <2>2 DEF CATHeader
    <3>2. Reading /\ pc' \in {"crc_32", "overrun"}
      BY <3>1, Distances, DecodeStep DEF Inv, Reading
    <3> QED BY <3>2
  <2> QED BY <2>1, <2>2
<1>3. /\ UNCHANGED <<packet, list_, pointer>>
      /\ exist' \subseteq exist \cup {"pat", "cat"}
      /\ blocks' \subseteq blocks \cup {<<"pat", PATSize>>}
  BY DEF PATHeader, CATHeader, Exists, Allocate
<1>4. PATSize \in Int /\ PATSize' = PATSize
  BY <1>3, Sizes DEF PATSize, Inv
<1>5. Types'
  BY <1>2, <1>3, <1>4 DEF Inv, Types, TypeOK, Reading, Owners, Parts
<1>6. UnitInv' /\ LoopInv' /\ EndInv'
  BY <1>1, <1>2, <1>3 DEF UnitInv, LoopInv, EndInv
<1>7. RoomInv'
  <2>1. blocks' # blocks => packet.unit # "pmt"
    BY DEF PATHeader, CATHeader, Inv, UnitInv
  <2>2. packet.unit = "pmt" => \A block \in blocks' : block[1] = "private"
    BY <1>1, <2>1
  <2> QED BY <1>1, <1>2, <1>3, <1>4, <2>2 DEF RoomInv
<1> QED BY <1>5, <1>6, <1>7 DEF Inv

\* A programme is appended while there is room for it.
LEMMA Programme == ASSUME Inv, PATEntry PROVE Inv'
<1> USE DEF Labels, ListLabels
<1>1. /\ pc = "programmes" /\ "pmt" \notin exist /\ Len(list_) < PATSize
      /\ \A block \in blocks : block[1] = "private" \/ block[2] = PATSize
      /\ list_ \in Seq(Nat) /\ pos_ \in Nat
  BY DEF Inv, UnitInv, RoomInv, PATEntry, Types, TypeOK
<1>2. Reading /\ pc' \in {"programmes", "overrun"}
  <2>1. Decode(NoField, 4, 4, "programmes")
    BY DEF PATEntry
  <2> QED BY <2>1, Distances, DecodeStep DEF Inv, Reading
<1>3. /\ UNCHANGED <<packet, pointer, exist, blocks>>
      /\ list_' \in {list_, Append(list_, pos_)}
  BY DEF PATEntry
<1>4. /\ list_' \in Seq(Nat)
      /\ Len(list_') \in {Len(list_), Len(list_) + 1}
  BY SMTT(30), <1>1, <1>3, AppendProperties
<1>5. PATSize \in Int /\ PATSize' = PATSize
  BY <1>3, Sizes DEF PATSize, Inv
<1>6. Types'
  BY <1>2, <1>3, <1>4 DEF Inv, Types, TypeOK, Reading
<1>7. UnitInv' /\ LoopInv' /\ EndInv'
  BY <1>1, <1>2, <1>3 DEF UnitInv, LoopInv, EndInv
<1>8. RoomInv'
  <2>1. Len(list_) \in Nat
    BY <1>1, LenProperties
  <2>2. Len(list_') <= PATSize
    BY <1>1, <1>4, <1>5, <2>1
  <2>3. PMTSize' = PMTSize
    BY <1>3 DEF PMTSize
  <2> QED BY <1>1, <1>2, <1>3, <1>5, <2>2, <2>3 DEF RoomInv, Inv
<1> QED BY <1>6, <1>7, <1>8 DEF Inv

\* The size of the list of a programme map is what the layout says.
LEMMA MapSize == ASSUME Types, packet.unit = "pmt" PROVE ListSize(packet) = PMTSize
<1>1. packet.section_length \in 0 .. 1023 /\ packet.info \in Nat
  BY DEF Types, TypeOK, PacketOK
<1>2. packet.section_length \in Int /\ packet.info \in Int
  BY SMTT(30), <1>1
<1>3. ListSize(packet) = packet.section_length - (13 + packet.info)
  BY DEF ListSize
<1> QED BY <1>2, <1>3 DEF PMTSize

\* The header of a programme map leaves the pointer at the first entry.
LEMMA MapHeader == ASSUME Inv, PMTHeader PROVE Inv'
<1> USE DEF Labels, ListLabels
<1>1. /\ pc = "pmt" /\ packet.unit = "pmt" /\ list_ = <<>>
      /\ packet.info \in Nat /\ packet.ends # <<>> /\ packet.ends[1] = 0
      /\ packet.ends \in Seq(Nat)
      /\ \A block \in blocks : block[1] = "private"
  BY DEF Inv, UnitInv, RoomInv, PMTHeader, Types, TypeOK, PacketOK
<1>2. Reading /\ pc' \in {"streams", "overrun"}
  <2>1. Decode(PMTAt, 13, 13 + packet.info, "streams")
    BY DEF PMTHeader
  <2>2. 13 + packet.info \in Nat
    BY <1>1
  <2> QED BY <2>1, <2>2, Distances, DecodeStep DEF Inv, Reading
<1>3. /\ UNCHANGED <<packet, list_>> /\ pointer' = 1
      /\ exist' = exist \cup {"pmt"}
      /\ blocks' \subseteq blocks \cup {<<"pmt", PMTSize>>}
  BY DEF PMTHeader, Exists, Allocate
<1>4. PMTSize \in Int /\ PMTSize' = PMTSize
  BY <1>3, Sizes DEF PMTSize, Inv
<1>5. Types'
  BY <1>2, <1>3, <1>4 DEF Inv, Types, TypeOK, Reading, Owners, Parts
<1>6. Len(list_') = 0 /\ Len(packet'.ends) > 0
  BY <1>1, <1>3, EmptySeq, LenProperties
<1>7. OnEntry'
  BY <1>1, <1>3, <1>6 DEF OnEntry
<1>8. EntriesFit(packet)' => BeforeEnd'
  <2> SUFFICES ASSUME EntriesFit(packet)' PROVE BeforeEnd'
    OBVIOUS
  <2>1. PICK k \in DOMAIN packet'.ends : packet'.ends[k] = ListSize(packet)'
    BY <1>1, <1>3 DEF EntriesFit
  <2>2. k \in 1 .. Len(packet'.ends)
    BY <1>1, <1>3, <2>1, LenProperties
  <2>3. Len(list_') + 1 <= k
    BY <1>6, <2>2
  <2> QED BY <2>1, <2>3 DEF BeforeEnd
<1>9. UnitInv' /\ LoopInv' /\ EndInv'
  BY <1>1, <1>2, <1>3, <1>7, <1>8 DEF UnitInv, LoopInv, EndInv, Done
<1>10. RoomInv'
  BY <1>1, <1>2, <1>3, <1>4 DEF RoomInv
<1> QED BY <1>5, <1>9, <1>10 DEF Inv

\* What follows an entry of the packet that is read next.
LEMMA NextEntry ==
    ASSUME Inv, pc = "streams", NEW es_info_length_ \in ESInfoLengths(Len(list_) + 1)
    PROVE  /\ es_info_length_ \in Nat
           /\ OnEntry /\ pos_ + 5 <= PACKET_SIZE /\ Len(list_) + 1 < Len(packet.ends) =>
                 pointer + 5 + es_info_length_ = packet.ends[Len(list_) + 2] + 1
<1> DEFINE i == Len(list_) + 1
<1>1. /\ packet.ends \in Seq(Nat) /\ list_ \in Seq(Nat)
      /\ \A j \in 1 .. Len(packet.ends) - 1 : packet.ends[j + 1] >= packet.ends[j] + 5
  BY DEF Inv, Types, TypeOK, PacketOK
<1>2. i \in Nat /\ i >= 1 /\ Len(packet.ends) \in Nat
  BY <1>1, LenProperties
<1>3. CASE i < Len(packet.ends) /\ pos_ + 5 <= PACKET_SIZE
  <2>1. es_info_length_ = packet.ends[i + 1] - packet.ends[i] - 5
    BY <1>3 DEF ESInfoLengths
  <2>2. packet.ends[i] \in Nat /\ packet.ends[i + 1] \in Nat
    BY SMTT(30), <1>1, <1>2, <1>3, ElementOfSeq
  <2>3. packet.ends[i + 1] >= packet.ends[i] + 5
    BY <1>1, <1>2, <1>3
  <2>4. OnEntry => pointer = packet.ends[i] + 1
    BY DEF OnEntry
  <2>5. i + 1 = Len(list_) + 2
    BY <1>1, LenProperties
  <2> DEFINE end == packet.ends[i]
             next == packet.ends[i + 1]
  <2>6. end \in Nat /\ next \in Nat /\ next >= end + 5 /\ es_info_length_ = next - end - 5
    BY <2>1, <2>2, <2>3
  <2>7. OnEntry => pointer = end + 1
    BY <2>4
  <2>8. next = packet.ends[Len(list_) + 2]
    BY <2>5
  <2> HIDE DEF end, next
  <2>9. es_info_length_ \in Nat /\ (OnEntry => pointer + 5 + es_info_length_ = next + 1)
    BY <2>6, <2>7
  <2> QED BY <2>8, <2>9
<1>4. CASE ~(i < Len(packet.ends) /\ pos_ + 5 <= PACKET_SIZE)
  <2>1. es_info_length_ \in AnyLength
    BY <1>4 DEF ESInfoLengths
  <2>2. es_info_length_ \in Nat
    BY <2>1, LengthAssumption
  <2> QED BY <1>4, <2>2
<1> QED BY <1>3, <1>4

\* One pass of the loop over the streams.
LEMMA Stream == ASSUME Inv, PMTEntry PROVE Inv'
<1> USE DEF Labels, ListLabels
<1>1. /\ pc = "streams" /\ "pmt" \in exist /\ packet.unit = "pmt"
      /\ \A block \in blocks : block[1] = "private" \/ block[2] = PMTSize
      /\ list_ \in Seq(Nat) /\ pos_ \in Nat /\ pointer \in Nat
      /\ packet.ends \in Seq(Nat) /\ pointer # PMTSize + 1
  BY DEF Inv, UnitInv, RoomInv, PMTEntry, Types, TypeOK, PacketOK
<1>2. Len(list_) \in Nat /\ Len(packet.ends) \in Nat
  BY <1>1, LenProperties
<1>3. UNCHANGED <<packet, pc, read, exist, blocks>> /\ list_' = Append(list_, pos_)
  BY DEF PMTEntry
<1>4. PMTSize \in Int /\ PMTSize' = PMTSize /\ ListSize(packet) = PMTSize
  BY <1>1, <1>3, Sizes, MapSize DEF PMTSize, Inv
<1>5. PICK es_info_length_ \in ESInfoLengths(Len(list_) + 1) :
         /\ pos_' = pos_ + 5 + es_info_length_
         /\ pointer' = pointer + 5 + es_info_length_
  BY DEF PMTEntry
<1>6. es_info_length_ \in Nat
  BY <1>1, NextEntry
<1>7. pos_' \in Nat /\ pointer' \in Nat /\ pos_' >= pos_ + 5
  BY <1>1, <1>5, <1>6
<1>8. list_' \in Seq(Nat) /\ Len(list_') = Len(list_) + 1
  BY <1>1, <1>3, AppendProperties
<1>9. Types'
  BY <1>3, <1>7, <1>8 DEF Inv, Types, TypeOK
<1>10. UnitInv' /\ EndInv'
  BY <1>1, <1>3 DEF Inv, UnitInv, EndInv, Done
<1>11. RoomInv'
  BY <1>1, <1>3, <1>4 DEF RoomInv
<1>12. pos_ + 5 > PACKET_SIZE => pos_' > PACKET_SIZE
  BY <1>1, <1>7 DEF PACKET_SIZE
<1>13. ASSUME OnEntry, pos_ + 5 <= PACKET_SIZE, Len(list_) + 1 < Len(packet.ends)
       PROVE  OnEntry'
  <2>1. pointer + 5 + es_info_length_ = packet.ends[Len(list_) + 2] + 1
    BY <1>1, <1>13, NextEntry
  <2>2. Len(list_') + 1 = Len(list_) + 2
    BY <1>2, <1>8
  <2>3. pointer' = packet.ends[Len(list_') + 1] + 1
    BY <1>5, <2>1, <2>2
  <2> QED BY <1>3, <1>8, <1>13, <2>3 DEF OnEntry
<1>14. OnEntry' \/ Len(list_') >= Len(packet'.ends) \/ pos_' > PACKET_SIZE
  <2>1. CASE Len(list_) >= Len(packet.ends)
    BY <1>2, <1>3, <1>8, <2>1
  <2>2. CASE pos_ + 5 > PACKET_SIZE
    BY <1>12, <2>2
  <2>3. CASE Len(list_) < Len(packet.ends) /\ pos_ + 5 <= PACKET_SIZE
    <3>1. ~(pos_ > PACKET_SIZE)
      BY <1>1, <2>3 DEF PACKET_SIZE
    <3>2. OnEntry
      BY <1>1, <1>2, <2>3, <3>1 DEF Inv, LoopInv
    <3>3. CASE Len(list_) + 1 < Len(packet.ends)
      BY <1>13, <2>3, <3>2, <3>3
    <3>4. CASE ~(Len(list_) + 1 < Len(packet.ends))
      BY <1>2, <1>3, <1>8, <3>4
    <3> QED BY <3>3, <3>4
  <2>4. pos_ + 5 > PACKET_SIZE \/ pos_ + 5 <= PACKET_SIZE
    BY <1>1 DEF PACKET_SIZE
  <2> QED BY <1>2, <2>1, <2>2, <2>3, <2>4
<1>15. ASSUME EntriesFit(packet) PROVE (OnEntry' /\ BeforeEnd') \/ pos_' > PACKET_SIZE
  <2>1. CASE pos_ + 5 > PACKET_SIZE
    BY <1>12, <2>1
  <2>2. CASE pos_ + 5 <= PACKET_SIZE
    <3>1. ~(pos_ > PACKET_SIZE)
      BY <1>1, <2>2 DEF PACKET_SIZE
    <3>2. OnEntry /\ BeforeEnd
      BY <1>1, <1>15, <3>1 DEF Inv, LoopInv
    <3>3. PICK k \in DOMAIN packet.ends : /\ packet.ends[k] = PMTSize
                                          /\ Len(list_) + 1 <= k
      BY <1>4, <3>2 DEF BeforeEnd
    <3>4. k \in 1 .. Len(packet.ends)
      BY <1>1, <3>3, LenProperties
    <3>5. Len(list_) + 1 # k
      <4>1. packet.ends[Len(list_) + 1] # PMTSize
        <5>1. pointer = packet.ends[Len(list_) + 1] + 1
          BY <3>2 DEF OnEntry
        <5> QED BY <1>1, <5>1
      <4> QED BY <3>3, <4>1
    <3>6. Len(list_) + 1 < k /\ Len(list_') + 1 <= k /\ Len(list_) + 1 < Len(packet.ends)
      BY <1>2, <1>8, <3>3, <3>4, <3>5
    <3>7. BeforeEnd'
      BY <1>3, <1>4, <3>3, <3>6 DEF BeforeEnd
    <3> QED BY <1>13, <2>2, <3>2, <3>6, <3>7
  <2>3. pos_ + 5 > PACKET_SIZE \/ pos_ + 5 <= PACKET_SIZE
    BY <1>1 DEF PACKET_SIZE
  <2> QED BY <2>1, <2>2, <2>3
<1>16. LoopInv'
  BY <1>1, <1>3, <1>14, <1>15 DEF LoopInv
<1> QED BY <1>9, <1>10, <1>11, <1>16 DEF Inv

\* The end of the process leaves everything where it is.
LEMMA Crash == ASSUME Inv, PMTCrash PROVE Inv'
<1> USE DEF Labels, ListLabels
<1>1. /\ pc = "streams" /\ pc' = "crashed"
      /\ UNCHANGED <<packet, pos_, read, list_, pointer, exist, blocks>>
  BY DEF PMTCrash
<1>2. Types'
  BY <1>1 DEF Inv, Types, TypeOK
<1>3. UnitInv' /\ LoopInv' /\ EndInv'
  BY <1>1 DEF Inv, UnitInv, LoopInv, EndInv, Done
<1>4. RoomInv'
  BY <1>1 DEF Inv, RoomInv, PMTSize
<1> QED BY <1>2, <1>3, <1>4 DEF Inv

\* The end of either list.
LEMMA ListEnd == ASSUME Inv, PATListEnd \/ PMTListEnd PROVE Inv'
<1> USE DEF Labels, ListLabels
<1>1. /\ pc \in {"programmes", "streams"} /\ pc' = "crc_32"
      /\ UNCHANGED <<packet, pos_, read, list_, pointer, exist, blocks>>
      /\ pc = "streams" => pointer = PMTSize + 1
  BY DEF PATListEnd, PMTListEnd
<1>2. pc = "programmes" => "pmt" \notin exist
  BY DEF Inv, UnitInv
<1>3. Types'
  BY <1>1 DEF Inv, Types, TypeOK
<1>4. UnitInv'
  BY <1>1, <1>2 DEF Inv, UnitInv
<1>5. RoomInv'
  BY <1>1 DEF Inv, RoomInv, PMTSize
<1>6. LoopInv' /\ EndInv'
  BY <1>1, <1>2 DEF Inv, LoopInv, EndInv, OnEntry, BeforeEnd, PMTSize, Done
<1> QED BY <1>3, <1>4, <1>5, <1>6 DEF Inv

\* The CRC is read only inside the packet.
LEMMA CRCStep == ASSUME Inv, SectionCRC PROVE Inv'
<1> USE DEF Labels, ListLabels
<1>1. /\ pc = "crc_32" /\ pc' \in {"done", "overrun"} /\ Reading
      /\ pc' # "overrun" => pos_ + 4 <= PACKET_SIZE /\ pos_' = pos_ + 4
      /\ UNCHANGED <<packet, list_, pointer, exist, blocks>>
  BY ReadsStep DEF Inv, SectionCRC
<1>2. pos_ \in Nat
  BY DEF Inv, Types, TypeOK
<1>3. Types'
  BY <1>1 DEF Inv, Types, TypeOK, Reading
<1>4. UnitInv'
  BY <1>1 DEF Inv, UnitInv
<1>5. RoomInv'
  BY <1>1 DEF Inv, RoomInv, PMTSize
<1>6. pc' = "done" => pos_' <= PACKET_SIZE /\ ~(pos_ > PACKET_SIZE)
  BY <1>1, <1>2 DEF PACKET_SIZE
<1>7. EndInv'
  BY <1>6 DEF EndInv, Done
<1>8. LoopInv'
  <2> SUFFICES ASSUME pc' = "done", "pmt" \in exist
               PROVE  /\ OnEntry \/ Len(list_) >= Len(packet.ends)
                      /\ EntriesFit(packet) => OnEntry /\ BeforeEnd
                      /\ pointer = PMTSize + 1
    BY <1>1 DEF LoopInv, OnEntry, BeforeEnd, PMTSize
  <2> QED BY <1>1, <1>6 DEF Inv, LoopInv
<1> QED BY <1>3, <1>4, <1>5, <1>7, <1>8 DEF Inv

-----------------------------------------------------------------------------
(* The theorems.                                                           *)

\* Every behaviour of the parser keeps the invariant.
THEOREM Invariance == Spec => []Inv
<1>1. Init => Inv
  <2> SUFFICES ASSUME Init PROVE Inv
    OBVIOUS
  <2>1. /\ packet \in Packets /\ pc = "header" /\ pos_ = 0 /\ list_ = <<>>
        /\ pointer = 0 /\ exist = {} /\ blocks = {}
        /\ read = [f \in Fields |-> NotRead]
    BY DEF Init
  <2>2. Types
    BY <2>1, PacketsAssumption DEF Types, TypeOK, Labels
  <2>3. UnitInv /\ RoomInv /\ LoopInv /\ EndInv
    BY <2>1 DEF UnitInv, RoomInv, LoopInv, EndInv, Done, ListLabels
  <2> QED BY <2>2, <2>3 DEF Inv
<1>2. Inv /\ [Next]_vars => Inv'
  <2> SUFFICES ASSUME Inv, [Next]_vars PROVE Inv'
    OBVIOUS
  <2>1. CASE Header \/ Adaptation \/ UnitStart
    BY <2>1, AdaptationIsQuiet, QuietStep
  <2>2. CASE PESWalk
    BY <2>2, PESIsQuiet, QuietStep
  <2>3. CASE SectionWalk
    BY <2>3, TableHeader, Programme, MapHeader, Stream, Crash, ListEnd, CRCStep
       DEF SectionWalk
  <2>4. CASE UNCHANGED vars
    BY <2>4 DEF vars, Inv, Types, TypeOK, UnitInv, RoomInv, LoopInv, EndInv, OnEntry,
                BeforeEnd, PMTSize, PATSize, Done
  <2> QED BY <2>1, <2>2, <2>3, <2>4 DEF Next
<1> QED BY <1>1, <1>2, PTL DEF Spec

\* The parser's cursor, fields, list and blocks have their types, whatever the
\* packet.
THEOREM TypeCorrect == Spec => []TypeOK
<1>1. Inv => TypeOK
  BY DEF Inv, Types
<1> QED BY <1>1, Invariance, PTL

\* The loop over the streams of a section whose length is right ends where that
\* stream ends; of any other, whatever stands behind the streams of the packet,
\* it does not end before it has taken some of that for a stream.
THEOREM EndsOnAnEntry == Spec => []EndsOnEntry
<1>1. Inv => EndsOnEntry
  <2> SUFFICES ASSUME Inv, Done, "pmt" \in exist
               PROVE  IF EntriesFit(packet)
                      THEN packet.ends[Len(list_) + 1] = PMTSize
                      ELSE Len(list_) >= Len(packet.ends)
    BY DEF EndsOnEntry
  <2>1. /\ pointer = PMTSize + 1 /\ packet.unit = "pmt" /\ ~(pos_ > PACKET_SIZE)
        /\ OnEntry \/ Len(list_) >= Len(packet.ends)
        /\ EntriesFit(packet) => OnEntry
    <3>1. pos_ \in Nat /\ pos_ <= PACKET_SIZE
      BY DEF Inv, EndInv, Types, TypeOK
    <3>2. ~(pos_ > PACKET_SIZE)
      BY <3>1 DEF PACKET_SIZE
    <3> QED BY <3>2 DEF Inv, LoopInv, UnitInv, Done
  <2>2. packet.ends \in Seq(Nat) /\ list_ \in Seq(Nat)
    BY DEF Inv, Types, TypeOK, PacketOK
  <2>3. PMTSize \in Int /\ ListSize(packet) = PMTSize
    BY <2>1, Sizes, MapSize DEF Inv
  <2>4. ASSUME OnEntry
        PROVE  /\ packet.ends[Len(list_) + 1] = PMTSize
               /\ EntriesFit(packet)
    <3>1. Len(list_) + 1 \in 1 .. Len(packet.ends)
      BY <2>2, <2>4, LenProperties DEF OnEntry
    <3>2. packet.ends[Len(list_) + 1] \in Nat
      BY <2>2, <3>1, ElementOfSeq
    <3>3. packet.ends[Len(list_) + 1] = PMTSize
      BY <2>1, <2>3, <2>4, <3>2 DEF OnEntry
    <3>4. \E i \in DOMAIN packet.ends : packet.ends[i] = ListSize(packet)
      BY <2>2, <2>3, <3>1, <3>3
    <3> QED BY <2>1, <2>3, <3>2, <3>3, <3>4 DEF EntriesFit
  <2> QED BY <2>1, <2>4
<1> QED BY <1>1, Invariance, PTL

-----------------------------------------------------------------------------
(* The cursor in the layout.                                               *)

\* How far before its place the code reads a field of packet p.
EarlyIn(p, f) ==
    CASE /\ "pack" \in p.flags /\ p.unit = "pes"
         /\ f \in {"program_packet_sequence_counter_", "p_std_buffer_size_",
                   "pes_extension_field_length_"} -> p.pack
      [] f = "crc_32_" /\ p.unit = "cat" -> ListSize(p)
      [] OTHER -> 0

\* The fields of s are read next, those of rest behind them; the cursor stands
\* lag bytes in front of them; and the fields before them, and no others, were
\* read where they stand.
Cursor(p, s, rest, lag, pos, rd) ==
    \E behind \in FieldSeq :
        /\ Layout(p) = (behind \o s) \o rest
        /\ pos = Size(behind) - lag
        /\ \A f \in Fields : rd[f] = IF f \in Names(behind)
                                     THEN Places(p)[f] - EarlyIn(p, f)
                                     ELSE NotRead

\* A packet whose layout is known to be one.
Laidout(p) == Sized(p) /\ p.unit \in Units

\* The place of a field between other fields.
LEMMA PlaceBetween ==
    \A p, b, c, t, f :
        /\ Laidout(p) /\ b \in FieldSeq /\ c \in FieldSeq /\ t \in FieldSeq
        /\ Layout(p) = Cat(Cat(b, c), t) /\ f \in Names(c)
        => f \in DOMAIN Places(p) /\ Places(p)[f] = Size(b) + At(c, f)
<1> SUFFICES ASSUME NEW p, Laidout(p),
                    NEW b \in FieldSeq, NEW c \in FieldSeq, NEW t \in FieldSeq,
                    Layout(p) = Cat(Cat(b, c), t), NEW f \in Names(c)
             PROVE  f \in DOMAIN Places(p) /\ Places(p)[f] = Size(b) + At(c, f)
  OBVIOUS
<1> DEFINE u == b \o c
           w == u \o t
<1>0. Layout(p) = w
  BY DEF Cat
<1>1. /\ u \in FieldSeq /\ w \in FieldSeq /\ Names(u) = Names(b) \cup Names(c)
  <2>1. u \in FieldSeq /\ Names(u) = Names(b) \cup Names(c)
    BY SumOfConcat, NamesOfConcat
  <2>2. w \in FieldSeq
    <3> HIDE DEF u
    <3> QED BY <2>1, SumOfConcat
  <2> QED BY <2>1, <2>2
<1>2. Distinct(w) /\ Layout(p) = w
  BY <1>0, WholePacket DEF Laidout
<1>3. Names(w) = Names(u) \cup Names(t)
  <2> HIDE DEF u
  <2> QED BY <1>1, NamesOfConcat
<1>4. Distinct(u) /\ Distinct(t) /\ Names(u) \cap Names(t) = {}
  <2> HIDE DEF u
  <2> QED BY <1>1, <1>2, Parted
<1>5. Distinct(b) /\ Distinct(c) /\ Names(b) \cap Names(c) = {}
  BY <1>4, Parted
<1>6. At(u, f) = Size(b) + At(c, f)
  BY <1>5, Joined
<1>7. At(w, f) = At(u, f)
  <2> HIDE DEF u
  <2>1. f \in Names(u)
    BY <1>1
  <2> QED BY <1>1, <1>4, <2>1, Joined
<1>8. f \in Names(w)
  BY <1>1, <1>3
<1> HIDE DEF w
<1> QED BY <1>2, <1>6, <1>7, <1>8, PlacesAre

\* Reading the fields of chunk moves the cursor behind them, or less far.
LEMMA Advance ==
    ASSUME NEW p, Laidout(p),
           NEW chunk \in FieldSeq, NEW s \in FieldSeq, NEW rest \in FieldSeq,
           NEW lag \in Int, NEW pos, NEW rd, Cursor(p, chunk \o s, rest, lag, pos, rd),
           NEW at, DOMAIN at = Names(chunk) \cap Fields,
           \A f \in DOMAIN at : at[f] = At(chunk, f) /\ EarlyIn(p, f) = lag,
           NEW move \in Int,
           NEW rd2, \A f \in Fields : rd2[f] = IF f \in DOMAIN at THEN pos + at[f] ELSE rd[f]
    PROVE  Cursor(p, s, rest, (lag + Size(chunk)) - move, pos + move, rd2)
<1>1. PICK behind \in FieldSeq :
        /\ Layout(p) = (behind \o (chunk \o s)) \o rest
        /\ pos = Size(behind) - lag
        /\ \A f \in Fields : rd[f] = IF f \in Names(behind)
                                     THEN Places(p)[f] - EarlyIn(p, f)
                                     ELSE NotRead
  BY DEF Cursor
<1> DEFINE b == behind \o chunk
<1>2. /\ b \in FieldSeq /\ Size(b) = Size(behind) + Size(chunk)
      /\ Names(b) = Names(behind) \cup Names(chunk)
  BY SumOfConcat, NamesOfConcat
<1>3. Size(behind) \in Int /\ Size(chunk) \in Int
  <2>1. Len(behind) \in Nat /\ Len(chunk) \in Nat
    BY LenProperties DEF FieldSeq
  <2> QED BY <2>1, RunningSum DEF Size
<1>4. Layout(p) = (b \o s) \o rest
  <2>1. (behind \o chunk) \o s = behind \o (chunk \o s)
    BY Associative
  <2> QED BY <1>1, <2>1
<1>5. Layout(p) = (behind \o chunk) \o (s \o rest) /\ s \o rest \in FieldSeq
  <2>1. Cat(Cat(b, s), rest) = Cat(b, Cat(s, rest)) /\ Cat(s, rest) \in FieldSeq
    <3> HIDE DEF b
    <3> QED BY <1>2, Regroup3, CatType
  <2>2. (b \o s) \o rest = b \o (s \o rest)
    BY <2>1 DEF Cat
  <2> QED BY <1>4, <2>1, <2>2 DEF Cat
<1>6. ASSUME NEW f \in DOMAIN at
      PROVE  Places(p)[f] = Size(behind) + at[f] /\ at[f] \in Int
  <2> DEFINE t == s \o rest
  <2>1. f \in Names(chunk) /\ at[f] = At(chunk, f)
    OBVIOUS
  <2>2. t \in FieldSeq /\ Layout(p) = Cat(Cat(behind, chunk), t)
    BY <1>5 DEF Cat
  <2> HIDE DEF t
  <2>3. Places(p)[f] = Size(behind) + At(chunk, f)
    BY <2>1, <2>2, PlaceBetween
  <2>4. At(chunk, f) \in Int
    <3>1. PICK i \in DOMAIN chunk : chunk[i][1] = f
      BY <2>1 DEF Names
    <3>2. DOMAIN chunk = 1 .. Len(chunk) /\ Len(chunk) \in Nat
      BY LenProperties DEF FieldSeq
    <3> DEFINE k == CHOOSE j \in DOMAIN chunk : chunk[j][1] = f
    <3>3. k \in 1 .. Len(chunk)
      BY <3>1, <3>2
    <3> HIDE DEF k
    <3>4. k - 1 \in 0 .. Len(chunk)
      BY <3>2, <3>3
    <3>5. Bytes(chunk, k - 1) \in Int
      BY <3>4, RunningSum
    <3> QED BY <3>5 DEF At, k
  <2> QED BY <2>1, <2>3, <2>4
<1>7. ASSUME NEW f \in Fields
      PROVE  rd2[f] = IF f \in Names(b) THEN Places(p)[f] - EarlyIn(p, f) ELSE NotRead
  <2>1. CASE f \in DOMAIN at
    <3>1. rd2[f] = pos + at[f] /\ EarlyIn(p, f) = lag /\ f \in Names(b)
      BY <1>2, <2>1
    <3>2. Places(p)[f] = Size(behind) + at[f] /\ at[f] \in Int
      BY <1>6, <2>1
    <3> QED BY <1>1, <1>3, <3>1, <3>2
  <2>2. CASE f \notin DOMAIN at
    <3>1. rd2[f] = rd[f] /\ (f \in Names(b) <=> f \in Names(behind))
      BY <1>2, <2>2
    <3> QED BY <1>1, <3>1
  <2> QED BY <2>1, <2>2
<1>8. pos + move = Size(b) - ((lag + Size(chunk)) - move)
  BY <1>1, <1>2, <1>3
<1> HIDE DEF b
<1> QED BY <1>2, <1>4, <1>7, <1>8 DEF Cursor

\* Of a packet that holds its fields, none that the cursor has reached ends
\* behind it.
LEMMA InPacket ==
    ASSUME NEW p, Laidout(p), WellFormed(p), Stuffing(p) >= 0,
           NEW chunk \in FieldSeq, NEW s \in FieldSeq, NEW rest \in FieldSeq,
           NEW lag \in Int, NEW pos, NEW rd, Cursor(p, chunk \o s, rest, lag, pos, rd),
           NEW n \in Int, n <= Size(chunk) + lag
    PROVE  pos + n <= PACKET_SIZE
<1>1. PICK behind \in FieldSeq :
        /\ Layout(p) = (behind \o (chunk \o s)) \o rest
        /\ pos = Size(behind) - lag
  BY DEF Cursor
<1>2. NoneNegative(Layout(p)) /\ Size(Layout(p)) <= PACKET_SIZE
  <2>1. ListFits(p)
    BY DEF WellFormed, EntriesFit, ListFits
  <2> QED BY <2>1, WholePacket DEF Laidout, WellFormed
<1> DEFINE c == chunk \o s
           d == behind \o c
<1>3. c \in FieldSeq /\ Size(c) = Size(chunk) + Size(s)
  BY SumOfConcat
<1>4. d \in FieldSeq /\ Size(d) = Size(behind) + Size(c)
  <2> HIDE DEF c
  <2> QED BY <1>3, SumOfConcat
<1>5. Layout(p) = d \o rest
  BY <1>1
<1>6. Size(Layout(p)) = Size(d) + Size(rest) /\ NoneNegative(d) /\ NoneNegative(rest)
  <2> HIDE DEF d
  <2> QED BY <1>2, <1>4, <1>5, SumOfConcat, NegativeParts
<1>7. NoneNegative(c)
  <2> HIDE DEF c
  <2> QED BY <1>3, <1>6, NegativeParts DEF d
<1>8. NoneNegative(s)
  BY <1>7, NegativeParts
<1>9. Size(s) \in Nat /\ Size(rest) \in Nat
  BY <1>6, <1>8, NotNegative
<1>10. Size(behind) \in Int /\ Size(chunk) \in Int
  <2>1. Len(behind) \in Nat /\ Len(chunk) \in Nat
    BY LenProperties DEF FieldSeq
  <2> QED BY <2>1, RunningSum DEF Size
<1>11. Size(Layout(p)) = Size(behind) + (Size(chunk) + Size(s)) + Size(rest)
  BY <1>3, <1>4, <1>6
<1> HIDE DEF c, d
<1> QED BY SMTT(30), <1>1, <1>2, <1>9, <1>10, <1>11 DEF PACKET_SIZE

-----------------------------------------------------------------------------
(* Steps of the cursor.                                                    *)

\* The distances of at are those of the fields of chunk that the code reads,
\* and these are read lag bytes early.
Covers(p, at, chunk, lag) ==
    /\ DOMAIN at = Names(chunk) \cap Fields
    /\ \A f \in DOMAIN at : at[f] = At(chunk, f) /\ EarlyIn(p, f) = lag

\* The packet that is parsed has a layout.
LEMMA PacketIsLaidout ==
    ASSUME Types
    PROVE  Laidout(packet) /\ Stuffing(packet) >= 0 /\ Stuffing(packet) \in Int
<1>1. Laidout(packet)
  <2>1. /\ packet.length \in Nat /\ packet.private \in Nat /\ packet.pack \in Nat
        /\ packet.info \in Nat /\ packet.section_length \in 0 .. 1023
        /\ packet.unit \in Units
    BY DEF Types, TypeOK, PacketOK
  <2>2. packet.section_length \in Nat
    BY SMTT(30), <2>1
  <2> QED BY <2>1, <2>2 DEF Laidout, Sized
<1>2. Stuffing(packet) >= 0
  BY FitAssumption DEF Types
<1> QED BY <1>1, <1>2, FrontGroups DEF Laidout

\* Fields are read and passed over, or the packet does not hold its fields.
LEMMA Passage ==
    ASSUME Types
    PROVE  \A at, n, move, after, whole, chunk, s, rest, lag :
               /\ Decode(at, n, move, after)
               /\ n \in Int /\ move \in Int /\ lag \in Int
               /\ chunk \in FieldSeq /\ s \in FieldSeq /\ rest \in FieldSeq
               /\ whole = Cat(chunk, s)
               /\ Cursor(packet, whole, rest, lag, pos_, read)
               /\ Covers(packet, at, chunk, lag)
               /\ n <= Size(chunk) + lag
               => \/ pc' = "overrun" /\ ~WellFormed(packet)
                  \/ /\ pc' = after
                     /\ Cursor(packet, s, rest, (lag + Size(chunk)) - move, pos_', read')
<1> SUFFICES ASSUME NEW at, NEW n \in Int, NEW move \in Int, NEW after, NEW lag \in Int,
                    NEW chunk \in FieldSeq, NEW s \in FieldSeq, NEW rest \in FieldSeq,
                    Decode(at, n, move, after),
                    Cursor(packet, chunk \o s, rest, lag, pos_, read),
                    Covers(packet, at, chunk, lag), n <= Size(chunk) + lag
             PROVE  \/ pc' = "overrun" /\ ~WellFormed(packet)
                    \/ /\ pc' = after
                       /\ Cursor(packet, s, rest, (lag + Size(chunk)) - move, pos_', read')
  BY DEF Cat
<1>1. Laidout(packet) /\ Stuffing(packet) >= 0
  BY PacketIsLaidout
<1>2. CASE pos_ + n <= PACKET_SIZE
  <2>1. /\ pc' = after /\ pos_' = pos_ + move
        /\ \A f \in Fields : read'[f] = IF f \in DOMAIN at THEN pos_ + at[f] ELSE read[f]
    BY <1>2 DEF Decode
  <2>2. Cursor(packet, s, rest, (lag + Size(chunk)) - move, pos_ + move, read')
    BY <1>1, <2>1, Advance DEF Covers
  <2> QED BY <2>1, <2>2
<1>3. CASE ~(pos_ + n <= PACKET_SIZE)
  <2>1. pc' = "overrun"
    BY <1>3 DEF Decode
  <2>2. ~WellFormed(packet)
    BY <1>1, <1>3, InPacket
  <2> QED BY <2>1, <2>2
<1> QED BY <1>2, <1>3

\* The size of what is joined, and that every size is a number.
LEMMA CatSize ==
    \A s, t : s \in FieldSeq /\ t \in FieldSeq =>
        Cat(s, t) \in FieldSeq /\ Size(Cat(s, t)) = Size(s) + Size(t)
BY SumOfConcat DEF Cat

\* Nothing stands in front of or behind what it is joined to.
LEMMA CatEmpty == \A s \in FieldSeq : Cat(s, <<>>) = s /\ Cat(<<>>, s) = s
BY ConcatEmptySeq DEF Cat, FieldSeq

\* One field stands at its own start.
LEMMA CoversOne ==
    ASSUME NEW p, NEW lag, NEW name \in FieldNames, name \in Fields, NEW n \in Int,
           EarlyIn(p, name) = lag
    PROVE  Covers(p, [f \in {name} |-> 0], Field(name, n), lag)
<1>1. Names(Field(name, n)) = {name} /\ At(Field(name, n), name) = 0
  BY OneField
<1>2. DOMAIN [f \in {name} |-> 0] = {name}
      /\ \A f \in {name} : [g \in {name} |-> 0][f] = 0
  OBVIOUS
<1> DEFINE at == [f \in {name} |-> 0]
<1>3. DOMAIN at = {name} /\ \A f \in {name} : at[f] = 0
  BY <1>2
<1> HIDE DEF at
<1>4. Covers(p, at, Field(name, n), lag)
  BY <1>1, <1>3 DEF Covers
<1> QED BY <1>4 DEF at

\* An optional field is passed, if it is there.
LEMMA OptionPassage ==
    ASSUME Types
    PROVE  \A here, flag, name, n, after, s, rest, lag :
               /\ IfPresent(here, flag, name, n, after)
               /\ name \in FieldNames /\ name \in Fields /\ n \in Nat /\ lag \in Nat
               /\ s \in FieldSeq /\ rest \in FieldSeq
               /\ EarlyIn(packet, name) = lag
               /\ Cursor(packet, Cat(Option(packet, flag, name, n), s), rest, lag, pos_, read)
               => \/ pc' = "overrun" /\ ~WellFormed(packet)
                  \/ pc' = after /\ Cursor(packet, s, rest, lag, pos_', read')
<1> SUFFICES ASSUME NEW here, NEW flag, NEW name \in FieldNames, NEW n \in Nat, NEW after,
                    NEW s \in FieldSeq, NEW rest \in FieldSeq, NEW lag \in Nat,
                    IfPresent(here, flag, name, n, after), name \in Fields,
                    EarlyIn(packet, name) = lag,
                    Cursor(packet, Cat(Option(packet, flag, name, n), s), rest, lag, pos_, read)
             PROVE  \/ pc' = "overrun" /\ ~WellFormed(packet)
                    \/ pc' = after /\ Cursor(packet, s, rest, lag, pos_', read')
  OBVIOUS
<1>1. CASE flag \in packet.flags
  <2> DEFINE chunk == Field(name, n)
             at == [f \in {name} |-> 0]
  <2>1. n \in Int /\ chunk \in FieldSeq /\ Size(chunk) = n
    BY OneField
  <2>2. Covers(packet, at, chunk, lag)
    BY <2>1, CoversOne
  <2>3. Decode(at, n, n, after)
    BY <1>1 DEF IfPresent
  <2>4. Cursor(packet, Cat(chunk, s), rest, lag, pos_, read)
    BY <1>1 DEF Option, Optional
  <2> HIDE DEF chunk, at
  <2>5. n <= Size(chunk) + lag /\ (lag + Size(chunk)) - n = lag /\ lag \in Int
    BY <2>1
  <2>6. \/ pc' = "overrun" /\ ~WellFormed(packet)
        \/ pc' = after /\ Cursor(packet, s, rest, (lag + Size(chunk)) - n, pos_', read')
    BY <2>1, <2>2, <2>3, <2>4, <2>5, Passage
  <2> QED BY <2>5, <2>6
<1>2. CASE flag \notin packet.flags
  <2>1. pc' = after /\ pos_' = pos_ /\ read' = read
    BY <1>2 DEF IfPresent, Skip
  <2>2. Cat(Option(packet, flag, name, n), s) = s
    BY <1>2, CatEmpty DEF Option, Optional
  <2> QED BY <2>1, <2>2
<1> QED BY <1>1, <1>2

-----------------------------------------------------------------------------
(* The invariant of the walk.                                              *)

AdaptationLabels == {"flags", "pcr", "opcr", "splice", "private", "extension", "ltw",
                     "piecewise", "seamless"}
UnitLabels       == {"pes", "pat", "cat", "pmt"}
PESLabels        == {"pes_flags", "pts", "escr", "es_rate", "trick", "copy_info", "crc",
                     "pes_extension", "pes_private", "pack", "sequence", "p_std",
                     "extension_2"}
TableLabels      == {"programmes", "streams", "crc_32"}

\* The packet carries a unit, and no stuffing hides it.
Carried(p) == p.start /\ Stuffing(p) = 0 /\ p.unit # "other"

\* Only what the packet has is walked over.
WayInv ==
    /\ pc \in {"adaptation"} \cup AdaptationLabels => HasAdaptation(packet)
    /\ pc \in AdaptationLabels => packet.length # 0
    /\ pc \in UnitLabels => Carried(packet) /\ packet.unit = pc
    /\ pc \in PESLabels => /\ Carried(packet) /\ packet.unit = "pes"
                           /\ packet.stream_id \notin PlainStreams
    /\ pc \in TableLabels => Carried(packet) /\ packet.unit \in {"pat", "cat", "pmt"}
    /\ pc = "programmes" => packet.unit = "pat"
    /\ pc = "streams" => packet.unit = "pmt"

\* The parts a packet has and the blocks they take.
AdaptationPart(p) == IF HasAdaptation(p) THEN {"adaptation"} ELSE {}
UnitPart(p)       == IF Carried(p) THEN {p.unit} ELSE {}
PrivatePart(p)    == IF HasAdaptation(p) /\ p.length # 0 /\ "private" \in p.flags
                     THEN {"private"} ELSE {}
Holders(taken)    == {block[1] : block \in taken}

\* The parts walked over exist, and no other; they hold the blocks.
PartsInv ==
    /\ pc \in {"header", "adaptation"} => exist = {}
    /\ pc \in AdaptationLabels \cup {"unit"} \cup UnitLabels =>
           exist = AdaptationPart(packet)
    /\ pc \in PESLabels \cup TableLabels \cup {"done"} =>
           exist = AdaptationPart(packet) \cup UnitPart(packet)
    /\ pc \in {"header", "adaptation", "flags", "pcr", "opcr", "splice", "private"} =>
           Holders(blocks) = {}
    /\ pc \in {"extension", "ltw", "piecewise", "seamless", "unit"} \cup UnitLabels =>
           Holders(blocks) = PrivatePart(packet)
    /\ pc \in PESLabels \cup TableLabels \cup {"done"} =>
           Holders(blocks) = PrivatePart(packet) \cup (UnitPart(packet) \cap {"pat", "pmt"})

\* Where the cursor stands, in front of the unit and in it.
InFront(s)     == Cursor(packet, s, Behind(packet), 0, pos_, read)
InUnit(s, lag) == Cursor(packet, s, <<>>, lag, pos_, read)

FrontInv ==
    /\ pc = "header"     => InFront(FromHeader(packet))
    /\ pc = "adaptation" => InFront(FromAdaptation(packet))
    /\ pc = "flags"      => InFront(FromFlags(packet))
    /\ pc = "pcr"        => InFront(FromPCR(packet))
    /\ pc = "opcr"       => InFront(FromOPCR(packet))
    /\ pc = "splice"     => InFront(FromSplice(packet))
    /\ pc = "private"    => InFront(FromPrivate(packet))
    /\ pc = "extension"  => InFront(FromExtension(packet))
    /\ pc = "ltw"        => InFront(FromLTW(packet))
    /\ pc = "piecewise"  => InFront(FromPiecewise(packet))
    /\ pc = "seamless"   => InFront(FromSeamless(packet))
    /\ pc = "unit"       => InFront(<<>>)

\* Behind a pack header the cursor lags by its bytes.
PackLag(p) == IF "pack" \in p.flags THEN p.pack ELSE 0

PESInv ==
    /\ pc = "pes"           => InUnit(PESFields(packet), 0)
    /\ pc = "pes_flags"     => InUnit(FromPESFlags(packet), 0)
    /\ pc = "pts"           => InUnit(FromPTS(packet), 0)
    /\ pc = "escr"          => InUnit(FromESCR(packet), 0)
    /\ pc = "es_rate"       => InUnit(FromESRate(packet), 0)
    /\ pc = "trick"         => InUnit(FromTrick(packet), 0)
    /\ pc = "copy_info"     => InUnit(FromCopyInfo(packet), 0)
    /\ pc = "crc"           => InUnit(FromCRC(packet), 0)
    /\ pc = "pes_extension" => InUnit(FromPESExtension(packet), 0)
    /\ pc = "pes_private"   => InUnit(FromPESPrivate(packet), 0)
    /\ pc = "pack"          => InUnit(FromPack(packet), 0)
    /\ pc = "sequence"      => InUnit(FromSequence(packet), PackLag(packet))
    /\ pc = "p_std"         => InUnit(FromPStd(packet), PackLag(packet))
    /\ pc = "extension_2"   => InUnit(FromExtension2(packet), PackLag(packet))

\* In a list the cursor is as far from its start as the code counts.  The CRC
\* of a CAT is read where its list begins, that of a PAT or programme map at
\* its place if the packet is as its lengths say.
SectionInv ==
    /\ pc \in {"pat", "cat", "pmt"} => InUnit(Section(packet), 0)
    /\ pc = "programmes" => InUnit(FromList(packet), 0 - 4 * Len(list_))
    /\ pc = "streams"    => InUnit(FromList(packet), 1 - pointer)
    /\ pc = "crc_32" /\ packet.unit = "cat" =>
           InUnit(Field("crc_32_", 4), ListSize(packet))
    /\ pc = "crc_32" /\ packet.unit # "cat" /\ WellFormed(packet) =>
           InUnit(Field("crc_32_", 4), 0)

\* Every field the packet has was read where it stands, or as early as the code
\* reads it, and no other; unless stuffing hid it.
InPlace(p, rd) ==
    \A f \in Fields :
        rd[f] = IF f \in DOMAIN Places(p) /\ (f \in Names(Unit(p)) => Stuffing(p) = 0)
                THEN Places(p)[f] - EarlyIn(p, f)
                ELSE NotRead

EndedInv == /\ Done /\ WellFormed(packet) => InPlace(packet, read)
            /\ StaysInPacket

Position == FrontInv /\ PESInv /\ SectionInv /\ EndedInv

-----------------------------------------------------------------------------
(* What the steps that read one field have in common.                      *)

\* Steps along the adaptation field, or along a PES header, which decode no
\* other part.
LEMMA Along ==
    ASSUME WayInv, PartsInv, UNCHANGED <<packet, exist, blocks>>,
           \/ pc \in {"flags", "pcr", "opcr", "splice"}
              /\ pc' \in {"pcr", "opcr", "splice", "private"}
           \/ pc \in {"extension", "ltw", "piecewise", "seamless"}
              /\ pc' \in {"ltw", "piecewise", "seamless", "unit"}
           \/ pc \in PESLabels /\ pc' \in PESLabels \cup {"done"}
           \/ pc' = "overrun"
    PROVE  WayInv' /\ PartsInv'
<1> USE DEF AdaptationLabels, UnitLabels, PESLabels, TableLabels
<1>1. WayInv'
  BY DEF WayInv
<1>2. PartsInv'
  BY DEF PartsInv
<1> QED BY <1>1, <1>2

\* The names of the fields the code reads, and of those it passes over.
LEMMA FieldFacts ==
    /\ {"header", "adaptation_field_length_", "adaptation_flags", "pcr", "opcr",
        "splice_countdown_", "transport_private_data_length_", "private_data_byte_",
        "adaptation_field_extension_length_", "extension_flags", "ltw_offset_",
        "piecewise_rate_", "dts_next_au_"} \subseteq Fields \cap FieldNames
    /\ {"packet_start_code_prefix_", "stream_id_", "pes_packet_length_", "pes_flags",
        "pes_header_data_length_", "pts_", "dts_", "escr_", "es_rate_",
        "trick_mode_control_", "additional_copy_info_", "previous_pes_packet_crc_",
        "pes_extension_flags", "pes_private_data_", "pack_field_length_",
        "program_packet_sequence_counter_", "p_std_buffer_size_",
        "pes_extension_field_length_"} \subseteq Fields \cap FieldNames
    /\ {"pointer_field_", "table_id_", "section_length_", "table_id_extension",
        "version_number_", "section_number_", "last_section_number_", "pcr_pid_",
        "program_info_length_", "crc_32_"} \subseteq Fields \cap FieldNames
    /\ {"stuffing", "pack_header", "program_info", "list"} \subseteq FieldNames \ Fields
BY DEF Fields, FieldNames, PMTAt, PESAt, PESFlagsAt

\* The fields behind a pack header.
Late == {"program_packet_sequence_counter_", "p_std_buffer_size_",
         "pes_extension_field_length_"}

\* Only the fields behind a pack header and the CRC of a CAT are read early.
LEMMA EarlyFacts ==
    \A p : /\ \A f : f \notin Late /\ f # "crc_32_" => EarlyIn(p, f) = 0
           /\ \A f \in Late : p.unit = "pes" => EarlyIn(p, f) = PackLag(p)
           /\ EarlyIn(p, "crc_32_") = IF p.unit = "cat" THEN ListSize(p) ELSE 0
BY DEF EarlyIn, Late, PackLag

\* Fields at known distances are covered by those distances.
LEMMA CoversLaid ==
    \A p, at, full, chunk, n, lag :
        /\ Laid(chunk, full, n)
        /\ DOMAIN at = DOMAIN full \cap Fields
        /\ \A f \in DOMAIN at : at[f] = full[f] /\ EarlyIn(p, f) = lag
        => chunk \in FieldSeq /\ Size(chunk) = n /\ Covers(p, at, chunk, lag)
BY DEF Laid, Covers

\* The same if the code reads all of the fields.
LEMMA CoversAll ==
    \A p, at, chunk, n, lag :
        /\ Laid(chunk, at, n)
        /\ DOMAIN at \subseteq Fields
        /\ \A f \in DOMAIN at : EarlyIn(p, f) = lag
        => chunk \in FieldSeq /\ Size(chunk) = n /\ Covers(p, at, chunk, lag)
BY DEF Laid, Covers

\* The walk follows the layout.
Walk == WayInv /\ PartsInv /\ Position

\* A field of the adaptation field that may be left out.
LEMMA FrontOption ==
    ASSUME Inv
    PROVE  \A here, flag, name, n, after, whole, s :
               /\ IfPresent(here, flag, name, n, after)
               /\ name \in FieldNames \cap Fields /\ name \notin Late /\ name # "crc_32_"
               /\ n \in Nat /\ s \in FieldSeq
               /\ InFront(whole) /\ whole = Cat(Option(packet, flag, name, n), s)
               => \/ pc' = "overrun" /\ ~WellFormed(packet)
                  \/ pc' = after /\ Cursor(packet, s, Behind(packet), 0, pos_', read')
<1>1. Types /\ Behind(packet) \in FieldSeq
  BY PacketIsLaidout, WholePacket DEF Inv, Laidout
<1>2. \A f : f \notin Late /\ f # "crc_32_" => EarlyIn(packet, f) = 0
  BY EarlyFacts
<1> QED BY <1>1, <1>2, OptionPassage DEF InFront

\* The steps over the adaptation field that read one optional field.
LEMMA AdaptationOptions ==
    ASSUME Inv, Walk, PCR \/ OPCR \/ Splice \/ LTW \/ Piecewise \/ Seamless
    PROVE  Walk'
<1> DEFINE p == packet
<1>1. UNCHANGED <<packet, list_, pointer, exist, blocks>>
  BY DEF PCR, OPCR, Splice, LTW, Piecewise, Seamless, IfPresent
<1>2. /\ FromOPCR(p) \in FieldSeq /\ FromSplice(p) \in FieldSeq
      /\ FromPrivate(p) \in FieldSeq /\ FromPiecewise(p) \in FieldSeq
      /\ FromSeamless(p) \in FieldSeq /\ <<>> \in FieldSeq
  BY PacketIsLaidout, AdaptationGroups, NoFields DEF Inv, Laidout, Group
<1>3. FrontInv
  BY DEF Walk, Position
<1> USE FieldFacts DEF Late
<1>4. CASE PCR
  <2>1. FromPCR(p) = Cat(Option(p, "pcr", "pcr", 6), FromOPCR(p))
    BY <1>2 DEF FromPCR, Cat
  <2>2. pc = "pcr" /\ InFront(FromPCR(p))
    BY <1>3, <1>4 DEF FrontInv, PCR, IfPresent
  <2>3. \/ pc' = "overrun" /\ ~WellFormed(p)
        \/ pc' = "opcr" /\ Cursor(p, FromOPCR(p), Behind(p), 0, pos_', read')
    BY <1>2, <1>4, <2>1, <2>2, FrontOption DEF PCR
  <2>4. WayInv' /\ PartsInv'
    BY <1>1, <2>2, <2>3, Along DEF Walk
  <2>5. Position'
    BY <1>1, <2>3 DEF Position, FrontInv, PESInv, SectionInv, EndedInv, InFront, Done,
                      StaysInPacket
  <2> QED BY <2>4, <2>5 DEF Walk
<1>5. CASE OPCR
  <2>1. FromOPCR(p) = Cat(Option(p, "opcr", "opcr", 6), FromSplice(p))
    BY <1>2 DEF FromOPCR, Cat
  <2>2. pc = "opcr" /\ InFront(FromOPCR(p))
    BY <1>3, <1>5 DEF FrontInv, OPCR, IfPresent
  <2>3. \/ pc' = "overrun" /\ ~WellFormed(p)
        \/ pc' = "splice" /\ Cursor(p, FromSplice(p), Behind(p), 0, pos_', read')
    BY <1>2, <1>5, <2>1, <2>2, FrontOption DEF OPCR
  <2>4. WayInv' /\ PartsInv'
    BY <1>1, <2>2, <2>3, Along DEF Walk
  <2>5. Position'
    BY <1>1, <2>3 DEF Position, FrontInv, PESInv, SectionInv, EndedInv, InFront, Done,
                      StaysInPacket
  <2> QED BY <2>4, <2>5 DEF Walk
<1>6. CASE Splice
  <2>1. FromSplice(p) = Cat(Option(p, "splice", "splice_countdown_", 1), FromPrivate(p))
    BY <1>2 DEF FromSplice, Cat
  <2>2. pc = "splice" /\ InFront(FromSplice(p))
    BY <1>3, <1>6 DEF FrontInv, Splice, IfPresent
  <2>3. \/ pc' = "overrun" /\ ~WellFormed(p)
        \/ pc' = "private" /\ Cursor(p, FromPrivate(p), Behind(p), 0, pos_', read')
    BY <1>2, <1>6, <2>1, <2>2, FrontOption DEF Splice
  <2>4. WayInv' /\ PartsInv'
    BY <1>1, <2>2, <2>3, Along DEF Walk
  <2>5. Position'
    BY <1>1, <2>3 DEF Position, FrontInv, PESInv, SectionInv, EndedInv, InFront, Done,
                      StaysInPacket
  <2> QED BY <2>4, <2>5 DEF Walk
<1>7. CASE LTW
  <2>1. FromLTW(p) = Cat(Option(p, "ltw", "ltw_offset_", 2), FromPiecewise(p))
    BY <1>2 DEF FromLTW, Cat
  <2>2. pc = "ltw" /\ InFront(FromLTW(p))
    BY <1>3, <1>7 DEF FrontInv, LTW, IfPresent
  <2>3. \/ pc' = "overrun" /\ ~WellFormed(p)
        \/ pc' = "piecewise" /\ Cursor(p, FromPiecewise(p), Behind(p), 0, pos_', read')
    BY <1>2, <1>7, <2>1, <2>2, FrontOption DEF LTW
  <2>4. WayInv' /\ PartsInv'
    BY <1>1, <2>2, <2>3, Along DEF Walk
  <2>5. Position'
    BY <1>1, <2>3 DEF Position, FrontInv, PESInv, SectionInv, EndedInv, InFront, Done,
                      StaysInPacket
  <2> QED BY <2>4, <2>5 DEF Walk
<1>8. CASE Piecewise
  <2>1. FromPiecewise(p) = Cat(Option(p, "piecewise", "piecewise_rate_", 3), FromSeamless(p))
    BY <1>2 DEF FromPiecewise, Cat
  <2>2. pc = "piecewise" /\ InFront(FromPiecewise(p))
    BY <1>3, <1>8 DEF FrontInv, Piecewise, IfPresent
  <2>3. \/ pc' = "overrun" /\ ~WellFormed(p)
        \/ pc' = "seamless" /\ Cursor(p, FromSeamless(p), Behind(p), 0, pos_', read')
    BY <1>2, <1>8, <2>1, <2>2, FrontOption DEF Piecewise
  <2>4. WayInv' /\ PartsInv'
    BY <1>1, <2>2, <2>3, Along DEF Walk
  <2>5. Position'
    BY <1>1, <2>3 DEF Position, FrontInv, PESInv, SectionInv, EndedInv, InFront, Done,
                      StaysInPacket
  <2> QED BY <2>4, <2>5 DEF Walk
<1>9. CASE Seamless
  <2>1. FromSeamless(p) = Cat(Option(p, "seamless", "dts_next_au_", 5), <<>>)
    <3>1. Option(p, "seamless", "dts_next_au_", 5) \in FieldSeq
      BY <1>2 DEF FromSeamless
    <3> QED BY <3>1, CatEmpty DEF FromSeamless
  <2>2. pc = "seamless" /\ InFront(FromSeamless(p))
    BY <1>3, <1>9 DEF FrontInv, Seamless, IfPresent
  <2>3. \/ pc' = "overrun" /\ ~WellFormed(p)
        \/ pc' = "unit" /\ Cursor(p, <<>>, Behind(p), 0, pos_', read')
    BY <1>2, <1>9, <2>1, <2>2, FrontOption DEF Seamless
  <2>4. WayInv' /\ PartsInv'
    BY <1>1, <2>2, <2>3, Along DEF Walk
  <2>5. Position'
    BY <1>1, <2>3 DEF Position, FrontInv, PESInv, SectionInv, EndedInv, InFront, Done,
                      StaysInPacket
  <2> QED BY <2>4, <2>5 DEF Walk
<1> QED BY <1>4, <1>5, <1>6, <1>7, <1>8, <1>9

\* Fields in front of the unit are read.
LEMMA FrontReads ==
    ASSUME Inv
    PROVE  \A at, n, after, whole, chunk, s :
               /\ Decode(at, n, n, after)
               /\ chunk \in FieldSeq /\ s \in FieldSeq /\ n \in Int /\ Size(chunk) = n
               /\ InFront(whole) /\ whole = Cat(chunk, s) /\ Covers(packet, at, chunk, 0)
               => \/ pc' = "overrun" /\ ~WellFormed(packet)
                  \/ pc' = after /\ Cursor(packet, s, Behind(packet), 0, pos_', read')
<1> SUFFICES ASSUME NEW at, NEW n \in Int, NEW after, NEW whole, NEW chunk, NEW s,
                    Decode(at, n, n, after), chunk \in FieldSeq, s \in FieldSeq,
                    Size(chunk) = n, InFront(whole), whole = Cat(chunk, s),
                    Covers(packet, at, chunk, 0)
             PROVE  \/ pc' = "overrun" /\ ~WellFormed(packet)
                    \/ pc' = after /\ Cursor(packet, s, Behind(packet), 0, pos_', read')
  OBVIOUS
<1>1. Types /\ Behind(packet) \in FieldSeq
  BY PacketIsLaidout, WholePacket DEF Inv, Laidout
<1>2. 0 \in Int /\ n <= Size(chunk) + 0 /\ (0 + Size(chunk)) - n = 0
  OBVIOUS
<1>3. \/ pc' = "overrun" /\ ~WellFormed(packet)
      \/ pc' = after /\ Cursor(packet, s, Behind(packet), (0 + Size(chunk)) - n, pos_', read')
  BY <1>1, <1>2, Passage DEF InFront
<1> QED BY <1>2, <1>3

\* One field in front of the unit.
LEMMA FrontField ==
    ASSUME Inv
    PROVE  \A name, n, after, whole, s :
               /\ Decode([f \in {name} |-> 0], n, n, after)
               /\ name \in FieldNames \cap Fields /\ name \notin Late /\ name # "crc_32_"
               /\ n \in Nat /\ s \in FieldSeq
               /\ InFront(whole) /\ whole = Cat(Field(name, n), s)
               => \/ pc' = "overrun" /\ ~WellFormed(packet)
                  \/ pc' = after /\ Cursor(packet, s, Behind(packet), 0, pos_', read')
<1> SUFFICES ASSUME NEW name, NEW n \in Nat, NEW after, NEW whole, NEW s \in FieldSeq,
                    Decode([f \in {name} |-> 0], n, n, after),
                    name \in FieldNames \cap Fields, name \notin Late, name # "crc_32_",
                    InFront(whole), whole = Cat(Field(name, n), s)
             PROVE  \/ pc' = "overrun" /\ ~WellFormed(packet)
                    \/ pc' = after /\ Cursor(packet, s, Behind(packet), 0, pos_', read')
  OBVIOUS
<1>1. EarlyIn(packet, name) = 0
  BY EarlyFacts
<1>2. Covers(packet, [f \in {name} |-> 0], Field(name, n), 0)
  BY <1>1, CoversOne
<1>3. Field(name, n) \in FieldSeq /\ Size(Field(name, n)) = n /\ n \in Int
  BY OneField
<1> QED BY <1>2, <1>3, FrontReads

\* Reading behind the packet ends the walk.
LEMMA Overrun ==
    ASSUME UNCHANGED packet, pc' \in {"overrun", "crashed"}, ~WellFormed(packet)
    PROVE  Walk'
<1>1. WayInv' /\ PartsInv'
  BY DEF WayInv, PartsInv, AdaptationLabels, UnitLabels, PESLabels, TableLabels
<1>2. Position'
  BY DEF Position, FrontInv, PESInv, SectionInv, EndedInv, Done, StaysInPacket
<1> QED BY <1>1, <1>2 DEF Walk

\* The steps that read the first bytes of a part of the adaptation field.
LEMMA AdaptationBytes ==
    ASSUME Inv, Walk, Header \/ AdaptationLength \/ AdaptationFlagsByte
    PROVE  Walk'
<1> DEFINE p == packet
<1>1. UNCHANGED <<packet, list_, pointer, blocks>>
  BY DEF Header, AdaptationLength, AdaptationFlagsByte, Reads
<1>2. /\ FromAdaptation(p) \in FieldSeq /\ AdaptationContent(p) \in FieldSeq
      /\ FromPCR(p) \in FieldSeq
  BY PacketIsLaidout, FrontGroups, AdaptationGroups DEF Inv, Laidout, Group
<1>3. FrontInv /\ WayInv /\ PartsInv
  BY DEF Walk, Position
<1>4. p.length \in Nat /\ Sized(p)
  BY PacketIsLaidout DEF Inv, Laidout, Sized
<1> USE FieldFacts DEF Late
<1>5. CASE Header
  <2> DEFINE after == IF HasAdaptation(p) THEN "adaptation" ELSE "unit"
  <2>1. pc = "header" /\ InFront(FromHeader(p)) /\ exist' = exist
    BY <1>3, <1>5 DEF FrontInv, Header, Reads
  <2>2. FromHeader(p) = Cat(Field("header", 4), FromAdaptation(p))
    BY DEF FromHeader, Cat
  <2>3. Decode([f \in {"header"} |-> 0], 4, 4, after)
    <3>1. [header |-> 0] = [f \in {"header"} |-> 0]
      OBVIOUS
    <3> QED BY <1>5, <3>1 DEF Header, Reads
  <2> HIDE DEF after
  <2>4. \/ pc' = "overrun" /\ ~WellFormed(p)
        \/ pc' = after /\ Cursor(p, FromAdaptation(p), Behind(p), 0, pos_', read')
    BY <1>2, <2>1, <2>2, <2>3, FrontField
  <2>5. CASE pc' = after /\ Cursor(p, FromAdaptation(p), Behind(p), 0, pos_', read')
    <3>1. ~HasAdaptation(p) => FromAdaptation(p) = <<>>
      BY DEF FromAdaptation
    <3>2. Position'
      BY <1>1, <2>5, <3>1 DEF Position, FrontInv, PESInv, SectionInv, EndedInv, InFront,
                              Done, StaysInPacket, after
    <3>3. WayInv'
      BY <1>1, <2>5 DEF WayInv, after, AdaptationLabels, UnitLabels, PESLabels, TableLabels
    <3>4. PartsInv'
      BY <1>1, <1>3, <2>1, <2>5 DEF PartsInv, after, AdaptationLabels, UnitLabels,
         PESLabels, TableLabels, AdaptationPart, PrivatePart
    <3> QED BY <3>2, <3>3, <3>4 DEF Walk
  <2> QED BY <1>1, <2>4, <2>5, Overrun
<1>6. CASE AdaptationLength
  <2> DEFINE after == IF p.length > 0 THEN "flags" ELSE "unit"
  <2>1. /\ pc = "adaptation" /\ InFront(FromAdaptation(p)) /\ HasAdaptation(p)
        /\ exist' = exist \cup {"adaptation"}
    BY <1>3, <1>6 DEF FrontInv, WayInv, AdaptationLength, Reads, Exists
  <2>2. FromAdaptation(p) = Cat(Field("adaptation_field_length_", 1), AdaptationContent(p))
    BY <2>1 DEF FromAdaptation, Cat
  <2>3. Decode([f \in {"adaptation_field_length_"} |-> 0], 1, 1, after)
    <3>1. [adaptation_field_length_ |-> 0] = [f \in {"adaptation_field_length_"} |-> 0]
      OBVIOUS
    <3> QED BY <1>6, <3>1 DEF AdaptationLength, Reads
  <2> HIDE DEF after
  <2>4. \/ pc' = "overrun" /\ ~WellFormed(p)
        \/ pc' = after /\ Cursor(p, AdaptationContent(p), Behind(p), 0, pos_', read')
    BY <1>2, <2>1, <2>2, <2>3, FrontField
  <2>5. CASE pc' = after /\ Cursor(p, AdaptationContent(p), Behind(p), 0, pos_', read')
    <3>1. /\ p.length = 0 => AdaptationContent(p) = <<>> /\ after = "unit"
          /\ p.length # 0 => AdaptationContent(p) = FromFlags(p) /\ after = "flags"
      <4>1. p.length = 0 => AdaptationContent(p) = <<>>
        BY DEF AdaptationContent
      <4>2. p.length # 0 => AdaptationContent(p) = FromFlags(p)
        BY <1>4, AdaptationJoined
      <4>3. (p.length = 0 => after = "unit") /\ (p.length # 0 => after = "flags")
        BY <1>4 DEF after
      <4> QED BY <4>1, <4>2, <4>3
    <3>2. Position'
      BY <1>1, <2>5, <3>1 DEF Position, FrontInv, PESInv, SectionInv, EndedInv, InFront,
                              Done, StaysInPacket
    <3>3. WayInv'
      BY <1>1, <2>1, <2>5, <3>1 DEF WayInv, AdaptationLabels, UnitLabels, PESLabels,
         TableLabels
    <3>4. PartsInv'
      BY <1>1, <1>3, <2>1, <2>5, <3>1 DEF PartsInv, AdaptationLabels, UnitLabels,
         PESLabels, TableLabels, AdaptationPart, PrivatePart
    <3> QED BY <3>2, <3>3, <3>4 DEF Walk
  <2> QED BY <1>1, <2>4, <2>5, Overrun
<1>7. CASE AdaptationFlagsByte
  <2>1. /\ pc = "flags" /\ InFront(FromFlags(p)) /\ HasAdaptation(p) /\ p.length # 0
        /\ exist' = exist
    BY <1>3, <1>7 DEF FrontInv, WayInv, AdaptationLabels, AdaptationFlagsByte, Reads
  <2>2. FromFlags(p) = Cat(Field("adaptation_flags", 1), FromPCR(p))
    BY DEF FromFlags, Cat
  <2>3. Decode([f \in {"adaptation_flags"} |-> 0], 1, 1, "pcr")
    <3>1. [adaptation_flags |-> 0] = [f \in {"adaptation_flags"} |-> 0]
      OBVIOUS
    <3> QED BY <1>7, <3>1 DEF AdaptationFlagsByte, Reads
  <2>4. \/ pc' = "overrun" /\ ~WellFormed(p)
        \/ pc' = "pcr" /\ Cursor(p, FromPCR(p), Behind(p), 0, pos_', read')
    BY <1>2, <2>1, <2>2, <2>3, FrontField
  <2>5. CASE pc' = "pcr" /\ Cursor(p, FromPCR(p), Behind(p), 0, pos_', read')
    <3>1. Position'
      BY <1>1, <2>5 DEF Position, FrontInv, PESInv, SectionInv, EndedInv, InFront, Done,
                        StaysInPacket
    <3>2. WayInv' /\ PartsInv'
      BY <1>1, <1>3, <2>1, <2>5, Along
    <3> QED BY <3>1, <3>2 DEF Walk
  <2> QED BY <1>1, <2>4, <2>5, Overrun
<1> QED BY <1>5, <1>6, <1>7

\* Private data, and the extension with its flags.
LEMMA AdaptationBlocks ==
    ASSUME Inv, Walk, PrivateData \/ Extension
    PROVE  Walk'
<1> DEFINE p == packet
<1>1. UNCHANGED <<packet, list_, pointer, exist>>
  BY DEF PrivateData, Extension
<1>2. /\ FromExtension(p) \in FieldSeq /\ FromLTW(p) \in FieldSeq
  BY PacketIsLaidout, AdaptationGroups DEF Inv, Laidout, Group
<1>3. FrontInv /\ WayInv /\ PartsInv
  BY DEF Walk, Position
<1>4. p.private \in Nat
  BY PacketIsLaidout DEF Inv, Laidout, Sized
<1>5. \A f : f \notin Late /\ f # "crc_32_" => EarlyIn(p, f) = 0
  BY EarlyFacts
<1> USE FieldFacts DEF Late
<1>6. CASE PrivateData
  <2>1. pc = "private" /\ InFront(FromPrivate(p)) /\ HasAdaptation(p) /\ p.length # 0
    BY <1>3, <1>6 DEF FrontInv, WayInv, AdaptationLabels, PrivateData
  <2>2. CASE "private" \in p.flags
    <3> DEFINE chunk == PrivateBlock(p)
               at == [transport_private_data_length_ |-> 0, private_data_byte_ |-> 1]
    <3>1. FromPrivate(p) = Cat(chunk, FromExtension(p))
      BY <2>2 DEF FromPrivate, Optional, Cat
    <3>2. Decode(at, 1 + p.private, 1 + p.private, "extension")
      BY <1>6, <2>2 DEF PrivateData
    <3>3. Laid(chunk, at, 1 + p.private)
      <4>1. /\ DOMAIN at = {"transport_private_data_length_", "private_data_byte_"}
            /\ at["transport_private_data_length_"] = 0 /\ at["private_data_byte_"] = 1
        OBVIOUS
      <4> HIDE DEF at
      <4> QED BY <1>4, <4>1, LaidTwo DEF PrivateBlock
    <3>4. DOMAIN at \subseteq Fields /\ \A f \in DOMAIN at : EarlyIn(p, f) = 0
      BY <1>5
    <3> HIDE DEF at, chunk
    <3>5. chunk \in FieldSeq /\ Size(chunk) = 1 + p.private /\ Covers(p, at, chunk, 0)
      BY <3>3, <3>4, CoversAll
    <3>6. \/ pc' = "overrun" /\ ~WellFormed(p)
          \/ pc' = "extension" /\ Cursor(p, FromExtension(p), Behind(p), 0, pos_', read')
      BY <1>2, <1>4, <2>1, <3>1, <3>2, <3>5, FrontReads
    <3>7. CASE pc' = "extension" /\ Cursor(p, FromExtension(p), Behind(p), 0, pos_', read')
      <4>1. Position'
        BY <1>1, <3>7 DEF Position, FrontInv, PESInv, SectionInv, EndedInv, InFront, Done,
                          StaysInPacket
      <4>2. WayInv'
        BY <1>1, <2>1, <3>7 DEF WayInv, AdaptationLabels, UnitLabels, PESLabels,
           TableLabels
      <4>3. Holders(blocks') = {"private"}
        <5>1. blocks' = blocks \cup {<<"private", p.private>>} /\ Holders(blocks) = {}
          BY <1>3, <1>6, <2>1, <2>2 DEF PartsInv, PrivateData
        <5>2. blocks = {}
          BY <5>1 DEF Holders
        <5>3. Holders({<<"private", p.private>>}) = {"private"}
          BY DEF Holders
        <5> QED BY <5>1, <5>2, <5>3
      <4>4. PrivatePart(p) = {"private"} /\ exist = AdaptationPart(p)
        BY <1>3, <2>1, <2>2 DEF PrivatePart, PartsInv, AdaptationLabels
      <4>5. PartsInv'
        BY <1>1, <3>7, <4>3, <4>4 DEF PartsInv, AdaptationLabels, UnitLabels, PESLabels,
           TableLabels
      <4> QED BY <4>1, <4>2, <4>5 DEF Walk
    <3> QED BY <1>1, <3>6, <3>7, Overrun
  <2>3. CASE "private" \notin p.flags
    <3>1. pc' = "extension" /\ UNCHANGED <<pos_, read, blocks>>
      BY <1>6, <2>3 DEF PrivateData, Skip
    <3>2. FromPrivate(p) = FromExtension(p)
      <4>1. FromPrivate(p) = Cat(<<>>, FromExtension(p))
        BY <2>3 DEF FromPrivate, Optional, Cat
      <4> QED BY <1>2, <4>1, CatEmpty
    <3>3. Position'
      BY <1>1, <2>1, <3>1, <3>2 DEF Position, FrontInv, PESInv, SectionInv, EndedInv,
         InFront, Done, StaysInPacket
    <3>4. WayInv'
      BY <1>1, <2>1, <3>1 DEF WayInv, AdaptationLabels, UnitLabels, PESLabels, TableLabels
    <3>5. PartsInv'
      BY <1>1, <1>3, <2>1, <2>3, <3>1 DEF PartsInv, AdaptationLabels, UnitLabels,
         PESLabels, TableLabels, PrivatePart
    <3> QED BY <3>3, <3>4, <3>5 DEF Walk
  <2> QED BY <2>2, <2>3
<1>7. CASE Extension
  <2>1. pc = "extension" /\ InFront(FromExtension(p)) /\ UNCHANGED blocks
    BY <1>3, <1>7 DEF FrontInv, Extension
  <2>2. CASE "extension" \in p.flags
    <3> DEFINE at == [adaptation_field_extension_length_ |-> 0, extension_flags |-> 1]
    <3>1. FromExtension(p) = Cat(ExtensionStart, FromLTW(p))
      BY <2>2 DEF FromExtension, Optional, Cat
    <3>2. Decode(at, 2, 2, "ltw")
      BY <1>7, <2>2 DEF Extension
    <3>3. Laid(ExtensionStart, at, 2)
      <4>1. /\ DOMAIN at = {"adaptation_field_extension_length_", "extension_flags"}
            /\ at["adaptation_field_extension_length_"] = 0 /\ at["extension_flags"] = 1
        OBVIOUS
      <4> HIDE DEF at
      <4>2. Laid(ExtensionStart, at, 1 + 1)
        BY <4>1, LaidTwo DEF ExtensionStart
      <4> QED BY <4>2
    <3>4. DOMAIN at \subseteq Fields /\ \A f \in DOMAIN at : EarlyIn(p, f) = 0
      BY <1>5
    <3> HIDE DEF at
    <3>5. /\ ExtensionStart \in FieldSeq /\ Size(ExtensionStart) = 2
          /\ Covers(p, at, ExtensionStart, 0)
      BY <3>3, <3>4, CoversAll
    <3>6. \/ pc' = "overrun" /\ ~WellFormed(p)
          \/ pc' = "ltw" /\ Cursor(p, FromLTW(p), Behind(p), 0, pos_', read')
      BY <1>2, <2>1, <3>1, <3>2, <3>5, FrontReads
    <3>7. CASE pc' = "ltw" /\ Cursor(p, FromLTW(p), Behind(p), 0, pos_', read')
      <4>1. Position'
        BY <1>1, <3>7 DEF Position, FrontInv, PESInv, SectionInv, EndedInv, InFront, Done,
                          StaysInPacket
      <4>2. WayInv' /\ PartsInv'
        BY <1>1, <1>3, <2>1, <3>7, Along
      <4> QED BY <4>1, <4>2 DEF Walk
    <3> QED BY <1>1, <3>6, <3>7, Overrun
  <2>3. CASE "extension" \notin p.flags
    <3>1. pc' = "unit" /\ UNCHANGED <<pos_, read>>
      BY <1>7, <2>3 DEF Extension, Skip
    <3>2. FromExtension(p) = <<>>
      BY <2>3 DEF FromExtension, Optional
    <3>3. Position'
      BY <1>1, <2>1, <3>1, <3>2 DEF Position, FrontInv, PESInv, SectionInv, EndedInv,
         InFront, Done, StaysInPacket
    <3>4. WayInv' /\ PartsInv'
      BY <1>1, <1>3, <2>1, <3>1, Along
    <3> QED BY <3>3, <3>4 DEF Walk
  <2> QED BY <2>2, <2>3
<1> QED BY <1>6, <1>7

-----------------------------------------------------------------------------
(* The start of the unit.                                                  *)

\* Between the adaptation field and the unit the cursor stands behind the
\* former, before any stuffing.
LEMMA BeforeUnit ==
    ASSUME Inv, InFront(<<>>)
    PROVE  \E behind \in FieldSeq :
             /\ Layout(packet) = Cat(behind, Behind(packet)) /\ pos_ = Size(behind)
             /\ pos_ = PayloadStart(packet) - Stuffing(packet)
             /\ DOMAIN Places(packet) = Names(behind) \cup Names(Behind(packet))
             /\ Names(behind) \cap Names(Behind(packet)) = {}
             /\ \A f \in Fields : read[f] = IF f \in Names(behind)
                                            THEN Places(packet)[f] - EarlyIn(packet, f)
                                            ELSE NotRead
<1> DEFINE p == packet
           A == AdaptationContent(p)
           B == Behind(p)
           H == FromHeader(p)
<1>1. Laidout(p) /\ Sized(p) /\ p.unit \in Units /\ Stuffing(p) \in Int
  BY PacketIsLaidout DEF Inv, Laidout
<1>2. /\ Layout(p) = Cat(H, B) /\ H \in FieldSeq /\ B \in FieldSeq
      /\ Distinct(Layout(p)) /\ DOMAIN Places(p) = Names(Layout(p))
  BY <1>1, WholePacket, PlacesAre DEF Cat
<1>3. PICK behind \in FieldSeq :
        /\ Layout(p) = (behind \o <<>>) \o B
        /\ pos_ = Size(behind) - 0
        /\ \A f \in Fields : read[f] = IF f \in Names(behind)
                                       THEN Places(p)[f] - EarlyIn(p, f)
                                       ELSE NotRead
  BY DEF InFront, Cursor
<1>4. Layout(p) = Cat(behind, B)
  <2>1. Cat(behind, <<>>) = behind
    BY CatEmpty
  <2> QED BY <1>3, <2>1 DEF Cat
<1>5. Size(H) \in Int /\ Size(B) \in Int /\ Size(behind) \in Int
  <2>1. Len(behind) \in Nat /\ Len(H) \in Nat /\ Len(B) \in Nat
    BY <1>2, LenProperties DEF FieldSeq
  <2> HIDE DEF H, B
  <2> QED BY <1>2, <2>1, RunningSum DEF Size
<1>6. Size(H) = Size(behind)
  <2>1. /\ Size(Cat(H, B)) = Size(H) + Size(B)
        /\ Size(Cat(behind, B)) = Size(behind) + Size(B)
    <3> HIDE DEF H, B
    <3> QED BY <1>2, CatSize
  <2>2. Size(H) + Size(B) = Size(behind) + Size(B)
    BY <1>2, <1>4, <2>1
  <2> QED BY <1>5, <2>2
<1>7. Size(H) = PayloadStart(p) - Stuffing(p)
  <2>1. FromAdaptation(p) \in FieldSeq /\ A \in FieldSeq /\ Size(A) \in Nat
    BY <1>1, FrontGroups, NotNegative DEF Group
  <2>2. Field("header", 4) \in FieldSeq /\ Size(Field("header", 4)) = 4
        /\ Field("adaptation_field_length_", 1) \in FieldSeq
        /\ Size(Field("adaptation_field_length_", 1)) = 1
    BY FieldFacts, OneField
  <2>3. Size(H) = 4 + Size(FromAdaptation(p))
    BY <2>1, <2>2, SumOfConcat DEF FromHeader
  <2>4. HasAdaptation(p) => Size(FromAdaptation(p)) = 1 + Size(A)
    BY <2>1, <2>2, SumOfConcat DEF FromAdaptation
  <2>5. ~HasAdaptation(p) => Size(FromAdaptation(p)) = 0
    BY NoFields DEF FromAdaptation
  <2>6. p.length \in Nat
    BY <1>1 DEF Sized
  <2> HIDE DEF A, H
  <2> QED BY <2>1, <2>3, <2>4, <2>5, <2>6 DEF PayloadStart, Stuffing, A
<1>8. /\ Names(Layout(p)) = Names(behind) \cup Names(B)
      /\ Names(behind) \cap Names(B) = {}
  <2> HIDE DEF B
  <2> QED BY <1>2, <1>4, NamesOfConcat, Parted DEF Cat
<1>9. pos_ = Size(behind)
  BY <1>3, <1>5
<1> HIDE DEF B
<1>10. /\ Layout(p) = Cat(behind, B) /\ pos_ = Size(behind)
       /\ pos_ = PayloadStart(p) - Stuffing(p)
       /\ DOMAIN Places(p) = Names(behind) \cup Names(B)
       /\ Names(behind) \cap Names(B) = {}
  BY <1>2, <1>4, <1>6, <1>7, <1>8, <1>9
<1> QED BY <1>3, <1>10 DEF B

\* Of the fields behind the adaptation field, the code reads those of the unit.
LEMMA BehindIs ==
    \A p : Laidout(p) =>
        /\ Behind(p) \in FieldSeq /\ Unit(p) \in FieldSeq
        /\ Names(Behind(p)) \cap Fields = Names(Unit(p)) \cap Fields
<1> SUFFICES ASSUME NEW p, Laidout(p)
             PROVE  /\ Behind(p) \in FieldSeq /\ Unit(p) \in FieldSeq
                    /\ Names(Behind(p)) \cap Fields = Names(Unit(p)) \cap Fields
  OBVIOUS
<1>1. Behind(p) \in FieldSeq /\ Unit(p) \in FieldSeq /\ Stuffing(p) \in Int
  BY WholePacket, UnitNamed, FrontGroups DEF Named, Laidout
<1>2. CASE HasAdaptation(p)
  <2>1. Field("stuffing", Stuffing(p)) \in FieldSeq
        /\ Names(Field("stuffing", Stuffing(p))) = {"stuffing"}
    BY <1>1, FieldFacts, OneField
  <2>2. Names(Behind(p)) = {"stuffing"} \cup Names(Unit(p))
    BY <1>1, <1>2, <2>1, NamesOfConcat DEF Behind
  <2>3. "stuffing" \notin Fields
    BY FieldFacts
  <2> QED BY <1>1, <2>2, <2>3
<1>3. CASE ~HasAdaptation(p)
  BY <1>1, <1>3 DEF Behind
<1> QED BY <1>2, <1>3

\* A unit is looked for where the payload starts.
LEMMA UnitFound ==
    ASSUME Inv, Walk, UnitStart
    PROVE  Walk'
<1> DEFINE p == packet
<1>1. UNCHANGED <<packet, pos_, read, list_, pointer, exist, blocks>> /\ pc = "unit"
  BY DEF UnitStart
<1>2. WayInv /\ PartsInv /\ InFront(<<>>)
  BY <1>1 DEF Walk, Position, FrontInv
<1>3. Laidout(p) /\ Stuffing(p) \in Int /\ p.unit \in Units
  BY PacketIsLaidout DEF Inv, Laidout
<1>4. PICK behind \in FieldSeq :
        /\ Layout(p) = Cat(behind, Behind(p)) /\ pos_ = Size(behind)
        /\ pos_ = PayloadStart(p) - Stuffing(p)
        /\ DOMAIN Places(p) = Names(behind) \cup Names(Behind(p))
        /\ Names(behind) \cap Names(Behind(p)) = {}
        /\ \A f \in Fields : read[f] = IF f \in Names(behind)
                                       THEN Places(p)[f] - EarlyIn(p, f)
                                       ELSE NotRead
  BY <1>2, BeforeUnit
<1>5. /\ Behind(p) \in FieldSeq /\ Unit(p) \in FieldSeq
      /\ Names(Behind(p)) \cap Fields = Names(Unit(p)) \cap Fields
  BY <1>3, BehindIs
<1>6. (pos_ = PayloadStart(p)) <=> (Stuffing(p) = 0)
  <2>1. PayloadStart(p) \in Int
    BY <1>3 DEF PayloadStart, Laidout, Sized
  <2> QED BY <1>3, <1>4, <2>1
<1>7. /\ Carried(p) => pc' = p.unit
      /\ ~Carried(p) => pc' = "done"
  BY <1>6 DEF UnitStart, Recognised, Carried
<1>8. CASE Carried(p)
  <2>1. Cursor(p, Unit(p), <<>>, 0, pos_, read)
    <3> DEFINE b == IF HasAdaptation(p) THEN Cat(behind, Field("stuffing", 0)) ELSE behind
    <3>1. Field("stuffing", 0) \in FieldSeq /\ Size(Field("stuffing", 0)) = 0
          /\ Names(Field("stuffing", 0)) = {"stuffing"} /\ "stuffing" \notin Fields
      BY FieldFacts, OneField
    <3>2. b \in FieldSeq
      BY <3>1, CatType
    <3>3. Size(b) = Size(behind)
      <4>1. Size(behind) \in Int
        <5>1. Len(behind) \in Nat
          BY LenProperties DEF FieldSeq
        <5> QED BY <5>1, RunningSum DEF Size
      <4> QED BY <3>1, <4>1, SumOfConcat DEF Cat
    <3>4. Names(b) \cap Fields = Names(behind) \cap Fields
      <4>1. HasAdaptation(p) => Names(b) = Names(behind) \cup {"stuffing"}
        BY <3>1, NamesOfConcat DEF Cat
      <4> QED BY <3>1, <4>1
    <3>5. Layout(p) = Cat(b, Unit(p))
      <4>1. HasAdaptation(p) => Behind(p) = Cat(Field("stuffing", 0), Unit(p))
        BY <1>8 DEF Behind, Cat, Carried
      <4>2. Cat(Cat(behind, Field("stuffing", 0)), Unit(p))
              = Cat(behind, Cat(Field("stuffing", 0), Unit(p)))
        BY <1>5, <3>1, Regroup3
      <4>3. ~HasAdaptation(p) => Behind(p) = Unit(p)
        BY DEF Behind
      <4> QED BY <1>4, <4>1, <4>2, <4>3
    <3>6. Layout(p) = (b \o Unit(p)) \o <<>>
      <4>1. Cat(b, Unit(p)) \in FieldSeq
        BY <1>5, <3>2, CatType
      <4>2. Cat(Cat(b, Unit(p)), <<>>) = Cat(b, Unit(p))
        BY <4>1, CatEmpty
      <4> HIDE DEF b
      <4> QED BY <3>5, <4>2 DEF Cat
    <3>7. pos_ = Size(b) - 0
      <4>1. Size(behind) \in Int
        <5>1. Len(behind) \in Nat
          BY LenProperties DEF FieldSeq
        <5> QED BY <5>1, RunningSum DEF Size
      <4>2. pos_ = Size(b)
        BY <1>4, <3>3
      <4> HIDE DEF b
      <4> QED BY <1>4, <3>3, <4>1, <4>2
    <3>8. \A f \in Fields : read[f] = IF f \in Names(b)
                                      THEN Places(p)[f] - EarlyIn(p, f)
                                      ELSE NotRead
      <4> HIDE DEF b
      <4> QED BY <1>4, <3>4
    <3> HIDE DEF b
    <3> QED BY <3>2, <3>6, <3>7, <3>8 DEF Cursor
  <2>2. pc' = p.unit /\ p.unit \in UnitLabels
    BY <1>3, <1>7, <1>8 DEF Carried, Units, UnitLabels
  <2>3. /\ p.unit = "pes" => Unit(p) = PESFields(p)
        /\ p.unit \in {"pat", "cat", "pmt"} => Unit(p) = Section(p)
    BY <1>8 DEF Unit, Carried
  <2>4. Position'
    BY <1>1, <2>1, <2>2, <2>3 DEF Position, FrontInv, PESInv, SectionInv, EndedInv, InUnit,
                                  Done, StaysInPacket, UnitLabels
  <2>5. WayInv'
    BY <1>1, <1>8, <2>2 DEF WayInv, AdaptationLabels, UnitLabels, PESLabels, TableLabels
  <2>6. PartsInv'
    BY <1>1, <1>2, <2>2 DEF PartsInv, AdaptationLabels, UnitLabels, PESLabels, TableLabels
  <2> QED BY <2>4, <2>5, <2>6 DEF Walk
<1>9. CASE ~Carried(p)
  <2>1. InPlace(p, read)
    <3> SUFFICES ASSUME NEW f \in Fields
                 PROVE  read[f] = IF /\ f \in DOMAIN Places(p)
                                     /\ f \in Names(Unit(p)) => Stuffing(p) = 0
                                  THEN Places(p)[f] - EarlyIn(p, f)
                                  ELSE NotRead
      BY DEF InPlace
    <3>1. f \in Names(Unit(p)) => Stuffing(p) # 0
      <4>1. ~p.start \/ p.unit = "other" => Unit(p) = <<>>
        BY DEF Unit
      <4>2. ~p.start \/ p.unit = "other" => Names(Unit(p)) = {}
        BY <4>1, NoFields
      <4> QED BY <1>9, <4>2 DEF Carried
    <3>2. f \in Names(Unit(p)) <=> f \in Names(Behind(p))
      BY <1>5
    <3> QED BY <1>4, <3>1, <3>2
  <2>2. Position'
    BY <1>1, <1>7, <1>9, <2>1 DEF Position, FrontInv, PESInv, SectionInv, EndedInv, Done,
                                  StaysInPacket
  <2>3. WayInv'
    BY <1>1, <1>7, <1>9 DEF WayInv, AdaptationLabels, UnitLabels, PESLabels, TableLabels
  <2>4. PartsInv'
    BY <1>1, <1>2, <1>7, <1>9 DEF PartsInv, AdaptationLabels, UnitLabels, PESLabels,
                                  TableLabels, UnitPart
  <2> QED BY <2>2, <2>3, <2>4 DEF Walk
<1> QED BY <1>8, <1>9

-----------------------------------------------------------------------------
(* The PES header.                                                         *)

\* Fields of the unit are read.
LEMMA UnitReads ==
    ASSUME Inv
    PROVE  \A at, n, move, after, whole, chunk, s, lag, behind :
               /\ Decode(at, n, move, after)
               /\ n \in Int /\ move \in Int /\ lag \in Int
               /\ chunk \in FieldSeq /\ s \in FieldSeq
               /\ InUnit(whole, lag) /\ whole = Cat(chunk, s)
               /\ Covers(packet, at, chunk, lag) /\ n <= Size(chunk) + lag
               /\ behind = (lag + Size(chunk)) - move
               => \/ pc' = "overrun" /\ ~WellFormed(packet)
                  \/ pc' = after /\ Cursor(packet, s, <<>>, behind, pos_', read')
<1>1. \A at, n, move, after, whole, chunk, s, lag :
          /\ Decode(at, n, move, after)
          /\ n \in Int /\ move \in Int /\ lag \in Int
          /\ chunk \in FieldSeq /\ s \in FieldSeq
          /\ InUnit(whole, lag) /\ whole = Cat(chunk, s)
          /\ Covers(packet, at, chunk, lag) /\ n <= Size(chunk) + lag
          => \/ pc' = "overrun" /\ ~WellFormed(packet)
             \/ /\ pc' = after
                /\ Cursor(packet, s, <<>>, (lag + Size(chunk)) - move, pos_', read')
  BY SMTT(30), Passage, NoFields DEF Inv, InUnit
<1> QED BY SMTT(30), <1>1

\* The same if the cursor stands where the fields begin and passes them all.
LEMMA UnitRun ==
    ASSUME Inv
    PROVE  \A at, n, after, whole, chunk, s :
               /\ Decode(at, n, n, after)
               /\ chunk \in FieldSeq /\ s \in FieldSeq /\ n \in Int /\ Size(chunk) = n
               /\ InUnit(whole, 0) /\ whole = Cat(chunk, s) /\ Covers(packet, at, chunk, 0)
               => \/ pc' = "overrun" /\ ~WellFormed(packet)
                  \/ pc' = after /\ Cursor(packet, s, <<>>, 0, pos_', read')
<1> SUFFICES ASSUME NEW at, NEW n \in Int, NEW after, NEW whole, NEW chunk, NEW s,
                    Decode(at, n, n, after), chunk \in FieldSeq, s \in FieldSeq,
                    Size(chunk) = n, InUnit(whole, 0), whole = Cat(chunk, s),
                    Covers(packet, at, chunk, 0)
             PROVE  \/ pc' = "overrun" /\ ~WellFormed(packet)
                    \/ pc' = after /\ Cursor(packet, s, <<>>, 0, pos_', read')
  OBVIOUS
<1>1. 0 \in Int /\ n <= Size(chunk) + 0 /\ 0 = (0 + Size(chunk)) - n
  OBVIOUS
<1> QED BY <1>1, UnitReads

\* A field of the unit that may be left out.
LEMMA UnitOption ==
    ASSUME Inv
    PROVE  \A here, flag, name, n, after, whole, s, lag :
               /\ IfPresent(here, flag, name, n, after)
               /\ name \in FieldNames \cap Fields /\ EarlyIn(packet, name) = lag
               /\ n \in Nat /\ s \in FieldSeq /\ lag \in Nat
               /\ InUnit(whole, lag) /\ whole = Cat(Option(packet, flag, name, n), s)
               => \/ pc' = "overrun" /\ ~WellFormed(packet)
                  \/ pc' = after /\ Cursor(packet, s, <<>>, lag, pos_', read')
BY OptionPassage, NoFields DEF Inv, InUnit

\* When all fields are passed, each was read in its place.
LEMMA AllPassed ==
    ASSUME Inv, Carried(packet)
    PROVE  \A lag, pos, rd : Cursor(packet, <<>>, <<>>, lag, pos, rd) => InPlace(packet, rd)
<1> SUFFICES ASSUME NEW lag, NEW pos, NEW rd, Cursor(packet, <<>>, <<>>, lag, pos, rd)
             PROVE  InPlace(packet, rd)
  OBVIOUS
<1>1. PICK behind \in FieldSeq :
        /\ Layout(packet) = (behind \o <<>>) \o <<>>
        /\ \A f \in Fields : rd[f] = IF f \in Names(behind)
                                     THEN Places(packet)[f] - EarlyIn(packet, f)
                                     ELSE NotRead
  BY DEF Cursor
<1>2. Layout(packet) = behind
  <2>1. Layout(packet) = Cat(Cat(behind, <<>>), <<>>)
    BY <1>1 DEF Cat
  <2> QED BY <2>1, CatEmpty
<1>3. DOMAIN Places(packet) = Names(behind)
  BY <1>2, PlacesAre
<1> QED BY <1>1, <1>3 DEF InPlace, Carried

\* The groups of a PES header are sequences of fields.
LEMMA PESSequences ==
    ASSUME Inv
    PROVE  /\ FromESCR(packet) \in FieldSeq /\ FromESRate(packet) \in FieldSeq
           /\ FromTrick(packet) \in FieldSeq /\ FromCopyInfo(packet) \in FieldSeq
           /\ FromCRC(packet) \in FieldSeq /\ FromPESExtension(packet) \in FieldSeq
           /\ FromPESPrivate(packet) \in FieldSeq /\ FromPack(packet) \in FieldSeq
           /\ FromSequence(packet) \in FieldSeq /\ FromPStd(packet) \in FieldSeq
           /\ FromExtension2(packet) \in FieldSeq /\ FromPTS(packet) \in FieldSeq
           /\ FromPESFlags(packet) \in FieldSeq /\ <<>> \in FieldSeq
BY PacketIsLaidout, PESGroups, NoFields DEF Inv, Laidout, Group

\* The step to a label of the PES header, or to its end, once the cursor is
\* known to stand there.
LEMMA PESStep ==
    ASSUME Inv, Walk, pc \in PESLabels, UNCHANGED <<packet, list_, pointer, exist, blocks>>,
           pc' \in PESLabels \cup {"done"}, PESInv',
           pc' = "done" => InPlace(packet, read')
    PROVE  Walk'
<1>1. WayInv' /\ PartsInv'
  BY Along DEF Walk
<1>2. Position'
  BY DEF Position, FrontInv, SectionInv, EndedInv, Done, StaysInPacket, PESLabels
<1> QED BY <1>1, <1>2 DEF Walk

\* The steps over the PES header that read one optional field.
LEMMA PESOptions ==
    ASSUME Inv, Walk,
           \/ ESCR \/ ESRate \/ TrickMode \/ CopyInfo \/ PESCRC
           \/ PESPrivate \/ Sequence \/ PSTDBuffer
    PROVE  Walk'
<1> DEFINE p == packet
<1>1. UNCHANGED <<packet, list_, pointer, exist, blocks>>
  BY DEF ESCR, ESRate, TrickMode, CopyInfo, PESCRC, PESPrivate, Sequence, PSTDBuffer,
         IfPresent
<1>2. PESInv /\ WayInv
  BY DEF Walk, Position
<1>3. PackLag(p) \in Nat /\ 0 \in Nat
  BY PacketIsLaidout DEF Inv, Laidout, Sized, PackLag
<1>4. pc \in PESLabels /\ p.unit = "pes"
  BY <1>2 DEF WayInv, PESLabels, ESCR, ESRate, TrickMode, CopyInfo, PESCRC, PESPrivate,
              Sequence, PSTDBuffer, IfPresent
<1>5. /\ \A f : f \notin Late /\ f # "crc_32_" => EarlyIn(p, f) = 0
      /\ \A f \in Late : EarlyIn(p, f) = PackLag(p)
  BY <1>4, EarlyFacts
<1> USE FieldFacts DEF Late
<1>6. CASE ESCR
  <2>1. FromESCR(p) = Cat(Option(p, "escr", "escr_", 6), FromESRate(p))
    BY PESSequences DEF FromESCR, Cat
  <2>2. pc = "escr" /\ InUnit(FromESCR(p), 0)
    BY <1>2, <1>6 DEF PESInv, ESCR, IfPresent
  <2>3. EarlyIn(p, "escr_") = 0
    BY <1>5
  <2>4. \/ pc' = "overrun" /\ ~WellFormed(p)
        \/ pc' = "es_rate" /\ Cursor(p, FromESRate(p), <<>>, 0, pos_', read')
    BY <1>3, <1>6, <2>1, <2>2, <2>3, PESSequences, UnitOption DEF ESCR
  <2>5. CASE pc' = "es_rate" /\ Cursor(p, FromESRate(p), <<>>, 0, pos_', read')
    <3>1. PESInv'
      BY <1>1, <2>5 DEF PESInv, InUnit
    <3> QED BY <1>1, <1>4, <2>5, <3>1, PESStep DEF PESLabels
  <2> QED BY <1>1, <2>4, <2>5, Overrun
<1>7. CASE ESRate
  <2>1. FromESRate(p) = Cat(Option(p, "es_rate", "es_rate_", 3), FromTrick(p))
    BY PESSequences DEF FromESRate, Cat
  <2>2. pc = "es_rate" /\ InUnit(FromESRate(p), 0)
    BY <1>2, <1>7 DEF PESInv, ESRate, IfPresent
  <2>3. EarlyIn(p, "es_rate_") = 0
    BY <1>5
  <2>4. \/ pc' = "overrun" /\ ~WellFormed(p)
        \/ pc' = "trick" /\ Cursor(p, FromTrick(p), <<>>, 0, pos_', read')
    BY <1>3, <1>7, <2>1, <2>2, <2>3, PESSequences, UnitOption DEF ESRate
  <2>5. CASE pc' = "trick" /\ Cursor(p, FromTrick(p), <<>>, 0, pos_', read')
    <3>1. PESInv'
      BY <1>1, <2>5 DEF PESInv, InUnit
    <3> QED BY <1>1, <1>4, <2>5, <3>1, PESStep DEF PESLabels
  <2> QED BY <1>1, <2>4, <2>5, Overrun
<1>8. CASE TrickMode
  <2>1. FromTrick(p) = Cat(Option(p, "trick", "trick_mode_control_", 1), FromCopyInfo(p))
    BY PESSequences DEF FromTrick, Cat
  <2>2. pc = "trick" /\ InUnit(FromTrick(p), 0)
    BY <1>2, <1>8 DEF PESInv, TrickMode, IfPresent
  <2>3. EarlyIn(p, "trick_mode_control_") = 0
    BY <1>5
  <2>4. \/ pc' = "overrun" /\ ~WellFormed(p)
        \/ pc' = "copy_info" /\ Cursor(p, FromCopyInfo(p), <<>>, 0, pos_', read')
    BY <1>3, <1>8, <2>1, <2>2, <2>3, PESSequences, UnitOption DEF TrickMode
  <2>5. CASE pc' = "copy_info" /\ Cursor(p, FromCopyInfo(p), <<>>, 0, pos_', read')
    <3>1. PESInv'
      BY <1>1, <2>5 DEF PESInv, InUnit
    <3> QED BY <1>1, <1>4, <2>5, <3>1, PESStep DEF PESLabels
  <2> QED BY <1>1, <2>4, <2>5, Overrun
<1>9. CASE CopyInfo
  <2>1. FromCopyInfo(p) = Cat(Option(p, "copy_info", "additional_copy_info_", 1), FromCRC(p))
    BY PESSequences DEF FromCopyInfo, Cat
  <2>2. pc = "copy_info" /\ InUnit(FromCopyInfo(p), 0)
    BY <1>2, <1>9 DEF PESInv, CopyInfo, IfPresent
  <2>3. EarlyIn(p, "additional_copy_info_") = 0
    BY <1>5
  <2>4. \/ pc' = "overrun" /\ ~WellFormed(p)
        \/ pc' = "crc" /\ Cursor(p, FromCRC(p), <<>>, 0, pos_', read')
    BY <1>3, <1>9, <2>1, <2>2, <2>3, PESSequences, UnitOption DEF CopyInfo
  <2>5. CASE pc' = "crc" /\ Cursor(p, FromCRC(p), <<>>, 0, pos_', read')
    <3>1. PESInv'
      BY <1>1, <2>5 DEF PESInv, InUnit
    <3> QED BY <1>1, <1>4, <2>5, <3>1, PESStep DEF PESLabels
  <2> QED BY <1>1, <2>4, <2>5, Overrun
<1>10. CASE PESCRC
  <2>1. FromCRC(p) = Cat(Option(p, "crc", "previous_pes_packet_crc_", 2), FromPESExtension(p))
    BY PESSequences DEF FromCRC, Cat
  <2>2. pc = "crc" /\ InUnit(FromCRC(p), 0)
    BY <1>2, <1>10 DEF PESInv, PESCRC, IfPresent
  <2>3. EarlyIn(p, "previous_pes_packet_crc_") = 0
    BY <1>5
  <2>4. \/ pc' = "overrun" /\ ~WellFormed(p)
        \/ pc' = "pes_extension" /\ Cursor(p, FromPESExtension(p), <<>>, 0, pos_', read')
    BY <1>3, <1>10, <2>1, <2>2, <2>3, PESSequences, UnitOption DEF PESCRC
  <2>5. CASE pc' = "pes_extension" /\ Cursor(p, FromPESExtension(p), <<>>, 0, pos_', read')
    <3>1. PESInv'
      BY <1>1, <2>5 DEF PESInv, InUnit
    <3> QED BY <1>1, <1>4, <2>5, <3>1, PESStep DEF PESLabels
  <2> QED BY <1>1, <2>4, <2>5, Overrun
<1>11. CASE PESPrivate
  <2>1. FromPESPrivate(p) = Cat(Option(p, "pes_private", "pes_private_data_", 16), FromPack(p))
    BY PESSequences DEF FromPESPrivate, Cat
  <2>2. pc = "pes_private" /\ InUnit(FromPESPrivate(p), 0)
    BY <1>2, <1>11 DEF PESInv, PESPrivate, IfPresent
  <2>3. EarlyIn(p, "pes_private_data_") = 0
    BY <1>5
  <2>4. \/ pc' = "overrun" /\ ~WellFormed(p)
        \/ pc' = "pack" /\ Cursor(p, FromPack(p), <<>>, 0, pos_', read')
    BY <1>3, <1>11, <2>1, <2>2, <2>3, PESSequences, UnitOption DEF PESPrivate
  <2>5. CASE pc' = "pack" /\ Cursor(p, FromPack(p), <<>>, 0, pos_', read')
    <3>1. PESInv'
      BY <1>1, <2>5 DEF PESInv, InUnit
    <3> QED BY <1>1, <1>4, <2>5, <3>1, PESStep DEF PESLabels
  <2> QED BY <1>1, <2>4, <2>5, Overrun
<1>12. CASE Sequence
  <2>1. FromSequence(p)
          = Cat(Option(p, "sequence", "program_packet_sequence_counter_", 2), FromPStd(p))
    BY PESSequences DEF FromSequence, Cat
  <2>2. pc = "sequence" /\ InUnit(FromSequence(p), PackLag(p))
    BY <1>2, <1>12 DEF PESInv, Sequence, IfPresent
  <2>3. EarlyIn(p, "program_packet_sequence_counter_") = PackLag(p)
    BY <1>5
  <2>4. \/ pc' = "overrun" /\ ~WellFormed(p)
        \/ pc' = "p_std" /\ Cursor(p, FromPStd(p), <<>>, PackLag(p), pos_', read')
    BY <1>3, <1>12, <2>1, <2>2, <2>3, PESSequences, UnitOption DEF Sequence
  <2>5. CASE pc' = "p_std" /\ Cursor(p, FromPStd(p), <<>>, PackLag(p), pos_', read')
    <3>1. PESInv'
      BY <1>1, <2>5 DEF PESInv, InUnit
    <3> QED BY <1>1, <1>4, <2>5, <3>1, PESStep DEF PESLabels
  <2> QED BY <1>1, <2>4, <2>5, Overrun
<1>13. CASE PSTDBuffer
  <2>1. FromPStd(p) = Cat(Option(p, "p_std", "p_std_buffer_size_", 2), FromExtension2(p))
    BY PESSequences DEF FromPStd, Cat
  <2>2. pc = "p_std" /\ InUnit(FromPStd(p), PackLag(p))
    BY <1>2, <1>13 DEF PESInv, PSTDBuffer, IfPresent
  <2>3. EarlyIn(p, "p_std_buffer_size_") = PackLag(p)
    BY <1>5
  <2>4. \/ pc' = "overrun" /\ ~WellFormed(p)
        \/ pc' = "extension_2" /\ Cursor(p, FromExtension2(p), <<>>, PackLag(p), pos_', read')
    BY <1>3, <1>13, <2>1, <2>2, <2>3, PESSequences, UnitOption DEF PSTDBuffer
  <2>5. CASE pc' = "extension_2" /\ Cursor(p, FromExtension2(p), <<>>, PackLag(p), pos_', read')
    <3>1. PESInv'
      BY <1>1, <2>5 DEF PESInv, InUnit
    <3> QED BY <1>1, <1>4, <2>5, <3>1, PESStep DEF PESLabels
  <2> QED BY <1>1, <2>4, <2>5, Overrun
<1> QED BY <1>6, <1>7, <1>8, <1>9, <1>10, <1>11, <1>12, <1>13

\* The steps over the PES header that read flags or time stamps.
LEMMA PESFlagSteps ==
    ASSUME Inv, Walk, PESFlagBytes \/ PTS \/ PESExtensionFlags
    PROVE  Walk'
<1> DEFINE p == packet
<1>1. UNCHANGED <<packet, list_, pointer, exist, blocks>>
  BY DEF PESFlagBytes, PTS, PESExtensionFlags, Reads
<1>2. PESInv /\ WayInv
  BY DEF Walk, Position
<1>3. pc \in PESLabels /\ Carried(p) /\ p.pts_dts \in 0 .. 3
  <2>1. pc \in PESLabels
    BY DEF PESLabels, PESFlagBytes, PTS, PESExtensionFlags, Reads
  <2>2. p.pts_dts \in 0 .. 3
    BY DEF Inv, Types, TypeOK, PacketOK
  <2> QED BY <1>2, <2>1, <2>2 DEF WayInv
<1>4. \A f : f \notin Late /\ f # "crc_32_" => EarlyIn(p, f) = 0
  BY EarlyFacts
<1> USE FieldFacts DEF Late
<1>5. CASE PESFlagBytes
  <2>1. FromPESFlags(p) = Cat(PESFlagBlock, FromPTS(p))
    BY DEF FromPESFlags, Cat
  <2>2. pc = "pes_flags" /\ InUnit(FromPESFlags(p), 0) /\ Decode(PESFlagsAt, 3, 3, "pts")
    BY <1>2, <1>5 DEF PESInv, PESFlagBytes, Reads
  <2>3. DOMAIN PESFlagsAt = {"pes_flags", "pes_header_data_length_"}
        /\ PESFlagsAt["pes_flags"] = 0 /\ PESFlagsAt["pes_header_data_length_"] = 2
    BY DEF PESFlagsAt
  <2>4. Laid(PESFlagBlock, PESFlagsAt, 3)
    <3>1. Laid(PESFlagBlock, PESFlagsAt, 2 + 1)
      BY <2>3, LaidTwo DEF PESFlagBlock
    <3> QED BY <3>1
  <2>5. DOMAIN PESFlagsAt \subseteq Fields /\ \A f \in DOMAIN PESFlagsAt : EarlyIn(p, f) = 0
    BY <1>4, <2>3
  <2>6. /\ PESFlagBlock \in FieldSeq /\ Size(PESFlagBlock) = 3
        /\ Covers(p, PESFlagsAt, PESFlagBlock, 0)
    BY <2>4, <2>5, CoversAll
  <2>7. \/ pc' = "overrun" /\ ~WellFormed(p)
        \/ pc' = "pts" /\ Cursor(p, FromPTS(p), <<>>, 0, pos_', read')
    BY <2>1, <2>2, <2>6, PESSequences, UnitRun
  <2>8. CASE pc' = "pts" /\ Cursor(p, FromPTS(p), <<>>, 0, pos_', read')
    <3>1. PESInv'
      BY <1>1, <2>8 DEF PESInv, InUnit
    <3> QED BY <1>1, <1>3, <2>8, <3>1, PESStep DEF PESLabels
  <2> QED BY <1>1, <2>7, <2>8, Overrun
<1>6. CASE PTS
  <2>1. FromPTS(p) = Cat(Stamps(p), FromESCR(p))
    BY DEF FromPTS, Cat
  <2>2. pc = "pts" /\ InUnit(FromPTS(p), 0)
    BY <1>2, <1>6 DEF PESInv, PTS
  <2>3. Field("pts_", 5) \in FieldSeq /\ Size(Field("pts_", 5)) = 5
    BY OneField
  <2>4. \/ pc' = "overrun" /\ ~WellFormed(p)
        \/ pc' = "escr" /\ Cursor(p, FromESCR(p), <<>>, 0, pos_', read')
    <3>1. CASE p.pts_dts = 2
      <4>1. Stamps(p) = Field("pts_", 5)
        <5>1. Stamps(p) = Cat(Field("pts_", 5), <<>>)
          BY <3>1 DEF Stamps, Cat
        <5> QED BY <2>3, <5>1, CatEmpty
      <4>2. Decode([f \in {"pts_"} |-> 0], 5, 5, "escr")
        <5>1. [pts_ |-> 0] = [f \in {"pts_"} |-> 0]
          OBVIOUS
        <5> QED BY <1>6, <3>1, <5>1 DEF PTS
      <4>3. EarlyIn(p, "pts_") = 0
        BY <1>4
      <4>4. Covers(p, [f \in {"pts_"} |-> 0], Field("pts_", 5), 0)
        BY <4>3, CoversOne
      <4> QED BY <2>1, <2>2, <2>3, <4>1, <4>2, <4>4, PESSequences, UnitRun
    <3>2. CASE p.pts_dts = 3
      <4> DEFINE at == [pts_ |-> 0, dts_ |-> 5]
      <4>1. Stamps(p) = Field("pts_", 5) \o Field("dts_", 5)
        BY <3>2 DEF Stamps
      <4>2. Decode(at, 10, 10, "escr")
        BY <1>6, <3>2 DEF PTS
      <4>3. DOMAIN at = {"pts_", "dts_"} /\ at["pts_"] = 0 /\ at["dts_"] = 5
        OBVIOUS
      <4> HIDE DEF at
      <4>4. Laid(Stamps(p), at, 10)
        <5>1. Laid(Field("pts_", 5) \o Field("dts_", 5), at, 5 + 5)
          BY <4>3, LaidTwo
        <5> QED BY <4>1, <5>1
      <4>5. DOMAIN at \subseteq Fields /\ \A f \in DOMAIN at : EarlyIn(p, f) = 0
        BY <1>4, <4>3
      <4>6. Stamps(p) \in FieldSeq /\ Size(Stamps(p)) = 10 /\ Covers(p, at, Stamps(p), 0)
        BY <4>4, <4>5, CoversAll
      <4> QED BY <2>1, <2>2, <4>2, <4>6, PESSequences, UnitRun
    <3>3. CASE p.pts_dts \in {0, 1}
      <4>1. pc' = "escr" /\ UNCHANGED <<pos_, read>>
        BY <1>6, <3>3 DEF PTS, Skip
      <4>2. FromPTS(p) = FromESCR(p)
        <5>1. Stamps(p) = Cat(<<>>, <<>>)
          BY <3>3 DEF Stamps, Cat
        <5>2. Cat(<<>>, <<>>) = <<>>
          BY NoFields, CatEmpty
        <5> QED BY <2>1, <5>1, <5>2, PESSequences, CatEmpty
      <4> QED BY <2>2, <4>1, <4>2 DEF InUnit
    <3> QED BY <1>3, <3>1, <3>2, <3>3
  <2>5. CASE pc' = "escr" /\ Cursor(p, FromESCR(p), <<>>, 0, pos_', read')
    <3>1. PESInv'
      BY <1>1, <2>5 DEF PESInv, InUnit
    <3> QED BY <1>1, <1>3, <2>5, <3>1, PESStep DEF PESLabels
  <2> QED BY <1>1, <2>4, <2>5, Overrun
<1>7. CASE PESExtensionFlags
  <2>1. pc = "pes_extension" /\ InUnit(FromPESExtension(p), 0)
    BY <1>2, <1>7 DEF PESInv, PESExtensionFlags
  <2>2. CASE "pes_extension" \in p.flags
    <3> DEFINE chunk == Field("pes_extension_flags", 1)
    <3>1. FromPESExtension(p) = Cat(chunk, FromPESPrivate(p))
      BY <2>2 DEF FromPESExtension, Optional, Cat
    <3>2. Decode([f \in {"pes_extension_flags"} |-> 0], 1, 1, "pes_private")
      <4>1. [pes_extension_flags |-> 0] = [f \in {"pes_extension_flags"} |-> 0]
        OBVIOUS
      <4> QED BY <1>7, <2>2, <4>1 DEF PESExtensionFlags
    <3>3. EarlyIn(p, "pes_extension_flags") = 0
      BY <1>4
    <3>4. chunk \in FieldSeq /\ Size(chunk) = 1
      BY OneField
    <3>5. Covers(p, [f \in {"pes_extension_flags"} |-> 0], chunk, 0)
      BY <3>3, CoversOne
    <3> HIDE DEF chunk
    <3>6. \/ pc' = "overrun" /\ ~WellFormed(p)
          \/ pc' = "pes_private" /\ Cursor(p, FromPESPrivate(p), <<>>, 0, pos_', read')
      BY <2>1, <3>1, <3>2, <3>4, <3>5, PESSequences, UnitRun
    <3>7. CASE pc' = "pes_private" /\ Cursor(p, FromPESPrivate(p), <<>>, 0, pos_', read')
      <4>1. PESInv'
        BY <1>1, <3>7 DEF PESInv, InUnit
      <4> QED BY <1>1, <1>3, <3>7, <4>1, PESStep DEF PESLabels
    <3> QED BY <1>1, <3>6, <3>7, Overrun
  <2>3. CASE "pes_extension" \notin p.flags
    <3>1. pc' = "done" /\ UNCHANGED <<pos_, read>>
      BY <1>7, <2>3 DEF PESExtensionFlags, Skip
    <3>2. FromPESExtension(p) = <<>>
      BY <2>3 DEF FromPESExtension, Optional
    <3>3. InPlace(p, read')
      BY <1>3, <2>1, <3>1, <3>2, AllPassed DEF InUnit
    <3>4. PESInv'
      BY <3>1 DEF PESInv
    <3> QED BY <1>1, <1>3, <3>1, <3>3, <3>4, PESStep
  <2> QED BY <2>2, <2>3
<1> QED BY <1>5, <1>6, <1>7

\* The pack header is not skipped, nor the second extension.
LEMMA PESLateSteps ==
    ASSUME Inv, Walk, PackLength \/ Extension2
    PROVE  Walk'
<1> DEFINE p == packet
<1>1. UNCHANGED <<packet, list_, pointer, exist, blocks>>
  BY DEF PackLength, Extension2, IfPresent
<1>2. PESInv /\ WayInv
  BY DEF Walk, Position
<1>3. pc \in PESLabels /\ Carried(p) /\ p.unit = "pes"
  <2>1. pc \in PESLabels
    BY DEF PESLabels, PackLength, Extension2, IfPresent
  <2> QED BY <1>2, <2>1 DEF WayInv
<1>4. p.pack \in Nat /\ PackLag(p) \in Nat
  BY PacketIsLaidout DEF Inv, Laidout, Sized, PackLag
<1>5. /\ \A f : f \notin Late /\ f # "crc_32_" => EarlyIn(p, f) = 0
      /\ \A f \in Late : EarlyIn(p, f) = PackLag(p)
  BY <1>3, EarlyFacts
<1> USE FieldFacts DEF Late
<1>6. CASE PackLength
  <2>1. pc = "pack" /\ InUnit(FromPack(p), 0)
    BY <1>2, <1>6 DEF PESInv, PackLength, IfPresent
  <2>2. CASE "pack" \in p.flags
    <3> DEFINE at   == [f \in {"pack_field_length_"} |-> 0]
               full == [pack_field_length_ |-> 0, pack_header |-> 1]
               chunk == PackBlock(p)
    <3>1. FromPack(p) = Cat(chunk, FromSequence(p))
      BY <2>2 DEF FromPack, Optional, Cat
    <3>2. Decode(at, 1, 1, "sequence")
      BY <1>6, <2>2 DEF PackLength, IfPresent
    <3>3. /\ DOMAIN full = {"pack_field_length_", "pack_header"}
          /\ full["pack_field_length_"] = 0 /\ full["pack_header"] = 1
      OBVIOUS
    <3>4. DOMAIN at = {"pack_field_length_"} /\ at["pack_field_length_"] = 0
      OBVIOUS
    <3> HIDE DEF at, full
    <3>5. Laid(chunk, full, 1 + p.pack)
      BY <1>4, <3>3, LaidTwo DEF PackBlock
    <3>6. DOMAIN at = DOMAIN full \cap Fields
      BY <3>3, <3>4
    <3>7. \A f \in DOMAIN at : at[f] = full[f] /\ EarlyIn(p, f) = 0
      BY <1>5, <3>3, <3>4
    <3> HIDE DEF chunk
    <3>8. chunk \in FieldSeq /\ Size(chunk) = 1 + p.pack /\ Covers(p, at, chunk, 0)
      BY <3>5, <3>6, <3>7, CoversLaid
    <3> DEFINE lag == PackLag(p)
    <3>9. 1 <= Size(chunk) + 0 /\ lag = (0 + Size(chunk)) - 1
      BY <1>4, <2>2, <3>8 DEF PackLag
    <3> HIDE DEF lag
    <3>10. \/ pc' = "overrun" /\ ~WellFormed(p)
           \/ /\ pc' = "sequence"
              /\ Cursor(p, FromSequence(p), <<>>, lag, pos_', read')
      <4>1. 0 \in Int /\ 1 \in Int /\ chunk \in FieldSeq /\ Covers(p, at, chunk, 0)
        BY <3>8
      <4> QED BY <2>1, <3>1, <3>2, <3>9, <4>1, PESSequences, UnitReads
    <3>11. CASE /\ pc' = "sequence"
                /\ Cursor(p, FromSequence(p), <<>>, lag, pos_', read')
      <4>1. PESInv'
        BY <1>1, <3>11 DEF lag, PESInv, InUnit
      <4> QED BY <1>1, <1>3, <3>11, <4>1, PESStep DEF PESLabels
    <3> QED BY <1>1, <3>10, <3>11, Overrun
  <2>3. CASE "pack" \notin p.flags
    <3>1. pc' = "sequence" /\ UNCHANGED <<pos_, read>>
      BY <1>6, <2>3 DEF PackLength, IfPresent, Skip
    <3>2. FromPack(p) = FromSequence(p) /\ PackLag(p) = 0
      <4>1. FromPack(p) = Cat(<<>>, FromSequence(p))
        BY <2>3 DEF FromPack, Optional, Cat
      <4> QED BY <2>3, <4>1, PESSequences, CatEmpty DEF PackLag
    <3>3. PESInv'
      BY <1>1, <2>1, <3>1, <3>2 DEF PESInv, InUnit
    <3> QED BY <1>1, <1>3, <3>1, <3>3, PESStep DEF PESLabels
  <2> QED BY <2>2, <2>3
<1>7. CASE Extension2
  <2>1. pc = "extension_2" /\ InUnit(FromExtension2(p), PackLag(p))
    BY <1>2, <1>7 DEF PESInv, Extension2
  <2>2. CASE "extension_2" \in p.flags
    <3> DEFINE chunk == Field("pes_extension_field_length_", 1)
               lag   == PackLag(p)
    <3>1. chunk \in FieldSeq /\ Size(chunk) = 1
      BY OneField
    <3>2. FromExtension2(p) = Cat(chunk, <<>>)
      <4>1. FromExtension2(p) = chunk
        BY <2>2 DEF FromExtension2, Option, Optional
      <4> QED BY <3>1, <4>1, CatEmpty
    <3>3. Decode([f \in {"pes_extension_field_length_"} |-> 0], 1, 0, "done")
      <4>1. [pes_extension_field_length_ |-> 0]
              = [f \in {"pes_extension_field_length_"} |-> 0]
        OBVIOUS
      <4> QED BY <1>7, <2>2, <4>1 DEF Extension2
    <3>4. EarlyIn(p, "pes_extension_field_length_") = lag
      BY <1>5
    <3>5. Covers(p, [f \in {"pes_extension_field_length_"} |-> 0], chunk, lag)
      BY SMTT(30), <3>4, CoversOne
    <3> HIDE DEF chunk, lag
    <3>6. lag \in Int /\ 1 <= Size(chunk) + lag /\ lag + 1 = (lag + Size(chunk)) - 0
      BY <1>4, <3>1 DEF lag
    <3>7. InUnit(FromExtension2(p), lag)
      BY <2>1 DEF lag
    <3>8. \/ pc' = "overrun" /\ ~WellFormed(p)
          \/ pc' = "done" /\ Cursor(p, <<>>, <<>>, lag + 1, pos_', read')
      <4> DEFINE at == [f \in {"pes_extension_field_length_"} |-> 0]
                 whole == FromExtension2(p)
                 none == <<>>
                 n == 1
                 move == 0
                 after == "done"
                 behind == lag + 1
      <4>1. Decode(at, n, move, after) /\ Covers(packet, at, chunk, lag)
        BY <3>3, <3>5
      <4>2. /\ chunk \in FieldSeq /\ none \in FieldSeq
            /\ InUnit(whole, lag) /\ whole = Cat(chunk, none)
        BY <3>1, <3>2, <3>7, PESSequences
      <4>3. n \in Int /\ move \in Int /\ n <= Size(chunk) + lag
            /\ behind = (lag + Size(chunk)) - move
        BY <3>6
      <4>4. \/ pc' = "overrun" /\ ~WellFormed(packet)
            \/ pc' = after /\ Cursor(packet, none, <<>>, behind, pos_', read')
        <5> HIDE DEF at, whole, none, n, move, after, behind
        <5> QED BY <3>6, <4>1, <4>2, <4>3, UnitReads
      <4> QED BY <4>4
    <3>9. CASE pc' = "done" /\ Cursor(p, <<>>, <<>>, lag + 1, pos_', read')
      <4>1. InPlace(p, read')
        BY <1>3, <3>9, AllPassed
      <4>2. PESInv'
        BY <3>9 DEF PESInv
      <4> QED BY <1>1, <1>3, <3>9, <4>1, <4>2, PESStep
    <3> QED BY <1>1, <3>8, <3>9, Overrun
  <2>3. CASE "extension_2" \notin p.flags
    <3>1. pc' = "done" /\ UNCHANGED <<pos_, read>>
      BY <1>7, <2>3 DEF Extension2, Skip
    <3>2. FromExtension2(p) = <<>>
      BY <2>3 DEF FromExtension2, Option, Optional
    <3>3. InPlace(p, read')
      BY <1>3, <2>1, <3>1, <3>2, AllPassed DEF InUnit
    <3>4. PESInv'
      BY <3>1 DEF PESInv
    <3> QED BY <1>1, <1>3, <3>1, <3>3, <3>4, PESStep
  <2> QED BY <2>2, <2>3
<1> QED BY <1>6, <1>7

-----------------------------------------------------------------------------
(* The sections.                                                           *)

\* What is laid out at some distances is laid out at the same ones.
LEMMA LaidSame ==
    \A s, at, n, at2 :
        /\ Laid(s, at, n) /\ DOMAIN at2 = DOMAIN at /\ \A f \in DOMAIN at2 : at2[f] = at[f]
        => Laid(s, at2, n)
BY DEF Laid

\* Where the code reads the header of a section and the start of a PES header.
LEMMA HeadersLaid ==
    Laid(SectionHeader, SectionAt, 9) /\ Laid(PESBlock, PESAt, 6)
<1>1. Laid(SectionHeader, SectionAt, 9)
  <2> DEFINE s2 == Field("pointer_field_", 1) \o Field("table_id_", 1)
  <2> DEFINE s3 == s2 \o Field("section_length_", 2)
  <2> DEFINE s4 == s3 \o Field("table_id_extension", 2)
  <2> DEFINE s5 == s4 \o Field("version_number_", 1)
  <2> DEFINE s6 == s5 \o Field("section_number_", 1)
  <2> DEFINE s7 == s6 \o Field("last_section_number_", 1)
  <2> DEFINE n2 == {"pointer_field_", "table_id_"}
  <2> DEFINE n3 == n2 \cup {"section_length_"}
  <2> DEFINE n4 == n3 \cup {"table_id_extension"}
  <2> DEFINE n5 == n4 \cup {"version_number_"}
  <2> DEFINE n6 == n5 \cup {"section_number_"}
  <2> DEFINE n7 == n6 \cup {"last_section_number_"}
  <2> DEFINE a(ns) == [f \in ns |-> SectionAt[f]]
  <2>1. /\ SectionAt["pointer_field_"] = 0
        /\ SectionAt["table_id_"] = 1
        /\ SectionAt["section_length_"] = 2
        /\ SectionAt["table_id_extension"] = 4
        /\ SectionAt["version_number_"] = 6
        /\ SectionAt["section_number_"] = 7
        /\ SectionAt["last_section_number_"] = 8
    BY DEF SectionAt
  <2>2. Laid(s2, a(n2), 2)
    <3>1. /\ DOMAIN a(n2) = {"pointer_field_", "table_id_"}
          /\ a(n2)["pointer_field_"] = 0 /\ a(n2)["table_id_"] = 1
      BY <2>1
    <3> HIDE DEF a
    <3>2. Laid(s2, a(n2), 1 + 1)
      BY <3>1, LaidTwo, FieldFacts
    <3> QED BY <3>2
  <2>3. Laid(s3, a(n3), 4)
    <3>1. /\ "section_length_" \notin DOMAIN a(n2)
          /\ DOMAIN a(n3) = DOMAIN a(n2) \cup {"section_length_"}
          /\ a(n3)["section_length_"] = 2
          /\ \A f \in DOMAIN a(n2) : a(n3)[f] = a(n2)[f]
      BY <2>1
    <3>2. "section_length_" \in FieldNames /\ 2 \in Int /\ 2 \in Int
      BY FieldFacts
    <3> HIDE DEF a, n2, n3, s2
    <3>3. Laid(s3, a(n3), 2 + 2)
      BY <2>2, <3>1, <3>2, LaidNext
    <3> QED BY <3>3
  <2>4. Laid(s4, a(n4), 6)
    <3>1. /\ "table_id_extension" \notin DOMAIN a(n3)
          /\ DOMAIN a(n4) = DOMAIN a(n3) \cup {"table_id_extension"}
          /\ a(n4)["table_id_extension"] = 4
          /\ \A f \in DOMAIN a(n3) : a(n4)[f] = a(n3)[f]
      BY <2>1
    <3>2. "table_id_extension" \in FieldNames /\ 4 \in Int /\ 2 \in Int
      BY FieldFacts
    <3> HIDE DEF a, n3, n4, s3
    <3>3. Laid(s4, a(n4), 4 + 2)
      BY <2>3, <3>1, <3>2, LaidNext
    <3> QED BY <3>3
  <2>5. Laid(s5, a(n5), 7)
    <3>1. /\ "version_number_" \notin DOMAIN a(n4)
          /\ DOMAIN a(n5) = DOMAIN a(n4) \cup {"version_number_"}
          /\ a(n5)["version_number_"] = 6
          /\ \A f \in DOMAIN a(n4) : a(n5)[f] = a(n4)[f]
      BY <2>1
    <3>2. "version_number_" \in FieldNames /\ 6 \in Int /\ 1 \in Int
      BY FieldFacts
    <3> HIDE DEF a, n4, n5, s4
    <3>3. Laid(s5, a(n5), 6 + 1)
      BY <2>4, <3>1, <3>2, LaidNext
    <3> QED BY <3>3
  <2>6. Laid(s6, a(n6), 8)
    <3>1. /\ "section_number_" \notin DOMAIN a(n5)
          /\ DOMAIN a(n6) = DOMAIN a(n5) \cup {"section_number_"}
          /\ a(n6)["section_number_"] = 7
          /\ \A f \in DOMAIN a(n5) : a(n6)[f] = a(n5)[f]
      BY <2>1
    <3>2. "section_number_" \in FieldNames /\ 7 \in Int /\ 1 \in Int
      BY FieldFacts
    <3> HIDE DEF a, n5, n6, s5
    <3>3. Laid(s6, a(n6), 7 + 1)
      BY <2>5, <3>1, <3>2, LaidNext
    <3> QED BY <3>3
  <2>7. Laid(s7, a(n7), 9)
    <3>1. /\ "last_section_number_" \notin DOMAIN a(n6)
          /\ DOMAIN a(n7) = DOMAIN a(n6) \cup {"last_section_number_"}
          /\ a(n7)["last_section_number_"] = 8
          /\ \A f \in DOMAIN a(n6) : a(n7)[f] = a(n6)[f]
      BY <2>1
    <3>2. "last_section_number_" \in FieldNames /\ 8 \in Int /\ 1 \in Int
      BY FieldFacts
    <3> HIDE DEF a, n6, n7, s6
    <3>3. Laid(s7, a(n7), 8 + 1)
      BY <2>6, <3>1, <3>2, LaidNext
    <3> QED BY <3>3
  <2>8. DOMAIN SectionAt = n7 /\ s7 = SectionHeader
    BY DEF SectionAt, SectionHeader
  <2>9. DOMAIN a(n7) = DOMAIN SectionAt /\ \A f \in DOMAIN SectionAt : SectionAt[f] = a(n7)[f]
    BY <2>8
  <2> HIDE DEF a, n7, s7
  <2> QED BY <2>7, <2>8, <2>9, LaidSame
<1>2. Laid(PESBlock, PESAt, 6)
  <2> DEFINE s2 == Field("packet_start_code_prefix_", 3) \o Field("stream_id_", 1)
  <2> DEFINE s3 == s2 \o Field("pes_packet_length_", 2)
  <2> DEFINE n2 == {"packet_start_code_prefix_", "stream_id_"}
  <2> DEFINE n3 == n2 \cup {"pes_packet_length_"}
  <2> DEFINE a(ns) == [f \in ns |-> PESAt[f]]
  <2>1. /\ PESAt["packet_start_code_prefix_"] = 0
        /\ PESAt["stream_id_"] = 3
        /\ PESAt["pes_packet_length_"] = 4
    BY DEF PESAt
  <2>2. Laid(s2, a(n2), 4)
    <3>1. /\ DOMAIN a(n2) = {"packet_start_code_prefix_", "stream_id_"}
          /\ a(n2)["packet_start_code_prefix_"] = 0 /\ a(n2)["stream_id_"] = 3
      BY <2>1
    <3> HIDE DEF a
    <3>2. Laid(s2, a(n2), 3 + 1)
      BY <3>1, LaidTwo, FieldFacts
    <3> QED BY <3>2
  <2>3. Laid(s3, a(n3), 6)
    <3>1. /\ "pes_packet_length_" \notin DOMAIN a(n2)
          /\ DOMAIN a(n3) = DOMAIN a(n2) \cup {"pes_packet_length_"}
          /\ a(n3)["pes_packet_length_"] = 4
          /\ \A f \in DOMAIN a(n2) : a(n3)[f] = a(n2)[f]
      BY <2>1
    <3>2. "pes_packet_length_" \in FieldNames /\ 4 \in Int /\ 2 \in Int
      BY FieldFacts
    <3> HIDE DEF a, n2, n3, s2
    <3>3. Laid(s3, a(n3), 4 + 2)
      BY <2>2, <3>1, <3>2, LaidNext
    <3> QED BY <3>3
  <2>4. DOMAIN PESAt = n3 /\ s3 = PESBlock
    BY DEF PESAt, PESBlock
  <2>5. DOMAIN a(n3) = DOMAIN PESAt /\ \A f \in DOMAIN PESAt : PESAt[f] = a(n3)[f]
    BY <2>4
  <2> HIDE DEF a, n3, s3
  <2> QED BY <2>3, <2>4, <2>5, LaidSame
<1> QED BY <1>1, <1>2

\* Where it reads the header of a programme map, whose descriptors it skips.
LEMMA MapLaid ==
    ASSUME NEW p, Sized(p), p.unit = "pmt"
    PROVE  \E full : /\ Laid(SectionBlock(p), full, 13 + p.info)
                     /\ DOMAIN PMTAt = DOMAIN full \cap Fields
                     /\ \A f \in DOMAIN PMTAt : PMTAt[f] = full[f]
<1> DEFINE full == [f \in DOMAIN PMTAt \cup {"program_info"} |->
                        IF f = "program_info" THEN 13 ELSE PMTAt[f]]
           a(ns) == [f \in ns |-> full[f]]
           n7  == DOMAIN SectionAt
           n8  == n7 \cup {"pcr_pid_"}
           n9  == n8 \cup {"program_info_length_"}
           n10 == n9 \cup {"program_info"}
           A   == Field("pcr_pid_", 2)
           B   == Field("program_info_length_", 2)
           C   == Field("program_info", p.info)
           s8  == SectionHeader \o A
           s9  == s8 \o B
           s10 == s9 \o C
<1>1. /\ n7 = {"pointer_field_", "table_id_", "section_length_", "table_id_extension",
               "version_number_", "section_number_", "last_section_number_"}
      /\ \A f \in n7 : SectionAt[f] = PMTAt[f]
      /\ n9 = DOMAIN PMTAt /\ PMTAt["pcr_pid_"] = 9 /\ PMTAt["program_info_length_"] = 11
  BY DEF SectionAt, PMTAt
<1>2. /\ \A f \in n7 : full[f] = SectionAt[f]
      /\ full["pcr_pid_"] = 9 /\ full["program_info_length_"] = 11
      /\ full["program_info"] = 13
  BY <1>1
<1>3. p.info \in Int
  BY DEF Sized
<1>7. Laid(SectionHeader, a(n7), 9)
  <2>1. DOMAIN a(n7) = DOMAIN SectionAt /\ \A f \in DOMAIN a(n7) : a(n7)[f] = SectionAt[f]
    BY <1>2
  <2> HIDE DEF a
  <2> QED BY <2>1, HeadersLaid, LaidSame
<1>8. Laid(s8, a(n8), 11)
  <2>1. /\ "pcr_pid_" \notin DOMAIN a(n7) /\ DOMAIN a(n8) = DOMAIN a(n7) \cup {"pcr_pid_"}
        /\ a(n8)["pcr_pid_"] = 9
        /\ \A f \in DOMAIN a(n7) : a(n8)[f] = a(n7)[f]
    BY <1>1, <1>2
  <2>2. "pcr_pid_" \in FieldNames /\ 9 \in Int /\ 2 \in Int
    BY FieldFacts
  <2> HIDE DEF a, n7, n8
  <2>3. Laid(s8, a(n8), 9 + 2)
    BY <1>7, <2>1, <2>2, LaidNext
  <2> QED BY <2>3
<1>9. Laid(s9, a(n9), 13)
  <2>1. /\ "program_info_length_" \notin DOMAIN a(n8)
        /\ DOMAIN a(n9) = DOMAIN a(n8) \cup {"program_info_length_"}
        /\ a(n9)["program_info_length_"] = 11
        /\ \A f \in DOMAIN a(n8) : a(n9)[f] = a(n8)[f]
    BY <1>1, <1>2
  <2>2. "program_info_length_" \in FieldNames /\ 11 \in Int /\ 2 \in Int
    BY FieldFacts
  <2> HIDE DEF a, n8, n9, s8
  <2>3. Laid(s9, a(n9), 11 + 2)
    BY <1>8, <2>1, <2>2, LaidNext
  <2> QED BY <2>3
<1>10. Laid(s10, a(n10), 13 + p.info)
  <2>1. /\ "program_info" \notin DOMAIN a(n9)
        /\ DOMAIN a(n10) = DOMAIN a(n9) \cup {"program_info"}
        /\ a(n10)["program_info"] = 13
        /\ \A f \in DOMAIN a(n9) : a(n10)[f] = a(n9)[f]
    BY <1>1, <1>2
  <2>2. "program_info" \in FieldNames /\ 13 \in Int
    BY FieldFacts
  <2> HIDE DEF a, n9, n10, s9
  <2> QED BY <1>3, <1>9, <2>1, <2>2, LaidNext
<1>11. s10 = SectionBlock(p)
  <2>1. SectionHeader \in FieldSeq
    BY HeadersLaid DEF Laid
  <2>2. A \in FieldSeq /\ B \in FieldSeq /\ C \in FieldSeq
    BY <1>3, FieldFacts, OneField
  <2> HIDE DEF A, B, C
  <2>3. Cat(Cat(Cat(SectionHeader, A), B), C) = Cat(SectionHeader, Cat(A, Cat(B, C)))
    BY <2>1, <2>2, Regroup4
  <2>4. Cat(Cat(A, B), C) = Cat(A, Cat(B, C))
    BY <2>2, Regroup3
  <2>5. s10 = Cat(Cat(Cat(SectionHeader, A), B), C)
    BY DEF Cat
  <2>6. SectionBlock(p) = Cat(SectionHeader, Cat(Cat(A, B), C))
    BY DEF SectionBlock, MapFields, Cat, A, B, C
  <2> QED BY <2>3, <2>4, <2>5, <2>6
<1>12. /\ DOMAIN PMTAt = DOMAIN a(n10) \cap Fields
       /\ \A f \in DOMAIN PMTAt : PMTAt[f] = a(n10)[f]
  <2>1. "program_info" \notin Fields /\ DOMAIN PMTAt \subseteq Fields
    BY FieldFacts DEF Fields
  <2> QED BY <1>1, <2>1
<1> HIDE DEF a, n10, s10
<1> QED BY <1>10, <1>11, <1>12

\* Fields the code does not read are left behind.
LEMMA PassedOver ==
    \A p, chunk, s, rest, lag, pos, rd, behind :
        /\ Laidout(p) /\ chunk \in FieldSeq /\ s \in FieldSeq /\ rest \in FieldSeq
        /\ lag \in Int /\ Names(chunk) \cap Fields = {}
        /\ Cursor(p, Cat(chunk, s), rest, lag, pos, rd)
        /\ behind = lag + Size(chunk)
        => Cursor(p, s, rest, behind, pos, rd)
<1> SUFFICES ASSUME NEW p, NEW chunk \in FieldSeq, NEW s \in FieldSeq, NEW rest \in FieldSeq,
                    NEW lag \in Int, NEW pos, NEW rd, Laidout(p),
                    Names(chunk) \cap Fields = {}, Cursor(p, chunk \o s, rest, lag, pos, rd)
             PROVE  Cursor(p, s, rest, lag + Size(chunk), pos, rd)
  BY DEF Cat
<1>1. /\ DOMAIN NoField = Names(chunk) \cap Fields
      /\ \A f \in DOMAIN NoField : NoField[f] = At(chunk, f) /\ EarlyIn(p, f) = lag
      /\ \A f \in Fields : rd[f] = IF f \in DOMAIN NoField THEN pos + NoField[f] ELSE rd[f]
  BY DEF NoField
<1> DEFINE at == NoField
           move == 0
<1>2. move \in Int
  OBVIOUS
<1>3. Cursor(p, s, rest, (lag + Size(chunk)) - move, pos + move, rd)
  <2> HIDE DEF at, move
  <2>1. /\ DOMAIN at = Names(chunk) \cap Fields
        /\ \A f \in DOMAIN at : at[f] = At(chunk, f) /\ EarlyIn(p, f) = lag
        /\ \A f \in Fields : rd[f] = IF f \in DOMAIN at THEN pos + at[f] ELSE rd[f]
    BY <1>1 DEF at
  <2> QED BY <1>2, <2>1, Advance
<1>4. Size(chunk) \in Int /\ pos \in Int
  <2>1. PICK b \in FieldSeq : pos = Size(b) - lag
    BY DEF Cursor
  <2>2. Len(chunk) \in Nat /\ Len(b) \in Nat
    BY LenProperties DEF FieldSeq
  <2>3. Size(chunk) \in Int /\ Size(b) \in Int
    BY <2>2, RunningSum DEF Size
  <2> QED BY <2>1, <2>3
<1>5. (lag + Size(chunk)) - move = lag + Size(chunk) /\ pos + move = pos
  BY <1>4
<1> HIDE DEF move
<1> QED BY <1>3, <1>5

\* The parts of a section.
LEMMA SectionParts ==
    ASSUME Inv
    PROVE  /\ Section(packet) = Cat(SectionBlock(packet), FromList(packet))
           /\ FromList(packet) = Cat(Field("list", ListSize(packet)), Field("crc_32_", 4))
           /\ SectionBlock(packet) \in FieldSeq /\ FromList(packet) \in FieldSeq
           /\ ListSize(packet) \in Int
           /\ Field("list", ListSize(packet)) \in FieldSeq
           /\ Size(Field("list", ListSize(packet))) = ListSize(packet)
           /\ Names(Field("list", ListSize(packet))) \cap Fields = {}
           /\ Field("crc_32_", 4) \in FieldSeq /\ Size(Field("crc_32_", 4)) = 4
           /\ packet.unit # "pmt" => SectionBlock(packet) = SectionHeader
<1>1. Sized(packet)
  BY PacketIsLaidout DEF Inv, Laidout
<1>2. /\ Section(packet) = Cat(SectionBlock(packet), FromList(packet))
      /\ SectionBlock(packet) \in FieldSeq /\ FromList(packet) \in FieldSeq
      /\ ListSize(packet) \in Int /\ SectionHeader \in FieldSeq
  BY <1>1, SectionJoined, SectionGroups DEF Cat, Group, Named
<1>3. /\ Field("list", ListSize(packet)) \in FieldSeq
      /\ Size(Field("list", ListSize(packet))) = ListSize(packet)
      /\ Names(Field("list", ListSize(packet))) = {"list"}
  BY <1>2, FieldFacts, OneField
<1>4. Field("crc_32_", 4) \in FieldSeq /\ Size(Field("crc_32_", 4)) = 4
  BY FieldFacts, OneField
<1>5. "list" \notin Fields
  BY FieldFacts
<1>6. packet.unit # "pmt" => SectionBlock(packet) = SectionHeader
  <2>1. packet.unit # "pmt" => SectionBlock(packet) = Cat(SectionHeader, <<>>)
    BY DEF SectionBlock, Cat
  <2> QED BY <1>2, <2>1, CatEmpty
<1>7. FromList(packet) = Cat(Field("list", ListSize(packet)), Field("crc_32_", 4))
  BY DEF FromList, Cat
<1> QED BY <1>2, <1>3, <1>4, <1>5, <1>6, <1>7

\* What is held after an allocation.
LEMMA HoldersMore ==
    \A taken, owner, n : Holders(taken \cup {<<owner, n>>}) = Holders(taken) \cup {owner}
<1> SUFFICES ASSUME NEW taken, NEW owner, NEW n
             PROVE  Holders(taken \cup {<<owner, n>>}) = Holders(taken) \cup {owner}
  OBVIOUS
<1>1. Holders({<<owner, n>>}) = {owner}
  BY DEF Holders
<1> QED BY <1>1 DEF Holders

\* The part that starts a unit: it exists from then on, and holds its list.
LEMMA PartStarts ==
    ASSUME WayInv, PartsInv, UNCHANGED packet, pc \in UnitLabels,
           exist' = exist \cup {pc},
           Holders(blocks') = Holders(blocks) \cup ({pc} \cap {"pat", "pmt"}),
           \/ pc = "pes" /\ pc' = "done"
           \/ pc = "pes" /\ pc' = "pes_flags" /\ packet.stream_id \notin PlainStreams
           \/ pc = "pat" /\ pc' = "programmes"
           \/ pc = "cat" /\ pc' = "crc_32"
           \/ pc = "pmt" /\ pc' = "streams"
    PROVE  WayInv' /\ PartsInv'
<1>1. Carried(packet) /\ packet.unit = pc
  BY DEF WayInv
<1>2. UnitPart(packet) = {pc} /\ exist = AdaptationPart(packet)
      /\ Holders(blocks) = PrivatePart(packet)
  BY <1>1 DEF UnitPart, PartsInv
<1>3. WayInv'
  BY <1>1 DEF WayInv, AdaptationLabels, UnitLabels, PESLabels, TableLabels
<1>4. PartsInv'
  BY <1>2 DEF PartsInv, AdaptationLabels, UnitLabels, PESLabels, TableLabels
<1> QED BY <1>3, <1>4

\* The start of a PES header.
LEMMA PESStarts ==
    ASSUME Inv, Walk, PESStart
    PROVE  Walk'
<1> DEFINE p     == packet
           after == IF HasNoOptionalHeader(p.stream_id) THEN "done" ELSE "pes_flags"
           s     == IF p.stream_id \in PlainStreams THEN <<>> ELSE FromPESFlags(p)
<1>1. /\ UNCHANGED <<packet, list_, pointer, blocks>> /\ exist' = exist \cup {"pes"}
      /\ pc = "pes" /\ Decode(PESAt, 6, 6, after)
  BY DEF PESStart, Reads, Exists
<1>2. WayInv /\ PartsInv /\ InUnit(PESFields(p), 0)
  BY <1>1 DEF Walk, Position, PESInv
<1>3. Carried(p)
  BY <1>1, <1>2 DEF WayInv, UnitLabels
<1>4. PESFields(p) = Cat(PESBlock, s) /\ s \in FieldSeq /\ PESBlock \in FieldSeq
  <2>1. Sized(p)
    BY PacketIsLaidout DEF Inv, Laidout
  <2>2. PESBlock \in FieldSeq
    BY HeadersLaid DEF Laid
  <2>3. Cat(PESBlock, <<>>) = PESBlock
    BY <2>2, CatEmpty
  <2> QED BY <2>1, <2>2, <2>3, PESJoined, PESSequences DEF Cat
<1>5. PESBlock \in FieldSeq /\ Size(PESBlock) = 6 /\ Covers(p, PESAt, PESBlock, 0)
  <2>1. DOMAIN PESAt = {"packet_start_code_prefix_", "stream_id_", "pes_packet_length_"}
    BY DEF PESAt
  <2>2. DOMAIN PESAt \subseteq Fields /\ \A f \in DOMAIN PESAt : EarlyIn(p, f) = 0
    BY <2>1, FieldFacts, EarlyFacts DEF Late
  <2> QED BY <2>2, HeadersLaid, CoversAll
<1>6. /\ after = "done" => s = <<>>
      /\ after = "pes_flags" => p.stream_id \notin PlainStreams /\ s = FromPESFlags(p)
      /\ after \in {"done", "pes_flags"}
  BY DEF HasNoOptionalHeader, PlainStreams
<1> HIDE DEF s, after
<1>7. \/ pc' = "overrun" /\ ~WellFormed(p)
      \/ pc' = after /\ Cursor(p, s, <<>>, 0, pos_', read')
  BY <1>1, <1>2, <1>4, <1>5, UnitRun
<1>8. CASE pc' = after /\ Cursor(p, s, <<>>, 0, pos_', read')
  <2>1. WayInv' /\ PartsInv'
    BY <1>1, <1>2, <1>6, <1>8, PartStarts DEF UnitLabels
  <2>2. pc' = "done" => InPlace(p, read')
    BY <1>3, <1>6, <1>8, AllPassed
  <2>3. Position'
    BY <1>1, <1>6, <1>8, <2>2 DEF Position, FrontInv, PESInv, SectionInv, EndedInv, InUnit,
                                  Done, StaysInPacket
  <2> QED BY <2>1, <2>3 DEF Walk
<1> QED BY <1>1, <1>7, <1>8, Overrun

\* The header of a PAT or CAT.
LEMMA TableStarts ==
    ASSUME Inv, Walk, PATHeader \/ CATHeader
    PROVE  Walk'
<1> DEFINE p     == packet
           after == IF pc = "pat" THEN "programmes" ELSE "crc_32"
<1>1. /\ UNCHANGED <<packet, list_, pointer>> /\ exist' = exist \cup {pc}
      /\ pc \in {"pat", "cat"} /\ Decode(SectionAt, 9, 9, after)
  BY DEF PATHeader, CATHeader, Exists
<1>2. WayInv /\ PartsInv /\ InUnit(Section(p), 0) /\ list_ = <<>>
  BY <1>1 DEF Walk, Position, SectionInv, Inv, RoomInv, ListLabels
<1>3. Carried(p) /\ p.unit = pc
  BY <1>1, <1>2 DEF WayInv, UnitLabels
<1>4. /\ Section(p) = Cat(SectionHeader, FromList(p)) /\ FromList(p) \in FieldSeq
      /\ SectionHeader \in FieldSeq
  BY <1>1, <1>3, SectionParts
<1>5. SectionHeader \in FieldSeq /\ Size(SectionHeader) = 9
      /\ Covers(p, SectionAt, SectionHeader, 0)
  <2>1. DOMAIN SectionAt = {"pointer_field_", "table_id_", "section_length_",
              "table_id_extension", "version_number_", "section_number_",
              "last_section_number_"}
    BY DEF SectionAt
  <2>2. DOMAIN SectionAt \subseteq Fields /\ \A f \in DOMAIN SectionAt : EarlyIn(p, f) = 0
    BY <2>1, FieldFacts, EarlyFacts DEF Late
  <2> QED BY <2>2, HeadersLaid, CoversAll
<1>6. \/ pc' = "overrun" /\ ~WellFormed(p)
      \/ pc' = after /\ Cursor(p, FromList(p), <<>>, 0, pos_', read')
  <2> HIDE DEF after
  <2> QED BY <1>1, <1>2, <1>4, <1>5, UnitRun
<1>7. CASE pc' = after /\ Cursor(p, FromList(p), <<>>, 0, pos_', read')
  <2>1. Holders(blocks') = Holders(blocks) \cup ({pc} \cap {"pat", "pmt"})
    <3>1. CASE pc = "pat"
      <4>1. blocks' = blocks \cup {<<"pat", PATSize>>}
        BY <1>7, <3>1 DEF PATHeader, CATHeader, Allocate
      <4>2. Holders(blocks') = Holders(blocks) \cup {"pat"}
        BY <4>1, HoldersMore
      <4> QED BY <3>1, <4>2
    <3>2. CASE pc = "cat"
      BY <3>2 DEF PATHeader, CATHeader
    <3> QED BY <1>1, <3>1, <3>2
  <2>2. WayInv' /\ PartsInv'
    BY <1>1, <1>2, <1>7, <2>1, PartStarts DEF UnitLabels
  <2>3. pc = "cat" => Cursor(p, Field("crc_32_", 4), <<>>, ListSize(p), pos_', read')
    <3>1. 0 \in Int /\ ListSize(p) = 0 + ListSize(p)
      BY SectionParts
    <3>2. Laidout(p)
      BY PacketIsLaidout DEF Inv
    <3> QED BY <1>7, <3>1, <3>2, SectionParts, NoFields, PassedOver
  <2>4. 0 - 4 * Len(list_) = 0
    <3>1. Len(list_) = 0
      BY <1>2
    <3>2. 0 - 4 * 0 = 0
      OBVIOUS
    <3> QED BY <3>1, <3>2
  <2>5. CASE pc = "pat"
    <3>1. pc' = "programmes" /\ Cursor(p, FromList(p), <<>>, 0 - 4 * Len(list_), pos_', read')
      BY <1>7, <2>4, <2>5
    <3> QED BY <1>1, <2>2, <3>1 DEF Walk, Position, FrontInv, PESInv, SectionInv, EndedInv,
                                    InUnit, Done, StaysInPacket
  <2>6. CASE pc = "cat"
    <3>1. pc' = "crc_32" /\ Cursor(p, Field("crc_32_", 4), <<>>, ListSize(p), pos_', read')
      BY <1>7, <2>3, <2>6
    <3> QED BY <1>1, <1>3, <2>2, <2>6, <3>1 DEF Walk, Position, FrontInv, PESInv, SectionInv,
                                    EndedInv, InUnit, Done, StaysInPacket
  <2> QED BY <1>1, <2>5, <2>6
<1> QED BY <1>1, <1>6, <1>7, Overrun

\* The header of a programme map.
LEMMA MapStarts ==
    ASSUME Inv, Walk, PMTHeader
    PROVE  Walk'
<1> DEFINE p == packet
           chunk == SectionBlock(p)
           n == 13 + p.info
<1>1. /\ UNCHANGED <<packet, list_>> /\ exist' = exist \cup {"pmt"} /\ pointer' = 1
      /\ pc = "pmt" /\ Decode(PMTAt, 13, n, "streams")
  BY DEF PMTHeader, Exists
<1>2. WayInv /\ PartsInv /\ InUnit(Section(p), 0)
  BY <1>1 DEF Walk, Position, SectionInv
<1>3. Carried(p) /\ p.unit = "pmt"
  BY <1>1, <1>2 DEF WayInv, UnitLabels
<1>4. Sized(p) /\ p.info \in Nat
  BY PacketIsLaidout DEF Inv, Laidout, Sized
<1>5. chunk \in FieldSeq /\ Size(chunk) = n /\ Covers(p, PMTAt, chunk, 0)
  <2>1. PICK full : /\ Laid(chunk, full, n)
                    /\ DOMAIN PMTAt = DOMAIN full \cap Fields
                    /\ \A f \in DOMAIN PMTAt : PMTAt[f] = full[f]
    BY <1>3, <1>4, MapLaid
  <2>2. DOMAIN PMTAt = {"pointer_field_", "table_id_", "section_length_",
              "table_id_extension", "version_number_", "section_number_",
              "last_section_number_", "pcr_pid_", "program_info_length_"}
    BY DEF PMTAt
  <2>3. \A f \in DOMAIN PMTAt : EarlyIn(p, f) = 0
    BY <2>2, EarlyFacts DEF Late
  <2> HIDE DEF n, chunk
  <2> QED BY <2>1, <2>3, CoversLaid
<1>6. /\ Section(p) = Cat(chunk, FromList(p)) /\ FromList(p) \in FieldSeq
  BY SectionParts
<1>7. 13 \in Int /\ n \in Int /\ 0 \in Int /\ 13 <= Size(chunk) + 0 /\ 0 = (0 + Size(chunk)) - n
  BY <1>4, <1>5
<1>8. \/ pc' = "overrun" /\ ~WellFormed(p)
      \/ pc' = "streams" /\ Cursor(p, FromList(p), <<>>, 0, pos_', read')
  <2> HIDE DEF chunk, n
  <2>1. chunk \in FieldSeq /\ Covers(p, PMTAt, chunk, 0)
    BY <1>5
  <2> QED BY <1>1, <1>2, <1>6, <1>7, <2>1, UnitReads
<1>9. CASE pc' = "streams" /\ Cursor(p, FromList(p), <<>>, 0, pos_', read')
  <2>1. Holders(blocks') = Holders(blocks) \cup ({pc} \cap {"pat", "pmt"})
    <3>1. blocks' = blocks \cup {<<"pmt", PMTSize>>}
      BY <1>9 DEF PMTHeader, Allocate
    <3>2. Holders(blocks') = Holders(blocks) \cup {"pmt"}
      BY <3>1, HoldersMore
    <3> QED BY <1>1, <3>2
  <2>2. WayInv' /\ PartsInv'
    BY <1>1, <1>2, <1>9, <2>1, PartStarts DEF UnitLabels
  <2>3. 1 - pointer' = 0
    BY <1>1
  <2> QED BY <1>1, <1>9, <2>2, <2>3 DEF Walk, Position, FrontInv, PESInv, SectionInv,
                                        EndedInv, InUnit, Done, StaysInPacket
<1> QED BY <1>1, <1>8, <1>9, Overrun

-----------------------------------------------------------------------------
(* The lists.                                                              *)

\* Where the entries were read; that a PAT has no more than it has room for and
\* in the end all of them; and that the loop over the streams of a map whose
\* lengths add up stands behind an entry, no further than the last.
ListsInv ==
    /\ list_ # <<>> => ("pat" \in exist <=> packet.unit = "pat")
    /\ \A i \in DOMAIN list_ :
          /\ packet.unit = "pat" => list_[i] = Places(packet)["list"] + 4 * (i - 1)
          /\ packet.unit # "pat" /\ i < Len(packet.ends) /\ list_[i] + 5 <= PACKET_SIZE =>
                list_[i] = Places(packet)["list"] + packet.ends[i]
    /\ pc = "programmes" => list_ = <<>> \/ Len(list_) <= PATSize
    /\ pc = "streams" /\ WellFormed(packet) =>
          /\ OnEntry
          /\ \E k \in DOMAIN packet.ends : packet.ends[k] = PMTSize /\ Len(list_) + 1 <= k
    /\ packet.unit = "pmt" /\ WellFormed(packet) => list_ = <<>> \/ Len(list_) <= PMTSize
    /\ pc \in {"crc_32", "done"} /\ WellFormed(packet) /\ Carried(packet)
       /\ packet.unit = "pat" => 4 * Len(list_) = ListSize(packet)

\* The entries of a programme map have at least five bytes each.
LEMMA EndsGrow ==
    ASSUME NEW ends \in Seq(Nat), \A i \in 1 .. Len(ends) - 1 : ends[i + 1] >= ends[i] + 5
    PROVE  \A j, k \in 1 .. Len(ends) : j <= k => ends[k] >= ends[j] + 5 * (k - j)
<1> DEFINE S == {n \in Nat : \A j \in 1 .. Len(ends) :
                                j + n <= Len(ends) => ends[j + n] >= ends[j] + 5 * n}
<1>1. Len(ends) \in Nat /\ \A i \in 1 .. Len(ends) : ends[i] \in Nat
  BY LenProperties, ElementOfSeq
<1>2. 0 \in S
  BY <1>1
<1>3. ASSUME NEW n \in Nat, n \in S PROVE n + 1 \in S
  <2> SUFFICES ASSUME NEW j \in 1 .. Len(ends), j + (n + 1) <= Len(ends)
               PROVE  ends[j + (n + 1)] >= ends[j] + 5 * (n + 1)
    OBVIOUS
  <2>1. j + n \in 1 .. Len(ends) - 1 /\ j + n <= Len(ends)
    BY <1>1
  <2>2. ends[j + n] >= ends[j] + 5 * n
    BY <1>3, <2>1
  <2>3. ends[(j + n) + 1] >= ends[j + n] + 5
    BY <2>1
  <2>4. (j + n) + 1 = j + (n + 1) /\ j + (n + 1) \in 1 .. Len(ends) /\ j + n \in 1 .. Len(ends)
    BY <1>1, <2>1
  <2>5. ends[j + (n + 1)] \in Nat /\ ends[j + n] \in Nat /\ ends[j] \in Nat
    BY <1>1, <2>4
  <2>6. ends[j + (n + 1)] >= ends[j + n] + 5
    BY <2>3, <2>4
  <2>7. 5 * (n + 1) = 5 * n + 5 /\ 5 * n \in Nat
    OBVIOUS
  <2> DEFINE x == ends[j + (n + 1)]
             y == ends[j + n]
             z == ends[j]
             m == 5 * n
  <2>8. /\ x \in Nat /\ y \in Nat /\ z \in Nat /\ m \in Nat
        /\ x >= y + 5 /\ y >= z + m /\ 5 * (n + 1) = m + 5
    BY <2>2, <2>5, <2>6, <2>7
  <2> HIDE DEF x, y, z, m
  <2>9. x >= z + 5 * (n + 1)
    BY <2>8
  <2> QED BY <2>9 DEF x, z
<1>4. Nat \subseteq S
  <2> HIDE DEF S
  <2> QED BY <1>2, <1>3, SetInduction
<1> SUFFICES ASSUME NEW j \in 1 .. Len(ends), NEW k \in 1 .. Len(ends), j <= k
             PROVE  ends[k] >= ends[j] + 5 * (k - j)
  OBVIOUS
<1>5. k - j \in Nat /\ j + (k - j) = k
  BY <1>1
<1>6. k - j \in S
  BY <1>4, <1>5
<1> QED BY <1>1, <1>5, <1>6

\* In a list the cursor is as far behind its start as it is ahead of its lag.
LEMMA ListPlace ==
    ASSUME Inv
    PROVE  \A lag : lag \in Int /\ InUnit(FromList(packet), lag) =>
                      /\ pos_ = Places(packet)["list"] - lag
                      /\ Places(packet)["list"] \in Int
<1> SUFFICES ASSUME NEW lag \in Int, InUnit(FromList(packet), lag)
             PROVE  /\ pos_ = Places(packet)["list"] - lag
                    /\ Places(packet)["list"] \in Int
  OBVIOUS
<1> DEFINE L == Field("list", ListSize(packet))
           C == Field("crc_32_", 4)
<1>1. PICK behind \in FieldSeq :
        /\ Layout(packet) = (behind \o FromList(packet)) \o <<>>
        /\ pos_ = Size(behind) - lag
  BY DEF InUnit, Cursor
<1>2. L \in FieldSeq /\ C \in FieldSeq /\ Distinct(L) /\ Distinct(C)
      /\ Names(L) = {"list"} /\ Names(C) = {"crc_32_"} /\ At(L, "list") = 0
  BY SectionParts, FieldFacts, OneField
<1>3. FromList(packet) \in FieldSeq /\ FromList(packet) = L \o C
  BY SectionParts DEF FromList
<1>4. "list" \in Names(FromList(packet)) /\ At(FromList(packet), "list") = 0
  <2>1. Names(L) \cap Names(C) = {} /\ "list" \in Names(L)
    BY <1>2
  <2> HIDE DEF L, C
  <2>2. At(L \o C, "list") = At(L, "list") /\ Names(L \o C) = Names(L) \cup Names(C)
    BY <1>2, <2>1, Joined, NamesOfConcat
  <2> QED BY <1>2, <1>3, <2>1, <2>2
<1>5. Layout(packet) = Cat(Cat(behind, FromList(packet)), <<>>)
  BY <1>1 DEF Cat
<1>6. Laidout(packet)
  BY PacketIsLaidout DEF Inv
<1>7. Places(packet)["list"] = Size(behind) + At(FromList(packet), "list")
  <2> DEFINE c == FromList(packet)
             t == <<>>
  <2>1. /\ c \in FieldSeq /\ t \in FieldSeq /\ "list" \in Names(c)
        /\ Layout(packet) = Cat(Cat(behind, c), t)
    BY <1>3, <1>4, <1>5, NoFields
  <2> HIDE DEF c, t
  <2>2. Places(packet)["list"] = Size(behind) + At(c, "list")
    BY <1>6, <2>1, PlaceBetween
  <2> QED BY <2>2 DEF c
<1>8. Size(behind) \in Int
  <2>1. Len(behind) \in Nat
    BY LenProperties DEF FieldSeq
  <2> QED BY <2>1, RunningSum DEF Size
<1> QED BY <1>1, <1>4, <1>7, <1>8

\* An entry is read, or the packet does not hold it.
LEMMA EntryRead ==
    ASSUME Inv
    PROVE  \A n, move, after, lag, next :
               /\ Decode(NoField, n, move, after)
               /\ n \in Int /\ move \in Int /\ lag \in Int
               /\ InUnit(FromList(packet), lag)
               /\ WellFormed(packet) => n <= ListSize(packet) + lag
               /\ next = lag - move
               => \/ pc' = "overrun" /\ ~WellFormed(packet)
                  \/ /\ pc' = after /\ pos_' = pos_ + move
                     /\ Cursor(packet, FromList(packet), <<>>, next, pos_', read')
<1> SUFFICES ASSUME NEW n \in Int, NEW move \in Int, NEW after, NEW lag \in Int,
                    Decode(NoField, n, move, after), InUnit(FromList(packet), lag),
                    WellFormed(packet) => n <= ListSize(packet) + lag
             PROVE  \/ pc' = "overrun" /\ ~WellFormed(packet)
                    \/ /\ pc' = after /\ pos_' = pos_ + move
                       /\ Cursor(packet, FromList(packet), <<>>, lag - move, pos_', read')
  OBVIOUS
<1> DEFINE L == Field("list", ListSize(packet))
           C == Field("crc_32_", 4)
<1>1. Laidout(packet) /\ Stuffing(packet) >= 0 /\ pos_ \in Nat
  BY PacketIsLaidout DEF Inv, Types, TypeOK
<1>2. Cursor(packet, L \o C, <<>>, lag, pos_, read)
  BY DEF InUnit, FromList
<1>3. L \in FieldSeq /\ C \in FieldSeq /\ Size(L) = ListSize(packet) /\ <<>> \in FieldSeq
      /\ FromList(packet) \in FieldSeq
  BY SectionParts, NoFields
<1>4. CASE pos_ + n <= PACKET_SIZE
  <2>1. /\ pc' = after /\ pos_' = pos_ + move
        /\ \A f \in Fields : read'[f] = IF f \in DOMAIN NoField THEN pos_ + NoField[f]
                                                              ELSE read[f]
    BY <1>4 DEF Decode
  <2> DEFINE at == NoField
             chunk == <<>>
             s == FromList(packet)
             rest == <<>>
  <2>2. /\ chunk \in FieldSeq /\ Names(chunk) = {} /\ Size(chunk) = 0 /\ s \in FieldSeq
        /\ rest \in FieldSeq /\ DOMAIN at = {}
    BY <1>3, NoFields DEF NoField
  <2>3. Cursor(packet, chunk \o s, rest, lag, pos_, read)
    <3>1. Cat(<<>>, FromList(packet)) = FromList(packet)
      BY <1>3, CatEmpty
    <3>2. chunk \o s = FromList(packet)
      BY <3>1 DEF Cat
    <3> HIDE DEF chunk
    <3> QED BY <3>2 DEF InUnit
  <2>4. \A f \in Fields : read'[f] = IF f \in DOMAIN at THEN pos_ + at[f] ELSE read[f]
    BY <2>1
  <2> HIDE DEF at, chunk, s, rest
  <2>5. DOMAIN at = Names(chunk) \cap Fields
        /\ \A f \in DOMAIN at : at[f] = At(chunk, f) /\ EarlyIn(packet, f) = lag
    BY <2>2
  <2>6. Cursor(packet, s, rest, (lag + Size(chunk)) - move, pos_ + move, read')
    BY <1>1, <2>2, <2>3, <2>4, <2>5, Advance
  <2>7. (lag + Size(chunk)) - move = lag - move
    BY <2>2
  <2> QED BY <2>1, <2>6, <2>7 DEF s, rest
<1>5. CASE ~(pos_ + n <= PACKET_SIZE)
  <2>1. pc' = "overrun"
    BY <1>5 DEF Decode
  <2>2. ~WellFormed(packet)
    <3> HIDE DEF L, C
    <3> SUFFICES ASSUME WellFormed(packet) PROVE FALSE
      OBVIOUS
    <3>1. n <= Size(L) + lag
      BY <1>3
    <3> QED BY <1>1, <1>2, <1>3, <1>5, <3>1, InPacket
  <2> QED BY <2>1, <2>2
<1> QED BY <1>4, <1>5

\* One more programme.
LEMMA ProgrammeRead ==
    ASSUME Inv, Walk, ListsInv, PATEntry
    PROVE  Walk' /\ ListsInv'
<1> DEFINE p == packet
           x == ListSize(p)
<1>1. /\ UNCHANGED <<packet, pointer, exist, blocks>> /\ pc = "programmes"
      /\ Len(list_) < PATSize /\ Decode(NoField, 4, 4, "programmes")
      /\ list_' = IF pc' = "overrun" THEN list_ ELSE Append(list_, pos_)
  BY DEF PATEntry
<1>2. /\ WayInv /\ PartsInv /\ InUnit(FromList(p), 0 - 4 * Len(list_))
  BY <1>1 DEF Walk, Position, SectionInv
<1>3. Carried(p) /\ p.unit = "pat" /\ exist = AdaptationPart(p) \cup {"pat"}
  BY <1>1, <1>2 DEF WayInv, PartsInv, TableLabels, UnitPart
<1>4. list_ \in Seq(Nat) /\ Len(list_) \in Nat /\ pos_ \in Nat
  <2>1. list_ \in Seq(Nat) /\ pos_ \in Nat
    BY DEF Inv, Types, TypeOK
  <2> QED BY <2>1, LenProperties
<1>5. x \in Int /\ PATSize = Quotient(x, 4)
  BY <1>3, SectionParts DEF PATSize, ListSize
<1>6. WellFormed(p) => 4 <= x + (0 - 4 * Len(list_))
  <2>1. WellFormed(p) => x >= 0
    BY <1>3 DEF WellFormed, EntriesFit, Carried
  <2> HIDE DEF x
  <2> QED BY <1>1, <1>4, <1>5, <2>1 DEF Quotient
<1>7. \/ pc' = "overrun" /\ ~WellFormed(p)
      \/ /\ pc' = "programmes" /\ pos_' = pos_ + 4
         /\ Cursor(p, FromList(p), <<>>, (0 - 4 * Len(list_)) - 4, pos_', read')
  <2> DEFINE lag == 0 - 4 * Len(list_)
  <2>1. lag \in Int
    BY <1>4
  <2>2. 4 \in Int /\ Decode(NoField, 4, 4, "programmes")
    BY <1>1
  <2>3. InUnit(FromList(p), lag) /\ (WellFormed(p) => 4 <= ListSize(p) + lag)
    BY <1>2, <1>6
  <2> HIDE DEF lag
  <2>4. \/ pc' = "overrun" /\ ~WellFormed(p)
        \/ /\ pc' = "programmes" /\ pos_' = pos_ + 4
           /\ Cursor(p, FromList(p), <<>>, lag - 4, pos_', read')
    BY <2>1, <2>2, <2>3, EntryRead
  <2> QED BY <2>4 DEF lag
<1>8. CASE pc' = "overrun" /\ ~WellFormed(p)
  <2>1. Walk'
    BY <1>1, <1>8, Overrun
  <2>2. ListsInv'
    BY <1>1, <1>8 DEF ListsInv
  <2> QED BY <2>1, <2>2
<1>9. CASE /\ pc' = "programmes"
           /\ Cursor(p, FromList(p), <<>>, (0 - 4 * Len(list_)) - 4, pos_', read')
  <2>1. /\ list_' = Append(list_, pos_) /\ Len(list_') = Len(list_) + 1
        /\ DOMAIN list_' = 1 .. Len(list_) + 1 /\ DOMAIN list_ = 1 .. Len(list_)
        /\ list_'[Len(list_) + 1] = pos_
        /\ \A i \in 1 .. Len(list_) : list_'[i] = list_[i]
    BY <1>1, <1>4, <1>9, AppendProperties, LenProperties
  <2>2. (0 - 4 * Len(list_)) - 4 = 0 - 4 * Len(list_')
    BY <1>4, <2>1
  <2>3. Position'
    <3>1. Cursor(p, FromList(p), <<>>, 0 - 4 * Len(list_'), pos_', read')
      BY <1>9, <2>2
    <3> QED BY <1>1, <1>9, <3>1 DEF Position, FrontInv, PESInv, SectionInv, EndedInv, InUnit,
                                    Done, StaysInPacket
  <2>4. WayInv'
    BY <1>1, <1>2, <1>9 DEF WayInv
  <2>5. PartsInv'
    BY <1>1, <1>2, <1>9 DEF PartsInv
  <2>6. pos_ = Places(p)["list"] + 4 * Len(list_) /\ Places(p)["list"] \in Int
    <3>1. 0 - 4 * Len(list_) \in Int
      BY <1>4
    <3>2. /\ pos_ = Places(p)["list"] - (0 - 4 * Len(list_))
          /\ Places(p)["list"] \in Int
      BY <1>2, <3>1, ListPlace
    <3> QED BY <1>4, <3>2
  <2>7. ASSUME NEW i \in DOMAIN list_'
        PROVE  list_'[i] = Places(p)["list"] + 4 * (i - 1)
    <3>1. CASE i \in 1 .. Len(list_)
      BY <1>3, <2>1, <3>1 DEF ListsInv
    <3>2. CASE i = Len(list_) + 1
      <4>1. i - 1 = Len(list_)
        BY <1>4, <3>2
      <4> QED BY <2>1, <2>6, <3>2, <4>1
    <3> QED BY <1>4, <2>1, <3>1, <3>2
  <2>8. Len(list_') <= PATSize'
    BY <1>1, <1>4, <1>5, <2>1 DEF PATSize, Quotient
  <2>9. ListsInv'
    BY <1>1, <1>3, <1>9, <2>7, <2>8 DEF ListsInv
  <2> QED BY <2>3, <2>4, <2>5, <2>9 DEF Walk
<1> QED BY <1>7, <1>8, <1>9

\* In front of a stream of a programme map whose lengths add up: the packet and
\* the list hold the entry.
LEMMA StreamFits ==
    ASSUME Inv, Walk, ListsInv, pc = "streams", pointer # PMTSize + 1, WellFormed(packet)
    PROVE  /\ \E k \in 1 .. Len(packet.ends) :
                 /\ packet.ends[k] = PMTSize /\ Len(list_) + 1 < k
                 /\ pointer = packet.ends[Len(list_) + 1] + 1
           /\ Len(list_) < PMTSize /\ PMTSize \in Nat
           /\ pos_ + 5 <= PACKET_SIZE
<1> DEFINE p == packet
           n == Len(list_)
<1>1. WayInv /\ InUnit(FromList(p), 1 - pointer)
  BY DEF Walk, Position, SectionInv
<1>2. Carried(p) /\ p.unit = "pmt"
  BY <1>1 DEF WayInv, TableLabels
<1>3. /\ list_ \in Seq(Nat) /\ n \in Nat /\ pos_ \in Nat /\ pointer \in Nat
      /\ p.ends \in Seq(Nat) /\ p.ends # <<>> /\ p.ends[1] = 0 /\ Len(p.ends) \in Nat
      /\ \A i \in 1 .. Len(p.ends) - 1 : p.ends[i + 1] >= p.ends[i] + 5
      /\ DOMAIN p.ends = 1 .. Len(p.ends) /\ \A i \in 1 .. Len(p.ends) : p.ends[i] \in Nat
  <2>1. /\ list_ \in Seq(Nat) /\ pos_ \in Nat /\ pointer \in Nat
        /\ p.ends \in Seq(Nat) /\ p.ends # <<>> /\ p.ends[1] = 0
        /\ \A i \in 1 .. Len(p.ends) - 1 : p.ends[i + 1] >= p.ends[i] + 5
    BY DEF Inv, Types, TypeOK, PacketOK
  <2> QED BY <2>1, LenProperties, ElementOfSeq
<1>4. ListSize(p) = PMTSize /\ PMTSize \in Int
  BY <1>2, MapSize, Sizes DEF Inv
<1>5. PICK k \in 1 .. Len(p.ends) : p.ends[k] = PMTSize /\ n + 1 <= k
  BY <1>3 DEF ListsInv
<1>6. n < Len(p.ends) /\ pointer = p.ends[n + 1] + 1
  BY DEF ListsInv, OnEntry
<1>7. n + 1 # k
  BY <1>5, <1>6
<1>8. n + 1 \in 1 .. Len(p.ends) /\ 1 \in 1 .. Len(p.ends) /\ n + 1 < k
  <2>1. n \in Nat /\ Len(p.ends) \in Nat
    BY <1>3
  <2>2. k \in 1 .. Len(p.ends) /\ n + 1 <= k /\ n < Len(p.ends) /\ n + 1 # k
    BY <1>5, <1>6, <1>7
  <2> HIDE DEF n
  <2> QED BY <2>1, <2>2
<1>9. /\ p.ends[k] >= p.ends[n + 1] + 5 * (k - (n + 1))
      /\ p.ends[n + 1] >= p.ends[1] + 5 * ((n + 1) - 1)
  <2> DEFINE ends == p.ends
             m == n + 1
  <2>1. /\ ends \in Seq(Nat) /\ \A i \in 1 .. Len(ends) - 1 : ends[i + 1] >= ends[i] + 5
        /\ m \in 1 .. Len(ends) /\ 1 \in 1 .. Len(ends) /\ k \in 1 .. Len(ends)
        /\ m <= k /\ 1 <= m
    BY <1>3, <1>8
  <2> HIDE DEF ends, m
  <2>2. \A i, j \in 1 .. Len(ends) : i <= j => ends[j] >= ends[i] + 5 * (j - i)
    BY <2>1, EndsGrow
  <2>3. ends[k] >= ends[m] + 5 * (k - m) /\ ends[m] >= ends[1] + 5 * (m - 1)
    BY <2>1, <2>2
  <2> QED BY <2>3 DEF ends, m
<1> DEFINE y == p.ends[n + 1]
<1>10. y \in Nat /\ PMTSize >= y + 5 * (k - (n + 1)) /\ y >= 5 * n /\ pointer = y + 1
  <2>1. 0 + 5 * ((n + 1) - 1) = 5 * n
    BY <1>3
  <2> QED BY <1>3, <1>5, <1>6, <1>8, <1>9, <2>1
<1>11. PMTSize >= y + 5 /\ n < PMTSize /\ PMTSize \in Nat
  <2> HIDE DEF y
  <2> QED BY <1>3, <1>4, <1>8, <1>10
<1>12. pos_ + 5 <= PACKET_SIZE
  <2> DEFINE L == Field("list", ListSize(p))
             C == Field("crc_32_", 4)
             lag == 1 - pointer
  <2>1. Laidout(p) /\ Stuffing(p) >= 0
    BY PacketIsLaidout DEF Inv
  <2>2. Cursor(p, L \o C, <<>>, lag, pos_, read)
    BY <1>1 DEF InUnit, FromList
  <2>3. L \in FieldSeq /\ C \in FieldSeq /\ Size(L) = ListSize(p) /\ <<>> \in FieldSeq
    BY SectionParts, NoFields
  <2>4. lag \in Int /\ 5 \in Int /\ 5 <= ListSize(p) + lag
    <3> HIDE DEF y
    <3> QED BY <1>4, <1>10, <1>11
  <2> HIDE DEF L, C, lag
  <2>5. 5 <= Size(L) + lag
    BY <2>3, <2>4
  <2> QED BY <2>1, <2>2, <2>3, <2>4, <2>5, InPacket
<1> QED BY <1>5, <1>6, <1>8, <1>11, <1>12

\* The process survives a pass over such an entry.
LEMMA StreamHolds ==
    ASSUME Inv, Walk, ListsInv, PMTCrash
    PROVE  Walk' /\ ListsInv'
<1>1. /\ pc = "streams" /\ pointer # PMTSize + 1 /\ pc' = "crashed"
      /\ ~Allocated \/ BehindTheList \/ BehindMemory
      /\ UNCHANGED <<packet, pos_, read, list_, pointer, exist, blocks>>
  BY DEF PMTCrash
<1>2. ~WellFormed(packet)
  <2> SUFFICES ASSUME WellFormed(packet) PROVE FALSE
    OBVIOUS
  <2>1. Len(list_) < PMTSize /\ PMTSize \in Nat /\ pos_ + 5 <= PACKET_SIZE
    BY <1>1, StreamFits
  <2>2. Len(list_) \in Nat /\ pos_ \in Nat
    <3>1. list_ \in Seq(Nat) /\ pos_ \in Nat
      BY DEF Inv, Types, TypeOK
    <3> QED BY <3>1, LenProperties
  <2> QED BY <1>1, <2>1, <2>2, MemoryAssumption
          DEF Allocated, BehindTheList, BehindMemory, PACKET_SIZE
<1>3. Walk'
  BY <1>1, <1>2, Overrun
<1>4. ListsInv'
  BY <1>1, <1>2 DEF ListsInv
<1> QED BY <1>3, <1>4

\* One more stream.
LEMMA StreamRead ==
    ASSUME Inv, Walk, ListsInv, PMTEntry
    PROVE  Walk' /\ ListsInv'
<1> DEFINE p == packet
           n == Len(list_)
<1>1. /\ UNCHANGED <<packet, pc, read, exist, blocks>>
      /\ pc = "streams" /\ pointer # PMTSize + 1 /\ list_' = Append(list_, pos_)
  BY DEF PMTEntry
<1>2. /\ WayInv /\ PartsInv /\ InUnit(FromList(p), 1 - pointer)
  BY <1>1 DEF Walk, Position, SectionInv
<1>3. Carried(p) /\ p.unit = "pmt" /\ exist = AdaptationPart(p) \cup {"pmt"}
  BY <1>1, <1>2 DEF WayInv, PartsInv, TableLabels, UnitPart
<1>4. /\ list_ \in Seq(Nat) /\ n \in Nat /\ pos_ \in Nat /\ pointer \in Nat
      /\ p.ends \in Seq(Nat) /\ Len(p.ends) \in Nat
      /\ DOMAIN p.ends = 1 .. Len(p.ends) /\ \A i \in 1 .. Len(p.ends) : p.ends[i] \in Nat
  <2>1. /\ list_ \in Seq(Nat) /\ pos_ \in Nat /\ pointer \in Nat /\ p.ends \in Seq(Nat)
    BY DEF Inv, Types, TypeOK, PacketOK
  <2> QED BY <2>1, LenProperties, ElementOfSeq
<1>5. PICK es \in ESInfoLengths(n + 1) :
        /\ pos_' = pos_ + 5 + es
        /\ pointer' = pointer + 5 + es
  BY DEF PMTEntry
<1>6. es \in Nat
  BY <1>1, NextEntry
<1>7. /\ Len(list_') = n + 1
      /\ DOMAIN list_' = 1 .. n + 1 /\ DOMAIN list_ = 1 .. n
      /\ list_'[n + 1] = pos_
      /\ \A i \in 1 .. n : list_'[i] = list_[i]
  BY <1>1, <1>4, AppendProperties, LenProperties
<1>8. Cursor(p, FromList(p), <<>>, 1 - pointer', pos_', read)
  <2>1. PICK behind \in FieldSeq :
          /\ Layout(p) = (behind \o FromList(p)) \o <<>>
          /\ pos_ = Size(behind) - (1 - pointer)
          /\ \A f \in Fields : read[f] = IF f \in Names(behind)
                                         THEN Places(p)[f] - EarlyIn(p, f)
                                         ELSE NotRead
    BY <1>2 DEF InUnit, Cursor
  <2>2. Size(behind) \in Int
    <3>1. Len(behind) \in Nat
      BY LenProperties DEF FieldSeq
    <3> QED BY <3>1, RunningSum DEF Size
  <2>3. pos_' = Size(behind) - (1 - pointer')
    BY SMTT(30), <1>4, <1>5, <1>6, <2>1, <2>2
  <2> QED BY <2>1, <2>3 DEF Cursor
<1>9. Position'
  BY <1>1, <1>8 DEF Position, FrontInv, PESInv, SectionInv, EndedInv, InUnit, Done,
                    StaysInPacket
<1>10. WayInv' /\ PartsInv'
  BY <1>1, <1>2 DEF WayInv, PartsInv
<1>11. ASSUME pos_ + 5 <= PACKET_SIZE, n + 1 < Len(p.ends)
       PROVE  pos_ = Places(p)["list"] + p.ends[n + 1]
  <2>1. OnEntry
    <3>1. ~(pos_ > PACKET_SIZE) /\ ~(n >= Len(p.ends))
      BY <1>4, <1>11 DEF PACKET_SIZE
    <3> QED BY <1>1, <1>3, <3>1 DEF Inv, LoopInv
  <2> DEFINE y == p.ends[n + 1]
  <2>2. pointer = y + 1 /\ y \in Nat
    BY <1>4, <2>1 DEF OnEntry
  <2>3. 1 - pointer \in Int
    BY <1>4
  <2>4. pos_ = Places(p)["list"] - (1 - pointer) /\ Places(p)["list"] \in Int
    BY <1>2, <2>3, ListPlace
  <2> HIDE DEF y
  <2>5. pos_ = Places(p)["list"] + y
    BY <2>2, <2>4
  <2> QED BY <2>5 DEF y
<1>12. ASSUME NEW i \in DOMAIN list_', i < Len(p.ends), list_'[i] + 5 <= PACKET_SIZE
       PROVE  list_'[i] = Places(p)["list"] + p.ends[i]
  <2>1. CASE i \in 1 .. n
    BY <1>3, <1>7, <1>12, <2>1 DEF ListsInv
  <2>2. CASE i = n + 1
    BY <1>7, <1>11, <1>12, <2>2
  <2> QED BY <1>4, <1>7, <2>1, <2>2
<1>13. ASSUME WellFormed(p)
       PROVE  /\ OnEntry'
              /\ \E k \in DOMAIN p.ends : p.ends[k] = PMTSize' /\ Len(list_') + 1 <= k
              /\ Len(list_') <= PMTSize'
  <2>1. PICK k \in 1 .. Len(p.ends) :
            p.ends[k] = PMTSize /\ n + 1 < k /\ pointer = p.ends[n + 1] + 1
    BY <1>1, <1>13, StreamFits
  <2>2. n < PMTSize /\ PMTSize \in Nat /\ pos_ + 5 <= PACKET_SIZE
    BY <1>1, <1>13, StreamFits
  <2>3. n + 1 < Len(p.ends) /\ n + 2 <= k
    BY <1>4, <2>1
  <2>4. OnEntry
    BY <1>4, <2>1, <2>3 DEF OnEntry
  <2>5. pointer' = p.ends[n + 2] + 1
    BY <1>1, <1>5, <2>2, <2>3, <2>4, NextEntry
  <2>6. Len(list_') + 1 = n + 2
    BY <1>4, <1>7
  <2>7. OnEntry'
    <3>1. Len(list_') < Len(packet'.ends)
      BY <1>1, <1>7, <2>3
    <3>2. pointer' = packet'.ends[Len(list_') + 1] + 1
      BY <1>1, <2>5, <2>6
    <3> QED BY <3>1, <3>2 DEF OnEntry
  <2>8. PMTSize' = PMTSize
    BY <1>1 DEF PMTSize
  <2>9. k \in DOMAIN p.ends /\ p.ends[k] = PMTSize' /\ Len(list_') + 1 <= k
    BY <1>4, <2>1, <2>3, <2>6, <2>8
  <2>10. Len(list_') <= PMTSize'
    BY <1>4, <1>7, <2>2, <2>8
  <2> QED BY <2>7, <2>9, <2>10
<1>14. ListsInv'
  <2>1. "pat" \notin exist'
    BY <1>1, <1>3 DEF AdaptationPart
  <2> QED BY <1>1, <1>3, <1>12, <1>13, <2>1 DEF ListsInv
<1> QED BY <1>9, <1>10, <1>14 DEF Walk

\* A list that was walked to its end is behind the cursor.
LEMMA ListPassed ==
    ASSUME Inv
    PROVE  \A lag : /\ lag \in Int /\ InUnit(FromList(packet), lag)
                    /\ lag + ListSize(packet) = 0
                    => InUnit(Field("crc_32_", 4), 0)
<1> SUFFICES ASSUME NEW lag \in Int, InUnit(FromList(packet), lag),
                    lag + ListSize(packet) = 0
             PROVE  InUnit(Field("crc_32_", 4), 0)
  OBVIOUS
<1> DEFINE chunk  == Field("list", ListSize(packet))
           s      == Field("crc_32_", 4)
           rest   == <<>>
           behind == 0
<1>1. /\ chunk \in FieldSeq /\ s \in FieldSeq /\ rest \in FieldSeq
      /\ Names(chunk) \cap Fields = {} /\ Size(chunk) = ListSize(packet)
      /\ FromList(packet) = Cat(chunk, s) /\ Laidout(packet)
  BY SectionParts, NoFields, PacketIsLaidout DEF Inv
<1>2. Cursor(packet, Cat(chunk, s), rest, lag, pos_, read)
  BY <1>1 DEF InUnit
<1>3. behind = lag + Size(chunk)
  BY <1>1
<1> HIDE DEF chunk, s, rest, behind
<1>4. Cursor(packet, s, rest, behind, pos_, read)
  BY <1>1, <1>2, <1>3, PassedOver
<1> QED BY <1>4 DEF InUnit, s, rest, behind

\* The step behind the last entry of a list.
LEMMA ListsEnd ==
    ASSUME Inv, Walk, ListsInv, PATListEnd \/ PMTListEnd
    PROVE  Walk' /\ ListsInv'
<1> DEFINE p == packet
<1>1. /\ pc \in {"programmes", "streams"} /\ pc' = "crc_32"
      /\ UNCHANGED <<packet, pos_, read, list_, pointer, exist, blocks>>
      /\ pc = "programmes" => Len(list_) >= PATSize
      /\ pc = "streams" => pointer = PMTSize + 1
  BY DEF PATListEnd, PMTListEnd
<1>2. WayInv /\ PartsInv
  BY DEF Walk
<1>3. /\ Carried(p) /\ p.unit \in {"pat", "pmt"}
      /\ p.unit = "pat" <=> pc = "programmes"
  BY <1>1, <1>2 DEF WayInv, TableLabels
<1>4. /\ list_ \in Seq(Nat) /\ Len(list_) \in Nat /\ (list_ = <<>> => Len(list_) = 0)
      /\ pointer \in Nat /\ ListSize(p) \in Int
      /\ p.section_length \in Int /\ p.info \in Int
  <2>1. list_ \in Seq(Nat) /\ pointer \in Nat
    BY DEF Inv, Types, TypeOK
  <2>2. p.section_length \in Int /\ p.info \in Int
    BY PacketIsLaidout DEF Inv, Laidout, Sized
  <2> QED BY <2>1, <2>2, LenProperties, EmptySeq, SectionParts
<1>5. WellFormed(p) /\ p.unit = "pat" => 4 * Len(list_) = ListSize(p)
  <2> SUFFICES ASSUME WellFormed(p), p.unit = "pat" PROVE 4 * Len(list_) = ListSize(p)
    OBVIOUS
  <2> DEFINE x == ListSize(p)
             n == Len(list_)
  <2>1. x >= 0 /\ x % 4 = 0 /\ x \in Int /\ n \in Nat
    BY <1>3, <1>4 DEF WellFormed, EntriesFit, Carried
  <2>2. PATSize = Quotient(x, 4)
    BY DEF PATSize, ListSize
  <2>3. n >= PATSize /\ (n = 0 \/ n <= PATSize)
    BY <1>1, <1>3, <1>4 DEF ListsInv
  <2> HIDE DEF x, n
  <2>4. 4 * n = x
    BY <2>1, <2>2, <2>3 DEF Quotient
  <2> QED BY <2>4 DEF x, n
<1>6. WellFormed(p) => InUnit(Field("crc_32_", 4), 0)
  <2> SUFFICES ASSUME WellFormed(p) PROVE InUnit(Field("crc_32_", 4), 0)
    OBVIOUS
  <2>1. CASE pc = "programmes"
    <3> DEFINE lag == 0 - 4 * Len(list_)
    <3>1. InUnit(FromList(p), lag)
      BY <2>1 DEF Walk, Position, SectionInv
    <3>2. lag \in Int /\ lag + ListSize(p) = 0
      BY <1>3, <1>4, <1>5, <2>1
    <3> HIDE DEF lag
    <3> QED BY <3>1, <3>2, ListPassed
  <2>2. CASE pc = "streams"
    <3> DEFINE lag == 1 - pointer
    <3>1. InUnit(FromList(p), lag)
      BY <2>2 DEF Walk, Position, SectionInv
    <3>2. ListSize(p) = PMTSize
      BY <1>2, <1>4, <2>2 DEF ListSize, PMTSize, WayInv
    <3>3. lag \in Int /\ lag + ListSize(p) = 0
      BY <1>1, <1>4, <2>2, <3>2
    <3> HIDE DEF lag
    <3> QED BY <3>1, <3>3, ListPassed
  <2> QED BY <1>1, <2>1, <2>2
<1>7. Position'
  BY <1>1, <1>3, <1>6 DEF Position, FrontInv, PESInv, SectionInv, EndedInv, InUnit, Done,
                          StaysInPacket
<1>8. WayInv' /\ PartsInv'
  BY <1>1, <1>2, <1>3 DEF WayInv, PartsInv, AdaptationLabels, UnitLabels, PESLabels, TableLabels
<1>9. ListsInv'
  BY <1>1, <1>5 DEF ListsInv, PMTSize
<1> QED BY <1>7, <1>8, <1>9 DEF Walk

\* The last step of a section.
LEMMA SectionEnds ==
    ASSUME Inv, Walk, ListsInv, SectionCRC
    PROVE  Walk' /\ ListsInv'
<1> DEFINE p == packet
<1>1. /\ pc = "crc_32" /\ pc' \in {"done", "overrun"}
      /\ UNCHANGED <<packet, list_, pointer, exist, blocks>>
      /\ Decode([crc_32_ |-> 0], 4, 4, "done")
  BY DEF SectionCRC, Reads, Decode
<1>2. WayInv /\ PartsInv /\ SectionInv
  BY DEF Walk, Position
<1>3. Carried(p) /\ p.unit \in {"pat", "cat", "pmt"}
  BY <1>1, <1>2 DEF WayInv, TableLabels
<1>4. WayInv' /\ PartsInv'
  BY <1>1, <1>2 DEF WayInv, PartsInv, AdaptationLabels, UnitLabels, PESLabels, TableLabels
<1>5. ListsInv'
  BY <1>1 DEF ListsInv, PMTSize
<1>6. WellFormed(p) => /\ pc' = "done"
                       /\ InPlace(p, read')
  <2> SUFFICES ASSUME WellFormed(p) PROVE pc' = "done" /\ InPlace(p, read')
    OBVIOUS
  <2> DEFINE lag   == IF p.unit = "cat" THEN ListSize(p) ELSE 0
             chunk == Field("crc_32_", 4)
             at    == [f \in {"crc_32_"} |-> 0]
             s     == <<>>
             next  == lag
  <2>1. InUnit(chunk, lag)
    BY <1>1, <1>2 DEF SectionInv
  <2>2. lag \in Int /\ lag >= 0
    <3>1. ListSize(p) >= 0 /\ ListSize(p) \in Int
      BY <1>3, SectionParts DEF WellFormed, EntriesFit, Carried
    <3> QED BY <3>1
  <2>3. chunk \in FieldSeq /\ Size(chunk) = 4 /\ s \in FieldSeq /\ chunk = Cat(chunk, s)
    BY SectionParts, NoFields, CatEmpty
  <2>4. EarlyIn(p, "crc_32_") = lag
    BY EarlyFacts
  <2> HIDE DEF lag
  <2>5. Covers(p, at, chunk, lag)
    BY <2>4, FieldFacts, CoversOne
  <2>6. Decode(at, 4, 4, "done")
    <3>1. [crc_32_ |-> 0] = [f \in {"crc_32_"} |-> 0]
      OBVIOUS
    <3> QED BY <1>1, <3>1
  <2>7. 4 \in Int /\ 4 <= Size(chunk) + lag /\ next = (lag + Size(chunk)) - 4
    BY <2>2, <2>3
  <2> HIDE DEF chunk, at, s, next
  <2>8. \/ pc' = "overrun" /\ ~WellFormed(packet)
        \/ pc' = "done" /\ Cursor(packet, s, <<>>, next, pos_', read')
    BY <2>1, <2>2, <2>3, <2>5, <2>6, <2>7, UnitReads
  <2>9. pc' = "done" /\ Cursor(packet, <<>>, <<>>, next, pos_', read')
    BY <2>8 DEF s
  <2> QED BY <1>3, <2>9, AllPassed
<1>7. Position'
  BY <1>1, <1>6 DEF Position, FrontInv, PESInv, SectionInv, EndedInv, Done, StaysInPacket
<1> QED BY <1>4, <1>5, <1>7 DEF Walk

\* Outside the sections no list is filled.
LEMMA QuietLists ==
    ASSUME Inv, Walk, Quiet, Walk'
    PROVE  ListsInv'
<1> USE DEF AdaptationLabels, UnitLabels, PESLabels, TableLabels
<1>1. /\ pc \notin ListLabels /\ list_' = <<>> /\ packet' = packet
      /\ pc' \notin {"programmes", "streams", "crc_32"}
      /\ exist' \subseteq exist \cup {"adaptation", "pes"}
  BY DEF Quiet, Inv, RoomInv
<1>2. DOMAIN list_' = {}
  BY <1>1
<1>3. "pat" \notin exist
  <2>1. pc \in Labels
    BY DEF Inv, Types, TypeOK
  <2> QED BY <1>1, <2>1 DEF Walk, WayInv, PartsInv, AdaptationPart, UnitPart, Labels, ListLabels
<1>4. pc' = "done" => ~(Carried(packet) /\ packet.unit = "pat")
  <2>1. pc' = "done" => exist' = AdaptationPart(packet) \cup UnitPart(packet)
    BY <1>1 DEF Walk, PartsInv
  <2> QED BY <1>1, <1>3, <2>1 DEF UnitPart
<1> QED BY <1>1, <1>2, <1>4 DEF ListsInv

\* The header of a section: its list is empty, and in front of the first entry.
LEMMA ListsStart ==
    ASSUME Inv, Walk, PATHeader \/ CATHeader \/ PMTHeader
    PROVE  ListsInv'
<1> DEFINE p == packet
<1>1. /\ packet' = packet /\ list_' = list_ /\ list_ = <<>> /\ pc \in UnitLabels
      /\ pc' = "overrun" \/ pc' = "programmes" \/ (pc = "cat" /\ pc' = "crc_32")
         \/ (pc = "pmt" /\ pc' = "streams" /\ pointer' = 1)
  BY DEF PATHeader, CATHeader, PMTHeader, Decode, Inv, RoomInv, ListLabels, UnitLabels
<1>2. DOMAIN list_' = {} /\ Len(list_') = 0
  BY <1>1
<1>3. p.unit = pc /\ Carried(p)
  BY <1>1 DEF Walk, WayInv
<1>4. ASSUME pc' = "streams", WellFormed(p)
      PROVE  /\ OnEntry'
             /\ \E k \in DOMAIN p.ends : p.ends[k] = PMTSize' /\ Len(list_') + 1 <= k
  <2>1. p.ends \in Seq(Nat) /\ p.ends # <<>> /\ p.ends[1] = 0
    BY DEF Inv, Types, TypeOK, PacketOK
  <2>2. DOMAIN p.ends = 1 .. Len(p.ends) /\ Len(p.ends) \in Nat /\ Len(p.ends) # 0
    BY <2>1, LenProperties, EmptySeq
  <2>3. OnEntry'
    BY <1>1, <1>2, <1>4, <2>1, <2>2 DEF OnEntry
  <2>4. PMTSize' = ListSize(p)
    <3>1. p.section_length \in Int /\ p.info \in Int
      BY PacketIsLaidout DEF Inv, Laidout, Sized
    <3> QED BY <1>1, <1>3, <1>4, <3>1 DEF PMTSize, ListSize
  <2>5. PICK k \in DOMAIN p.ends : p.ends[k] = ListSize(p)
    BY <1>1, <1>3, <1>4 DEF WellFormed, EntriesFit, Carried
  <2>6. Len(list_') + 1 <= k
    BY <1>2, <2>2, <2>5
  <2> QED BY <2>3, <2>4, <2>5, <2>6
<1> QED BY <1>1, <1>2, <1>3, <1>4 DEF ListsInv

-----------------------------------------------------------------------------
(* The theorems.                                                           *)

\* Before the first byte is read nothing was.
LEMMA WalkStarts == ASSUME Init PROVE Walk /\ ListsInv
<1> DEFINE p == packet
<1>1. /\ p \in Packets /\ pc = "header" /\ pos_ = 0 /\ list_ = <<>>
      /\ read = [f \in Fields |-> NotRead] /\ exist = {} /\ blocks = {}
  BY DEF Init
<1>2. WayInv /\ PartsInv
  BY <1>1 DEF WayInv, PartsInv, AdaptationLabels, UnitLabels, PESLabels, TableLabels, Holders
<1>3. p.length \in Nat /\ Laidout(p)
  <2>1. PacketOK(p)
    BY <1>1, PacketsAssumption
  <2>2. p.section_length \in 0 .. 1023
    BY <2>1 DEF PacketOK
  <2>3. p.section_length \in Nat
    BY SMTT(30), <2>2
  <2> QED BY <2>1, <2>3 DEF PacketOK, Laidout, Sized
<1>4. /\ Layout(p) = FromHeader(p) \o Behind(p)
      /\ FromHeader(p) \in FieldSeq /\ Behind(p) \in FieldSeq
  BY <1>3, WholePacket DEF Laidout
<1>5. InFront(FromHeader(p))
  <2> DEFINE none == <<>>
  <2>1. none \in FieldSeq /\ Size(none) = 0 /\ Names(none) = {}
    BY NoFields
  <2>2. none \o FromHeader(p) = FromHeader(p)
    <3>1. Cat(<<>>, FromHeader(p)) = FromHeader(p)
      BY <1>4, CatEmpty
    <3> QED BY <3>1 DEF Cat
  <2>3. \A f \in Fields : read[f] = NotRead
    BY <1>1
  <2> HIDE DEF none
  <2>4. Layout(p) = (none \o FromHeader(p)) \o Behind(p)
    BY <1>4, <2>2
  <2>5. pos_ = Size(none) - 0
    BY <1>1, <2>1
  <2>6. \A f \in Fields : read[f] = IF f \in Names(none) THEN Places(p)[f] - EarlyIn(p, f)
                                                        ELSE NotRead
    BY <2>1, <2>3
  <2> QED BY <2>1, <2>4, <2>5, <2>6 DEF InFront, Cursor
<1>6. Position
  BY <1>1, <1>5 DEF Position, FrontInv, PESInv, SectionInv, EndedInv, Done, StaysInPacket
<1>7. ListsInv
  BY <1>1 DEF ListsInv
<1> QED BY <1>2, <1>6, <1>7 DEF Walk

\* Every step of the parser goes on along the layout.
LEMMA WalkStep == ASSUME Inv, Walk, ListsInv, [Next]_vars PROVE Walk' /\ ListsInv'
<1>1. CASE Header \/ Adaptation \/ UnitStart
  <2>1. Walk'
    BY <1>1, AdaptationBytes, AdaptationOptions, AdaptationBlocks, UnitFound DEF Adaptation
  <2>2. Quiet
    BY <1>1, AdaptationIsQuiet
  <2> QED BY <2>1, <2>2, QuietLists
<1>2. CASE PESWalk
  <2>1. Walk'
    BY <1>2, PESStarts, PESFlagSteps, PESOptions, PESLateSteps DEF PESWalk
  <2>2. Quiet
    BY <1>2, PESIsQuiet
  <2> QED BY <2>1, <2>2, QuietLists
<1>3. CASE PATHeader \/ CATHeader \/ PMTHeader
  BY <1>3, TableStarts, MapStarts, ListsStart
<1>4. CASE PATEntry \/ PMTEntry \/ PMTCrash
  BY <1>4, ProgrammeRead, StreamRead, StreamHolds
<1>5. CASE PATListEnd \/ PMTListEnd \/ SectionCRC
  BY <1>5, ListsEnd, SectionEnds
<1>6. CASE UNCHANGED vars
  <2>1. UNCHANGED <<packet, pc, pos_, read, list_, pointer, exist, blocks>>
    BY <1>6 DEF vars
  <2>2. WayInv' /\ PartsInv'
    BY <2>1 DEF Walk, WayInv, PartsInv
  <2>3. Position'
    <3>1. FrontInv'
      BY <2>1 DEF Walk, Position, FrontInv, InFront
    <3>2. PESInv' /\ SectionInv'
      BY <2>1 DEF Walk, Position, PESInv, SectionInv, InUnit
    <3>3. EndedInv'
      BY <2>1 DEF Walk, Position, EndedInv, Done, StaysInPacket
    <3> QED BY <3>1, <3>2, <3>3 DEF Position
  <2>4. ListsInv'
    BY <2>1 DEF ListsInv, OnEntry, PATSize, PMTSize
  <2> QED BY <2>2, <2>3, <2>4 DEF Walk
<1> QED BY <1>1, <1>2, <1>3, <1>4, <1>5, <1>6 DEF Next, SectionWalk

\* Every behaviour of the parser keeps to the layout of its packet.
THEOREM KeepsToLayout == Spec => [](Inv /\ Walk /\ ListsInv)
<1>1. Init => Walk /\ ListsInv
  BY WalkStarts
<1>2. Inv /\ (Walk /\ ListsInv) /\ [Next]_vars => (Walk /\ ListsInv)'
  BY WalkStep
<1> QED BY <1>1, <1>2, Invariance, PTL DEF Spec

\* Every field a packet has is read where it stands, and no other, whichever
\* optional fields it has and however long its parts are.
THEOREM ReadsFieldsInPlace == Spec => []FieldsReadInPlace
<1>1. Inv /\ Walk => FieldsReadInPlace
  <2> SUFFICES ASSUME Inv, Walk, Done, WellFormed(packet), NEW f \in Fields
               PROVE  read[f]
                        = IF f \in DOMAIN Place /\ (f \in UnitFields => Stuffing(packet) = 0)
                          THEN Place[f] - Early(f)
                          ELSE NotRead
    BY DEF FieldsReadInPlace
  <2>1. InPlace(packet, read)
    BY DEF Walk, Position, EndedInv
  <2>2. UnitFields = Names(Unit(packet))
    BY DEF UnitFields, Names
  <2>3. Early(f) = EarlyIn(packet, f)
    BY DEF Early, EarlyIn, AfterPackHeader
  <2> QED BY <2>1, <2>2, <2>3 DEF InPlace, Place
<1> QED BY <1>1, KeepsToLayout, PTL

\* A packet that holds its unit is never read behind its end, nor does parsing
\* it end the process.
THEOREM NeverOverruns == Spec => []StaysInPacket
<1>1. Walk => StaysInPacket
  BY DEF Walk, Position, EndedInv
<1> QED BY <1>1, KeepsToLayout, PTL

\* Every programme and stream is read where it stands; a list of programmes has
\* room for what it is given, one of streams if the lengths of its section add
\* up; and no programme is left out.
THEOREM HoldsEveryEntry == Spec => []ListHoldsEntries
<1>1. Inv /\ Walk /\ ListsInv => ListHoldsEntries
  <2> SUFFICES ASSUME Inv, Walk, ListsInv PROVE ListHoldsEntries
    OBVIOUS
  <2>1. EntriesInPlace
    BY DEF EntriesInPlace, ListsInv, Place
  <2>2. ListHasRoom
    <3>1. CASE packet.unit # "pmt"
      BY <3>1 DEF ListHasRoom, Inv, RoomInv
    <3>2. CASE packet.unit = "pmt"
      BY <3>2 DEF ListHasRoom, Inv, RoomInv, ListsInv
    <3> QED BY <3>1, <3>2
  <2>3. ListComplete
    <3>1. Done /\ "pat" \in exist => Carried(packet) /\ packet.unit = "pat"
      BY DEF Done, Walk, PartsInv, AdaptationPart, UnitPart
    <3> QED BY <3>1 DEF ListComplete, ListsInv, Done
  <2> QED BY <2>1, <2>2, <2>3 DEF ListHoldsEntries
<1> QED BY <1>1, KeepsToLayout, PTL

\* The parts and blocks that TSPacket leaves behind, which takes a packet as one
\* step.
LEMMA OneStepParser ==
    ASSUME NEW data, NEW c, c.adaptation \in {"none", "empty", "plain", "private"}
    PROVE  LET parser == TS!GetHeaderInfo(TS!NewParser, data, c)
           IN  /\ parser.exist = (IF c.adaptation = "none" THEN {} ELSE {"adaptation"})
                                    \cup (IF c.unit = "none" THEN {} ELSE {c.unit})
               /\ parser.live = (IF c.adaptation = "private" THEN {"private"} ELSE {})
                                   \cup ({c.unit} \cap {"pat", "pmt"})
<1> DEFINE header  == [TS!NewParser EXCEPT !.fields["header"] = data]
           adapted == IF c.adaptation = "none" THEN header
                      ELSE TS!GetAdaptationField(header, data, c.adaptation)
<1>1. header.exist = {} /\ header.live = {}
  BY DEF TS!NewParser
<1>2. /\ adapted.exist = IF c.adaptation = "none" THEN {} ELSE {"adaptation"}
      /\ adapted.live = IF c.adaptation = "private" THEN {"private"} ELSE {}
  BY DEF TS!NewParser, TS!GetAdaptationField, TS!Decode, TS!Allocate
<1>3. {"exist", "live", "leaked", "fields"} \subseteq DOMAIN adapted
  BY DEF TS!NewParser, TS!GetAdaptationField, TS!Decode, TS!Allocate
<1> DEFINE parser == IF c.unit = "none" THEN adapted
                     ELSE TS!SetHeaderInfo(adapted, c.unit, data)
<1>4. TS!GetHeaderInfo(TS!NewParser, data, c) = parser
  BY DEF TS!GetHeaderInfo
<1> HIDE DEF adapted
<1>5. /\ parser.exist = adapted.exist \cup (IF c.unit = "none" THEN {} ELSE {c.unit})
      /\ parser.live = adapted.live \cup ({c.unit} \cap {"pat", "pmt"})
  <2>1. CASE c.unit \in {"pat", "pmt"}
    BY <1>3, <2>1 DEF TS!SetHeaderInfo, TS!Tables, TS!Decode, TS!Allocate
  <2>2. CASE c.unit \notin {"pat", "pmt"}
    BY <1>3, <2>2 DEF TS!SetHeaderInfo, TS!Tables, TS!Decode
  <2> QED BY <2>1, <2>2
<1> HIDE DEF parser
<1> QED BY <1>2, <1>4, <1>5

\* The byte-by-byte walk decodes the parts and holds the blocks that TSPacket's
\* GetHeaderInfo does in one step.
THEOREM WalkImplementsTSPacket == Spec => []AgreesWithTSPacket
<1>1. Inv /\ Walk => AgreesWithTSPacket
  <2> SUFFICES ASSUME Inv, Walk, Done
               PROVE  LET parser == TS!GetHeaderInfo(TS!NewParser, packet, Content)
                      IN  /\ exist = parser.exist
                          /\ {block[1] : block \in blocks} = parser.live
    BY DEF AgreesWithTSPacket
  <2>1. /\ exist = AdaptationPart(packet) \cup UnitPart(packet)
        /\ Holders(blocks) = PrivatePart(packet) \cup (UnitPart(packet) \cap {"pat", "pmt"})
    BY DEF Walk, PartsInv, Done
  <2>2. packet.unit \in Units /\ packet.length \in Nat
    BY DEF Inv, Types, TypeOK, PacketOK
  <2>3. /\ Content.adaptation \in {"none", "empty", "plain", "private"}
        /\ Content.adaptation = "none" <=> ~HasAdaptation(packet)
        /\ Content.adaptation = "private" <=> /\ HasAdaptation(packet) /\ packet.length # 0
                                              /\ "private" \in packet.flags
        /\ Content.unit = IF Carried(packet) THEN packet.unit ELSE "none"
    BY <2>2 DEF Content, Carried
  <2> HIDE DEF Content
  <2> DEFINE c == Content
  <2>4. /\ (IF c.adaptation = "none" THEN {} ELSE {"adaptation"}) = AdaptationPart(packet)
        /\ (IF c.unit = "none" THEN {} ELSE {c.unit}) = UnitPart(packet)
        /\ (IF c.adaptation = "private" THEN {"private"} ELSE {}) = PrivatePart(packet)
        /\ {c.unit} \cap {"pat", "pmt"} = UnitPart(packet) \cap {"pat", "pmt"}
    BY <2>2, <2>3 DEF AdaptationPart, UnitPart, PrivatePart, Units
  <2>5. c.adaptation \in {"none", "empty", "plain", "private"}
    BY <2>3
  <2> HIDE DEF c
  <2>6. LET parser == TS!GetHeaderInfo(TS!NewParser, packet, c)
        IN  /\ parser.exist = AdaptationPart(packet) \cup UnitPart(packet)
            /\ parser.live = PrivatePart(packet) \cup (UnitPart(packet) \cap {"pat", "pmt"})
    BY <2>4, <2>5, OneStepParser
  <2> QED BY <2>1, <2>6 DEF c, Holders
<1> QED BY <1>1, KeepsToLayout, PTL

\* The text of a packet with few optional fields and short lists fits the buffer
\* it is copied to.
THEOREM ReportsFit == Spec => []ReportFits
<1>1. Inv /\ Walk => ReportFits
  <2> SUFFICES ASSUME Inv, Walk, Done, Ordinary
               PROVE  SendText(packet, exist, Len(list_)) < SendBufSize
    BY DEF ReportFits
  <2> DEFINE p == packet
             n == Len(list_)
  <2>1. exist = AdaptationPart(p) \cup UnitPart(p)
    BY DEF Walk, PartsInv, Done
  <2>2. p.unit \in Units /\ n \in Nat
    BY LenProperties DEF Inv, Types, TypeOK, PacketOK
  <2>3. "opcr" \notin p.flags /\ "splice" \notin p.flags /\ "private" \notin p.flags
        /\ "extension" \notin p.flags /\ "trick" \notin p.flags /\ "crc" \notin p.flags
        /\ "pes_extension" \notin p.flags
    BY DEF Ordinary
  <2>4. AdaptationText(p) \in Nat /\ AdaptationText(p) <= 290
    BY <2>3 DEF AdaptationText, If
  <2>5. PESText(p) \in Nat /\ PESText(p) <= 495
    BY <2>3 DEF PESText, If
  <2>6. CASE ~Carried(p)
    <3>1. exist \subseteq {"adaptation"}
      BY <2>1, <2>6 DEF AdaptationPart, UnitPart
    <3>2. SendText(p, exist, n) = HeaderText
             + (IF "adaptation" \in exist THEN AdaptationText(p) ELSE 0) + 0 + DumpText
      BY <3>1 DEF SendText
    <3> QED BY <2>4, <3>2 DEF HeaderText, DumpText, SendBufSize
  <2>7. CASE Carried(p)
    <3>1. p.unit \in {"pes", "pat", "cat", "pmt"} /\ exist = AdaptationPart(p) \cup {p.unit}
      BY <2>1, <2>2, <2>7 DEF UnitPart, Carried, Units
    <3>2. (CHOOSE unit \in exist : unit # "adaptation") = p.unit
          /\ ~(exist \subseteq {"adaptation"})
      BY <3>1 DEF AdaptationPart
    <3> DEFINE a == IF "adaptation" \in exist THEN AdaptationText(p) ELSE 0
               t == SectionText(p.unit, p, n)
    <3>3. SendText(p, exist, n) = HeaderText + a + t + DumpText
      BY <3>2 DEF SendText
    <3>4. t \in Nat /\ a \in Nat /\ a + t <= 290 + 513
      <4>1. CASE p.unit = "pes"
        <5>1. t = PESText(p)
          BY <4>1 DEF SectionText
        <5> QED BY <2>4, <2>5, <5>1
      <4>2. CASE p.unit = "cat"
        <5>1. t = 207
          BY <4>2 DEF SectionText, CATText
        <5> QED BY <2>4, <5>1
      <4>3. CASE p.unit = "pat"
        <5>1. t = 235 + n * 46 /\ n <= IF "adaptation" \in exist THEN 6 ELSE 12
          BY <2>2, <3>1, <4>3 DEF SectionText, PATText, Ordinary
        <5> QED BY <2>2, <2>4, <5>1
      <4>4. CASE p.unit = "pmt"
        <5>1. t = 273 + n * 80 /\ n <= IF "adaptation" \in exist THEN 3 ELSE 6
          BY <2>2, <3>1, <4>4 DEF SectionText, PMTText, Ordinary
        <5> QED BY <2>2, <2>4, <5>1
      <4> QED BY <3>1, <4>1, <4>2, <4>3, <4>4
    <3> HIDE DEF a, t
    <3> QED BY <3>3, <3>4 DEF HeaderText, DumpText, SendBufSize
  <2> QED BY <2>6, <2>7
<1> QED BY <1>1, KeepsToLayout, PTL

-----------------------------------------------------------------------------
(* The values.                                                             *)

\* Every value is stored from a field that the parsers read.
LEMMA ValueFields == \A v \in Values : SourceOf(v) \in Fields
<1>1. \A v \in Values : Code(v).field \in Fields
  <2>1. \A v \in DOMAIN TimeStamps : TimeStamps[v].field \in
            {"pts_", "dts_", "pcr", "opcr", "dts_next_au_", "escr_"}
    BY DEF TimeStamps, Decoding
  <2>2. \A v \in DOMAIN OtherValues : OtherValues[v].field \in
            {"pcr", "opcr", "escr_", "ltw_offset_", "piecewise_rate_", "es_rate_",
             "additional_copy_info_", "previous_pes_packet_crc_", "p_std_buffer_size_",
             "program_packet_sequence_counter_", "pcr_pid_", "version_number_", "crc_32_"}
    BY DEF OtherValues, Decoding
  <2>3. {"pts_", "dts_", "pcr", "opcr", "dts_next_au_", "escr_", "ltw_offset_",
         "piecewise_rate_", "es_rate_", "additional_copy_info_",
         "previous_pes_packet_crc_", "p_std_buffer_size_",
         "program_packet_sequence_counter_", "pcr_pid_", "version_number_", "crc_32_"}
        \subseteq Fields
    BY DEF Fields, PMTAt
  <2>4. \A v \in DOMAIN TimeStamps : TimeStamps[v].field \in Fields
    BY <2>1, <2>3
  <2>5. \A v \in DOMAIN OtherValues : OtherValues[v].field \in Fields
    BY <2>2, <2>3
  <2> QED BY <2>4, <2>5 DEF Code, Values
<1>2. "opcr" \in Fields
  BY DEF Fields
<1> QED BY <1>1, <1>2 DEF SourceOf, Source

\* The bytes the code finds are bytes.
LEMMA BytesFound ==
    ASSUME Inv, NEW at
    PROVE  [k \in 0 .. 5 |-> ByteAt(at + k)] \in Bytes6
<1>1. \A bit \in packet.bits : bit[3] \in 0 .. 7
  BY DEF Inv, Types, TypeOK, PacketOK
<1>2. \A pos : ByteAt(pos) \subseteq 0 .. 7
  BY <1>1 DEF ByteAt
<1> QED BY <1>2 DEF Bytes6

\* Places are numbers.
LEMMA PlacesAreNumbers ==
    ASSUME Inv
    PROVE  \A f \in DOMAIN Place : Place[f] \in Int
<1> SUFFICES ASSUME NEW f \in DOMAIN Place PROVE Place[f] \in Int
  OBVIOUS
<1> DEFINE s == Layout(packet)
<1>1. s \in FieldSeq /\ Distinct(s)
  BY PacketIsLaidout, WholePacket DEF Laidout, Inv
<1>2. Place = [g \in Names(s) |-> At(s, g)]
  BY PlacesAre DEF Place
<1> HIDE DEF s
<1>3. DOMAIN s = 1 .. Len(s) /\ Len(s) \in Nat
  BY <1>1, LenProperties DEF FieldSeq
<1>4. f \in Names(s) /\ Place[f] = At(s, f)
  BY <1>2
<1>5. PICK i \in 1 .. Len(s) : f = s[i][1]
  BY <1>3, <1>4 DEF Names
<1>6. At(s, f) = Bytes(s, i - 1)
  BY <1>1, <1>5, AtIndex
<1>7. i - 1 \in 0 .. Len(s)
  BY <1>3
<1> QED BY <1>1, <1>4, <1>6, <1>7, RunningSum

\* Every value that is read at its place is what the standard says the field holds
\* that was stored in it last, but for the bits the code drops and for three values
\* whose bits it moves.
THEOREM DecodesValues == Spec => []ValuesDecoded
<1>1. Inv /\ FieldsReadInPlace => ValuesDecoded
  <2> SUFFICES ASSUME Inv, FieldsReadInPlace, Done, WellFormed(packet),
                      NEW v \in Decoded \ Misplaced, Early(SourceOf(v)) = 0
               PROVE  Found(v) = Real(v) \cap Kept(v)
    BY DEF ValuesDecoded
  <2> DEFINE f == SourceOf(v)
             bytes == [k \in 0 .. 5 |-> ByteAt(Place[f] + k)]
  <2>1. v \in Values \ Misplaced /\ f \in Fields /\ read[f] # NotRead
    BY ValueFields DEF Decoded
  <2>2. read[f] = Place[f] - 0
    BY <2>1 DEF FieldsReadInPlace
  <2>3. read[f] = Place[f]
    <3>1. f \in DOMAIN Place /\ Place[f] \in Int
      BY <2>1, PlacesAreNumbers DEF FieldsReadInPlace
    <3> HIDE DEF f
    <3> QED BY <2>2, <3>1
  <2>4. Found(v) = Assembled(v, bytes) /\ Real(v) = Meant(v, bytes)
    BY <2>3 DEF Found, Real
  <2>5. bytes \in Bytes6
    BY BytesFound
  <2> HIDE DEF bytes
  <2> QED BY <2>1, <2>4, <2>5, BitsInPlace
<1> QED BY <1>1, Invariance, ReadsFieldsInPlace, PTL

-----------------------------------------------------------------------------
(* The walk ends.                                                          *)

\* How far the walk has come.
Stage == [header |-> 0, adaptation |-> 1, flags |-> 2, pcr |-> 3, opcr |-> 4,
          splice |-> 5, private |-> 6, extension |-> 7, ltw |-> 8,
          piecewise |-> 9, seamless |-> 10, unit |-> 11, pes |-> 12, pat |-> 12,
          cat |-> 12, pmt |-> 12, pes_flags |-> 13, programmes |-> 13,
          streams |-> 13, pts |-> 14, crc_32 |-> 14, escr |-> 15, es_rate |-> 16,
          trick |-> 17, copy_info |-> 18, crc |-> 19, pes_extension |-> 20,
          pes_private |-> 21, pack |-> 22, sequence |-> 23, p_std |-> 24,
          extension_2 |-> 25, done |-> 26, overrun |-> 27, crashed |-> 27]

\* What is left of it: stages, and bytes of the packet.
Ahead(pos) == IF pos < 189 THEN 189 - pos ELSE 0
Left == 200 * (27 - Stage[pc]) + Ahead(pos_)

\* The stages by name.
LEMMA Stages ==
    /\ Stage["header"] = 0 /\ Stage["adaptation"] = 1 /\ Stage["flags"] = 2
    /\ Stage["pcr"] = 3 /\ Stage["opcr"] = 4 /\ Stage["splice"] = 5
    /\ Stage["private"] = 6 /\ Stage["extension"] = 7 /\ Stage["ltw"] = 8
    /\ Stage["piecewise"] = 9 /\ Stage["seamless"] = 10 /\ Stage["unit"] = 11
    /\ Stage["pes"] = 12 /\ Stage["pat"] = 12 /\ Stage["cat"] = 12 /\ Stage["pmt"] = 12
    /\ Stage["pes_flags"] = 13 /\ Stage["programmes"] = 13 /\ Stage["streams"] = 13
    /\ Stage["pts"] = 14 /\ Stage["crc_32"] = 14 /\ Stage["escr"] = 15
    /\ Stage["es_rate"] = 16 /\ Stage["trick"] = 17 /\ Stage["copy_info"] = 18
    /\ Stage["crc"] = 19 /\ Stage["pes_extension"] = 20 /\ Stage["pes_private"] = 21
    /\ Stage["pack"] = 22 /\ Stage["sequence"] = 23 /\ Stage["p_std"] = 24
    /\ Stage["extension_2"] = 25 /\ Stage["done"] = 26 /\ Stage["overrun"] = 27
    /\ Stage["crashed"] = 27
BY DEF Stage

\* Every label has a stage.
LEMMA StageOfLabel == \A l \in Labels : Stage[l] \in 0 .. 27
BY Stages DEF Labels

\* Going on leaves less of the packet, and never more.
LEMMA AheadFalls ==
    \A x, y : x \in Nat /\ y \in Nat /\ y >= x =>
               /\ Ahead(x) \in Nat /\ Ahead(y) \in Nat
               /\ Ahead(x) <= 189 /\ Ahead(y) <= Ahead(x)
               /\ x <= 188 /\ y > x => Ahead(y) < Ahead(x)
BY DEF Ahead

\* A step to a later stage that does not go back leaves less, and so does a pass
\* of a loop that reads inside the packet.
LEMMA LessLeft ==
    ASSUME Types, pc' \in Labels, pos_' \in Nat, pos_' >= pos_,
           \/ Stage[pc'] > Stage[pc]
           \/ pc' = pc /\ pos_ <= 188 /\ pos_' > pos_
    PROVE  Left' \in Nat /\ Left' < Left
<1> DEFINE s == Stage[pc]
           t == Stage[pc']
           a == Ahead(pos_)
           b == Ahead(pos_')
<1>1. s \in 0 .. 27 /\ t \in 0 .. 27
  BY StageOfLabel DEF Types, TypeOK
<1>2. pos_ \in Nat
  BY DEF Types, TypeOK
<1>3. /\ a \in Nat /\ b \in Nat /\ a <= 189 /\ b <= a
      /\ pos_ <= 188 /\ pos_' > pos_ => b < a
  BY <1>2, AheadFalls
<1>4. t > s \/ (t = s /\ b < a)
  BY <1>3
<1>5. Left = 200 * (27 - s) + a /\ Left' = 200 * (27 - t) + b
  BY DEF Left
<1> HIDE DEF s, t, a, b
<1>6. CASE t > s
  BY <1>1, <1>3, <1>5, <1>6
<1>7. CASE t = s /\ b < a
  BY <1>1, <1>3, <1>5, <1>7
<1> QED BY <1>4, <1>6, <1>7

\* Reading n bytes goes to the next label, or stops.
LEMMA DecodeGoesOn ==
    \A at, n, move, after :
        /\ pos_ \in Nat /\ n \in Nat /\ move \in Nat /\ Decode(at, n, move, after)
        => /\ pos_' \in Nat /\ pos_' >= pos_
           /\ \/ pc' = "overrun"
              \/ pc' = after /\ pos_' = pos_ + move /\ pos_ + n <= PACKET_SIZE
BY DEF Decode, PACKET_SIZE

\* A step comes to a later stage, or reads on inside the packet.
Onward == /\ pc' \in Labels /\ pos_' \in Nat /\ pos_' >= pos_
          /\ \/ Stage[pc'] > Stage[pc]
             \/ pc' = pc /\ pos_ <= 188 /\ pos_' > pos_


\* Reading goes on if it leads to a later stage.
LEMMA DecodeOnward ==
    \A at, n, move, after :
        /\ Types /\ n \in Nat /\ move \in Nat /\ Decode(at, n, move, after)
        /\ after \in Labels /\ Stage[after] > Stage[pc] /\ Stage["overrun"] > Stage[pc]
        => Onward
<1> SUFFICES ASSUME NEW at, NEW n \in Nat, NEW move \in Nat, NEW after \in Labels,
                    Types, Decode(at, n, move, after),
                    Stage[after] > Stage[pc], Stage["overrun"] > Stage[pc]
             PROVE  Onward
  OBVIOUS
<1>1. pos_ \in Nat /\ "overrun" \in Labels
  BY DEF Types, TypeOK, Labels
<1>2. pos_' \in Nat /\ pos_' >= pos_ /\ (pc' = "overrun" \/ pc' = after)
  BY <1>1, DecodeGoesOn
<1> QED BY <1>1, <1>2 DEF Onward

\* Skipping.
LEMMA SkipOnward ==
    \A after : /\ Types /\ Skip(after) /\ after \in Labels /\ Stage[after] > Stage[pc]
               => Onward
BY DEF Types, TypeOK, Skip, Onward

\* A field that may be left out.
LEMMA OptionOnward ==
    \A here, flag, field, n, after :
        /\ Types /\ IfPresent(here, flag, field, n, after) /\ n \in Nat
        /\ after \in Labels /\ Stage[after] > Stage[here] /\ Stage["overrun"] > Stage[here]
        => Onward
<1> SUFFICES ASSUME NEW here, NEW flag, NEW field, NEW n \in Nat, NEW after \in Labels,
                    Types, IfPresent(here, flag, field, n, after),
                    Stage[after] > Stage[here], Stage["overrun"] > Stage[here]
             PROVE  Onward
  OBVIOUS
<1> DEFINE at == [f \in {field} |-> 0]
<1>1. pc = here /\ (Decode(at, n, n, after) \/ Skip(after))
  BY DEF IfPresent
<1> HIDE DEF at
<1> QED BY <1>1, DecodeOnward, SkipOnward

\* Fields that are always read.
LEMMA ReadsOnward ==
    \A here, at, n, after :
        /\ Types /\ Reads(here, at, n, after) /\ n \in Nat
        /\ after \in Labels /\ Stage[after] > Stage[here] /\ Stage["overrun"] > Stage[here]
        => Onward
<1> SUFFICES ASSUME NEW here, NEW at, NEW n \in Nat, NEW after \in Labels,
                    Types, Reads(here, at, n, after),
                    Stage[after] > Stage[here], Stage["overrun"] > Stage[here]
             PROVE  Onward
  OBVIOUS
<1>1. pc = here /\ Decode(at, n, n, after)
  BY DEF Reads
<1> QED BY <1>1, DecodeOnward

\* Every optional field goes on,
LEMMA OptionsOnward ==
    ASSUME Types,
           \/ PCR \/ OPCR \/ Splice \/ LTW \/ Piecewise \/ Seamless
           \/ ESCR \/ ESRate \/ TrickMode \/ CopyInfo \/ PESCRC \/ PESPrivate
           \/ PackLength \/ Sequence \/ PSTDBuffer
    PROVE  Onward
<1>1. CASE PCR
  <2>1. IfPresent("pcr", "pcr", "pcr", 6, "opcr")
    BY <1>1 DEF PCR
  <2>2. /\ Stage["opcr"] > Stage["pcr"] /\ Stage["overrun"] > Stage["pcr"]
        /\ "opcr" \in Labels /\ 6 \in Nat
    BY Stages DEF Labels
  <2> QED BY <2>1, <2>2, OptionOnward
<1>2. CASE OPCR
  <2>1. IfPresent("opcr", "opcr", "opcr", 6, "splice")
    BY <1>2 DEF OPCR
  <2>2. /\ Stage["splice"] > Stage["opcr"] /\ Stage["overrun"] > Stage["opcr"]
        /\ "splice" \in Labels /\ 6 \in Nat
    BY Stages DEF Labels
  <2> QED BY <2>1, <2>2, OptionOnward
<1>3. CASE Splice
  <2>1. IfPresent("splice", "splice", "splice_countdown_", 1, "private")
    BY <1>3 DEF Splice
  <2>2. /\ Stage["private"] > Stage["splice"] /\ Stage["overrun"] > Stage["splice"]
        /\ "private" \in Labels /\ 1 \in Nat
    BY Stages DEF Labels
  <2> QED BY <2>1, <2>2, OptionOnward
<1>4. CASE LTW
  <2>1. IfPresent("ltw", "ltw", "ltw_offset_", 2, "piecewise")
    BY <1>4 DEF LTW
  <2>2. /\ Stage["piecewise"] > Stage["ltw"] /\ Stage["overrun"] > Stage["ltw"]
        /\ "piecewise" \in Labels /\ 2 \in Nat
    BY Stages DEF Labels
  <2> QED BY <2>1, <2>2, OptionOnward
<1>5. CASE Piecewise
  <2>1. IfPresent("piecewise", "piecewise", "piecewise_rate_", 3, "seamless")
    BY <1>5 DEF Piecewise
  <2>2. /\ Stage["seamless"] > Stage["piecewise"] /\ Stage["overrun"] > Stage["piecewise"]
        /\ "seamless" \in Labels /\ 3 \in Nat
    BY Stages DEF Labels
  <2> QED BY <2>1, <2>2, OptionOnward
<1>6. CASE Seamless
  <2>1. IfPresent("seamless", "seamless", "dts_next_au_", 5, "unit")
    BY <1>6 DEF Seamless
  <2>2. /\ Stage["unit"] > Stage["seamless"] /\ Stage["overrun"] > Stage["seamless"]
        /\ "unit" \in Labels /\ 5 \in Nat
    BY Stages DEF Labels
  <2> QED BY <2>1, <2>2, OptionOnward
<1>7. CASE ESCR
  <2>1. IfPresent("escr", "escr", "escr_", 6, "es_rate")
    BY <1>7 DEF ESCR
  <2>2. /\ Stage["es_rate"] > Stage["escr"] /\ Stage["overrun"] > Stage["escr"]
        /\ "es_rate" \in Labels /\ 6 \in Nat
    BY Stages DEF Labels
  <2> QED BY <2>1, <2>2, OptionOnward
<1>8. CASE ESRate
  <2>1. IfPresent("es_rate", "es_rate", "es_rate_", 3, "trick")
    BY <1>8 DEF ESRate
  <2>2. /\ Stage["trick"] > Stage["es_rate"] /\ Stage["overrun"] > Stage["es_rate"]
        /\ "trick" \in Labels /\ 3 \in Nat
    BY Stages DEF Labels
  <2> QED BY <2>1, <2>2, OptionOnward
<1>9. CASE TrickMode
  <2>1. IfPresent("trick", "trick", "trick_mode_control_", 1, "copy_info")
    BY <1>9 DEF TrickMode
  <2>2. /\ Stage["copy_info"] > Stage["trick"] /\ Stage["overrun"] > Stage["trick"]
        /\ "copy_info" \in Labels /\ 1 \in Nat
    BY Stages DEF Labels
  <2> QED BY <2>1, <2>2, OptionOnward
<1>10. CASE CopyInfo
  <2>1. IfPresent("copy_info", "copy_info", "additional_copy_info_", 1, "crc")
    BY <1>10 DEF CopyInfo
  <2>2. /\ Stage["crc"] > Stage["copy_info"] /\ Stage["overrun"] > Stage["copy_info"]
        /\ "crc" \in Labels /\ 1 \in Nat
    BY Stages DEF Labels
  <2> QED BY <2>1, <2>2, OptionOnward
<1>11. CASE PESCRC
  <2>1. IfPresent("crc", "crc", "previous_pes_packet_crc_", 2, "pes_extension")
    BY <1>11 DEF PESCRC
  <2>2. /\ Stage["pes_extension"] > Stage["crc"] /\ Stage["overrun"] > Stage["crc"]
        /\ "pes_extension" \in Labels /\ 2 \in Nat
    BY Stages DEF Labels
  <2> QED BY <2>1, <2>2, OptionOnward
<1>12. CASE PESPrivate
  <2>1. IfPresent("pes_private", "pes_private", "pes_private_data_", 16, "pack")
    BY <1>12 DEF PESPrivate
  <2>2. /\ Stage["pack"] > Stage["pes_private"] /\ Stage["overrun"] > Stage["pes_private"]
        /\ "pack" \in Labels /\ 16 \in Nat
    BY Stages DEF Labels
  <2> QED BY <2>1, <2>2, OptionOnward
<1>13. CASE PackLength
  <2>1. IfPresent("pack", "pack", "pack_field_length_", 1, "sequence")
    BY <1>13 DEF PackLength
  <2>2. /\ Stage["sequence"] > Stage["pack"] /\ Stage["overrun"] > Stage["pack"]
        /\ "sequence" \in Labels /\ 1 \in Nat
    BY Stages DEF Labels
  <2> QED BY <2>1, <2>2, OptionOnward
<1>14. CASE Sequence
  <2>1. IfPresent("sequence", "sequence", "program_packet_sequence_counter_", 2, "p_std")
    BY <1>14 DEF Sequence
  <2>2. /\ Stage["p_std"] > Stage["sequence"] /\ Stage["overrun"] > Stage["sequence"]
        /\ "p_std" \in Labels /\ 2 \in Nat
    BY Stages DEF Labels
  <2> QED BY <2>1, <2>2, OptionOnward
<1>15. CASE PSTDBuffer
  <2>1. IfPresent("p_std", "p_std", "p_std_buffer_size_", 2, "extension_2")
    BY <1>15 DEF PSTDBuffer
  <2>2. /\ Stage["extension_2"] > Stage["p_std"] /\ Stage["overrun"] > Stage["p_std"]
        /\ "extension_2" \in Labels /\ 2 \in Nat
    BY Stages DEF Labels
  <2> QED BY <2>1, <2>2, OptionOnward
<1> QED
  BY <1>1, <1>2, <1>3, <1>4, <1>5, <1>6, <1>7, <1>8, <1>9, <1>10, <1>11, <1>12, <1>13,
     <1>14, <1>15

\* the header and the other steps of the adaptation field,
LEMMA FrontOnward ==
    ASSUME Types, \/ Header \/ AdaptationLength \/ AdaptationFlagsByte \/ PrivateData
                  \/ Extension \/ UnitStart
    PROVE  Onward
<1>0. /\ pos_ \in Nat /\ pc \in Labels /\ packet.private \in Nat /\ packet.unit \in Units
      /\ {"header", "adaptation", "flags", "pcr", "private", "extension", "ltw", "unit"}
            \subseteq Labels
  BY DEF Types, TypeOK, PacketOK, Labels
<1>1. CASE Header
  <2> DEFINE after == IF HasAdaptation(packet) THEN "adaptation" ELSE "unit"
             at == [header |-> 0]
  <2>1. Reads("header", at, 4, after)
    BY <1>1 DEF Header
  <2>2. /\ after \in Labels /\ Stage[after] > Stage["header"]
        /\ Stage["overrun"] > Stage["header"] /\ 4 \in Nat
    BY <1>0, Stages
  <2> HIDE DEF after, at
  <2> QED BY <2>1, <2>2, ReadsOnward
<1>2. CASE AdaptationLength
  <2> DEFINE after == IF packet.length > 0 THEN "flags" ELSE "unit"
             at == [adaptation_field_length_ |-> 0]
  <2>1. Reads("adaptation", at, 1, after)
    BY <1>2 DEF AdaptationLength
  <2>2. /\ after \in Labels /\ Stage[after] > Stage["adaptation"]
        /\ Stage["overrun"] > Stage["adaptation"] /\ 1 \in Nat
    BY <1>0, Stages
  <2> HIDE DEF after, at
  <2> QED BY <2>1, <2>2, ReadsOnward
<1>3. CASE AdaptationFlagsByte
  <2> DEFINE at == [adaptation_flags |-> 0]
  <2>1. Reads("flags", at, 1, "pcr")
    BY <1>3 DEF AdaptationFlagsByte
  <2>2. Stage["pcr"] > Stage["flags"] /\ Stage["overrun"] > Stage["flags"] /\ 1 \in Nat
    BY Stages
  <2> HIDE DEF at
  <2> QED BY <1>0, <2>1, <2>2, ReadsOnward
<1>4. CASE PrivateData
  <2> DEFINE at == [transport_private_data_length_ |-> 0, private_data_byte_ |-> 1]
             n == 1 + packet.private
  <2>1. pc = "private" /\ (Decode(at, n, n, "extension") \/ Skip("extension"))
    BY <1>4 DEF PrivateData
  <2>2. /\ Stage["extension"] > Stage["private"] /\ Stage["overrun"] > Stage["private"]
        /\ n \in Nat
    BY <1>0, Stages
  <2> HIDE DEF at, n
  <2> QED BY <1>0, <2>1, <2>2, DecodeOnward, SkipOnward
<1>5. CASE Extension
  <2> DEFINE at == [adaptation_field_extension_length_ |-> 0, extension_flags |-> 1]
             n == 2
  <2>1. pc = "extension" /\ (Decode(at, n, n, "ltw") \/ Skip("unit"))
    BY <1>5 DEF Extension
  <2>2. /\ Stage["ltw"] > Stage["extension"] /\ Stage["unit"] > Stage["extension"]
        /\ Stage["overrun"] > Stage["extension"] /\ n \in Nat
    BY Stages
  <2> HIDE DEF at, n
  <2> QED BY <1>0, <2>1, <2>2, DecodeOnward, SkipOnward
<1>6. CASE UnitStart
  <2>1. pc = "unit" /\ pos_' = pos_ /\ pc' \in {"pes", "pat", "cat", "pmt", "done"}
    BY <1>0, <1>6 DEF UnitStart, Recognised, Units
  <2>2. /\ Stage["pes"] > Stage["unit"] /\ Stage["pat"] > Stage["unit"]
        /\ Stage["cat"] > Stage["unit"] /\ Stage["pmt"] > Stage["unit"]
        /\ Stage["done"] > Stage["unit"]
        /\ {"pes", "pat", "cat", "pmt", "done"} \subseteq Labels
    BY Stages DEF Labels
  <2> QED BY <1>0, <2>1, <2>2 DEF Onward
<1> QED BY <1>1, <1>2, <1>3, <1>4, <1>5, <1>6

\* those of a PES header,
LEMMA PESOnward ==
    ASSUME Types, PESStart \/ PESFlagBytes \/ PTS \/ PESExtensionFlags \/ Extension2
    PROVE  Onward
<1>0. {"pes_flags", "done", "pts", "escr", "pes_private"} \subseteq Labels
  BY DEF Labels
<1>1. CASE PESStart
  <2> DEFINE after == IF HasNoOptionalHeader(packet.stream_id) THEN "done" ELSE "pes_flags"
             n == 6
  <2>1. Reads("pes", PESAt, n, after)
    BY <1>1 DEF PESStart
  <2>2. /\ after \in Labels /\ Stage[after] > Stage["pes"]
        /\ Stage["overrun"] > Stage["pes"] /\ n \in Nat
    BY <1>0, Stages
  <2> HIDE DEF after, n
  <2> QED BY <2>1, <2>2, ReadsOnward
<1>2. CASE PESFlagBytes
  <2> DEFINE n == 3
  <2>1. Reads("pes_flags", PESFlagsAt, n, "pts")
    BY <1>2 DEF PESFlagBytes
  <2>2. /\ Stage["pts"] > Stage["pes_flags"] /\ Stage["overrun"] > Stage["pes_flags"]
        /\ n \in Nat
    BY Stages
  <2> HIDE DEF n
  <2> QED BY <1>0, <2>1, <2>2, ReadsOnward
<1>3. CASE PTS
  <2> DEFINE one == [pts_ |-> 0]
             two == [pts_ |-> 0, dts_ |-> 5]
             n == 5
             m == 10
  <2>1. pc = "pts" /\ (Decode(one, n, n, "escr") \/ Decode(two, m, m, "escr") \/ Skip("escr"))
    BY <1>3 DEF PTS
  <2>2. /\ Stage["escr"] > Stage["pts"] /\ Stage["overrun"] > Stage["pts"]
        /\ n \in Nat /\ m \in Nat
    BY Stages
  <2> HIDE DEF one, two, n, m
  <2> QED BY <1>0, <2>1, <2>2, DecodeOnward, SkipOnward
<1>4. CASE PESExtensionFlags
  <2> DEFINE at == [pes_extension_flags |-> 0]
             n == 1
  <2>1. pc = "pes_extension" /\ (Decode(at, n, n, "pes_private") \/ Skip("done"))
    BY <1>4 DEF PESExtensionFlags
  <2>2. /\ Stage["pes_private"] > Stage["pes_extension"]
        /\ Stage["done"] > Stage["pes_extension"]
        /\ Stage["overrun"] > Stage["pes_extension"] /\ n \in Nat
    BY Stages
  <2> HIDE DEF at, n
  <2> QED BY <1>0, <2>1, <2>2, DecodeOnward, SkipOnward
<1>5. CASE Extension2
  <2> DEFINE at == [pes_extension_field_length_ |-> 0]
             n == 1
             move == 0
  <2>1. pc = "extension_2" /\ (Decode(at, n, move, "done") \/ Skip("done"))
    BY <1>5 DEF Extension2
  <2>2. /\ Stage["done"] > Stage["extension_2"] /\ Stage["overrun"] > Stage["extension_2"]
        /\ n \in Nat /\ move \in Nat
    BY Stages
  <2> HIDE DEF at, n, move
  <2> QED BY <1>0, <2>1, <2>2, DecodeOnward, SkipOnward
<1> QED BY <1>1, <1>2, <1>3, <1>4, <1>5

\* and those of a section, its loops included.
LEMMA SectionOnward ==
    ASSUME Inv, Walk, ListsInv, WellFormed(packet), SectionWalk
    PROVE  Onward
<1>0. /\ Types /\ pos_ \in Nat /\ packet.info \in Nat
      /\ {"programmes", "streams", "crc_32", "done", "overrun"} \subseteq Labels
  BY DEF Inv, Types, TypeOK, PacketOK, Labels
<1>1. /\ Stage["programmes"] > Stage["pat"] /\ Stage["overrun"] > Stage["pat"]
      /\ Stage["crc_32"] > Stage["cat"] /\ Stage["overrun"] > Stage["cat"]
      /\ Stage["streams"] > Stage["pmt"] /\ Stage["overrun"] > Stage["pmt"]
      /\ Stage["crc_32"] > Stage["programmes"] /\ Stage["overrun"] > Stage["programmes"]
      /\ Stage["crc_32"] > Stage["streams"] /\ Stage["overrun"] > Stage["streams"]
      /\ Stage["done"] > Stage["crc_32"] /\ Stage["overrun"] > Stage["crc_32"]
  BY Stages
<1>2. CASE PATHeader
  <2> DEFINE n == 9
  <2>1. pc = "pat" /\ Decode(SectionAt, n, n, "programmes") /\ n \in Nat
    BY <1>2 DEF PATHeader
  <2> HIDE DEF n
  <2> QED BY <1>0, <1>1, <2>1, DecodeOnward
<1>3. CASE PATEntry
  <2>1. pc = "programmes" /\ Decode(NoField, 4, 4, "programmes")
    BY <1>3 DEF PATEntry
  <2>2. \/ pc' = "overrun" /\ pos_' = pos_
        \/ pc' = pc /\ pos_ + 4 <= 188 /\ pos_' = pos_ + 4
    BY <2>1 DEF Decode, PACKET_SIZE
  <2> QED BY <1>0, <1>1, <2>1, <2>2 DEF Onward
<1>4. CASE PATListEnd
  <2>1. pc = "programmes" /\ pc' = "crc_32" /\ pos_' = pos_
    BY <1>4 DEF PATListEnd
  <2> QED BY <1>0, <1>1, <2>1 DEF Onward
<1>5. CASE CATHeader
  <2> DEFINE n == 9
  <2>1. pc = "cat" /\ Decode(SectionAt, n, n, "crc_32") /\ n \in Nat
    BY <1>5 DEF CATHeader
  <2> HIDE DEF n
  <2> QED BY <1>0, <1>1, <2>1, DecodeOnward
<1>6. CASE PMTHeader
  <2> DEFINE n == 13
             move == 13 + packet.info
  <2>1. pc = "pmt" /\ Decode(PMTAt, n, move, "streams") /\ n \in Nat /\ move \in Nat
    BY <1>0, <1>6 DEF PMTHeader
  <2> HIDE DEF n, move
  <2> QED BY <1>0, <1>1, <2>1, DecodeOnward
<1>7. CASE PMTEntry
  <2>1. /\ pc = "streams" /\ pointer # PMTSize + 1 /\ pc' = pc
        /\ \E es_info_length_ \in ESInfoLengths(Len(list_) + 1) :
              pos_' = pos_ + 5 + es_info_length_
    BY <1>7 DEF PMTEntry
  <2>2. PICK es_info_length_ \in ESInfoLengths(Len(list_) + 1) :
            pos_' = pos_ + 5 + es_info_length_
    BY <2>1
  <2>3. es_info_length_ \in Nat
    BY <2>1, NextEntry
  <2>4. pos_ + 5 <= PACKET_SIZE
    BY <2>1, StreamFits
  <2>5. pos_ <= 188 /\ pos_' > pos_ /\ pos_' \in Nat
    BY <1>0, <2>2, <2>3, <2>4 DEF PACKET_SIZE
  <2> QED BY <1>0, <2>1, <2>5 DEF Onward
<1>10. CASE PMTCrash
  <2>1. Walk'
    BY <1>10, StreamHolds
  <2>2. pc' = "crashed" /\ packet' = packet
    BY <1>10 DEF PMTCrash
  <2>3. ~WellFormed(packet)
    BY <2>1, <2>2 DEF Walk, Position, EndedInv, StaysInPacket
  <2> QED BY <2>3
<1>8. CASE PMTListEnd
  <2>1. pc = "streams" /\ pc' = "crc_32" /\ pos_' = pos_
    BY <1>8 DEF PMTListEnd
  <2> QED BY <1>0, <1>1, <2>1 DEF Onward
<1>9. CASE SectionCRC
  <2> DEFINE at == [crc_32_ |-> 0]
             n == 4
  <2>1. Reads("crc_32", at, n, "done") /\ n \in Nat
    BY <1>9 DEF SectionCRC
  <2> HIDE DEF at, n
  <2> QED BY <1>0, <1>1, <2>1, ReadsOnward
<1> QED BY <1>2, <1>3, <1>4, <1>5, <1>6, <1>7, <1>8, <1>9, <1>10
        DEF SectionWalk

\* The walk over a packet whose lengths add up takes at most 200 * 27 + 189 steps:
\* each leaves less to do, and less than nothing cannot be left.  (Of any other
\* packet nothing is said: there the loop over the streams may run on behind the
\* packet until the process ends.)
THEOREM LeavesLess == Spec => [][WellFormed(packet) => Left' \in Nat /\ Left' < Left]_vars
<1>1. Inv /\ Walk /\ ListsInv /\ Next => (WellFormed(packet) => Left' \in Nat /\ Left' < Left)
  <2> SUFFICES ASSUME Inv, Walk, ListsInv, Next, WellFormed(packet)
               PROVE  Left' \in Nat /\ Left' < Left
    OBVIOUS
  <2>1. Types
    BY DEF Inv
  <2>2. Onward
    BY <2>1, OptionsOnward, FrontOnward, PESOnward, SectionOnward
       DEF Next, Adaptation, PESWalk
  <2> QED BY <2>1, <2>2, LessLeft DEF Onward
<1> QED BY <1>1, KeepsToLayout, PTL DEF Spec
=============================================================================
