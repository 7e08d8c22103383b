---------------------------- MODULE PacketLayout ----------------------------
(***************************************************************************)
(* Where the fields of a transport packet stand (ISO/IEC 13818-1): the     *)
(* layout the parsers of this program have to follow.  No code of the      *)
(* repository is modelled here.                                            *)
(*                                                                         *)
(* A packet is a record of what its layout depends on:                     *)
(*   control        adaptation_field_control                               *)
(*   length         adaptation_field_length                                *)
(*   flags          the optional fields that are present                   *)
(*   private        bytes of private data in the adaptation field          *)
(*   start, unit    payload_unit_start_indicator, and what starts there    *)
(*   stream_id, pts_dts, pack    of a PES packet: its stream, which time   *)
(*                  stamps it has, the bytes of its pack header            *)
(*   section_length, info, ends  of a section: its length, the bytes of    *)
(*                  programme descriptors, and the offset from the first   *)
(*                  stream of a programme map at which each stream ends    *)
(*   bits           the bits <<f, k, b>> that are set in byte k of field f *)
(*                  (of the fields whose value is looked at)               *)
(***************************************************************************)
EXTENDS Integers, Sequences

PACKET_SIZE == 188

Units == {"pes", "pat", "cat", "pmt", "other"}

AdaptationFlags == {"pcr", "opcr", "splice", "private", "extension"}
ExtensionFlags  == {"ltw", "piecewise", "seamless"}
PESFlags        == {"escr", "es_rate", "trick", "copy_info", "crc", "pes_extension"}
PESExtension    == {"pes_private", "pack", "sequence", "p_std", "extension_2"}
Flags == AdaptationFlags \cup ExtensionFlags \cup PESFlags \cup PESExtension

\* One field: its name and its bytes.  An optional field, a group of fields.
Field(name, size)          == << <<name, size>> >>
Optional(p, flag, fields)  == IF flag \in p.flags THEN fields ELSE <<>>
Option(p, flag, name, n)   == Optional(p, flag, Field(name, n))

\* The bytes of the first n of the fields.
Bytes(fields, n) ==
    LET sum[i \in 0 .. n] == IF i = 0 THEN 0 ELSE sum[i - 1] + fields[i][2]
    IN  sum[n]
Size(fields) == Bytes(fields, Len(fields))

\* The adaptation field behind adaptation_field_length, without stuffing.
AdaptationContent(p) ==
    IF p.length = 0 THEN <<>>
    ELSE Field("adaptation_flags", 1)
         \o Option(p, "pcr", "pcr", 6)
         \o Option(p, "opcr", "opcr", 6)
         \o Option(p, "splice", "splice_countdown_", 1)
         \o Optional(p, "private", Field("transport_private_data_length_", 1)
                                      \o Field("private_data_byte_", p.private))
         \o Optional(p, "extension",
                Field("adaptation_field_extension_length_", 1)
                \o Field("extension_flags", 1)
                \o Option(p, "ltw", "ltw_offset_", 2)
                \o Option(p, "piecewise", "piecewise_rate_", 3)
                \o Option(p, "seamless", "dts_next_au_", 5))

HasAdaptation(p) == p.control \in {2, 3}
Stuffing(p)      == IF HasAdaptation(p) THEN p.length - Size(AdaptationContent(p)) ELSE 0
PayloadStart(p)  == IF HasAdaptation(p) THEN 5 + p.length ELSE 4

\* Streams whose PES packets have no optional header: programme stream map,
\* padding, private 2, ECM, EMM, directory, DSM-CC, H.222.1 type E.
PlainStreams == {188, 190, 191, 240, 241, 255, 242, 248}

PESFields(p) ==
    Field("packet_start_code_prefix_", 3) \o Field("stream_id_", 1)
    \o Field("pes_packet_length_", 2)
    \o IF p.stream_id \in PlainStreams THEN <<>>
       ELSE Field("pes_flags", 2) \o Field("pes_header_data_length_", 1)
            \o (IF p.pts_dts >= 2 THEN Field("pts_", 5) ELSE <<>>)
            \o (IF p.pts_dts = 3 THEN Field("dts_", 5) ELSE <<>>)
            \o Option(p, "escr", "escr_", 6)
            \o Option(p, "es_rate", "es_rate_", 3)
            \o Option(p, "trick", "trick_mode_control_", 1)
            \o Option(p, "copy_info", "additional_copy_info_", 1)
            \o Option(p, "crc", "previous_pes_packet_crc_", 2)
            \o Optional(p, "pes_extension",
                   Field("pes_extension_flags", 1)
                   \o Option(p, "pes_private", "pes_private_data_", 16)
                   \o Optional(p, "pack", Field("pack_field_length_", 1)
                                             \o Field("pack_header", p.pack))
                   \o Option(p, "sequence", "program_packet_sequence_counter_", 2)
                   \o Option(p, "p_std", "p_std_buffer_size_", 2)
                   \o Option(p, "extension_2", "pes_extension_field_length_", 1))

\* A section up to its lists; section_length counts what follows it.
SectionHeader == Field("pointer_field_", 1) \o Field("table_id_", 1)
                 \o Field("section_length_", 2) \o Field("table_id_extension", 2)
                 \o Field("version_number_", 1) \o Field("section_number_", 1)
                 \o Field("last_section_number_", 1)

ListSize(p) == p.section_length - (IF p.unit = "pmt" THEN 13 + p.info ELSE 9)

Section(p) == SectionHeader
              \o (IF p.unit = "pmt"
                  THEN Field("pcr_pid_", 2) \o Field("program_info_length_", 2)
                       \o Field("program_info", p.info)
                  ELSE <<>>)
              \o Field("list", ListSize(p)) \o Field("crc_32_", 4)

Unit(p) == CASE ~p.start \/ p.unit = "other" -> <<>>
             [] p.start /\ p.unit = "pes" -> PESFields(p)
             [] OTHER -> Section(p)

Layout(p) == Field("header", 4)
             \o (IF HasAdaptation(p)
                 THEN Field("adaptation_field_length_", 1) \o AdaptationContent(p)
                      \o Field("stuffing", Stuffing(p))
                 ELSE <<>>)
             \o Unit(p)

\* Field -> the position of its first byte, for the fields the packet has.
Places(p) ==
    LET fields == Layout(p)
        Index(f) == CHOOSE i \in DOMAIN fields : fields[i][1] = f
    IN  [f \in {fields[i][1] : i \in DOMAIN fields} |-> Bytes(fields, Index(f) - 1)]

\* The list of a section is a number of whole entries, and the packet holds it.
EntriesFit(p) ==
    /\ ListSize(p) >= 0
    /\ p.unit = "pat" => ListSize(p) % 4 = 0
    /\ p.unit = "pmt" => \E i \in DOMAIN p.ends : p.ends[i] = ListSize(p)

WellFormed(p) == /\ p.start /\ p.unit \in {"pat", "cat", "pmt"} => EntriesFit(p)
                 /\ Size(Layout(p)) <= PACKET_SIZE
=============================================================================
