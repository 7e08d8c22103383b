----------------------------- MODULE FieldBits ------------------------------
(***************************************************************************)
(* The values the parsers assemble from bytes by masking and shifting.  A  *)
(* number is the set of its one bits; arithmetic is that of the 32-bit     *)
(* build, where uint64 is unsigned long and has 32 bits as well.           *)
(***************************************************************************)
EXTENDS Integers, Sequences

WORD == 32

\* What each bit of a byte counts, and the bits of a mask that select from it.
Weights   == <<1, 2, 4, 8, 16, 32, 64, 128>>
BitsOf(n) == {b \in 0 .. 7 : (n \div Weights[b + 1]) % 2 = 1}

\* Addition of two words: bit b of the sum, with the carry into it.
Plus(x, y) ==
    LET Ones(b)  == (IF b \in x THEN 1 ELSE 0) + (IF b \in y THEN 1 ELSE 0)
        carry[b \in 0 .. WORD] ==
            IF b = 0 THEN 0 ELSE (Ones(b - 1) + carry[b - 1]) \div 2
    IN  {b \in 0 .. WORD - 1 : (Ones(b) + carry[b]) % 2 = 1}

\* (byte & mask) << shift, a negative shift to the right.
Term(byte, mask, shift) ==
    {b + shift : b \in byte \cap BitsOf(mask)} \cap (0 .. WORD - 1)

\* value += term, for one term <<k, mask, shift>> after the other.
Total(terms, bytes) ==
    LET sum[n \in 0 .. Len(terms)] ==
            IF n = 0 THEN {}
            ELSE Plus(sum[n - 1], Term(bytes[terms[n][1]], terms[n][2], terms[n][3]))
    IN  sum[Len(terms)]

-----------------------------------------------------------------------------
(* The code: value -> the field it is for, and its terms <<k, mask, shift>> *)
(* (none if nothing is assigned to it), k the byte of the field.            *)

Decoding(field, terms) == [field |-> field, terms |-> terms]

TwoBytes(mask) == << <<0, mask, 8>>, <<1, \hFF, 0>> >>

\* Mutant: the middle byte is shifted as if it had no marker bit.
StampShiftedTooFar == << <<0, \h0E, 29>>, <<1, \hFF, 22>>, <<2, \hFE, 15>>,
                         <<3, \hFF, 7>>, <<4, \hFE, -1>> >>

Stamp   == << <<0, \h0E, 29>>, <<1, \hFF, 22>>, <<2, \hFE, 14>>,
              <<3, \hFF, 7>>, <<4, \hFE, -1>> >>
PCRBase == << <<0, \hFF, 25>>, <<1, \hFF, 17>>, <<2, \hFF, 9>>,
              <<3, \hFF, 1>>, <<4, \hFF, -7>> >>
PCRExt  == << <<4, \h01, 8>>, <<5, \hFF, 0>> >>

\* & binds weaker than <<, so the mask of ltw_offset_ is 0x7F00 and nothing of
\* the first byte passes it.  The second assignments of escr_extension_ and
\* previous_pes_packet_crc_ overwrite the first.  An OPCR is assembled like a
\* PCR, and into the values of the PCR: its own are never assigned.
TimeStamps ==
    [ pts_         |-> Decoding("pts_", Stamp),
      dts_         |-> Decoding("dts_", Stamp),
      program_clock_reference_base_ |-> Decoding("pcr", PCRBase),
      original_program_clock_reference_base_ |-> Decoding("opcr", <<>>),
      dts_next_au_ |-> Decoding("dts_next_au_",
          << <<0, \h0E, 29>>, <<1, \hFF, 22>>, <<2, \h0E, 14>>,
             <<3, \hFF, 7>>, <<4, \h0E, -1>> >>),
      escr_base_   |-> Decoding("escr_",
          << <<0, \h38, 30>>, <<0, \h03, 28>>, <<1, \hFF, 20>>, <<2, \hF8, 15>>,
             <<2, \h03, 13>>, <<3, \hFF, 5>>, <<4, \hF8, 0>> >>) ]

OtherValues ==
    [ program_clock_reference_extension_ |-> Decoding("pcr", PCRExt),
      original_program_clock_reference_extension_ |-> Decoding("opcr", <<>>),
      escr_extension_  |-> Decoding("escr_", << <<5, \hFE, -1>> >>),
      ltw_offset_      |-> Decoding("ltw_offset_", << <<0, \h7F00, 0>>, <<1, \hFF, 0>> >>),
      piecewise_rate_  |-> Decoding("piecewise_rate_",
          << <<0, \h3F, 16>>, <<1, \hFF, 8>>, <<2, \hFF, 0>> >>),
      es_rate_         |-> Decoding("es_rate_",
          << <<0, \h7F, 16>>, <<1, \hFF, 8>>, <<2, \hFE, -1>> >>),
      additional_copy_info_ |-> Decoding("additional_copy_info_", << <<0, \h7F, 0>> >>),
      previous_pes_packet_crc_ |-> Decoding("previous_pes_packet_crc_",
                                            << <<1, \hFF, 0>> >>),
      p_std_buffer_size_ |-> Decoding("p_std_buffer_size_",
                                      << <<0, \h1F, 8>>, <<1, \h1F, 8>> >>),
      program_packet_sequence_counter_ |->
          Decoding("program_packet_sequence_counter_", << <<0, \h7F, 0>> >>),
      original_stuff_length_ |->
          Decoding("program_packet_sequence_counter_", << <<1, \h3F, 0>> >>),
      pcr_pid_         |-> Decoding("pcr_pid_", TwoBytes(\h1F)),
      version_number_  |-> Decoding("version_number_", << <<0, \h3E, -1>> >>),
      crc_32_          |-> Decoding("crc_32_",
          << <<0, \hFF, 24>>, <<1, \hFF, 16>>, <<2, \hFF, 8>>, <<3, \hFF, 0>> >>) ]

Code(v) == IF v \in DOMAIN TimeStamps THEN TimeStamps[v] ELSE OtherValues[v]
Values  == DOMAIN TimeStamps \cup DOMAIN OtherValues

PCRValues  == {"program_clock_reference_base_", "program_clock_reference_extension_"}
OPCRValues == {"original_program_clock_reference_base_",
               "original_program_clock_reference_extension_"}

\* The field that is stored in v last, in a packet with these optional fields.
Source(v, flags) == IF v \in PCRValues /\ "opcr" \in flags THEN "opcr" ELSE Code(v).field

\* What the code makes of the bytes of a field.
Assembled(v, bytes) == Total(Code(v).terms, bytes)

-----------------------------------------------------------------------------
(* ISO/IEC 13818-1: the pieces <<k, high, low, weight>> of a value: bits   *)
(* high to low of byte k, the lowest of which counts 2^weight.             *)

StampPieces   == << <<0, 3, 1, 30>>, <<1, 7, 0, 22>>, <<2, 7, 1, 15>>,
                    <<3, 7, 0, 7>>, <<4, 7, 1, 0>> >>
PCRBasePieces == << <<0, 7, 0, 25>>, <<1, 7, 0, 17>>, <<2, 7, 0, 9>>,
                    <<3, 7, 0, 1>>, <<4, 7, 7, 0>> >>
PCRExtPieces  == << <<4, 0, 0, 8>>, <<5, 7, 0, 0>> >>

Pieces(v) ==
    CASE v \in {"pts_", "dts_", "dts_next_au_"} -> StampPieces
      [] v \in {"program_clock_reference_base_",
              "original_program_clock_reference_base_"} -> PCRBasePieces
      [] v \in {"program_clock_reference_extension_",
              "original_program_clock_reference_extension_"} -> PCRExtPieces
      [] v = "escr_base_" -> << <<0, 5, 3, 30>>, <<0, 1, 0, 28>>, <<1, 7, 0, 20>>,
                                <<2, 7, 3, 15>>, <<2, 1, 0, 13>>, <<3, 7, 0, 5>>,
                                <<4, 7, 3, 0>> >>
      [] v = "escr_extension_" -> << <<4, 1, 0, 7>>, <<5, 7, 1, 0>> >>
      [] v = "ltw_offset_" -> << <<0, 6, 0, 8>>, <<1, 7, 0, 0>> >>
      [] v = "piecewise_rate_" -> << <<0, 5, 0, 16>>, <<1, 7, 0, 8>>, <<2, 7, 0, 0>> >>
      [] v = "es_rate_" -> << <<0, 6, 0, 15>>, <<1, 7, 0, 7>>, <<2, 7, 1, 0>> >>
      [] v \in {"additional_copy_info_", "program_packet_sequence_counter_"} ->
             << <<0, 6, 0, 0>> >>
      [] v = "original_stuff_length_" -> << <<1, 5, 0, 0>> >>
      [] v = "previous_pes_packet_crc_" -> << <<0, 7, 0, 8>>, <<1, 7, 0, 0>> >>
      [] v \in {"p_std_buffer_size_", "pcr_pid_"} -> << <<0, 4, 0, 8>>, <<1, 7, 0, 0>> >>
      [] v = "version_number_" -> << <<0, 5, 1, 0>> >>
      [] v = "crc_32_" -> << <<0, 7, 0, 24>>, <<1, 7, 0, 16>>, <<2, 7, 0, 8>>,
                             <<3, 7, 0, 0>> >>

Piece(p, bytes) == {p[4] + b - p[3] : b \in bytes[p[1]] \cap (p[3] .. p[2])}

Meant(v, bytes) == UNION {Piece(Pieces(v)[i], bytes) : i \in DOMAIN Pieces(v)}

\* The bits the code keeps of a value; of the values that are missing here it
\* moves bits to other places (es_rate_, p_std_buffer_size_, escr_base_).
Kept(v) == CASE v \in {"ltw_offset_", "previous_pes_packet_crc_"} -> 0 .. 7
             [] v = "escr_extension_" -> 0 .. 6
             [] v \in OPCRValues -> {}
             [] v = "dts_next_au_" -> (0 .. 2) \cup (7 .. 17) \cup (22 .. 31)
             [] OTHER -> 0 .. WORD - 1

Misplaced == {"es_rate_", "p_std_buffer_size_", "escr_base_"}
=============================================================================
