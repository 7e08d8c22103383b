----------------------------- MODULE ReportSize -----------------------------
(***************************************************************************)
(* How long the text is that SetPrintHeaderInfo and SetPrintHexData make   *)
(* of one packet, and the buffer the server copies it to.                  *)
(*                                                                         *)
(* A line is its label, the decimal value and the newline.  Each definition*)
(* adds the labels (with their newlines) and the digits the values have at *)
(* most: 3 for 8 bits, 4 for 13 bits and for lengths, 5 for 16, 10 for 32. *)
(***************************************************************************)
EXTENDS PacketLayout

SendBufSize == 2048

If(p, flag, n) == IF flag \in p.flags THEN n ELSE 0

\* The title, the line that names the packet, eight fields.
HeaderText == 35 + 32 + 193 + 14

\* Title, length, eight flags and the closing line; then what the flags show.
AdaptationText(p) ==
    271 + If(p, "pcr", 9 + 10) + If(p, "opcr", 10 + 10) + If(p, "splice", 21 + 3)
        + If(p, "private", 32 + 3 + p.private * (21 + 3))
        + If(p, "extension", 96 + 6 + If(p, "ltw", 33 + 6)
                             + If(p, "piecewise", 19 + 7) + If(p, "seamless", 31 + 12))

\* The longest form of the trick mode is that of fast forward and reverse.
PESText(p) ==
    62 + 8 +
    IF p.stream_id \in PlainStreams THEN 0
    ELSE 248 + 14
         + (CASE p.pts_dts = 2 -> 16 + 7 + 10
              [] p.pts_dts = 3 -> 40 + 14 + 20
              [] OTHER -> 0)
         + If(p, "escr", 31 + 13) + If(p, "es_rate", 11 + 7)
         + If(p, "trick", 22 + 59 + 4) + If(p, "copy_info", 24 + 3)
         + If(p, "crc", 27 + 5)
         + If(p, "pes_extension", 161 + 6
              + If(p, "pes_private", 20 + 20) + If(p, "pack", 21 + 3)
              + If(p, "sequence", 86 + 6) + If(p, "p_std", 43 + 6)
              + If(p, "extension_2", 30 + 3))

\* n entries: programmes of a PAT, streams of a PMT.
PATText(n) == 192 + 22 + n * (37 + 9) + 11 + 10
PMTText(n) == 222 + 30 + n * (69 + 11) + 11 + 10
CATText    == 169 + 17 + 11 + 10

SectionText(unit, p, n) == CASE unit = "pes" -> PESText(p)
                             [] unit = "pat" -> PATText(n)
                             [] unit = "cat" -> CATText
                             [] unit = "pmt" -> PMTText(n)

\* Mutant: a line of the dump has the width of the console and a newline.
DumpTextWide == 12 * 81

\* Twelve lines of CONSOLE_COLS - 1 characters and a newline.
DumpText == 12 * 80

\* What GetSendBuffer returns for a packet of whose parts exist were decoded,
\* with n entries in its list.
SendText(p, exist, n) ==
    HeaderText
    + (IF "adaptation" \in exist THEN AdaptationText(p) ELSE 0)
    + (IF exist \subseteq {"adaptation"} THEN 0
       ELSE SectionText(CHOOSE unit \in exist : unit # "adaptation", p, n))
    + DumpText
=============================================================================
