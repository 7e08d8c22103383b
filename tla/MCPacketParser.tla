---------------------------- MODULE MCPacketParser ----------------------------
(* Packets by family: every combination of adaptation flags in front of     *)
(* every unit, with and without stuffing; the combinations of PES flags;    *)
(* every stream id; PAT and CAT of any length a packet holds, and of the    *)
(* greatest; programme maps of up to three streams whose length is right or *)
(* off by some, and of as many streams as a packet holds; and packets whose *)
(* fields carry bits.                                                       *)
EXTENDS PacketParser

Base == [control |-> 1, length |-> 0, flags |-> {}, private |-> 0, start |-> TRUE,
         unit |-> "other", stream_id |-> 224, pts_dts |-> 0, pack |-> 0,
         section_length |-> 13, info |-> 0, ends |-> <<0>>, bits |-> {}]

\* p with an adaptation field of the length its flags need and s stuffing bytes.
WithAdaptation(p, s) ==
    LET some == [p EXCEPT !.control = 3, !.length = 1]
    IN  [some EXCEPT !.length = Size(AdaptationContent(some)) + s]

AdaptationChoices ==
    {flags \in SUBSET (AdaptationFlags \cup ExtensionFlags) :
        flags \cap ExtensionFlags # {} => "extension" \in flags}

AdaptationFamily ==
    {WithAdaptation([Base EXCEPT !.flags = flags, !.private = 3, !.unit = unit,
                                 !.start = start], s) :
        flags \in AdaptationChoices, unit \in Units, start \in BOOLEAN, s \in {0, 2}}
    \cup {[Base EXCEPT !.control = control, !.unit = unit, !.start = start] :
             control \in {0, 1, 3}, unit \in Units, start \in BOOLEAN}
    \cup {[Base EXCEPT !.control = 2, !.length = 183, !.start = FALSE,
                       !.flags = flags] : flags \in SUBSET {"pcr", "private"}}

\* The optional fields in front of the extension flags in every combination,
\* and those behind them.
PESChoices == SUBSET PESFlags
              \cup {{"crc", "pes_extension"} \cup some : some \in SUBSET PESExtension}

PESFamily ==
    {[Base EXCEPT !.unit = "pes", !.flags = flags, !.pts_dts = pts_dts, !.pack = 12] :
        flags \in PESChoices, pts_dts \in {0, 2, 3}}
    \cup {[Base EXCEPT !.unit = "pes", !.stream_id = id] : id \in 188 .. 255}

SectionFamily == {[Base EXCEPT !.unit = unit, !.section_length = n] :
                      unit \in {"pat", "cat"}, n \in (0 .. 200) \cup (1012 .. 1023)}

StreamLists == {<<0>>, <<0, 5>>, <<0, 8>>, <<0, 5, 10>>, <<0, 8, 13, 24>>}

PMTFamily ==
    {[Base EXCEPT !.unit = "pmt", !.info = info, !.ends = ends,
                  !.section_length = 13 + info + ends[Len(ends)] + off] :
        info \in {0, 6}, ends \in StreamLists, off \in {-13, -8, -5, -1, 0, 1, 5, 260}}
    \cup {[Base EXCEPT !.unit = "pmt", !.ends = [i \in 1 .. n + 1 |-> 5 * (i - 1)],
                       !.section_length = 13 + 5 * n] : n \in 0 .. 36}
    \cup {WithAdaptation([Base EXCEPT !.unit = "pmt", !.flags = {"pcr"},
              !.ends = [i \in 1 .. n + 1 |-> 5 * (i - 1)],
              !.section_length = 13 + 5 * n], 0) : n \in 0 .. 36}

\* In every field one bit of one byte, or all of them; or all in some fields.
ValueFields == {Code(v).field : v \in Values}
BitPatterns == {{<<f, k, b>> : f \in ValueFields} : k \in 0 .. 5, b \in 0 .. 7}
               \cup {fields \X (0 .. 5) \X (0 .. 7) :
                        fields \in {ValueFields, ValueFields \ {"opcr"}, {"opcr"}}}

BitFamily ==
    {WithAdaptation([Base EXCEPT !.unit = "pes", !.pts_dts = 3, !.bits = bits,
                        !.flags = Flags \ {"pack", "private"}], 0) : bits \in BitPatterns}
    \cup {[Base EXCEPT !.unit = unit, !.bits = bits] :
             unit \in {"pat", "pmt"}, bits \in BitPatterns}

MCPackets == AdaptationFamily \cup PESFamily \cup SectionFamily \cup PMTFamily
             \cup BitFamily

\* Bytes behind the streams: those of a CRC or of another section may be any,
\* stuffing gives the greatest length.
MCAnyLength == {0, 255, 1023}
=============================================================================
