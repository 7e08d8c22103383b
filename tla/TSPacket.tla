------------------------------ MODULE TSPacket ------------------------------
(***************************************************************************)
(* TSPacket and the section parsers it owns (PESPacket, PATPacket,         *)
(* CCATPacket, PMTPacket): what one analysed packet leaves behind in them. *)
(*                                                                         *)
(* A parser is a record.  Decoded values are abstracted to the buffer they *)
(* were decoded from: an operator that decodes a part stores that buffer   *)
(* in "fields", one that formats a part copies it from there.  What is     *)
(* kept exactly is the control: which parts a packet has, the              *)
(* is_exist_data_ flags, the text every parser accumulates, and the blocks *)
(* that malloc returned and free has not taken back.                       *)
(***************************************************************************)
EXTENDS Integers, Sequences

CONSTANT Zero   \* the fields of a part after Init()

Sections == {"pes", "pat", "cat", "pmt"}
Tables   == {"pat", "pmt"}              \* the sections that allocate a list
Parts    == Sections \cup {"header", "adaptation"}
Owners   == Tables \cup {"private"}     \* who may hold an allocated block

\* What decoding depends on: the adaptation field (absent, of length 0,
\* without and with private data) and the section that starts after it.
Content == [adaptation : {"none", "empty", "plain", "private"},
            unit       : Sections \cup {"none"}]

\* The parsers whose fields were decoded from the buffers D.
Parsers(D) == [exist  : SUBSET (Parts \ {"header"}),
               fields : [Parts -> D \cup {Zero}],
               text   : [Sections -> Seq(D \cup {Zero})],
               report : Seq([part : Parts, from : D \cup {Zero}]),
               private_flag : BOOLEAN,
               live   : SUBSET Owners,
               leaked : Nat]

\* The constructor of TSPacket and of its members: Init() everywhere.
NewParser == [exist  |-> {},                          \* is_exist_data_
              fields |-> [part \in Parts |-> Zero],
              text   |-> [s \in Sections |-> <<>>],   \* packet_info_buffer_
              report |-> <<>>,                        \* that of TSPacket
              private_flag |-> FALSE,
              live   |-> {},                          \* owners of a block
              leaked |-> 0]                           \* blocks nobody owns

\* malloc into the pointer of owner, whatever the pointer held before.
Allocate(ts, owner) ==
    [ts EXCEPT !.leaked = IF owner \in ts.live THEN @ + 1 ELSE @,
               !.live   = @ \cup {owner}]

Decode(ts, part, data) ==
    [ts EXCEPT !.exist = @ \cup {part}, !.fields[part] = data]

\* A field of length 0 leaves the flags alone; private data is allocated.
GetAdaptationField(ts, data, kind) ==
    LET decoded == Decode(ts, "adaptation", data)
    IN  CASE kind = "empty"   -> decoded
          [] kind = "plain"   -> [decoded EXCEPT !.private_flag = FALSE]
          [] kind = "private" -> [Allocate(decoded, "private")
                                    EXCEPT !.private_flag = TRUE]

\* PESPacket, PATPacket, CCATPacket, PMTPacket::SetHeaderInfo.
SetHeaderInfo(ts, section, data) ==
    LET decoded == Decode(ts, section, data)
    IN  IF section \in Tables THEN Allocate(decoded, section) ELSE decoded

\* Analyse the buffer data, whose content is c.
GetHeaderInfo(ts, data, c) ==
    LET header  == [ts EXCEPT !.fields["header"] = data]
        adapted == IF c.adaptation = "none" THEN header
                   ELSE GetAdaptationField(header, data, c.adaptation)
    IN  IF c.unit = "none" THEN adapted
        ELSE SetHeaderInfo(adapted, c.unit, data)

\* Mutant: the text of a section that was not decoded is kept.
PrintSectionKeepsText(ts, section) ==
    IF section \in ts.exist THEN Append(ts.text[section], ts.fields[section])
                            ELSE ts.text[section]

\* SetPrintPESInfo, SetPrintPATInfo, SetPrintCATInfo, SetPrintPMTInfo: a
\* section that was decoded is added to the text, otherwise the text is cleared.
PrintSection(ts, section) ==
    IF section \in ts.exist THEN Append(ts.text[section], ts.fields[section])
                            ELSE <<>>

Entries(part, text) == [i \in DOMAIN text |-> [part |-> part, from |-> text[i]]]

SetPrintAdaptationInfo(ts) ==
    IF "adaptation" \in ts.exist
    THEN Entries("adaptation", <<ts.fields["adaptation"]>>)
    ELSE <<>>

\* The report of the analysed packet, appended to what the report holds; every
\* part that is formatted forgets that it was decoded.
SetPrintHeaderInfo(ts) ==
    LET text == [s \in Sections |-> PrintSection(ts, s)]
    IN  [ts EXCEPT
           !.report = @ \o Entries("header", <<ts.fields["header"]>>)
                        \o SetPrintAdaptationInfo(ts)
                        \o Entries("pes", text["pes"])
                        \o Entries("pat", text["pat"])
                        \o Entries("cat", text["cat"])
                        \o Entries("pmt", text["pmt"]),
           !.text   = text,
           !.exist  = {}]

\* Mutants: only the report is emptied; no block is freed.
ResetReportOnly(ts)  == [ts EXCEPT !.report = <<>>]
ResetWithoutFree(ts) == [NewParser EXCEPT !.live = ts.live,
                                          !.leaked = ts.leaked]

\* PATPacket and PMTPacket::Reset do nothing unless is_exist_data_ is still
\* set; everything else is initialised whatever its state.
Reset(ts) ==
    LET untouched == Tables \ ts.exist
        freed     == (Tables \cap ts.exist)
                        \cup (IF ts.private_flag THEN {"private"} ELSE {})
        dropped   == ts.live \cap ({"private"} \ freed)
    IN  [exist  |-> {},
         fields |-> [part \in Parts |-> IF part \in untouched
                                        THEN ts.fields[part] ELSE Zero],
         text   |-> [s \in Sections |-> IF s \in untouched
                                        THEN ts.text[s] ELSE <<>>],
         report |-> <<>>,
         private_flag |-> FALSE,
         live   |-> ts.live \cap untouched,
         leaked |-> IF dropped = {} THEN ts.leaked ELSE ts.leaked + 1]
=============================================================================
