------------------------- MODULE RequestWorkerProofs -------------------------
(***************************************************************************)
(* A worker, for all files, sizes, packet contents and requests: it is     *)
(* well typed, shows the packet that was asked for, reports that packet    *)
(* alone although its parser analysed another one before, loses no block   *)
(* but those of that packet, and sends no byte that was never written.     *)
(***************************************************************************)
EXTENDS RequestWorker, AnalyzerProofs, SequenceTheorems

\* Every state of a worker is well typed.
THEOREM TypeCorrect == Spec => []TypeOK
<1>1. Init => TypeOK
  BY DEF Init, TypeOK, NoBlocks
<1>2. TypeOK /\ [Next]_vars => TypeOK'
  <2> SUFFICES ASSUME TypeOK, [Next]_vars PROVE TypeOK'
    OBVIOUS
  <2>1. CASE Recv
    BY <2>1 DEF Recv, Die, TypeOK, Requests
  <2>2. CASE Construct
    BY <2>2, ConstructedType DEF Construct, TypeOK
  <2>3. CASE OpenFails
    BY <2>3 DEF OpenFails, Die, TypeOK
  <2>4. CASE Find
    <3>1. /\ pc = "find" /\ pc' = "read" /\ UNCHANGED <<request, reply, lost>>
          /\ analyzer' = FindPakcetData(analyzer, request.num)
      BY <2>4 DEF Find, Call
    <3>2. request.num \in Int
      BY <3>1, WorkerAssumption DEF TypeOK
    <3>3. analyzer' \in Analyzers /\ analyzer'.file = request.file
      BY <3>1, <3>2, FindPakcetDataType DEF TypeOK
    <3> QED BY <3>1, <3>3 DEF TypeOK
  <2>5. CASE Read
    <3>1. /\ pc = "read" /\ pc' = "analyse" /\ UNCHANGED <<request, reply, lost>>
          /\ analyzer' = GetPacketData(analyzer)
      BY <2>5 DEF Read, Call
    <3>2. analyzer' \in Analyzers /\ analyzer'.file = request.file
      BY <3>1, GetPacketDataType DEF TypeOK
    <3> QED BY <3>1, <3>2 DEF TypeOK
  <2>6. CASE Analyse
    <3>1. /\ pc = "analyse" /\ pc' = "format" /\ UNCHANGED <<request, reply, lost>>
          /\ \E c \in ContentsOf(analyzer.file, analyzer.packet_data_) :
                analyzer' = TSPacketDataAnalysis(analyzer, c)
      BY <2>6 DEF Analyse, Call
    <3>2. analyzer \in Analyzers /\ analyzer.file \in Files
      BY <3>1 DEF TypeOK, Analyzers
    <3>3. analyzer' \in Analyzers /\ analyzer'.file = request.file
      BY <3>1, <3>2, ContentsType, AnalysisType DEF TypeOK
    <3> QED BY <3>1, <3>3 DEF TypeOK
  <2>7. CASE Format
    <3>1. /\ pc = "format" /\ pc' = "send" /\ UNCHANGED <<request, reply, lost>>
          /\ analyzer' = SetPrintInfo(analyzer)
      BY <2>7 DEF Format, Call
    <3>2. analyzer' \in Analyzers /\ analyzer'.file = request.file
      BY <3>1, SetPrintInfoType DEF TypeOK
    <3> QED BY <3>1, <3>2 DEF TypeOK
  <2>8. CASE Send
    <3>1. /\ pc = "send" /\ pc' = "done" /\ request' = request
          /\ lost' = [held    |-> analyzer.ts_packet_.live,
                      dropped |-> analyzer.ts_packet_.leaked]
      BY <2>8 DEF Send
    <3>2. analyzer.ts_packet_ \in Parsers(Buffers)
      BY <3>1 DEF TypeOK, Analyzers
    <3>3. lost' \in [held : SUBSET Owners, dropped : Nat]
      BY <3>1, <3>2 DEF Parsers
    <3> QED BY <3>1, <3>3 DEF TypeOK
  <2>9. CASE UNCHANGED vars
    BY <2>9 DEF vars, TypeOK
  <2> QED BY <2>1, <2>2, <2>3, <2>4, <2>5, <2>6, <2>7, <2>8, <2>9 DEF Next
<1> QED BY <1>1, <1>2, PTL DEF Spec

-----------------------------------------------------------------------------
\* The strengthening of ReplyShowsPacket: for a reachable packet, the position
\* is that packet from FindPakcetData on, the buffer holds it from the read to
\* the formatting, and the send buffer from there on.
PacketInv ==
    Reachable =>
        /\ pc = "read"   => analyzer.current_packet_ = request.num
        /\ pc \in {"analyse", "format"} =>
               analyzer.packet_data_ = Packet(request.num)
        /\ pc = "send"   => analyzer.send_buffer_.hex = Packet(request.num)
        /\ pc = "done"   => reply.hex = Packet(request.num)

\* A client that asks for a complete packet within reach of fseek receives the
\* dump of exactly its bytes.
THEOREM ReplyCorrect == Spec => []ReplyShowsPacket
<1>1. Init => PacketInv
  BY DEF Init, PacketInv
<1>2. TypeOK /\ PacketInv /\ [Next]_vars => PacketInv'
  <2> SUFFICES ASSUME TypeOK, PacketInv, [Next]_vars, Reachable'
               PROVE  PacketInv'
    BY DEF PacketInv
  <2>1. request' = request /\ Reachable
    BY DEF Next, Recv, Construct, OpenFails, Find, Read, Analyse, Format, Send,
           Call, vars, Reachable
  <2>2. CASE Recv \/ Construct \/ OpenFails
    <3>1. pc' \notin {"read", "analyse", "format", "send", "done"}
      BY <2>2 DEF Recv, Construct, OpenFails, Die
    <3> QED BY <3>1 DEF PacketInv
  <2>3. CASE Find
    <3>1. /\ pc = "find" /\ pc' = "read"
          /\ analyzer' = FindPakcetData(analyzer, request.num)
      BY <2>3 DEF Find, Call
    <3>2. analyzer'.current_packet_ = request.num
      BY <3>1, <2>1, FindPakcetDataType DEF TypeOK, Reachable
    <3> QED BY <3>1, <3>2, <2>1 DEF PacketInv
  <2>4. CASE Read
    <3>1. /\ pc = "read" /\ pc' = "analyse"
          /\ analyzer' = GetPacketData(analyzer)
      BY <2>4 DEF Read, Call
    <3>2. /\ analyzer \in Analyzers /\ analyzer.file = request.file
          /\ analyzer.current_packet_ = request.num
      BY <3>1, <2>1 DEF TypeOK, PacketInv
    <3>3. analyzer'.packet_data_ = Packet(request.num)
      BY <3>1, <3>2, <2>1, GetPacketDataReads DEF Reachable
    <3> QED BY <3>1, <3>3, <2>1 DEF PacketInv
  <2>5. CASE Analyse
    <3>1. /\ pc = "analyse" /\ pc' = "format"
          /\ \E c \in ContentsOf(analyzer.file, analyzer.packet_data_) :
                analyzer' = TSPacketDataAnalysis(analyzer, c)
      BY <2>5 DEF Analyse, Call
    <3>2. analyzer \in Analyzers /\ analyzer.file \in Files
      BY <3>1 DEF TypeOK, Analyzers
    <3>3. analyzer'.packet_data_ = analyzer.packet_data_
      BY <3>1, <3>2, ContentsType, AnalysisType
    <3> QED BY <3>1, <3>3, <2>1 DEF PacketInv
  <2>6. CASE Format
    <3>1. /\ pc = "format" /\ pc' = "send"
          /\ analyzer' = SetPrintInfo(analyzer)
      BY <2>6 DEF Format, Call
    <3>2. analyzer'.send_buffer_.hex = analyzer.packet_data_
      BY <3>1, SetPrintInfoType DEF TypeOK
    <3> QED BY <3>1, <3>2, <2>1 DEF PacketInv
  <2>7. CASE Send
    BY <2>7, <2>1 DEF Send, PacketInv
  <2>8. CASE UNCHANGED vars
    BY <2>8, <2>1 DEF vars, PacketInv
  <2> QED BY <2>2, <2>3, <2>4, <2>5, <2>6, <2>7, <2>8 DEF Next
<1>3. PacketInv => ReplyShowsPacket
  BY DEF PacketInv, ReplyShowsPacket
<1> QED BY <1>1, <1>2, <1>3, TypeCorrect, PTL DEF Spec

-----------------------------------------------------------------------------
(* The report.                                                             *)

\* A report whose entries are all about the buffer d, at most one for each of
\* the parts in S.
About(report, d, S) ==
    /\ report \in Seq([part : Parts, from : Buffers \cup {Zero}])
    /\ \A i \in DOMAIN report : report[i].from = d /\ report[i].part \in S
    /\ \A i, j \in DOMAIN report : report[i].part = report[j].part => i = j

\* It begins with the header.
Leads(report) == Len(report) >= 1 /\ report[1].part = "header"

\* It has an entry for the part.
Tells(report, part) == \E i \in DOMAIN report : report[i].part = part

\* The part that owns a block.
PartOf(owner) == IF owner = "private" THEN "adaptation" ELSE owner

\* Two reports about different parts of one buffer make one.
LEMMA Joined ==
    ASSUME NEW a, NEW b, NEW d, NEW S, NEW T, S \cap T = {},
           About(a, d, S), About(b, d, T)
    PROVE  About(a \o b, d, S \cup T) /\ (Leads(a) => Leads(a \o b))
<1> DEFINE R == [part : Parts, from : Buffers \cup {Zero}]
<1>1. a \in Seq(R) /\ b \in Seq(R)
  BY DEF About
<1> HIDE DEF R
<1>2. /\ a \o b \in Seq(R) /\ Len(a \o b) = Len(a) + Len(b)
      /\ \A i \in 1 .. Len(a) + Len(b) :
            (a \o b)[i] = IF i <= Len(a) THEN a[i] ELSE b[i - Len(a)]
      /\ Len(a) \in Nat /\ Len(b) \in Nat
  BY <1>1, ConcatProperties, LenProperties
<1>3. /\ DOMAIN a = 1 .. Len(a) /\ DOMAIN b = 1 .. Len(b)
      /\ DOMAIN (a \o b) = 1 .. Len(a) + Len(b)
  BY <1>1, <1>2, LenProperties
<1>4. ASSUME NEW i \in DOMAIN (a \o b)
      PROVE  \/ i \in DOMAIN a /\ (a \o b)[i] = a[i] /\ a[i].part \in S
             \/ i \notin DOMAIN a /\ i - Len(a) \in DOMAIN b
                /\ (a \o b)[i] = b[i - Len(a)] /\ b[i - Len(a)].part \in T
  BY <1>2, <1>3 DEF About
<1>5. \A i \in DOMAIN (a \o b) :
         (a \o b)[i].from = d /\ (a \o b)[i].part \in S \cup T
  BY <1>4 DEF About
<1>6. ASSUME NEW i \in DOMAIN (a \o b), NEW j \in DOMAIN (a \o b),
             (a \o b)[i].part = (a \o b)[j].part
      PROVE  i = j
  <2>1. CASE i \in DOMAIN a /\ j \in DOMAIN a
    BY <1>4, <1>6, <2>1 DEF About
  <2>2. CASE i \notin DOMAIN a /\ j \notin DOMAIN a
    <3>1. i - Len(a) = j - Len(a)
      BY <1>4, <1>6, <2>2 DEF About
    <3> QED BY <1>2, <1>3, <3>1
  <2> QED BY <1>4, <1>6, <2>1, <2>2
<1>7. Leads(a) => Leads(a \o b)
  BY <1>2 DEF Leads
<1> QED BY <1>2, <1>5, <1>6, <1>7 DEF About, R

\* The joined report tells of every part that one of the two tells of.
LEMMA JoinedTells ==
    ASSUME NEW a, NEW b, NEW d, NEW S, NEW T, About(a, d, S), About(b, d, T), NEW part,
           Tells(a, part) \/ Tells(b, part)
    PROVE  Tells(a \o b, part)
<1> DEFINE R == [part : Parts, from : Buffers \cup {Zero}]
<1>1. a \in Seq(R) /\ b \in Seq(R)
  BY DEF About
<1> HIDE DEF R
<1>2. /\ \A i \in 1 .. Len(a) + Len(b) :
            (a \o b)[i] = IF i <= Len(a) THEN a[i] ELSE b[i - Len(a)]
      /\ Len(a) \in Nat /\ Len(b) \in Nat
      /\ DOMAIN a = 1 .. Len(a) /\ DOMAIN b = 1 .. Len(b)
      /\ DOMAIN (a \o b) = 1 .. Len(a) + Len(b)
  BY <1>1, ConcatProperties, LenProperties
<1>3. ASSUME NEW i \in DOMAIN a, a[i].part = part PROVE Tells(a \o b, part)
  <2>1. i \in DOMAIN (a \o b) /\ (a \o b)[i] = a[i]
    BY <1>2
  <2> QED BY <1>3, <2>1 DEF Tells
<1>4. ASSUME NEW i \in DOMAIN b, b[i].part = part PROVE Tells(a \o b, part)
  <2> DEFINE k == Len(a) + i
  <2>1. k \in DOMAIN (a \o b) /\ (a \o b)[k] = b[i]
    BY <1>2
  <2> HIDE DEF k
  <2> QED BY <1>4, <2>1 DEF Tells
<1> QED BY <1>3, <1>4 DEF Tells

\* The entries of a part whose text is at most one time the buffer.
LEMMA AboutPart ==
    ASSUME NEW d \in Buffers \cup {Zero}, NEW part \in Parts, NEW text \in {<<>>, <<d>>}
    PROVE  About(Entries(part, text), d, {part})
<1>1. CASE text = <<>>
  <2>1. Entries(part, text) = <<>>
    BY <1>1 DEF Entries
  <2> QED BY <2>1 DEF About
<1>2. CASE text = <<d>>
  <2>1. Entries(part, text) = << [part |-> part, from |-> d] >>
    BY <1>2 DEF Entries
  <2> QED BY <2>1 DEF About
<1> QED BY <1>1, <1>2

\* A parser that holds nothing of an earlier packet.
Fresh(ts) == /\ ts.exist = {} /\ ts.report = <<>> /\ ts.live = {} /\ ts.leaked = 0
             /\ \A s \in Sections : ts.text[s] = <<>>

\* A parser that was fresh when the buffer d was analysed.
AnalysedOnly(ts, d) == /\ ts.fields["header"] = d
                       /\ \A part \in ts.exist : ts.fields[part] = d
                       /\ ts.report = <<>> /\ ts.leaked = 0
                       /\ \A s \in Sections : ts.text[s] = <<>>

\* Every block belongs to a part that was decoded.
Owned(ts) == \A owner \in ts.live : PartOf(owner) \in ts.exist

\* Analysing a packet allocates one block for each owner at most.
LEMMA FreshAnalysed ==
    ASSUME NEW ts \in Parsers(Buffers), Fresh(ts), NEW d \in Buffers, NEW c \in Content
    PROVE  LET after == GetHeaderInfo(ts, d, c)
           IN  /\ AnalysedOnly(after, d)
               /\ after.live \cap Tables \subseteq after.exist
               /\ "private" \in after.live => after.private_flag
               /\ Owned(after)
<1> DEFINE header  == [ts EXCEPT !.fields["header"] = d]
           adapted == IF c.adaptation = "none" THEN header
                      ELSE GetAdaptationField(header, d, c.adaptation)
           Good(p) == /\ AnalysedOnly(p, d) /\ p \in Parsers(Buffers)
                      /\ p.live \cap Tables = {}
                      /\ "private" \in p.live
                            => p.private_flag /\ "adaptation" \in p.exist
<1>1. Good(header)
  BY DEF Fresh, AnalysedOnly, Parsers, Parts
<1>2. Good(adapted)
  <2>1. CASE c.adaptation = "none"
    BY <1>1, <2>1
  <2>2. CASE c.adaptation # "none"
    <3> DEFINE decoded == Decode(header, "adaptation", d)
    <3>1. /\ decoded \in Parsers(Buffers) /\ AnalysedOnly(decoded, d)
          /\ decoded.live = {} /\ "adaptation" \in decoded.exist
      <4>1. header \in Parsers(Buffers) /\ header.live = {}
        BY <1>1 DEF Fresh, Parsers
      <4>2. decoded \in Parsers(Buffers)
        BY <4>1, DecodeType DEF Parts, Sections
      <4> QED BY <1>1, <4>1, <4>2 DEF Decode, AnalysedOnly, Parsers, Parts
    <3> HIDE DEF decoded
    <3>2. CASE c.adaptation = "empty"
      BY <2>2, <3>1, <3>2 DEF GetAdaptationField, decoded
    <3>3. CASE c.adaptation = "plain"
      <4>1. adapted = [decoded EXCEPT !.private_flag = FALSE]
        BY <2>2, <3>3 DEF GetAdaptationField, decoded
      <4> QED BY <3>1, <4>1 DEF AnalysedOnly, Parsers
    <3>4. CASE c.adaptation = "private"
      <4>1. adapted = [Allocate(decoded, "private") EXCEPT !.private_flag = TRUE]
        BY <2>2, <3>4 DEF GetAdaptationField, decoded
      <4>2. Allocate(decoded, "private") \in Parsers(Buffers)
        BY <3>1, AllocateType DEF Owners
      <4>3. /\ Allocate(decoded, "private").live = {"private"}
            /\ AnalysedOnly(Allocate(decoded, "private"), d)
            /\ "adaptation" \in Allocate(decoded, "private").exist
        BY <3>1 DEF Allocate, AnalysedOnly, Parsers
      <4> HIDE DEF adapted
      <4> QED BY <4>1, <4>2, <4>3 DEF AnalysedOnly, Parsers, Tables
    <3> QED BY <2>2, <3>2, <3>3, <3>4 DEF Content
  <2> QED BY <2>1, <2>2
<1> HIDE DEF adapted
<1>3. CASE c.unit = "none"
  <2>1. GetHeaderInfo(ts, d, c) = adapted
    BY <1>3 DEF GetHeaderInfo, adapted
  <2>2. adapted.live \subseteq Owners
    BY <1>2 DEF Parsers
  <2>3. Owned(adapted)
    BY <1>2, <2>2 DEF Owned, PartOf, Owners
  <2> QED BY <1>2, <2>1, <2>3
<1>4. CASE c.unit # "none"
  <2> DEFINE decoded == Decode(adapted, c.unit, d)
  <2>1. c.unit \in Sections /\ c.unit \in Parts \ {"header"}
    BY <1>4 DEF Content, Parts, Sections
  <2>2. /\ decoded \in Parsers(Buffers) /\ AnalysedOnly(decoded, d)
        /\ c.unit \in decoded.exist /\ decoded.live = adapted.live
        /\ adapted.exist \subseteq decoded.exist
        /\ decoded.private_flag = adapted.private_flag
    <3>1. decoded \in Parsers(Buffers)
      BY <1>2, <2>1, DecodeType
    <3> QED BY <1>2, <2>1, <3>1 DEF Decode, AnalysedOnly, Parsers
  <2>3. GetHeaderInfo(ts, d, c) = SetHeaderInfo(adapted, c.unit, d)
    BY <1>4 DEF GetHeaderInfo, adapted
  <2>4. SetHeaderInfo(adapted, c.unit, d)
           = IF c.unit \in Tables THEN Allocate(decoded, c.unit) ELSE decoded
    BY DEF SetHeaderInfo
  <2> HIDE DEF decoded
  <2>5. CASE c.unit \notin Tables
    <3>1. decoded.live \subseteq Owners
      BY <2>2 DEF Parsers
    <3>2. Owned(decoded)
      BY <1>2, <2>2, <3>1 DEF Owned, PartOf, Owners
    <3> QED BY <1>2, <2>2, <2>3, <2>4, <2>5, <3>2
  <2>6. CASE c.unit \in Tables
    <3>1. /\ Allocate(decoded, c.unit).live = decoded.live \cup {c.unit}
          /\ Allocate(decoded, c.unit).exist = decoded.exist
          /\ Allocate(decoded, c.unit).private_flag = decoded.private_flag
          /\ AnalysedOnly(Allocate(decoded, c.unit), d)
      BY <1>2, <2>2, <2>6 DEF Allocate, AnalysedOnly, Parsers
    <3> DEFINE after == Allocate(decoded, c.unit)
    <3>2. adapted.live \subseteq {"private"}
      BY <1>2 DEF Parsers, Owners
    <3>3. after.live \subseteq {"private", c.unit} /\ c.unit \in after.exist
      BY <2>2, <3>1, <3>2
    <3>4. "private" \in after.live => after.private_flag /\ "adaptation" \in after.exist
      BY <1>2, <2>2, <2>6, <3>1 DEF Tables
    <3>5. AnalysedOnly(after, d)
      BY <3>1
    <3> HIDE DEF after
    <3>6. after.live \cap Tables \subseteq after.exist /\ Owned(after)
      BY <2>6, <3>3, <3>4 DEF Owned, PartOf, Tables
    <3> QED BY <2>3, <2>4, <2>6, <3>4, <3>5, <3>6 DEF after
  <2> QED BY <2>5, <2>6
<1> QED BY <1>3, <1>4

\* The reset at the end of the construction leaves nothing behind: private data
\* is freed by its flag, a list by the flag of its table.
LEMMA ResetIsFresh ==
    ASSUME NEW ts \in Parsers(Buffers), NEW d, AnalysedOnly(ts, d),
           ts.live \cap Tables \subseteq ts.exist,
           "private" \in ts.live => ts.private_flag
    PROVE  Fresh(Reset(ts))
<1>1. ts.live \subseteq Tables \cup {"private"}
  BY DEF Parsers, Owners
<1>2. ts.live \cap (Tables \ ts.exist) = {}
  OBVIOUS
<1>3. ts.live \cap ({"private"} \ ((Tables \cap ts.exist)
                        \cup (IF ts.private_flag THEN {"private"} ELSE {}))) = {}
  OBVIOUS
<1>4. \A s \in Sections : (IF s \in Tables \ ts.exist THEN ts.text[s] ELSE <<>>) = <<>>
  BY DEF AnalysedOnly
<1> QED BY <1>2, <1>3, <1>4 DEF Fresh, Reset, AnalysedOnly

\* The constructor returns a fresh parser.
LEMMA ConstructedFresh ==
    ASSUME NEW f \in Files, NEW pa \in Constructed(f)
    PROVE  Fresh(pa.ts_packet_)
<1> DEFINE read == FindPakcetData(Opened(f), 1)
<1>1. PICK c \in ContentsOf(f, read.packet_data_) : pa = SetPidValueInit(Opened(f), c)
  BY DEF Constructed
<1>2. c \in Content /\ read \in Analyzers
  BY <1>1, ContentsType, OpenedType, FindPakcetDataType
<1>3. read.ts_packet_ = NewParser
  BY DEF FindPakcetData, GetPacketData, Opened
<1> HIDE DEF read
<1>4. Fresh(read.ts_packet_) /\ read.ts_packet_ \in Parsers(Buffers)
      /\ read.packet_data_ \in Buffers
  <2>1. Fresh(NewParser)
    BY DEF Fresh, NewParser
  <2> QED BY <1>2, <1>3, <2>1 DEF Analyzers
<1> DEFINE analysed == GetHeaderInfo(read.ts_packet_, read.packet_data_, c)
<1>5. /\ analysed \in Parsers(Buffers)
      /\ AnalysedOnly(analysed, read.packet_data_)
      /\ analysed.live \cap Tables \subseteq analysed.exist
      /\ "private" \in analysed.live => analysed.private_flag
  BY <1>2, <1>4, FreshAnalysed, GetHeaderInfoType
<1> HIDE DEF analysed
<1>6. Fresh(Reset(analysed))
  BY <1>5, ResetIsFresh
<1>7. pa.ts_packet_ = Reset(analysed)
  BY <1>1, <1>2 DEF SetPidValueInit, ResetAnalyzer, TSPacketDataAnalysis, Analyzers, read, analysed
<1> QED BY <1>6, <1>7

\* Formatting a packet that was analysed with a fresh parser reports it, and
\* nothing else, its header first, and every part that was decoded.
LEMMA ReportOfOne ==
    ASSUME NEW ts \in Parsers(Buffers), NEW d \in Buffers, AnalysedOnly(ts, d)
    PROVE  LET after == SetPrintHeaderInfo(ts)
           IN  /\ About(after.report, d, Parts)
               /\ Len(after.report) >= 1 /\ after.report[1].part = "header"
               /\ \A part \in ts.exist : Tells(after.report, part)
               /\ after.leaked = 0 /\ after.live = ts.live
<1> DEFINE text(s) == PrintSection(ts, s)
           first == Entries("header", <<ts.fields["header"]>>)
           field == SetPrintAdaptationInfo(ts)
           pes   == Entries("pes", text("pes"))
           pat   == Entries("pat", text("pat"))
           cat   == Entries("cat", text("cat"))
           pmt   == Entries("pmt", text("pmt"))
<1>1. \A s \in Sections : text(s) \in {<<>>, <<d>>}
  <2> SUFFICES ASSUME NEW s \in Sections PROVE text(s) \in {<<>>, <<d>>}
    OBVIOUS
  <2>1. ts.text[s] = <<>> /\ (s \in ts.exist => ts.fields[s] = d)
    BY DEF AnalysedOnly
  <2>2. Append(<<>>, d) = <<d>>
    OBVIOUS
  <2> QED BY <2>1, <2>2 DEF PrintSection
<1>2. About(first, d, {"header"}) /\ first = << [part |-> "header", from |-> d] >>
  <2>1. ts.fields["header"] = d
    BY DEF AnalysedOnly
  <2>2. first = << [part |-> "header", from |-> d] >>
    BY <2>1 DEF Entries
  <2> QED BY <2>1, <2>2, AboutPart DEF Parts
<1>3. About(field, d, {"adaptation"})
  <2>1. CASE "adaptation" \in ts.exist
    BY <2>1, AboutPart DEF SetPrintAdaptationInfo, AnalysedOnly, Parts
  <2>2. CASE "adaptation" \notin ts.exist
    <3>1. field = <<>>
      BY <2>2 DEF SetPrintAdaptationInfo
    <3> QED BY <3>1 DEF About
  <2> QED BY <2>1, <2>2
<1>4. /\ About(pes, d, {"pes"}) /\ About(pat, d, {"pat"})
      /\ About(cat, d, {"cat"}) /\ About(pmt, d, {"pmt"})
  BY <1>1, AboutPart DEF Sections, Parts
<1>5. SetPrintHeaderInfo(ts).report =
          ts.report \o first \o field \o pes \o pat \o cat \o pmt
  BY DEF SetPrintHeaderInfo, Parsers, Sections
<1>6. SetPrintHeaderInfo(ts).leaked = 0 /\ SetPrintHeaderInfo(ts).live = ts.live
  BY DEF SetPrintHeaderInfo, AnalysedOnly, Parsers
<1>15. "adaptation" \in ts.exist => Tells(field, "adaptation")
  <2> SUFFICES ASSUME "adaptation" \in ts.exist PROVE Tells(field, "adaptation")
    OBVIOUS
  <2>1. field = << [part |-> "adaptation", from |-> ts.fields["adaptation"]] >>
    BY DEF SetPrintAdaptationInfo, Entries
  <2>2. 1 \in DOMAIN field /\ field[1].part = "adaptation"
    BY <2>1
  <2> QED BY <2>2 DEF Tells
<1>16. ASSUME NEW s \in Sections, s \in ts.exist
       PROVE  Tells(Entries(s, text(s)), s)
  <2>1. ts.text[s] = <<>>
    BY <1>16 DEF AnalysedOnly
  <2>2. text(s) = << ts.fields[s] >>
    BY <1>16, <2>1 DEF PrintSection
  <2>3. Entries(s, text(s)) = << [part |-> s, from |-> ts.fields[s]] >>
    BY <2>2 DEF Entries
  <2>4. 1 \in DOMAIN Entries(s, text(s)) /\ Entries(s, text(s))[1].part = s
    BY <2>3
  <2> QED BY <2>4 DEF Tells
<1>17. /\ "pes" \in ts.exist => Tells(pes, "pes")
       /\ "pat" \in ts.exist => Tells(pat, "pat")
       /\ "cat" \in ts.exist => Tells(cat, "cat")
       /\ "pmt" \in ts.exist => Tells(pmt, "pmt")
  BY <1>16 DEF Sections
<1> HIDE DEF first, field, pes, pat, cat, pmt
<1>7. ts.report \o first = first
  BY <1>2, ConcatEmptySeq DEF AnalysedOnly, About
<1>8. Leads(first)
  BY <1>2 DEF Leads
<1>9. /\ About(first \o field, d, {"header"} \cup {"adaptation"}) /\ Leads(first \o field)
  BY <1>2, <1>3, <1>8, Joined
<1>10. /\ About(first \o field \o pes, d, {"header", "adaptation"} \cup {"pes"})
       /\ Leads(first \o field \o pes)
  BY <1>4, <1>9, Joined
<1>11. /\ About(first \o field \o pes \o pat, d,
                {"header", "adaptation", "pes"} \cup {"pat"})
       /\ Leads(first \o field \o pes \o pat)
  BY <1>4, <1>10, Joined
<1>12. /\ About(first \o field \o pes \o pat \o cat, d,
                {"header", "adaptation", "pes", "pat"} \cup {"cat"})
       /\ Leads(first \o field \o pes \o pat \o cat)
  BY <1>4, <1>11, Joined
<1>13. /\ About(first \o field \o pes \o pat \o cat \o pmt, d,
                {"header", "adaptation", "pes", "pat", "cat"} \cup {"pmt"})
       /\ Leads(first \o field \o pes \o pat \o cat \o pmt)
  BY <1>4, <1>12, Joined
<1>14. {"header", "adaptation", "pes", "pat", "cat"} \cup {"pmt"} = Parts
  BY DEF Parts, Sections
<1>18. ASSUME NEW part \in {"adaptation", "pes", "pat", "cat", "pmt"} \cap ts.exist
       PROVE  Tells(first \o field \o pes \o pat \o cat \o pmt, part)
  <2>1. Tells(field, part) => Tells(first \o field, part)
    BY <1>2, <1>3, JoinedTells
  <2>2. Tells(first \o field, part) \/ Tells(pes, part) => Tells(first \o field \o pes, part)
    BY <1>4, <1>9, JoinedTells
  <2>3. Tells(first \o field \o pes, part) \/ Tells(pat, part)
            => Tells(first \o field \o pes \o pat, part)
    BY <1>4, <1>10, JoinedTells
  <2>4. Tells(first \o field \o pes \o pat, part) \/ Tells(cat, part)
            => Tells(first \o field \o pes \o pat \o cat, part)
    BY <1>4, <1>11, JoinedTells
  <2>5. Tells(first \o field \o pes \o pat \o cat, part) \/ Tells(pmt, part)
            => Tells(first \o field \o pes \o pat \o cat \o pmt, part)
    BY <1>4, <1>12, JoinedTells
  <2> QED BY <1>15, <1>17, <2>1, <2>2, <2>3, <2>4, <2>5
<1>19. ts.exist \subseteq {"adaptation", "pes", "pat", "cat", "pmt"}
  BY DEF Parsers, Parts, Sections
<1> QED BY <1>5, <1>6, <1>7, <1>13, <1>14, <1>18, <1>19 DEF Leads

\* Reading leaves the parser alone.
LEMMA ReadKeepsParser ==
    ASSUME NEW pa \in Analyzers, NEW num \in Int
    PROVE  /\ GetPacketData(pa).ts_packet_ = pa.ts_packet_
           /\ FindPakcetData(pa, num).ts_packet_ = pa.ts_packet_
BY DEF GetPacketData, FindPakcetData, Analyzers

\* What formatting puts into the send buffer.
LEMMA FormatSends ==
    ASSUME NEW pa \in Analyzers
    PROVE  LET after == SetPrintInfo(pa)
           IN  /\ after.send_buffer_.report = SetPrintHeaderInfo(pa.ts_packet_).report
               /\ after.send_buffer_.hex = pa.packet_data_
               /\ after.ts_packet_.leaked = SetPrintHeaderInfo(pa.ts_packet_).leaked
               /\ after.ts_packet_.live = SetPrintHeaderInfo(pa.ts_packet_).live
<1>1. SetPrintHeaderInfo(pa.ts_packet_) \in Parsers(Buffers)
  BY SetPrintHeaderInfoType DEF Analyzers
<1> QED BY <1>1 DEF SetPrintInfo, SetPrintHexData, Analyzers

\* Every block in held belongs to a part the report tells of.
Reported(held, report) == \A owner \in held : Tells(report, PartOf(owner))

\* Up to the analysis the parser is as fresh as the constructor left it; then it
\* holds the buffer's packet alone, and so do the report and the blocks.
FreshInv ==
    /\ pc \in {"find", "read", "analyse"} => Fresh(analyzer.ts_packet_)
    /\ pc = "format" => /\ AnalysedOnly(analyzer.ts_packet_, analyzer.packet_data_)
                        /\ Owned(analyzer.ts_packet_)
    /\ pc = "send" => /\ About(analyzer.send_buffer_.report, analyzer.send_buffer_.hex, Parts)
                      /\ Leads(analyzer.send_buffer_.report)
                      /\ Reported(analyzer.ts_packet_.live, analyzer.send_buffer_.report)
                      /\ analyzer.ts_packet_.leaked = 0
    /\ pc = "done" => /\ About(reply.report, reply.hex, Parts) /\ Leads(reply.report)
                      /\ Reported(lost.held, reply.report) /\ lost.dropped = 0

\* The invariant of the parser holds in every state of a worker.
LEMMA FreshInvariance == Spec => []FreshInv
<1>1. Init => FreshInv
  BY DEF Init, FreshInv
<1>2. TypeOK /\ FreshInv /\ [Next]_vars => FreshInv'
  <2> SUFFICES ASSUME TypeOK, FreshInv, [Next]_vars PROVE FreshInv'
    OBVIOUS
  <2>1. CASE Recv \/ OpenFails
    BY <2>1 DEF Recv, OpenFails, Die, FreshInv
  <2>2. CASE Construct
    <3>1. /\ pc' = "find" /\ request.file \in Files
          /\ analyzer' \in Constructed(request.file)
      BY <2>2 DEF Construct
    <3>2. Fresh(analyzer'.ts_packet_)
      BY <3>1, ConstructedFresh
    <3> QED BY <3>1, <3>2 DEF FreshInv
  <2>3. CASE Find
    <3>1. /\ pc = "find" /\ pc' = "read"
          /\ analyzer' = FindPakcetData(analyzer, request.num)
      BY <2>3 DEF Find, Call
    <3>2. analyzer \in Analyzers /\ request.num \in Int
      BY <3>1, WorkerAssumption DEF TypeOK
    <3> QED BY <3>1, <3>2, ReadKeepsParser DEF FreshInv
  <2>4. CASE Read
    <3>1. pc = "read" /\ pc' = "analyse" /\ analyzer' = GetPacketData(analyzer)
      BY <2>4 DEF Read, Call
    <3>2. analyzer \in Analyzers
      BY <3>1 DEF TypeOK
    <3>3. analyzer'.ts_packet_ = analyzer.ts_packet_
      BY <3>1, <3>2, ReadKeepsParser
    <3> QED BY <3>1, <3>3 DEF FreshInv
  <2>5. CASE Analyse
    <3>1. /\ pc = "analyse" /\ pc' = "format"
          /\ \E c \in ContentsOf(analyzer.file, analyzer.packet_data_) :
                analyzer' = TSPacketDataAnalysis(analyzer, c)
      BY <2>5 DEF Analyse, Call
    <3>2. /\ analyzer \in Analyzers /\ analyzer.file \in Files
          /\ analyzer.ts_packet_ \in Parsers(Buffers) /\ analyzer.packet_data_ \in Buffers
      BY <3>1 DEF TypeOK, Analyzers
    <3>3. PICK c \in Content : analyzer' = TSPacketDataAnalysis(analyzer, c)
      BY <3>1, <3>2, ContentsType
    <3>4. /\ analyzer'.ts_packet_ = GetHeaderInfo(analyzer.ts_packet_, analyzer.packet_data_, c)
          /\ analyzer'.packet_data_ = analyzer.packet_data_
      BY <3>2, <3>3 DEF TSPacketDataAnalysis, Analyzers
    <3>5. /\ AnalysedOnly(analyzer'.ts_packet_, analyzer'.packet_data_)
          /\ Owned(analyzer'.ts_packet_)
      BY <3>1, <3>2, <3>4, FreshAnalysed DEF FreshInv
    <3> QED BY <3>1, <3>5 DEF FreshInv
  <2>6. CASE Format
    <3>1. pc = "format" /\ pc' = "send" /\ analyzer' = SetPrintInfo(analyzer)
      BY <2>6 DEF Format, Call
    <3>2. /\ analyzer \in Analyzers /\ analyzer.ts_packet_ \in Parsers(Buffers)
          /\ analyzer.packet_data_ \in Buffers
      BY <3>1 DEF TypeOK, Analyzers
    <3>3. LET after == SetPrintHeaderInfo(analyzer.ts_packet_)
          IN  /\ About(after.report, analyzer.packet_data_, Parts)
              /\ Leads(after.report) /\ after.leaked = 0
              /\ Reported(after.live, after.report)
      BY <3>1, <3>2, ReportOfOne DEF FreshInv, Leads, Owned, Reported
    <3> QED BY <3>1, <3>2, <3>3, FormatSends DEF FreshInv
  <2>7. CASE Send
    BY <2>7 DEF Send, FreshInv
  <2>8. CASE UNCHANGED vars
    BY <2>8 DEF vars, FreshInv
  <2> QED BY <2>1, <2>2, <2>3, <2>4, <2>5, <2>6, <2>7, <2>8 DEF Next
<1> QED BY <1>1, <1>2, TypeCorrect, PTL DEF Spec

\* Report and dump of a reply are about the same bytes: nothing that the parser
\* learned during the construction is sent.
THEOREM ReportCorrect == Spec => []ReportMatchesDump
<1>1. FreshInv => ReportMatchesDump
  BY DEF FreshInv, ReportMatchesDump, About, Leads
<1> QED BY <1>1, FreshInvariance, PTL

\* The blocks a request leaves behind are those of the packet it reports: what
\* the constructor allocated for packet 1 has been freed.
THEOREM RequestCost == Spec => []LosesOwnBlocksOnly
<1>1. FreshInv => LosesOwnBlocksOnly
  BY DEF FreshInv, LosesOwnBlocksOnly, Reported, Tells, PartOf
<1> QED BY <1>1, FreshInvariance, PTL

-----------------------------------------------------------------------------
(* The buffer before its first read.                                       *)

\* An offset the conversion to long leaves positive is not enlarged by it.
LEMMA ToLongShrinks ==
    ASSUME NEW x \in Nat, ToLong(x) >= 0
    PROVE  ToLong(x) \in Nat /\ ToLong(x) <= x
<1> DEFINE range == 2 * (LONG_MAX + 1)
<1>1. range \in Nat \ {0} /\ range > LONG_MAX
  BY AnalyzerAssumption
<1>2. ToLong(x) = IF x % range > LONG_MAX THEN (x % range) - range ELSE x % range
  BY DEF ToLong
<1> HIDE DEF range
<1>3. x % range \in 0 .. range - 1 /\ x % range <= x
  BY <1>1, SMTT(30)
<1> QED BY <1>1, <1>2, <1>3

Written(buffer) == \A i \in Positions : buffer[i] # Garbage

\* A read overwrites or keeps.
LEMMA ReadStaysWritten ==
    ASSUME NEW pa \in Analyzers, Written(pa.packet_data_)
    PROVE  Written(GetPacketData(pa).packet_data_)
<1> DEFINE target == ToLong(pa.current_packet_ * PACKET_SIZE)
           start  == IF target >= 0 THEN target ELSE pa.offset
           count  == Available(pa.file, start)
<1>1. start \in Nat
  <2>1. pa.current_packet_ * PACKET_SIZE \in Int
    BY AnalyzerAssumption DEF Analyzers
  <2>2. target \in Int /\ pa.offset \in Nat
    BY <2>1, ToLongFits DEF Analyzers
  <2> HIDE DEF target
  <2> QED BY <2>2
<1>2. GetPacketData(pa).packet_data_
         = [i \in Positions |-> IF i < count THEN start + i ELSE pa.packet_data_[i]]
  BY DEF GetPacketData, Analyzers
<1> HIDE DEF start, count
<1>3. \A i \in Positions : start + i \in Int
  BY <1>1, AnalyzerAssumption DEF Positions
<1> QED BY <1>2, <1>3, AnalyzerAssumption DEF Written

\* The constructor fills the whole buffer when the file has two packets, even if
\* its packet 1 is out of reach.
LEMMA ConstructedWritten ==
    ASSUME NEW f \in Files, Size[f] >= 2 * PACKET_SIZE, NEW pa \in Constructed(f)
    PROVE  Written(pa.packet_data_)
<1> DEFINE opened == [Opened(f) EXCEPT !.current_packet_ = 1]
           target == ToLong(1 * PACKET_SIZE)
           start  == IF target >= 0 THEN target ELSE 0
           count  == Available(f, start)
           read   == FindPakcetData(Opened(f), 1)
<1>1. PACKET_SIZE \in Nat \ {0} /\ Size[f] \in Nat
  BY AnalyzerAssumption
<1>2. start \in Nat /\ start <= PACKET_SIZE
  <2>1. 1 * PACKET_SIZE = PACKET_SIZE
    BY <1>1
  <2>2. target >= 0 => target \in Nat /\ target <= PACKET_SIZE
    BY <1>1, <2>1, ToLongShrinks
  <2> HIDE DEF target
  <2> QED BY <1>1, <2>2
<1> HIDE DEF start
<1>3. count = PACKET_SIZE
  BY <1>1, <1>2 DEF Available
<1>4. read.packet_data_ = [i \in Positions |-> IF i < count THEN start + i ELSE Garbage]
  BY DEF FindPakcetData, GetPacketData, Opened, start
<1> HIDE DEF count
<1>5. \A i \in Positions : i < count /\ start + i \in Int
  BY <1>1, <1>2, <1>3 DEF Positions
<1>6. Written(read.packet_data_)
  BY <1>4, <1>5, AnalyzerAssumption DEF Written
<1>7. PICK c \in ContentsOf(f, read.packet_data_) : pa = SetPidValueInit(Opened(f), c)
  BY DEF Constructed
<1>8. c \in Content /\ read \in Analyzers
  BY <1>7, ContentsType, OpenedType, FindPakcetDataType
<1> HIDE DEF read
<1>9. pa.packet_data_ = read.packet_data_
  BY <1>7, <1>8 DEF SetPidValueInit, ResetAnalyzer, TSPacketDataAnalysis, Analyzers, read
<1> QED BY <1>6, <1>9

TwoPackets == Size[request.file] >= 2 * PACKET_SIZE

\* From the construction on the buffer holds what was read.
WrittenInv ==
    TwoPackets =>
        /\ pc \in {"find", "read", "analyse", "format"} => Written(analyzer.packet_data_)
        /\ pc = "send" => Written(analyzer.send_buffer_.hex)
        /\ pc = "done" => Written(reply.hex)

\* A client is never sent what was in the memory of the buffer before the
\* analyser was constructed there.
THEOREM NothingUnwrittenSent == Spec => []NoGarbageSent
<1>1. Init => WrittenInv
  BY DEF Init, WrittenInv
<1>2. TypeOK /\ WrittenInv /\ [Next]_vars => WrittenInv'
  <2> SUFFICES ASSUME TypeOK, WrittenInv, [Next]_vars, TwoPackets'
               PROVE  WrittenInv'
    BY DEF WrittenInv
  <2>1. request' = request /\ TwoPackets
    BY DEF Next, Recv, Construct, OpenFails, Find, Read, Analyse, Format, Send,
           Call, vars, TwoPackets
  <2>2. CASE Recv \/ OpenFails
    BY <2>2 DEF Recv, OpenFails, Die, WrittenInv
  <2>3. CASE Construct
    <3>1. /\ pc' = "find" /\ request.file \in Files
          /\ analyzer' \in Constructed(request.file)
      BY <2>3 DEF Construct
    <3> QED BY <2>1, <3>1, ConstructedWritten DEF WrittenInv, TwoPackets
  <2>4. CASE Find
    <3>1. /\ pc = "find" /\ pc' = "read"
          /\ analyzer' = FindPakcetData(analyzer, request.num)
      BY <2>4 DEF Find, Call
    <3>2. analyzer \in Analyzers /\ request.num \in Int
      BY <3>1, WorkerAssumption DEF TypeOK
    <3> DEFINE moved == [analyzer EXCEPT !.current_packet_ = request.num]
    <3>3. moved \in Analyzers /\ moved.packet_data_ = analyzer.packet_data_
      BY <3>2 DEF Analyzers
    <3>4. analyzer' = GetPacketData(moved)
      BY <3>1 DEF FindPakcetData
    <3>5. Written(moved.packet_data_)
      BY <2>1, <3>1, <3>3 DEF WrittenInv
    <3> HIDE DEF moved
    <3> QED BY <3>1, <3>3, <3>4, <3>5, ReadStaysWritten DEF WrittenInv
  <2>5. CASE Read
    <3>1. pc = "read" /\ pc' = "analyse" /\ analyzer' = GetPacketData(analyzer)
      BY <2>5 DEF Read, Call
    <3>2. analyzer \in Analyzers
      BY <3>1 DEF TypeOK
    <3> QED BY <2>1, <3>1, <3>2, ReadStaysWritten DEF WrittenInv
  <2>6. CASE Analyse
    <3>1. /\ pc = "analyse" /\ pc' = "format"
          /\ \E c \in ContentsOf(analyzer.file, analyzer.packet_data_) :
                analyzer' = TSPacketDataAnalysis(analyzer, c)
      BY <2>6 DEF Analyse, Call
    <3>2. analyzer \in Analyzers /\ analyzer.file \in Files
      BY <3>1 DEF TypeOK, Analyzers
    <3>3. analyzer'.packet_data_ = analyzer.packet_data_
      BY <3>1, <3>2, ContentsType, AnalysisType
    <3> QED BY <2>1, <3>1, <3>3 DEF WrittenInv
  <2>7. CASE Format
    <3>1. pc = "format" /\ pc' = "send" /\ analyzer' = SetPrintInfo(analyzer)
      BY <2>7 DEF Format, Call
    <3>2. analyzer'.send_buffer_.hex = analyzer.packet_data_
      BY <3>1, SetPrintInfoType DEF TypeOK
    <3> QED BY <2>1, <3>1, <3>2 DEF WrittenInv
  <2>8. CASE Send
    BY <2>1, <2>8 DEF Send, WrittenInv
  <2>9. CASE UNCHANGED vars
    BY <2>1, <2>9 DEF vars, WrittenInv
  <2> QED BY <2>2, <2>3, <2>4, <2>5, <2>6, <2>7, <2>8, <2>9 DEF Next
<1>3. WrittenInv => NoGarbageSent
  BY DEF WrittenInv, NoGarbageSent, TwoPackets, Written
<1> QED BY <1>1, <1>2, <1>3, TypeCorrect, PTL DEF Spec
=============================================================================
