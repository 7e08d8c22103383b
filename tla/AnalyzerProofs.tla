--------------------------- MODULE AnalyzerProofs ---------------------------
(***************************************************************************)
(* Facts about the operators of TSPacket and PacketAnalyzer, for every     *)
(* packet size, file and content: each method keeps the analyser well      *)
(* typed, and reading a packet that is there fetches exactly its bytes.    *)
(***************************************************************************)
EXTENDS PacketAnalyzer, TLAPS

-----------------------------------------------------------------------------
(* The parser.                                                             *)

\* A fresh parser is well typed.
LEMMA NewParserType == ASSUME NEW D PROVE NewParser \in Parsers(D)
BY DEF NewParser, Parsers

\* Decoding a part keeps the parser well typed.
LEMMA DecodeType ==
    ASSUME NEW D, NEW ts \in Parsers(D), NEW data \in D,
           NEW part \in Parts \ {"header"}
    PROVE  Decode(ts, part, data) \in Parsers(D)
BY DEF Decode, Parsers

\* So does malloc.
LEMMA AllocateType ==
    ASSUME NEW D, NEW ts \in Parsers(D), NEW owner \in Owners
    PROVE  Allocate(ts, owner) \in Parsers(D)
<1> DEFINE lost == IF owner \in ts.live THEN ts.leaked + 1 ELSE ts.leaked
<1>1. lost \in Nat
  BY DEF Parsers
<1>2. ts.live \cup {owner} \in SUBSET Owners
  BY DEF Parsers
<1>3. Allocate(ts, owner) = [ts EXCEPT !.leaked = lost,
                                       !.live = ts.live \cup {owner}]
  BY DEF Allocate
<1> HIDE DEF lost
<1> QED BY <1>1, <1>2, <1>3 DEF Parsers

\* Analysing any buffer of any content keeps the parser well typed.
LEMMA GetHeaderInfoType ==
    ASSUME NEW D, NEW ts \in Parsers(D), NEW data \in D, NEW c \in Content
    PROVE  GetHeaderInfo(ts, data, c) \in Parsers(D)
<1> DEFINE header  == [ts EXCEPT !.fields["header"] = data]
           adapted == IF c.adaptation = "none" THEN header
                      ELSE GetAdaptationField(header, data, c.adaptation)
<1>1. header \in Parsers(D)
  BY DEF Parsers, Parts
<1>2. adapted \in Parsers(D)
  <2>1. CASE c.adaptation = "none"
    BY <1>1, <2>1
  <2>2. CASE c.adaptation # "none"
    <3> DEFINE decoded == Decode(header, "adaptation", data)
    <3>1. decoded \in Parsers(D)
      BY <1>1, DecodeType DEF Parts, Sections
    <3>2. CASE c.adaptation = "empty"
      BY <2>2, <3>1, <3>2 DEF GetAdaptationField
    <3>3. CASE c.adaptation = "plain"
      <4>1. [decoded EXCEPT !.private_flag = FALSE] \in Parsers(D)
        BY <3>1 DEF Parsers
      <4> QED BY <2>2, <3>3, <4>1 DEF GetAdaptationField
    <3>4. CASE c.adaptation = "private"
      <4>1. Allocate(decoded, "private") \in Parsers(D)
        BY <3>1, AllocateType DEF Owners
      <4>2. [Allocate(decoded, "private") EXCEPT !.private_flag = TRUE]
               \in Parsers(D)
        BY <4>1 DEF Parsers
      <4> QED BY <2>2, <3>4, <4>2 DEF GetAdaptationField
    <3> QED BY <2>2, <3>2, <3>3, <3>4 DEF Content
  <2> QED BY <2>1, <2>2
<1>3. CASE c.unit = "none"
  BY <1>2, <1>3 DEF GetHeaderInfo
<1>4. CASE c.unit # "none"
  <2>1. c.unit \in Sections
    BY <1>4 DEF Content
  <2>2. Decode(adapted, c.unit, data) \in Parsers(D)
    BY <1>2, <2>1, DecodeType DEF Parts, Sections
  <2>3. SetHeaderInfo(adapted, c.unit, data) \in Parsers(D)
    BY <2>1, <2>2, AllocateType DEF SetHeaderInfo, Owners
  <2> QED BY <1>4, <2>3 DEF GetHeaderInfo
<1> QED BY <1>3, <1>4

\* A text is turned into entries of a report.
LEMMA EntriesType ==
    ASSUME NEW D, NEW text \in Seq(D), NEW part \in Parts
    PROVE  Entries(part, text) \in Seq([part : Parts, from : D])
<1>1. /\ Len(text) \in Nat
      /\ DOMAIN text = 1 .. Len(text)
      /\ \A n \in 1 .. Len(text) : text[n] \in D
  OBVIOUS
<1>2. Entries(part, text) = [n \in 1 .. Len(text) |->
                                [part |-> part, from |-> text[n]]]
  BY <1>1 DEF Entries
<1>3. \A n \in 1 .. Len(text) :
         [part |-> part, from |-> text[n]] \in [part : Parts, from : D]
  BY <1>1
<1> QED BY <1>1, <1>2, <1>3

\* Formatting keeps the parser well typed.
LEMMA SetPrintHeaderInfoType ==
    ASSUME NEW D, NEW ts \in Parsers(D)
    PROVE  SetPrintHeaderInfo(ts) \in Parsers(D)
<1> DEFINE E == D \cup {Zero}
           R == [part : Parts, from : E]
           text == [s \in Sections |-> PrintSection(ts, s)]
<1>1. text \in [Sections -> Seq(E)]
  BY DEF PrintSection, Parsers, Parts
<1>2. \A s \in Sections : Entries(s, text[s]) \in Seq(R)
  BY <1>1, EntriesType DEF Parts
<1>3. Entries("header", <<ts.fields["header"]>>) \in Seq(R)
  <2>1. <<ts.fields["header"]>> \in Seq(E)
    BY DEF Parsers, Parts
  <2> QED BY <2>1, EntriesType DEF Parts
<1>4. SetPrintAdaptationInfo(ts) \in Seq(R)
  <2>1. <<ts.fields["adaptation"]>> \in Seq(E)
    BY DEF Parsers, Parts
  <2>2. Entries("adaptation", <<ts.fields["adaptation"]>>) \in Seq(R)
    BY <2>1, EntriesType DEF Parts
  <2> QED BY <2>2 DEF SetPrintAdaptationInfo
<1> DEFINE report == ts.report \o Entries("header", <<ts.fields["header"]>>)
                        \o SetPrintAdaptationInfo(ts)
                        \o Entries("pes", text["pes"])
                        \o Entries("pat", text["pat"])
                        \o Entries("cat", text["cat"])
                        \o Entries("pmt", text["pmt"])
<1>5. report \in Seq(R)
  <2>1. ts.report \in Seq(R)
    BY DEF Parsers
  <2>2. \A a, b \in Seq(R) : a \o b \in Seq(R)
    OBVIOUS
  <2> HIDE DEF R
  <2> QED BY <1>2, <1>3, <1>4, <2>1, <2>2 DEF Sections
<1>6. SetPrintHeaderInfo(ts) = [ts EXCEPT !.report = report, !.text = text,
                                          !.exist = {}]
  BY DEF SetPrintHeaderInfo
<1> HIDE DEF report, text
<1> QED BY <1>1, <1>5, <1>6 DEF Parsers

\* Resetting keeps the parser well typed.
LEMMA ResetType ==
    ASSUME NEW D, NEW ts \in Parsers(D)
    PROVE  Reset(ts) \in Parsers(D)
BY DEF Reset, Parsers, Tables, Owners, Sections, Parts

-----------------------------------------------------------------------------
(* The analyser.                                                           *)

\* A number smaller than the divisor is its own remainder.
LEMMA SmallRemainder ==
    ASSUME NEW x \in Nat, NEW r \in Nat, x < r
    PROVE  x % r = x
BY SMTT(30)

\* The conversion to long yields an integer, and the offset itself as long as
\* that is no larger than LONG_MAX.
LEMMA ToLongFits ==
    ASSUME NEW x \in Int
    PROVE  /\ ToLong(x) \in Int
           /\ x \in 0 .. LONG_MAX => ToLong(x) = x
<1> DEFINE range == 2 * (LONG_MAX + 1)
<1>1. range \in Nat /\ range > 0 /\ range > LONG_MAX
  BY AnalyzerAssumption
<1>2. x % range \in 0 .. range - 1
  BY <1>1
<1>3. ASSUME x \in 0 .. LONG_MAX PROVE x % range = x
  <2> HIDE DEF range
  <2> QED BY <1>1, <1>3, SmallRemainder, AnalyzerAssumption
<1>4. ToLong(x) = IF x % range > LONG_MAX THEN (x % range) - range ELSE x % range
  BY DEF ToLong
<1> HIDE DEF range
<1> QED BY <1>1, <1>2, <1>3, <1>4, AnalyzerAssumption

\* The number of bytes fread delivers.
LEMMA AvailableType ==
    ASSUME NEW f \in Files, NEW start \in Nat
    PROVE  Available(f, start) \in 0 .. PACKET_SIZE
BY AnalyzerAssumption DEF Available

\* fseek and fread keep the analyser well typed and touch nothing but the
\* position and the buffer.
LEMMA GetPacketDataType ==
    ASSUME NEW pa \in Analyzers
    PROVE  /\ GetPacketData(pa) \in Analyzers
           /\ GetPacketData(pa).file = pa.file
           /\ GetPacketData(pa).current_packet_ = pa.current_packet_
<1> DEFINE target == ToLong(pa.current_packet_ * PACKET_SIZE)
           start  == IF target >= 0 THEN target ELSE pa.offset
           count  == Available(pa.file, start)
           data   == [i \in Positions |-> IF i < count THEN start + i
                                          ELSE pa.packet_data_[i]]
<1>1. pa.current_packet_ * PACKET_SIZE \in Int
  BY AnalyzerAssumption DEF Analyzers
<1>2. target \in Int
  BY <1>1, ToLongFits
<1>3. start \in Nat
  BY <1>2 DEF Analyzers
<1>4. count \in Nat
  <2>1. pa.file \in Files
    BY DEF Analyzers
  <2> HIDE DEF start
  <2> QED BY <1>3, <2>1, AvailableType, AnalyzerAssumption
<1>5. data \in Buffers
  <2>1. pa.packet_data_ \in Buffers
    BY DEF Analyzers
  <2>2. \A i \in Positions : start + i \in Nat
    <3>1. Positions \subseteq Nat
      BY AnalyzerAssumption DEF Positions
    <3> HIDE DEF start
    <3> QED BY <1>3, <3>1
  <2> HIDE DEF start, count
  <2> QED BY <2>1, <2>2 DEF Buffers, Bytes
<1>6. GetPacketData(pa) = [pa EXCEPT !.offset = start + count,
                                     !.packet_data_ = data]
  BY DEF GetPacketData
<1>7. start + count \in Nat
  BY <1>3, <1>4
<1> HIDE DEF data, start, count
<1> QED BY <1>5, <1>6, <1>7 DEF Analyzers

\* A packet that is in the file in full and within reach of fseek is read into
\* the whole buffer, whatever the buffer and the position were.
LEMMA GetPacketDataReads ==
    ASSUME NEW pa \in Analyzers,
           InFile(pa.file, pa.current_packet_),
           pa.current_packet_ * PACKET_SIZE <= LONG_MAX
    PROVE  GetPacketData(pa).packet_data_ = Packet(pa.current_packet_)
<1> DEFINE n      == pa.current_packet_
           target == ToLong(n * PACKET_SIZE)
           start  == IF target >= 0 THEN target ELSE pa.offset
           count  == Available(pa.file, start)
<1>1. /\ n \in Nat /\ PACKET_SIZE \in Nat \ {0}
      /\ Size[pa.file] \in Nat
      /\ (n + 1) * PACKET_SIZE <= Size[pa.file]
  BY AnalyzerAssumption DEF Analyzers, InFile
<1>2. n * PACKET_SIZE \in 0 .. LONG_MAX
  BY <1>1, AnalyzerAssumption DEF Analyzers
<1>3. target = n * PACKET_SIZE /\ start = target
  BY <1>2, ToLongFits
<1>4. (n + 1) * PACKET_SIZE = n * PACKET_SIZE + PACKET_SIZE
  BY <1>1
<1>5. count = PACKET_SIZE
  <2>1. \A m \in Nat : m + PACKET_SIZE <= Size[pa.file]
                          => Available(pa.file, m) = PACKET_SIZE
    BY <1>1 DEF Available
  <2> QED BY <1>1, <1>2, <1>3, <1>4, <2>1
<1>6. GetPacketData(pa).packet_data_
         = [i \in Positions |-> IF i < count THEN start + i
                                ELSE pa.packet_data_[i]]
  BY DEF GetPacketData, Analyzers
<1>7. \A i \in Positions : i < PACKET_SIZE
  BY <1>1 DEF Positions
<1> QED BY <1>3, <1>5, <1>6, <1>7 DEF Packet

\* Moving to a packet and reading it.
LEMMA FindPakcetDataType ==
    ASSUME NEW pa \in Analyzers, NEW num \in Int
    PROVE  /\ FindPakcetData(pa, num) \in Analyzers
           /\ FindPakcetData(pa, num).file = pa.file
           /\ FindPakcetData(pa, num).current_packet_ = num
<1>1. [pa EXCEPT !.current_packet_ = num] \in Analyzers
  BY DEF Analyzers
<1>2. /\ [pa EXCEPT !.current_packet_ = num].file = pa.file
      /\ [pa EXCEPT !.current_packet_ = num].current_packet_ = num
  BY DEF Analyzers
<1> QED BY <1>1, <1>2, GetPacketDataType DEF FindPakcetData

\* What a buffer may hold.
LEMMA ContentsType ==
    ASSUME NEW f \in Files, NEW data
    PROVE  ContentsOf(f, data) \subseteq Content
BY KindAssumption DEF ContentsOf, WholePackets, BlankContent, Content

\* Analysing changes the parser alone.
LEMMA AnalysisType ==
    ASSUME NEW pa \in Analyzers, NEW c \in Content
    PROVE  /\ TSPacketDataAnalysis(pa, c) \in Analyzers
           /\ TSPacketDataAnalysis(pa, c).file = pa.file
           /\ TSPacketDataAnalysis(pa, c).current_packet_ = pa.current_packet_
           /\ TSPacketDataAnalysis(pa, c).packet_data_ = pa.packet_data_
<1>1. GetHeaderInfo(pa.ts_packet_, pa.packet_data_, c) \in Parsers(Buffers)
  BY GetHeaderInfoType DEF Analyzers
<1> QED BY <1>1 DEF TSPacketDataAnalysis, Analyzers

\* Resetting changes the parser alone.
LEMMA ResetAnalyzerType ==
    ASSUME NEW pa \in Analyzers
    PROVE  /\ ResetAnalyzer(pa) \in Analyzers
           /\ ResetAnalyzer(pa).file = pa.file
           /\ ResetAnalyzer(pa).current_packet_ = pa.current_packet_
<1>1. Reset(pa.ts_packet_) \in Parsers(Buffers)
  BY ResetType DEF Analyzers
<1> QED BY <1>1 DEF ResetAnalyzer, Analyzers

\* Formatting dumps the buffer as it was and leaves it blank.
LEMMA SetPrintInfoType ==
    ASSUME NEW pa \in Analyzers
    PROVE  /\ SetPrintInfo(pa) \in Analyzers
           /\ SetPrintInfo(pa).file = pa.file
           /\ SetPrintInfo(pa).current_packet_ = pa.current_packet_
           /\ SetPrintInfo(pa).packet_data_ = BlankBuffer
           /\ SetPrintInfo(pa).send_buffer_.hex = pa.packet_data_
<1> DEFINE ts     == SetPrintHeaderInfo(pa.ts_packet_)
           first  == [pa EXCEPT !.ts_packet_ = ts]
           second == SetPrintHexData(first)
           buffer == [report |-> second.ts_packet_.report,
                      hex    |-> second.hex_data_buffer_]
<1>1. ts \in Parsers(Buffers)
  BY SetPrintHeaderInfoType DEF Analyzers
<1>2. /\ first \in Analyzers /\ first.file = pa.file
      /\ first.current_packet_ = pa.current_packet_
      /\ first.packet_data_ = pa.packet_data_
  BY <1>1 DEF Analyzers
<1>3. BlankBuffer \in Buffers
  BY DEF BlankBuffer, Buffers, Bytes
<1> HIDE DEF first
<1>4. /\ second \in Analyzers /\ second.file = pa.file
      /\ second.current_packet_ = pa.current_packet_
      /\ second.packet_data_ = BlankBuffer
      /\ second.hex_data_buffer_ = pa.packet_data_
  BY <1>2, <1>3 DEF SetPrintHexData, Analyzers, Dumps
<1>5. SetPrintInfo(pa) = [second EXCEPT !.send_buffer_ = buffer]
  BY DEF SetPrintInfo, first
<1> HIDE DEF second
<1>6. /\ buffer \in [report : Seq([part : Parts, from : Buffers \cup {Zero}]),
                      hex : Dumps]
      /\ buffer.hex = pa.packet_data_
  BY <1>4 DEF Analyzers, Parsers
<1> HIDE DEF buffer
<1> QED BY <1>4, <1>5, <1>6 DEF Analyzers

\* The object when its file is open.
LEMMA OpenedType == ASSUME NEW f \in Files
                    PROVE  Opened(f) \in Analyzers /\ Opened(f).file = f
<1>1. TotalPackets(f) \in Nat
  BY AnalyzerAssumption DEF TotalPackets
<1>2. NewParser \in Parsers(Buffers)
  BY NewParserType
<1>3. [i \in Positions |-> Garbage] \in Buffers
  BY DEF Buffers, Bytes
<1>4. <<>> \in Dumps /\ <<>> \in Seq([part : Parts, from : Buffers \cup {Zero}])
  BY DEF Dumps
<1> HIDE DEF TotalPackets, NewParser
<1> QED BY <1>1, <1>2, <1>3, <1>4 DEF Opened, Analyzers

\* The constructor returns a well typed analyser of the file it was given.
LEMMA ConstructedType ==
    ASSUME NEW f \in Files, NEW pa \in Constructed(f)
    PROVE  pa \in Analyzers /\ pa.file = f
<1> DEFINE read == FindPakcetData(Opened(f), 1)
<1>1. PICK c \in ContentsOf(f, read.packet_data_) :
         pa = SetPidValueInit(Opened(f), c)
  BY DEF Constructed
<1>2. c \in Content
  BY <1>1, ContentsType
<1>3. read \in Analyzers /\ read.file = f
  BY OpenedType, FindPakcetDataType
<1> DEFINE reset == ResetAnalyzer(TSPacketDataAnalysis(read, c))
<1>4. reset \in Analyzers /\ reset.file = f
  BY <1>2, <1>3, AnalysisType, ResetAnalyzerType
<1>5. pa = [reset EXCEPT !.current_packet_ = 0]
  BY <1>1 DEF SetPidValueInit
<1> HIDE DEF reset
<1> QED BY <1>4, <1>5 DEF Analyzers
=============================================================================
