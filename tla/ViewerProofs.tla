---------------------------- MODULE ViewerProofs ----------------------------
(***************************************************************************)
(* The interactive loop, for every set of files, packet size and numbers   *)
(* typed: it is well typed, stays on the packets of its file, shows the    *)
(* packet it counts and ends each report with that packet, frees private   *)
(* data, and goes where its user says.                                     *)
(***************************************************************************)
EXTENDS Viewer, AnalyzerProofs, SequenceTheorems

-----------------------------------------------------------------------------
(* What a call on the analyser leaves alone.                               *)

\* Everything but the parser, the position of the file, the buffers.
SamePlace(pa, pb) == /\ pb.file = pa.file
                     /\ pb.current_packet_ = pa.current_packet_
                     /\ pb.total_packet_ = pa.total_packet_

\* Reading, analysing, formatting, resetting and closing stay at the packet.
LEMMA CallsStay ==
    ASSUME NEW pa \in Analyzers, NEW c \in Content
    PROVE  \A pb \in {GetPacketData(pa), TSPacketDataAnalysis(pa, c),
                      SetPrintInfo(pa), ResetAnalyzer(pa),
                      CloseFile(ResetAnalyzer(pa))} :
               pb \in Analyzers /\ SamePlace(pa, pb)
<1>1. GetPacketData(pa) \in Analyzers /\ SamePlace(pa, GetPacketData(pa))
  BY GetPacketDataType DEF GetPacketData, Analyzers, SamePlace
<1>2. /\ TSPacketDataAnalysis(pa, c) \in Analyzers
      /\ SamePlace(pa, TSPacketDataAnalysis(pa, c))
  BY AnalysisType DEF TSPacketDataAnalysis, Analyzers, SamePlace
<1>3. SetPrintInfo(pa) \in Analyzers /\ SamePlace(pa, SetPrintInfo(pa))
  BY SetPrintInfoType DEF SetPrintInfo, SetPrintHexData, Analyzers, SamePlace
<1>4. ResetAnalyzer(pa) \in Analyzers /\ SamePlace(pa, ResetAnalyzer(pa))
  BY ResetAnalyzerType DEF ResetAnalyzer, Analyzers, SamePlace
<1>5. /\ CloseFile(ResetAnalyzer(pa)) \in Analyzers
      /\ SamePlace(pa, CloseFile(ResetAnalyzer(pa)))
  <2>1. \A pb \in Analyzers : CloseFile(pb) \in Analyzers /\ SamePlace(pb, CloseFile(pb))
    BY DEF CloseFile, Analyzers, SamePlace
  <2> QED BY <1>4, <2>1 DEF SamePlace
<1> QED BY <1>1, <1>2, <1>3, <1>4, <1>5

\* The three moves change the number of the packet at most, and a file that
\* has packets is never left.
LEMMA MovesStayInFile ==
    ASSUME NEW pa \in Analyzers, NEW p \in Int
    PROVE  \A pb \in {GetNextPacketData(pa), GetPreviousPacketData(pa),
                      FindPakcetData(pa, p)} :
               /\ pb \in Analyzers /\ pb.file = pa.file
               /\ pb.total_packet_ = pa.total_packet_
               /\ pb.ts_packet_ = pa.ts_packet_
               /\ pa.current_packet_ \in 0 .. pa.total_packet_ - 1
                  /\ p \in 0 .. pa.total_packet_ - 1
                  => pb.current_packet_ \in 0 .. pa.total_packet_ - 1
               /\ pa.current_packet_ \in Nat /\ p \in Nat => pb.current_packet_ \in Nat
<1>1. \A n \in Int : [pa EXCEPT !.current_packet_ = n] \in Analyzers
  BY DEF Analyzers
<1>2. pa.current_packet_ \in Int /\ pa.total_packet_ \in Nat
  BY DEF Analyzers
<1>3. FindPakcetData(pa, p).total_packet_ = pa.total_packet_
      /\ FindPakcetData(pa, p).ts_packet_ = pa.ts_packet_
  BY DEF FindPakcetData, GetPacketData, Analyzers
<1> DEFINE Moved(pb) == /\ pb \in Analyzers /\ pb.file = pa.file
                        /\ pb.total_packet_ = pa.total_packet_
                        /\ pb.ts_packet_ = pa.ts_packet_
                        /\ pa.current_packet_ \in 0 .. pa.total_packet_ - 1
                           /\ p \in 0 .. pa.total_packet_ - 1
                           => pb.current_packet_ \in 0 .. pa.total_packet_ - 1
                        /\ pa.current_packet_ \in Nat /\ p \in Nat
                           => pb.current_packet_ \in Nat
<1>4. Moved(GetNextPacketData(pa))
  <2>1. CASE pa.current_packet_ + 1 < pa.total_packet_
    <3>1. pa.current_packet_ + 1 \in Int
      BY <1>2
    <3>2. GetNextPacketData(pa) = [pa EXCEPT !.current_packet_ = pa.current_packet_ + 1]
      BY <2>1 DEF GetNextPacketData
    <3>3. GetNextPacketData(pa) \in Analyzers
      BY <1>1, <3>1, <3>2
    <3> QED BY <1>2, <2>1, <3>2, <3>3 DEF Analyzers
  <2> QED BY <1>2, <2>1 DEF GetNextPacketData
<1>5. Moved(GetPreviousPacketData(pa))
  <2>1. CASE pa.current_packet_ > 0
    <3>1. pa.current_packet_ - 1 \in Int
      BY <1>2
    <3>2. GetPreviousPacketData(pa) = [pa EXCEPT !.current_packet_ = pa.current_packet_ - 1]
      BY <2>1 DEF GetPreviousPacketData
    <3>3. GetPreviousPacketData(pa) \in Analyzers
      BY <1>1, <3>1, <3>2
    <3> QED BY <1>2, <2>1, <3>2, <3>3 DEF Analyzers
  <2> QED BY <1>2, <2>1 DEF GetPreviousPacketData
<1>6. Moved(FindPakcetData(pa, p))
  BY <1>3, FindPakcetDataType
<1> QED BY <1>4, <1>5, <1>6

\* The constructor counts the packets of the file and stands on the first.
LEMMA ConstructedAtFirst ==
    ASSUME NEW f \in Files, NEW pa \in Constructed(f)
    PROVE  pa.current_packet_ = 0 /\ pa.total_packet_ = TotalPackets(f)
<1>1. PICK c \in ContentsOf(f, FindPakcetData(Opened(f), 1).packet_data_) :
         pa = SetPidValueInit(Opened(f), c)
  BY DEF Constructed
<1>2. c \in Content
  BY <1>1, ContentsType
<1> DEFINE read  == FindPakcetData(Opened(f), 1)
           reset == ResetAnalyzer(TSPacketDataAnalysis(read, c))
<1>3. read \in Analyzers /\ read.total_packet_ = TotalPackets(f)
  BY OpenedType, MovesStayInFile DEF Opened
<1>4. reset \in Analyzers /\ reset.total_packet_ = TotalPackets(f)
  BY <1>2, <1>3, CallsStay DEF SamePlace
<1> QED BY <1>1, <1>4 DEF SetPidValueInit, Analyzers

-----------------------------------------------------------------------------
(* Types and places.                                                       *)

\* total_packet_ is the number of packets of the file.
PlaceInv == /\ TypeOK
            /\ file \in Files
            /\ ~Constructing => analyzer.total_packet_ = Total
            /\ OnAPacket

\* The first state is well typed, and no packet is shown yet.
LEMMA PlaceInit == Init => PlaceInv
BY DEF Init, PlaceInv, TypeOK, OnAPacket, Constructing

\* A call that stays at its packet keeps PlaceInv.
LEMMA CallKeepsPlace ==
    ASSUME PlaceInv, ~Constructing, UNCHANGED file,
           analyzer' \in Analyzers, SamePlace(analyzer, analyzer')
    PROVE  /\ analyzer'.file = file /\ analyzer'.total_packet_ = Total'
           /\ analyzer'.current_packet_ \in Nat
           /\ Total > 0 => analyzer'.current_packet_ \in 0 .. Total' - 1
BY DEF PlaceInv, TypeOK, OnAPacket, SamePlace, Total

\* Every step of the loop keeps PlaceInv.
LEMMA PlaceStep == PlaceInv /\ [Next]_vars => PlaceInv'
<1> SUFFICES ASSUME PlaceInv, [Next]_vars PROVE PlaceInv'
  OBVIOUS
<1> USE DEF Constructing, Total
<1>1. CASE Construct
  <2>1. /\ file' = file /\ file \in Files /\ analyzer' \in Constructed(file)
        /\ pc = "construct" /\ pc' = "read"
        /\ UNCHANGED <<key, temp, cinFailed, checked>>
    BY <1>1 DEF Construct, Call, PlaceInv
  <2>2. TotalPackets(file) \in Nat
    BY <2>1, AnalyzerAssumption DEF TotalPackets
  <2>3. /\ analyzer' \in Analyzers /\ analyzer'.file = file
        /\ analyzer'.total_packet_ = TotalPackets(file)
        /\ analyzer'.current_packet_ = 0
    BY <2>1, ConstructedType, ConstructedAtFirst
  <2> QED BY <2>1, <2>2, <2>3 DEF PlaceInv, TypeOK, OnAPacket
<1>2. CASE ReadPacket \/ Analyse \/ Format \/ PrintInfo \/ ResetStep \/ Quit \/ EndCheck
  <2>1. /\ pc # "construct" /\ pc' # "construct" /\ pc # "find"
        /\ pc' \in {"analyse", "format", "print", "reset", "prompt", "quit"}
        /\ UNCHANGED <<file, key, temp, cinFailed, checked>>
    BY <1>2 DEF ReadPacket, Analyse, Format, PrintInfo, ResetStep, Quit, EndCheck,
                Case, Call
  <2>2. analyzer \in Analyzers /\ analyzer.file \in Files /\ analyzer.file = file
    BY <2>1 DEF PlaceInv, TypeOK
  <2>3. analyzer' \in Analyzers /\ SamePlace(analyzer, analyzer')
    <3>1. CASE Analyse
      <4>1. PICK c \in ContentsOf(file, analyzer.packet_data_) :
                analyzer' = TSPacketDataAnalysis(analyzer, c)
        BY <3>1 DEF Analyse, Call
      <4>2. c \in Content
        BY <2>2, <4>1, ContentsType
      <4> QED BY <2>2, <4>1, <4>2, CallsStay
    <3>2. CASE ~Analyse
      <4>1. analyzer' \in {analyzer, GetPacketData(analyzer), SetPrintInfo(analyzer),
                           ResetAnalyzer(analyzer), CloseFile(ResetAnalyzer(analyzer))}
        BY <1>2, <3>2 DEF ReadPacket, Format, PrintInfo, ResetStep, Quit, EndCheck,
                          Case, Call
      <4>2. BlankContent \in Content
        BY DEF BlankContent, Content
      <4>3. SamePlace(analyzer, analyzer)
        BY DEF SamePlace
      <4> QED BY <2>2, <4>1, <4>2, <4>3, CallsStay
    <3> QED BY <3>1, <3>2
  <2> QED BY <2>1, <2>2, <2>3, CallKeepsPlace DEF PlaceInv, TypeOK, OnAPacket
<1>3. CASE Previous \/ Forward \/ Ignore
  <2>1. /\ pc = "switch" /\ pc' = "read" /\ UNCHANGED <<file, key, temp, cinFailed, checked>>
        /\ analyzer' \in {analyzer, GetPreviousPacketData(analyzer),
                          GetNextPacketData(analyzer)}
    BY <1>3 DEF Previous, Forward, Ignore, Case, Call
  <2>2. /\ analyzer \in Analyzers /\ analyzer.file = file /\ analyzer.current_packet_ \in Nat
        /\ analyzer.total_packet_ = TotalPackets(file)
        /\ TotalPackets(file) > 0
           => analyzer.current_packet_ \in 0 .. analyzer.total_packet_ - 1
    BY <2>1 DEF PlaceInv, TypeOK, OnAPacket
  <2>3. /\ analyzer' \in Analyzers /\ analyzer'.file = file
        /\ analyzer'.current_packet_ \in Nat
        /\ analyzer'.total_packet_ = TotalPackets(file)
        /\ TotalPackets(file) > 0
           => analyzer'.current_packet_ \in 0 .. analyzer.total_packet_ - 1
    <3>1. analyzer.current_packet_ \in Int
      BY <2>2 DEF Analyzers
    <3> QED BY <2>1, <2>2, <3>1, MovesStayInFile
  <2> QED BY <2>1, <2>2, <2>3 DEF PlaceInv, TypeOK, OnAPacket
<1>4. CASE StartCheck
  <2>1. /\ pc = "switch" /\ pc' = "check" /\ UNCHANGED <<file, key, temp, cinFailed, checked>>
        /\ analyzer' = [analyzer EXCEPT !.current_packet_ = 0]
    BY <1>4 DEF StartCheck, Case, Call
  <2>2. /\ analyzer' \in Analyzers /\ analyzer'.file = file
        /\ analyzer'.total_packet_ = TotalPackets(file)
        /\ analyzer'.current_packet_ = 0
    BY <2>1 DEF PlaceInv, TypeOK, Analyzers
  <2>3. TotalPackets(file) \in Nat
    BY AnalyzerAssumption DEF TotalPackets, PlaceInv
  <2> QED BY <2>1, <2>2, <2>3 DEF PlaceInv, TypeOK, OnAPacket
<1>5. CASE CheckNext
  <2>1. /\ pc = "check" /\ UNCHANGED <<pc, file, key, temp, cinFailed>>
        /\ analyzer' = GetNextPacketData(analyzer)
        /\ checked' = checked \cup {analyzer.packet_data_}
    BY <1>5 DEF CheckNext
  <2>2. /\ analyzer \in Analyzers /\ analyzer.file = file /\ analyzer.current_packet_ \in Nat
        /\ analyzer.packet_data_ \in Buffers
        /\ analyzer.total_packet_ = TotalPackets(file)
        /\ TotalPackets(file) > 0
           => analyzer.current_packet_ \in 0 .. analyzer.total_packet_ - 1
    BY <2>1 DEF PlaceInv, TypeOK, OnAPacket, Analyzers
  <2>3. /\ analyzer' \in Analyzers /\ analyzer'.file = file
        /\ analyzer'.current_packet_ \in Nat
        /\ analyzer'.total_packet_ = TotalPackets(file)
        /\ TotalPackets(file) > 0
           => analyzer'.current_packet_ \in 0 .. analyzer.total_packet_ - 1
    <3>1. analyzer.current_packet_ \in Int
      BY <2>2 DEF Analyzers
    <3> QED BY <2>1, <2>2, <3>1, MovesStayInFile
  <2> QED BY <2>1, <2>2, <2>3 DEF PlaceInv, TypeOK, OnAPacket
<1>6. CASE Prompt \/ ReadNumber
  <2>1. /\ pc # "construct" /\ pc' \in {"switch", "find"} /\ UNCHANGED <<file, analyzer, checked>>
        /\ key' \in Keys \cup {NoKey} /\ cinFailed' \in BOOLEAN
        /\ temp' \in IF pc' = "find" THEN Numbers ELSE {0}
    BY <1>6 DEF Prompt, ReadNumber, Unread, PlaceInv, TypeOK
  <2> QED BY <2>1 DEF PlaceInv, TypeOK, OnAPacket
<1>7. CASE Find
  <2>1. /\ pc = "find" /\ pc' = "read" /\ temp' = 0
        /\ UNCHANGED <<file, key, cinFailed, checked>>
        /\ analyzer' = IF temp > 0 /\ temp <= analyzer.total_packet_
                       THEN FindPakcetData(analyzer, temp - 1) ELSE analyzer
    BY <1>7 DEF Find, MoveTo
  <2>2. temp \in Int
    BY <2>1, ViewerAssumption DEF PlaceInv, TypeOK
  <2>3. /\ analyzer \in Analyzers /\ analyzer.file = file
        /\ analyzer.current_packet_ \in Nat
        /\ analyzer.total_packet_ = TotalPackets(file)
        /\ TotalPackets(file) \in Nat
        /\ TotalPackets(file) > 0
           => analyzer.current_packet_ \in 0 .. analyzer.total_packet_ - 1
    BY <2>1 DEF PlaceInv, TypeOK, OnAPacket, Analyzers
  <2>4. /\ analyzer' \in Analyzers /\ analyzer'.file = file
        /\ analyzer'.current_packet_ \in Nat
        /\ analyzer'.total_packet_ = TotalPackets(file)
        /\ TotalPackets(file) > 0
           => analyzer'.current_packet_ \in 0 .. analyzer.total_packet_ - 1
    <3>1. CASE temp > 0 /\ temp <= analyzer.total_packet_
      <4>1. /\ temp - 1 \in Int /\ temp - 1 \in Nat
            /\ temp - 1 \in 0 .. analyzer.total_packet_ - 1
        BY <2>2, <2>3, <3>1
      <4>2. analyzer' = FindPakcetData(analyzer, temp - 1)
        BY <2>1, <3>1
      <4>3. TotalPackets(file) > 0
        BY <2>2, <2>3, <3>1
      <4> HIDE <2>1
      <4> QED BY <2>3, <4>1, <4>2, <4>3, MovesStayInFile
    <3>2. CASE ~(temp > 0 /\ temp <= analyzer.total_packet_)
      BY <2>1, <2>3, <3>2
    <3> QED BY <3>1, <3>2
  <2> QED BY <2>1, <2>3, <2>4 DEF PlaceInv, TypeOK, OnAPacket
<1>8. CASE UNCHANGED vars
  BY <1>8 DEF vars, PlaceInv, TypeOK, OnAPacket
<1> QED BY <1>1, <1>2, <1>3, <1>4, <1>5, <1>6, <1>7, <1>8 DEF Next, Step

\* PlaceInv holds in every state of the loop.
LEMMA PlaceInvariance == Spec => []PlaceInv
BY PlaceInit, PlaceStep, PTL DEF Spec

\* Every state of the loop is well typed.
THEOREM TypeCorrect == Spec => []TypeOK
<1>1. PlaceInv => TypeOK
  BY DEF PlaceInv
<1> QED BY <1>1, PlaceInvariance, PTL

\* Whatever is typed, and in a file of any size, the loop stands on a packet of
\* the file.
THEOREM StaysInFile == Spec => []OnAPacket
<1>1. PlaceInv => OnAPacket
  BY DEF PlaceInv
<1> QED BY <1>1, PlaceInvariance, PTL

-----------------------------------------------------------------------------
(* The report and the blocks of the parser.                                *)

\* A parser as Reset leaves it, up to what a table keeps.
Clean(ts) == ts.exist = {} /\ ts.report = <<>> /\ "private" \notin ts.live

\* A parser that decoded the buffer d last.
Decoded(ts, d) == /\ ts.fields["header"] = d
                  /\ \A part \in ts.exist : ts.fields[part] = d
                  /\ ts.report = <<>>

\* Private data is freed by a flag.
Freeable(ts) == "private" \in ts.live => ts.private_flag

\* The last entry of each part of a report is about the buffer d.
EndsWith(report, d) ==
    \A i \in DOMAIN report :
        (\A j \in DOMAIN report : report[j].part = report[i].part => j <= i)
        => report[i].from = d

\* Whatever a parser held, Reset leaves it clean.
LEMMA ResetCleans == ASSUME NEW ts PROVE Clean(Reset(ts))
BY DEF Clean, Reset, Tables

\* The constructor returns a clean parser.
LEMMA ConstructedClean ==
    ASSUME NEW f \in Files, NEW pa \in Constructed(f)
    PROVE  Clean(pa.ts_packet_)
<1> DEFINE read == FindPakcetData(Opened(f), 1)
<1>1. PICK c \in ContentsOf(f, read.packet_data_) : pa = SetPidValueInit(Opened(f), c)
  BY DEF Constructed
<1>2. c \in Content /\ read \in Analyzers
  BY <1>1, ContentsType, OpenedType, FindPakcetDataType
<1> DEFINE analysed == TSPacketDataAnalysis(read, c)
<1>3. analysed \in Analyzers
  BY <1>2, AnalysisType
<1> HIDE DEF analysed
<1>4. ResetAnalyzer(analysed).ts_packet_ = Reset(analysed.ts_packet_)
      /\ ResetAnalyzer(analysed) \in Analyzers
  BY <1>3, ResetAnalyzerType DEF ResetAnalyzer, Analyzers
<1>5. pa.ts_packet_ = Reset(analysed.ts_packet_)
  BY <1>1, <1>4 DEF SetPidValueInit, Analyzers, analysed
<1> QED BY <1>5, ResetCleans

\* Analysing the buffer d with a clean parser decodes d and nothing else, and
\* the flag for the private data it allocates is set.
LEMMA CleanDecodes ==
    ASSUME NEW ts \in Parsers(Buffers), Clean(ts), NEW d \in Buffers, NEW c \in Content
    PROVE  Decoded(GetHeaderInfo(ts, d, c), d) /\ Freeable(GetHeaderInfo(ts, d, c))
<1> DEFINE header  == [ts EXCEPT !.fields["header"] = d]
           adapted == IF c.adaptation = "none" THEN header
                      ELSE GetAdaptationField(header, d, c.adaptation)
           Good(p) == p \in Parsers(Buffers) /\ Decoded(p, d) /\ Freeable(p)
<1>1. Good(header) /\ "private" \notin header.live
  BY DEF Clean, Decoded, Freeable, Parsers, Parts
<1>2. Good(adapted)
  <2>1. CASE c.adaptation = "none"
    BY <1>1, <2>1
  <2>2. CASE c.adaptation # "none"
    <3> DEFINE decoded == Decode(header, "adaptation", d)
    <3>1. Good(decoded) /\ "private" \notin decoded.live
      <4>1. decoded \in Parsers(Buffers)
        BY <1>1, DecodeType DEF Parts, Sections
      <4> QED BY <1>1, <4>1 DEF Decode, Decoded, Freeable, Parsers, Parts
    <3> HIDE DEF decoded
    <3>2. CASE c.adaptation = "empty"
      BY <2>2, <3>1, <3>2 DEF GetAdaptationField, decoded
    <3>3. CASE c.adaptation = "plain"
      <4>1. adapted = [decoded EXCEPT !.private_flag = FALSE]
        BY <2>2, <3>3 DEF GetAdaptationField, decoded
      <4> QED BY <3>1, <4>1 DEF Decoded, Freeable, Parsers
    <3>4. CASE c.adaptation = "private"
      <4> DEFINE allocated == Allocate(decoded, "private")
      <4>1. adapted = [allocated EXCEPT !.private_flag = TRUE]
        BY <2>2, <3>4 DEF GetAdaptationField, decoded
      <4>2. allocated \in Parsers(Buffers)
        BY <3>1, AllocateType DEF Owners
      <4>3. Decoded(allocated, d)
        BY <3>1 DEF Allocate, Decoded, Parsers
      <4> HIDE DEF allocated, adapted
      <4> QED BY <4>1, <4>2, <4>3 DEF Decoded, Freeable, Parsers
    <3> QED BY <2>2, <3>2, <3>3, <3>4 DEF Content
  <2> QED BY <2>1, <2>2
<1> HIDE DEF adapted
<1>3. CASE c.unit = "none"
  BY <1>2, <1>3 DEF GetHeaderInfo, adapted
<1>4. CASE c.unit # "none"
  <2> DEFINE decoded == Decode(adapted, c.unit, d)
  <2>1. c.unit \in Sections /\ c.unit \in Parts \ {"header"}
    BY <1>4 DEF Content, Parts, Sections
  <2>2. Good(decoded)
    <3>1. decoded \in Parsers(Buffers)
      BY <1>2, <2>1, DecodeType
    <3> QED BY <1>2, <2>1, <3>1 DEF Decode, Decoded, Freeable, Parsers
  <2>3. GetHeaderInfo(ts, d, c)
            = IF c.unit \in Tables THEN Allocate(decoded, c.unit) ELSE decoded
    BY <1>4 DEF GetHeaderInfo, SetHeaderInfo, adapted
  <2> HIDE DEF decoded
  <2>4. ASSUME c.unit \in Tables PROVE Good(Allocate(decoded, c.unit))
    <3>1. Allocate(decoded, c.unit) \in Parsers(Buffers)
      BY <2>2, <2>4, AllocateType DEF Owners
    <3> QED BY <2>2, <2>4, <3>1 DEF Allocate, Decoded, Freeable, Parsers, Tables
  <2> QED BY <2>2, <2>3, <2>4
<1> QED BY <1>3, <1>4

\* The entries of a text end as the text does.
LEMMA EntriesEnd ==
    ASSUME NEW S, NEW part \in Parts, NEW text \in Seq(S), NEW d,
           text # <<>> => text[Len(text)] = d
    PROVE  EndsWith(Entries(part, text), d)
<1>1. Len(text) \in Nat /\ DOMAIN text = 1 .. Len(text)
  BY LenProperties
<1>2. /\ DOMAIN Entries(part, text) = 1 .. Len(text)
      /\ \A i \in 1 .. Len(text) :
            Entries(part, text)[i] = [part |-> part, from |-> text[i]]
  BY <1>1 DEF Entries
<1>3. ASSUME NEW i \in 1 .. Len(text), \A j \in 1 .. Len(text) : j <= i
      PROVE  text[i] = d
  <2>1. i = Len(text)
    <3>1. \A n \in Nat : i \in 1 .. n /\ (\A j \in 1 .. n : j <= i) => i = n
      OBVIOUS
    <3> QED BY <1>1, <1>3, <3>1
  <2>2. text # <<>>
    BY <1>3
  <2> QED BY <2>1, <2>2
<1> QED BY <1>2, <1>3 DEF EndsWith

\* Two reports that end with d make one that does.
LEMMA JoinedEnd ==
    ASSUME NEW S, NEW a \in Seq(S), NEW b \in Seq(S), NEW d,
           EndsWith(a, d), EndsWith(b, d)
    PROVE  a \o b \in Seq(S) /\ EndsWith(a \o b, d)
<1>1. /\ a \o b \in Seq(S) /\ Len(a \o b) = Len(a) + Len(b)
      /\ \A i \in 1 .. Len(a) + Len(b) :
            (a \o b)[i] = IF i <= Len(a) THEN a[i] ELSE b[i - Len(a)]
      /\ Len(a) \in Nat /\ Len(b) \in Nat
  BY ConcatProperties, LenProperties
<1>2. /\ DOMAIN a = 1 .. Len(a) /\ DOMAIN b = 1 .. Len(b)
      /\ DOMAIN (a \o b) = 1 .. Len(a) + Len(b)
  BY <1>1, LenProperties
<1>3. ASSUME NEW i \in DOMAIN (a \o b),
             \A j \in DOMAIN (a \o b) : (a \o b)[j].part = (a \o b)[i].part => j <= i
      PROVE  (a \o b)[i].from = d
  <2>1. CASE i \in DOMAIN a
    <3>1. \A j \in DOMAIN a : a[j].part = a[i].part => j <= i
      <4>1. \A j \in DOMAIN a : j \in DOMAIN (a \o b) /\ (a \o b)[j] = a[j]
        BY <1>1, <1>2
      <4> QED BY <1>3, <2>1, <4>1
    <3> QED BY <1>1, <1>2, <2>1, <3>1 DEF EndsWith
  <2>2. CASE i \notin DOMAIN a
    <3> DEFINE k == i - Len(a)
    <3>1. k \in DOMAIN b /\ (a \o b)[i] = b[k]
      BY <1>1, <1>2, <2>2
    <3>2. ASSUME NEW j \in DOMAIN b, b[j].part = b[k].part PROVE j <= k
      <4>1. /\ j + Len(a) \in DOMAIN (a \o b)
            /\ (a \o b)[j + Len(a)] = b[j]
        BY <1>1, <1>2
      <4>2. j + Len(a) <= i
        BY <1>3, <3>1, <3>2, <4>1
      <4> QED BY <1>1, <1>2, <4>2
    <3> QED BY <3>1, <3>2 DEF EndsWith
  <2> QED BY <2>1, <2>2
<1> QED BY <1>1, <1>3 DEF EndsWith

\* Formatting a parser that decoded d makes a report that ends with d, and
\* takes nothing from what Reset frees private data by.
LEMMA FormatEnds ==
    ASSUME NEW ts \in Parsers(Buffers), NEW d \in Buffers, Decoded(ts, d)
    PROVE  LET after == SetPrintHeaderInfo(ts)
           IN  /\ EndsWith(after.report, d)
               /\ after.live = ts.live /\ after.private_flag = ts.private_flag
<1> DEFINE D == Buffers \cup {Zero}
           R == [part : Parts, from : D]
           text(s) == PrintSection(ts, s)
           first == Entries("header", <<ts.fields["header"]>>)
           field == SetPrintAdaptationInfo(ts)
           pes   == Entries("pes", text("pes"))
           pat   == Entries("pat", text("pat"))
           cat   == Entries("cat", text("cat"))
           pmt   == Entries("pmt", text("pmt"))
           Good(report) == report \in Seq(R) /\ EndsWith(report, d)
<1>1. ASSUME NEW s \in Sections
      PROVE  text(s) \in Seq(D) /\ (text(s) # <<>> => text(s)[Len(text(s))] = d)
  <2>1. ts.text[s] \in Seq(D)
    BY DEF Parsers
  <2>2. CASE s \in ts.exist
    <3>1. text(s) = Append(ts.text[s], d)
      BY <2>2 DEF PrintSection, Decoded
    <3> QED BY <2>1, <3>1
  <2>3. CASE s \notin ts.exist
    BY <2>3 DEF PrintSection
  <2> QED BY <2>2, <2>3
<1>2. \A s \in Sections : Good(Entries(s, text(s)))
  BY <1>1, EntriesType, EntriesEnd DEF Parts
<1>3. Good(Entries("header", <<d>>)) /\ Good(Entries("adaptation", <<d>>))
  <2>1. <<d>> \in Seq(D) /\ <<d>>[Len(<<d>>)] = d
    OBVIOUS
  <2> QED BY <2>1, EntriesType, EntriesEnd DEF Parts
<1>4. Good(first)
  BY <1>3 DEF Decoded
<1>5. Good(field)
  <2>1. CASE "adaptation" \in ts.exist
    BY <1>3, <2>1 DEF SetPrintAdaptationInfo, Decoded
  <2>2. CASE "adaptation" \notin ts.exist
    BY <2>2 DEF SetPrintAdaptationInfo, EndsWith
  <2> QED BY <2>1, <2>2
<1>6. Good(pes) /\ Good(pat) /\ Good(cat) /\ Good(pmt)
  BY <1>2 DEF Sections
<1>7. Good(ts.report)
  BY DEF Decoded, EndsWith
<1>8. /\ SetPrintHeaderInfo(ts).report =
             ts.report \o first \o field \o pes \o pat \o cat \o pmt
      /\ SetPrintHeaderInfo(ts).live = ts.live
      /\ SetPrintHeaderInfo(ts).private_flag = ts.private_flag
  BY DEF SetPrintHeaderInfo, Parsers, Sections
<1>9. \A a, b : Good(a) /\ Good(b) => Good(a \o b)
  BY JoinedEnd
<1> HIDE DEF Good, first, field, pes, pat, cat, pmt
<1>10. Good(ts.report \o first \o field \o pes \o pat \o cat \o pmt)
  BY <1>4, <1>5, <1>6, <1>7, <1>9
<1> QED BY <1>8, <1>10 DEF Good

\* Between the reset and the analysis the parser is clean, then it has decoded
\* the packet in the buffer, and the report ends with that packet.
ParserInv ==
    /\ pc \in {"read", "analyse", "prompt", "switch", "find", "check", "quit"} =>
           Clean(Parser)
    /\ pc \in {"format", "print", "reset"} => Freeable(Parser)
    /\ pc = "format" => Decoded(Parser, analyzer.packet_data_)
    /\ pc = "print" => EndsWith(Parser.report, analyzer.hex_data_buffer_)
    /\ pc \in {"reset", "prompt"} => EndsWith(screen.report, screen.hex)

\* Every step of the loop keeps ParserInv.
LEMMA ParserStep == PlaceInv /\ ParserInv /\ [Next]_vars => ParserInv'
<1> SUFFICES ASSUME PlaceInv, ParserInv, [Next]_vars PROVE ParserInv'
  OBVIOUS
<1> USE DEF Constructing, Parser
<1>1. pc # "construct" => /\ analyzer \in Analyzers /\ analyzer.file = file
                          /\ analyzer.file \in Files
                          /\ analyzer.ts_packet_ \in Parsers(Buffers)
                          /\ analyzer.packet_data_ \in Buffers
  BY DEF PlaceInv, TypeOK, Analyzers
<1>2. CASE Construct
  <2>1. pc' = "read" /\ file \in Files /\ analyzer' \in Constructed(file)
    BY <1>2 DEF Construct, Call, PlaceInv
  <2> QED BY <2>1, ConstructedClean DEF ParserInv
<1>3. CASE ReadPacket
  <2>1. /\ pc = "read" /\ pc' = "analyse" /\ analyzer' = GetPacketData(analyzer)
    BY <1>3 DEF ReadPacket, Call
  <2>2. analyzer'.ts_packet_ = analyzer.ts_packet_
    BY <1>1, <2>1 DEF GetPacketData, Analyzers
  <2> QED BY <2>1, <2>2 DEF ParserInv
<1>4. CASE Analyse
  <2>1. /\ pc = "analyse" /\ pc' = "format"
        /\ \E c \in ContentsOf(file, analyzer.packet_data_) :
               analyzer' = TSPacketDataAnalysis(analyzer, c)
    BY <1>4 DEF Analyse, Call
  <2>2. PICK c \in Content : analyzer' = TSPacketDataAnalysis(analyzer, c)
    BY <1>1, <2>1, ContentsType
  <2>3. /\ analyzer'.ts_packet_ = GetHeaderInfo(analyzer.ts_packet_, analyzer.packet_data_, c)
        /\ analyzer'.packet_data_ = analyzer.packet_data_
    BY <1>1, <2>1, <2>2 DEF TSPacketDataAnalysis, Analyzers
  <2> QED BY <1>1, <2>1, <2>3, CleanDecodes DEF ParserInv
<1>5. CASE Format
  <2>1. pc = "format" /\ pc' = "print" /\ analyzer' = SetPrintInfo(analyzer)
    BY <1>5 DEF Format, Call
  <2>2. /\ analyzer'.ts_packet_ = SetPrintHeaderInfo(analyzer.ts_packet_)
        /\ analyzer'.hex_data_buffer_ = analyzer.packet_data_
    BY <1>1, <2>1 DEF SetPrintInfo, SetPrintHexData, Analyzers
  <2> QED BY <1>1, <2>1, <2>2, FormatEnds DEF ParserInv, Freeable
<1>6. CASE PrintInfo
  BY <1>6 DEF PrintInfo, Call, ParserInv
<1>7. CASE ResetStep
  <2>1. /\ pc = "reset" /\ pc' = "prompt" /\ UNCHANGED screen
        /\ analyzer' = ResetAnalyzer(analyzer)
    BY <1>7 DEF ResetStep, Call
  <2>2. analyzer'.ts_packet_ = Reset(analyzer.ts_packet_)
    BY <1>1, <2>1 DEF ResetAnalyzer, Analyzers
  <2> QED BY <2>1, <2>2, ResetCleans DEF ParserInv
<1>8. CASE Prompt \/ ReadNumber
  BY <1>8 DEF Prompt, ReadNumber, ParserInv
<1>9. CASE Previous \/ Forward \/ Ignore \/ StartCheck \/ CheckNext
  <2>1. /\ pc \in {"switch", "check"} /\ pc' \in {"read", "check"}
        /\ analyzer' \in {analyzer, GetPreviousPacketData(analyzer),
                          GetNextPacketData(analyzer),
                          [analyzer EXCEPT !.current_packet_ = 0]}
    BY <1>9 DEF Previous, Forward, Ignore, StartCheck, CheckNext, Case, Call
  <2>2. analyzer'.ts_packet_ = analyzer.ts_packet_
    BY <1>1, <2>1 DEF GetPreviousPacketData, GetNextPacketData, Analyzers
  <2> QED BY <2>1, <2>2 DEF ParserInv
<1>10. CASE Find
  <2>1. /\ pc = "find" /\ pc' = "read"
        /\ analyzer' \in {analyzer, FindPakcetData(analyzer, temp - 1)}
    BY <1>10 DEF Find, MoveTo
  <2>2. analyzer'.ts_packet_ = analyzer.ts_packet_
    BY <1>1, <2>1 DEF FindPakcetData, GetPacketData, Analyzers
  <2> QED BY <2>1, <2>2 DEF ParserInv
<1>11. CASE Quit \/ EndCheck
  <2>1. /\ pc \in {"switch", "check"} /\ pc' = "quit"
        /\ analyzer' = CloseFile(ResetAnalyzer(analyzer))
    BY <1>11 DEF Quit, EndCheck, Case, Call
  <2>2. analyzer'.ts_packet_ = Reset(analyzer.ts_packet_)
    BY <1>1, <2>1 DEF CloseFile, ResetAnalyzer, Analyzers
  <2> QED BY <2>1, <2>2, ResetCleans DEF ParserInv
<1>12. CASE UNCHANGED vars
  BY <1>12 DEF vars, ParserInv
<1> QED BY <1>2, <1>3, <1>4, <1>5, <1>6, <1>7, <1>8, <1>9, <1>10, <1>11, <1>12
        DEF Next, Step

\* ParserInv holds in every state of the loop.
LEMMA ParserInvariance == Spec => []ParserInv
<1>1. Init => ParserInv
  BY DEF Init, ParserInv
<1> QED BY <1>1, ParserStep, PlaceInvariance, PTL DEF Spec

\* However many packets were shown before, of each part that a report has the
\* last entry is about the packet on the screen.
THEOREM ReportEnds == Spec => []ReportEndsWithPacket
<1>1. ParserInv => ReportEndsWithPacket
  BY DEF ParserInv, ReportEndsWithPacket, EndsWith
<1> QED BY <1>1, ParserInvariance, PTL

\* There is private data only while its packet is shown, and then the flag that
\* frees it is set: no sequence of packets and keys loses a block of it.
THEOREM PrivateFreed == Spec => []PrivateDataFreed
<1>1. TypeOK /\ ParserInv => PrivateDataFreed
  BY DEF TypeOK, ParserInv, PrivateDataFreed, Clean, Freeable, Parser, Constructing
<1> QED BY <1>1, TypeCorrect, ParserInvariance, PTL

-----------------------------------------------------------------------------
(* The screen.                                                             *)

\* What stands behind the bytes of a short packet, and the page it makes.
RestsOf(f) == IF Size[f] < PACKET_SIZE THEN {Blank, Garbage} ELSE {Blank}
PageWith(f, p, rest) ==
    [i \in Positions |-> IF Packet(p)[i] < Size[f] THEN Packet(p)[i] ELSE rest]

\* Where the packet has no bytes the buffer holds rest.
IsBehind(pa, rest) == \A i \in Positions :
    ~(Packet(pa.current_packet_)[i] < Size[pa.file]) => pa.packet_data_[i] = rest

\* A packet within reach of fseek, read into a buffer that holds rest where the
\* packet has no bytes, is a page of the packet.
LEMMA ReadsPage ==
    ASSUME NEW pa \in Analyzers, pa.current_packet_ >= 0, NEW rest, IsBehind(pa, rest),
           pa.current_packet_ * PACKET_SIZE <= LONG_MAX
    PROVE  /\ GetPacketData(pa).packet_data_
                  = PageWith(pa.file, pa.current_packet_, rest)
           /\ IsBehind(GetPacketData(pa), rest)
<1> DEFINE from   == pa.current_packet_ * PACKET_SIZE
           size   == Size[pa.file]
           target == ToLong(from)
           start  == IF target >= 0 THEN target ELSE pa.offset
           count  == Available(pa.file, start)
<1>1. /\ PACKET_SIZE \in Nat \ {0} /\ size \in Nat /\ pa.current_packet_ \in Nat
      /\ from \in 0 .. LONG_MAX
  BY AnalyzerAssumption DEF Analyzers
<1>2. start = from
  <2>1. target = from
    BY <1>1, ToLongFits
  <2> QED BY <1>1, <2>1
<1>3. GetPacketData(pa).packet_data_
         = [i \in Positions |-> IF i < count THEN start + i ELSE pa.packet_data_[i]]
  BY DEF GetPacketData, Analyzers
<1>4. \A i \in Positions : i \in Nat /\ i < PACKET_SIZE
  BY <1>1 DEF Positions
<1>5. count = IF from >= size THEN 0
              ELSE IF size - from < PACKET_SIZE THEN size - from ELSE PACKET_SIZE
  BY <1>2 DEF Available
<1>6. \A i \in Positions : Packet(pa.current_packet_)[i] = from + i
  BY DEF Packet
<1> HIDE DEF from, size, start, count
<1>7. \A i \in Positions : i < count <=> from + i < size
  BY <1>1, <1>4, <1>5
<1>8. GetPacketData(pa).packet_data_ = PageWith(pa.file, pa.current_packet_, rest)
  BY <1>2, <1>3, <1>6, <1>7 DEF PageWith, IsBehind, size
<1>9. /\ GetPacketData(pa).current_packet_ = pa.current_packet_
      /\ GetPacketData(pa).file = pa.file
  BY GetPacketDataType
<1> QED BY <1>8, <1>9 DEF PageWith, IsBehind

\* The buffer the constructor leaves behind is no page of packet 0 yet, but has
\* one kind of byte behind it.
LEMMA ConstructedRest ==
    ASSUME NEW f \in Files, NEW pa \in Constructed(f),
           PACKET_SIZE <= LONG_MAX \/ Size[f] >= PACKET_SIZE
    PROVE  \E rest \in RestsOf(f) : IsBehind(pa, rest)
<1> DEFINE opened == [Opened(f) EXCEPT !.current_packet_ = 1]
           read   == GetPacketData(opened)
<1>1. opened \in Analyzers /\ opened.file = f /\ opened.current_packet_ = 1
      /\ opened.packet_data_ = [i \in Positions |-> Garbage]
  <2>1. Opened(f) \in Analyzers /\ Opened(f).file = f
    BY OpenedType
  <2>2. Opened(f).packet_data_ = [i \in Positions |-> Garbage]
    BY DEF Opened
  <2>3. \A pb \in Analyzers :
           LET pc1 == [pb EXCEPT !.current_packet_ = 1]
           IN  /\ pc1 \in Analyzers /\ pc1.file = pb.file /\ pc1.current_packet_ = 1
               /\ pc1.packet_data_ = pb.packet_data_
    BY DEF Analyzers
  <2> QED BY <2>1, <2>2, <2>3
<1>2. pa.current_packet_ = 0 /\ pa.file = f
  BY ConstructedType, ConstructedAtFirst
<1>3. \A i \in Positions : i \in Nat /\ i < PACKET_SIZE /\ Packet(0)[i] = i
  <2>1. \A i \in Positions : i \in Nat /\ i < PACKET_SIZE
    BY AnalyzerAssumption DEF Positions
  <2>2. \A i \in Positions : 0 * PACKET_SIZE + i = i
    BY <2>1, AnalyzerAssumption
  <2> QED BY <2>1, <2>2 DEF Packet
<1>4. Size[f] \in Nat /\ PACKET_SIZE \in Nat
  BY AnalyzerAssumption
<1>5. CASE Size[f] >= PACKET_SIZE
  <2>1. \A i \in Positions : i < Size[f]
    BY <1>3, <1>4, <1>5
  <2> QED BY <1>2, <1>3, <2>1 DEF IsBehind, RestsOf
<1>6. CASE Size[f] < PACKET_SIZE
  <2>1. ToLong(1 * PACKET_SIZE) = PACKET_SIZE
    <3>1. 1 * PACKET_SIZE = PACKET_SIZE /\ PACKET_SIZE \in 0 .. LONG_MAX
      BY <1>4, <1>6, AnalyzerAssumption
    <3> QED BY <1>4, <3>1, ToLongFits
  <2>2. Available(f, PACKET_SIZE) = 0
    BY <1>4, <1>6 DEF Available
  <2>3. read.packet_data_ = [i \in Positions |-> Garbage]
    <3>1. read.packet_data_ = [i \in Positions |->
              IF i < 0 THEN PACKET_SIZE + i ELSE opened.packet_data_[i]]
      BY <1>1, <1>4, <2>1, <2>2 DEF GetPacketData, Analyzers
    <3> QED BY <1>1, <1>3, <3>1
  <2>4. pa.packet_data_ = read.packet_data_
    <3>1. PICK c \in ContentsOf(f, FindPakcetData(Opened(f), 1).packet_data_) :
             pa = SetPidValueInit(Opened(f), c)
      BY DEF Constructed
    <3>2. read \in Analyzers /\ FindPakcetData(Opened(f), 1) = read
      BY <1>1, GetPacketDataType DEF FindPakcetData
    <3>3. c \in Content
      BY <3>1, ContentsType
    <3> HIDE DEF read
    <3>4. /\ TSPacketDataAnalysis(read, c) \in Analyzers
          /\ TSPacketDataAnalysis(read, c).packet_data_ = read.packet_data_
      BY <3>2, <3>3, AnalysisType
    <3>5. /\ ResetAnalyzer(TSPacketDataAnalysis(read, c)) \in Analyzers
          /\ ResetAnalyzer(TSPacketDataAnalysis(read, c)).packet_data_ = read.packet_data_
      BY <3>4, ResetAnalyzerType DEF ResetAnalyzer, Analyzers
    <3> QED BY <3>1, <3>2, <3>5 DEF SetPidValueInit, Analyzers
  <2> HIDE DEF read
  <2> QED BY <1>6, <2>3, <2>4 DEF IsBehind, RestsOf
<1> QED BY <1>4, <1>5, <1>6

\* The packet the loop stands on can be reached, and so can the one that the
\* constructor reads, if it has to.
InReach == /\ analyzer.current_packet_ * PACKET_SIZE <= LONG_MAX
           /\ PACKET_SIZE <= LONG_MAX \/ Size[file] >= PACKET_SIZE

\* The way of a packet from the buffer to the screen.
ScreenInv ==
    /\ pc # "construct" => analyzer.current_packet_ \in 0 .. TotalPackets(file)
    /\ pc = "read" /\ InReach =>
           \E rest \in RestsOf(file) : IsBehind(analyzer, rest)
    /\ pc \in {"analyse", "format"} /\ InReach =>
           analyzer.packet_data_ \in PagesOf(file, analyzer.current_packet_)
    /\ pc = "print" /\ InReach =>
           analyzer.hex_data_buffer_ \in PagesOf(file, analyzer.current_packet_)
    /\ pc \in {"reset", "prompt"} =>
           /\ screen.packet = analyzer.current_packet_
           /\ InReach => screen.hex \in PagesOf(file, analyzer.current_packet_)
    /\ pc \in {"print", "reset", "prompt", "switch", "find"} =>
           analyzer.packet_data_ = BlankBuffer

\* A page with a rest that a short packet may have is one of the pages.
LEMMA PagesHaveRests ==
    ASSUME NEW f, NEW p, NEW rest \in RestsOf(f)
    PROVE  PageWith(f, p, rest) \in PagesOf(f, p)
BY DEF RestsOf, PageWith, PagesOf

\* A blank buffer has blanks behind every packet.
LEMMA BlankIsRest ==
    ASSUME NEW pa, pa.packet_data_ = BlankBuffer
    PROVE  IsBehind(pa, Blank) /\ \A f : Blank \in RestsOf(f)
BY DEF IsBehind, RestsOf, BlankBuffer

\* Every step of the loop keeps ScreenInv.
LEMMA ScreenStep == PlaceInv /\ ScreenInv /\ [Next]_vars => ScreenInv'
<1> SUFFICES ASSUME PlaceInv, ScreenInv, [Next]_vars PROVE ScreenInv'
  OBVIOUS
<1>1. pc # "construct" => /\ analyzer \in Analyzers /\ analyzer.file = file
                          /\ analyzer.file \in Files
                          /\ analyzer.total_packet_ = TotalPackets(file)
                          /\ analyzer.total_packet_ \in Nat
                          /\ analyzer.current_packet_ \in 0 .. TotalPackets(file)
  BY DEF PlaceInv, TypeOK, Constructing, Total, ScreenInv, Analyzers
<1>2. CASE Construct
  <2>1. /\ pc' = "read" /\ file' = file /\ file \in Files
        /\ analyzer' \in Constructed(file)
    BY <1>2 DEF Construct, Call, PlaceInv
  <2>2. analyzer'.current_packet_ = 0 /\ analyzer'.file = file
    BY <2>1, ConstructedType, ConstructedAtFirst
  <2>3. InReach' => \E rest \in RestsOf(file) : IsBehind(analyzer', rest)
    BY <2>1, ConstructedRest DEF InReach
  <2>4. TotalPackets(file) \in Nat
    BY <2>1, AnalyzerAssumption DEF TotalPackets
  <2> QED BY <2>1, <2>2, <2>3, <2>4 DEF ScreenInv, IsBehind
<1>3. CASE ReadPacket
  <2>1. /\ pc = "read" /\ pc' = "analyse" /\ UNCHANGED file
        /\ analyzer' = GetPacketData(analyzer)
    BY <1>3 DEF ReadPacket, Call
  <2>2. analyzer'.current_packet_ = analyzer.current_packet_
    BY <1>1, <2>1, GetPacketDataType
  <2>3. InReach => analyzer'.packet_data_ \in PagesOf(file, analyzer.current_packet_)
    BY <1>1, <2>1, ReadsPage, PagesHaveRests DEF ScreenInv, InReach
  <2> QED BY <1>1, <2>1, <2>2, <2>3 DEF ScreenInv, InReach
<1>4. CASE Analyse
  <2>1. /\ pc = "analyse" /\ pc' = "format" /\ UNCHANGED file
        /\ \E c \in ContentsOf(file, analyzer.packet_data_) :
               analyzer' = TSPacketDataAnalysis(analyzer, c)
    BY <1>4 DEF Analyse, Call
  <2>2. /\ analyzer'.current_packet_ = analyzer.current_packet_
        /\ analyzer'.packet_data_ = analyzer.packet_data_
    BY <1>1, <2>1, ContentsType, AnalysisType
  <2> QED BY <1>1, <2>1, <2>2 DEF ScreenInv, InReach
<1>5. CASE Format
  <2>1. /\ pc = "format" /\ pc' = "print" /\ UNCHANGED file
        /\ analyzer' = SetPrintInfo(analyzer)
    BY <1>5 DEF Format, Call
  <2>2. /\ analyzer'.current_packet_ = analyzer.current_packet_
        /\ analyzer'.packet_data_ = BlankBuffer
    BY <1>1, <2>1, SetPrintInfoType
  <2>3. analyzer'.hex_data_buffer_ = analyzer.packet_data_
    BY <1>1, <2>1 DEF SetPrintInfo, SetPrintHexData, Analyzers
  <2> QED BY <1>1, <2>1, <2>2, <2>3 DEF ScreenInv, InReach
<1>6. CASE PrintInfo
  <2>1. /\ pc = "print" /\ pc' = "reset" /\ UNCHANGED <<file, analyzer>>
        /\ screen'.packet = analyzer.current_packet_
        /\ screen'.hex = analyzer.hex_data_buffer_
    BY <1>6 DEF PrintInfo, Call
  <2> QED BY <1>1, <2>1 DEF ScreenInv, InReach
<1>7. CASE ResetStep
  <2>1. /\ pc = "reset" /\ pc' = "prompt" /\ UNCHANGED <<file, screen>>
        /\ analyzer' = ResetAnalyzer(analyzer)
    BY <1>7 DEF ResetStep, Call
  <2>2. /\ analyzer'.current_packet_ = analyzer.current_packet_
        /\ analyzer'.packet_data_ = analyzer.packet_data_
    BY <1>1, <2>1 DEF ResetAnalyzer, Analyzers
  <2> QED BY <1>1, <2>1, <2>2 DEF ScreenInv, InReach
<1>8. CASE Prompt \/ ReadNumber
  BY <1>8 DEF Prompt, ReadNumber, ScreenInv
<1>9. CASE Previous \/ Forward \/ Ignore
  <2>1. /\ pc = "switch" /\ pc' = "read" /\ UNCHANGED file
        /\ analyzer' \in {analyzer, GetPreviousPacketData(analyzer),
                          GetNextPacketData(analyzer)}
    BY <1>9 DEF Previous, Forward, Ignore, Case, Call
  <2>2. /\ analyzer'.current_packet_ \in 0 .. TotalPackets(file)
        /\ analyzer'.packet_data_ = BlankBuffer
    BY <1>1, <2>1 DEF GetPreviousPacketData, GetNextPacketData, Analyzers, ScreenInv
  <2> QED BY <2>1, <2>2, BlankIsRest DEF ScreenInv, IsBehind
<1>10. CASE Find
  <2>1. pc = "find" /\ pc' = "read" /\ UNCHANGED file /\ temp \in Int
    BY <1>10, ViewerAssumption DEF Find, MoveTo, PlaceInv, TypeOK
  <2>2. analyzer' = IF temp > 0 /\ temp <= analyzer.total_packet_
                    THEN FindPakcetData(analyzer, temp - 1) ELSE analyzer
    BY <1>10 DEF Find, MoveTo
  <2>3. CASE temp > 0 /\ temp <= analyzer.total_packet_
    <3> DEFINE moved == [analyzer EXCEPT !.current_packet_ = temp - 1]
    <3>1. temp - 1 \in Int /\ temp - 1 \in 0 .. TotalPackets(file)
      BY <1>1, <2>1, <2>3
    <3>2. /\ moved \in Analyzers /\ moved.current_packet_ = temp - 1
          /\ moved.file = file /\ moved.packet_data_ = BlankBuffer
      BY <1>1, <2>1, <3>1 DEF Analyzers, ScreenInv
    <3>3. analyzer' = GetPacketData(moved)
      BY <2>2, <2>3 DEF FindPakcetData
    <3> HIDE DEF moved
    <3>4. IsBehind(moved, Blank) /\ Blank \in RestsOf(file)
      BY <3>2, BlankIsRest
    <3>5. analyzer'.current_packet_ = temp - 1
      BY <3>2, <3>3, GetPacketDataType
    <3>6. InReach' => IsBehind(analyzer', Blank)
      BY <3>1, <3>2, <3>3, <3>4, <3>5, ReadsPage DEF InReach
    <3> QED BY <2>1, <3>1, <3>4, <3>5, <3>6 DEF ScreenInv, IsBehind
  <2>4. CASE ~(temp > 0 /\ temp <= analyzer.total_packet_)
    BY <2>1, <2>2, <2>4, BlankIsRest DEF ScreenInv, IsBehind
  <2> QED BY <2>3, <2>4
<1>11. CASE StartCheck \/ CheckNext \/ Quit \/ EndCheck
  <2>1. pc # "construct" /\ pc' \in {"check", "quit"} /\ UNCHANGED file
    BY <1>11 DEF StartCheck, CheckNext, Quit, EndCheck, Case, Call
  <2>2. analyzer' \in {[analyzer EXCEPT !.current_packet_ = 0],
                       GetNextPacketData(analyzer),
                       CloseFile(ResetAnalyzer(analyzer))}
    BY <1>11 DEF StartCheck, CheckNext, Quit, EndCheck, Case, Call
  <2>3. analyzer'.current_packet_ \in 0 .. TotalPackets(file)
    <3> DEFINE zeroed == [analyzer EXCEPT !.current_packet_ = 0]
    <3>1. GetNextPacketData(analyzer).current_packet_ \in 0 .. TotalPackets(file)
      BY <1>1, <2>1 DEF GetNextPacketData, Analyzers
    <3>2. CloseFile(ResetAnalyzer(analyzer)).current_packet_ = analyzer.current_packet_
      BY <1>1, <2>1 DEF CloseFile, ResetAnalyzer, Analyzers
    <3>3. zeroed.current_packet_ = 0
      BY <1>1, <2>1 DEF Analyzers
    <3>4. analyzer' \in {zeroed, GetNextPacketData(analyzer),
                         CloseFile(ResetAnalyzer(analyzer))}
      BY <2>2
    <3> HIDE DEF zeroed
    <3> QED BY <1>1, <2>1, <3>1, <3>2, <3>3, <3>4
  <2> QED BY <2>1, <2>3 DEF ScreenInv
<1>12. CASE UNCHANGED vars
  BY <1>12 DEF vars, ScreenInv, InReach, IsBehind
<1> QED BY <1>2, <1>3, <1>4, <1>5, <1>6, <1>7, <1>8, <1>9, <1>10, <1>11, <1>12
        DEF Next, Step

\* ScreenInv holds in every state of the loop.
LEMMA ScreenInvariance == Spec => []ScreenInv
<1>1. Init => ScreenInv
  BY DEF Init, ScreenInv
<1> QED BY <1>1, ScreenStep, PlaceInvariance, PTL DEF Spec

\* In a file with a whole packet, the screen shows the packet the prompt counts
\* and nothing of another one, as far as fseek reaches.
THEOREM ScreenCorrect == Spec => []ScreenShowsPacket
<1>1. PlaceInv /\ ScreenInv => ScreenShowsPacket
  <2> SUFFICES ASSUME PlaceInv, ScreenInv, pc = "prompt", Size[file] >= PACKET_SIZE,
                      analyzer.current_packet_ * PACKET_SIZE <= LONG_MAX
               PROVE  /\ screen.packet = analyzer.current_packet_
                      /\ screen.hex = PageWith(file, screen.packet, Blank)
    BY DEF ScreenShowsPacket, PageWith
  <2>1. /\ screen.packet = analyzer.current_packet_
        /\ screen.hex \in PagesOf(file, analyzer.current_packet_)
    BY DEF ScreenInv, InReach
  <2>2. ~(Size[file] < PACKET_SIZE)
    BY AnalyzerAssumption DEF PlaceInv
  <2> QED BY <2>1, <2>2 DEF PagesOf, PageWith
<1> QED BY <1>1, PlaceInvariance, ScreenInvariance, PTL

-----------------------------------------------------------------------------
(* The loop is a browser.                                                  *)

\* No offset of a packet wraps around.
SmallFiles == \A f \in Files : \A p \in 0 .. TotalPackets(f) :
                 /\ p * PACKET_SIZE <= LONG_MAX
                 /\ PACKET_SIZE <= LONG_MAX

\* Where the abstract loop is.
LEMMA Phases ==
    /\ pc \in {"construct", "read", "analyse", "format", "print"} => Phase = "turn"
    /\ pc \in {"reset", "prompt"} => Phase = "ask"
    /\ pc = "switch" => Phase = key
    /\ pc = "find" => Phase = "find"
    /\ pc = "check" => Phase = "check"
    /\ pc = "quit" => Phase = "left"
BY DEF Phase

\* Every step of the loop is one of the browser, or nothing the user can see.
LEMMA BrowserStep ==
    ASSUME SmallFiles
    PROVE  PlaceInv /\ PlaceInv' /\ ScreenInv /\ [Next]_vars
              => [Browser!Next]_(Browser!vars)
<1> SUFFICES ASSUME PlaceInv, PlaceInv', ScreenInv, [Next]_vars
             PROVE  [Browser!Next]_(Browser!vars)
  OBVIOUS
<1> USE DEF Constructing, Total
<1> DEFINE last == TotalPackets(file) - 1
<1>1. /\ file \in Files /\ LastPackets[file] = last /\ TotalPackets(file) \in Nat
      /\ AllPages[file] = [p \in 0 .. TotalPackets(file) |-> PagesOf(file, p)]
  BY AnalyzerAssumption DEF PlaceInv, LastPackets, AllPages, TotalPackets
<1>2. pc # "construct" => /\ analyzer \in Analyzers /\ analyzer.file = file
                          /\ At = analyzer.current_packet_
                          /\ At \in 0 .. TotalPackets(file)
                          /\ TotalPackets(file) > 0 => At \in 0 .. last
                          /\ analyzer.total_packet_ = TotalPackets(file)
  BY DEF PlaceInv, TypeOK, OnAPacket, ScreenInv, At
<1>3. pc # "construct" => At \in 0 .. last \/ (At = 0 /\ last = -1)
  BY <1>1, <1>2
<1>4. pc' # "construct" => At' = analyzer'.current_packet_
  BY DEF At
<1>5. UNCHANGED file
  BY DEF Next, Step, vars, Construct, ReadPacket, Analyse, Format, PrintInfo,
         ResetStep, Previous, Forward, Ignore, Quit, StartCheck, CheckNext,
         EndCheck, Prompt, ReadNumber, Find, MoveTo, Case, Call
<1> HIDE DEF last
<1>6. CASE Construct
  <2>1. pc = "construct" /\ pc' = "read" /\ UNCHANGED <<Page, temp>> /\ At = 0
        /\ analyzer' \in Constructed(file)
    BY <1>6 DEF Construct, Call, Page, At
  <2>2. At' = 0
    BY <1>1, <1>4, <2>1, ConstructedAtFirst
  <2>3. Phase = "turn" /\ Phase' = "turn"
    BY <2>1 DEF Phase
  <2> QED BY <1>5, <2>1, <2>2, <2>3 DEF Browser!vars
<1>7. CASE ReadPacket \/ Analyse \/ Format \/ ResetStep
  <2>1. /\ pc # "construct" /\ pc' # "construct" /\ UNCHANGED <<Page, temp>>
    BY <1>7 DEF ReadPacket, Analyse, Format, ResetStep, Call, Page
  <2>2. UNCHANGED Phase
    BY <1>7 DEF ReadPacket, Analyse, Format, ResetStep, Call, Phase
  <2>3. analyzer'.current_packet_ = analyzer.current_packet_
    <3>1. CASE Analyse
      <4>1. PICK c \in ContentsOf(file, analyzer.packet_data_) :
                analyzer' = TSPacketDataAnalysis(analyzer, c)
        BY <3>1 DEF Analyse, Call
      <4>2. c \in Content
        BY <1>1, <4>1, ContentsType
      <4> QED BY <1>2, <2>1, <4>1, <4>2, AnalysisType
    <3>2. CASE ~Analyse
      <4>1. analyzer' \in {GetPacketData(analyzer), SetPrintInfo(analyzer),
                           ResetAnalyzer(analyzer)}
        BY <1>7, <3>2 DEF ReadPacket, Format, ResetStep, Call
      <4> QED BY <1>2, <2>1, <4>1, GetPacketDataType, SetPrintInfoType, ResetAnalyzerType
    <3> QED BY <3>1, <3>2
  <2> QED BY <1>2, <1>4, <1>5, <2>1, <2>2, <2>3 DEF Browser!vars
<1>8. CASE PrintInfo
  <2>1. /\ pc = "print" /\ pc' = "reset" /\ analyzer' = analyzer /\ temp' = temp
        /\ Page' = analyzer.hex_data_buffer_
    BY <1>8 DEF PrintInfo, Call, Page
  <2>2. InReach
    BY <1>1, <1>2, <2>1 DEF SmallFiles, InReach
  <2>3. Page' \in AllPages[file][At]
    BY <1>1, <1>2, <2>1, <2>2 DEF ScreenInv
  <2>4. Phase = "turn" /\ Phase' = "ask" /\ At' = At
    BY <1>2, <1>4, <2>1 DEF Phase
  <2>5. Browser!Show
    BY <1>5, <2>1, <2>3, <2>4 DEF Browser!Show
  <2> QED BY <2>5 DEF Browser!Next, Browser!Program
<1>9. CASE Prompt
  <2>1. /\ pc = "prompt" /\ pc' = "switch" /\ analyzer' = analyzer
        /\ UNCHANGED <<Page, temp>>
    BY <1>9 DEF Prompt, Page
  <2>2. key' \in Keys
    BY <1>9 DEF Prompt, Unread, PlaceInv, TypeOK
  <2>3. Phase = "ask" /\ Phase' = key' /\ At' = At
    BY <1>2, <1>4, <2>1 DEF Phase
  <2>4. Browser!Ask
    BY <1>5, <2>1, <2>2, <2>3 DEF Browser!Ask
  <2> QED BY <2>4 DEF Browser!Next
<1>10. CASE Previous
  <2>1. /\ pc = "switch" /\ key = "1" /\ pc' = "read" /\ UNCHANGED Page /\ temp' = 0
        /\ analyzer' = GetPreviousPacketData(analyzer)
    BY <1>10 DEF Previous, Case, Call, Page, PlaceInv, TypeOK
  <2>2. At' = IF At > 0 THEN At - 1 ELSE At
    BY <1>2, <1>4, <2>1 DEF GetPreviousPacketData, Analyzers
  <2>3. Phase = "1" /\ Phase' = "turn"
    BY <2>1 DEF Phase
  <2>4. At' = IF At - 1 \in 0 .. last THEN At - 1 ELSE At
    BY <1>1, <1>2, <1>3, <2>1, <2>2 DEF last
  <2>5. Browser!Previous
    BY <1>1, <1>5, <2>1, <2>3, <2>4 DEF Browser!Previous, Browser!Obey, Browser!GoTo
  <2> QED BY <2>5 DEF Browser!Next, Browser!Program
<1>11. CASE Forward
  <2>1. /\ pc = "switch" /\ key = "2" /\ pc' = "read" /\ UNCHANGED Page /\ temp' = 0
        /\ analyzer' = GetNextPacketData(analyzer)
    BY <1>11 DEF Forward, Case, Call, Page, PlaceInv, TypeOK
  <2>2. At' = IF At + 1 < TotalPackets(file) THEN At + 1 ELSE At
    BY <1>2, <1>4, <2>1 DEF GetNextPacketData, Analyzers
  <2>3. Phase = "2" /\ Phase' = "turn"
    BY <2>1 DEF Phase
  <2>4. At' = IF At + 1 \in 0 .. last THEN At + 1 ELSE At
    BY <1>1, <1>2, <1>3, <2>1, <2>2 DEF last
  <2>5. Browser!Forward
    BY <1>1, <1>5, <2>1, <2>3, <2>4 DEF Browser!Forward, Browser!Obey, Browser!GoTo
  <2> QED BY <2>5 DEF Browser!Next, Browser!Program
<1>12. CASE Ignore
  <2>1. /\ pc = "switch" /\ key = "other" /\ pc' = "read" /\ UNCHANGED Page /\ temp' = 0
        /\ analyzer' = analyzer
    BY <1>12 DEF Ignore, Case, Call, Page, PlaceInv, TypeOK
  <2>2. At' = At /\ Phase = "other" /\ Phase' = "turn"
    BY <1>2, <1>4, <2>1 DEF Phase
  <2>3. Browser!Obey("other", At)
    BY <1>5, <2>1, <2>2 DEF Browser!Obey, Browser!GoTo
  <2>4. Browser!Nothing
    BY <2>3 DEF Browser!Nothing, Keys
  <2> QED BY <2>4 DEF Browser!Next, Browser!Program
<1>13. CASE Find
  <2>1. /\ pc = "find" /\ pc' = "read" /\ UNCHANGED Page /\ temp' = 0
        /\ analyzer' = IF temp > 0 /\ temp <= analyzer.total_packet_
                       THEN FindPakcetData(analyzer, temp - 1) ELSE analyzer
    BY <1>13 DEF Find, MoveTo, Page
  <2>2. temp \in Int
    BY <2>1, ViewerAssumption DEF PlaceInv, TypeOK
  <2>3. Phase = "find" /\ Phase' = "turn"
    BY <2>1 DEF Phase
  <2>4. At' = IF temp - 1 \in 0 .. last THEN temp - 1 ELSE At
    <3>1. CASE temp > 0 /\ temp <= analyzer.total_packet_
      <4>1. temp - 1 \in Int /\ temp - 1 \in 0 .. last
        BY <1>1, <1>2, <2>1, <2>2, <3>1 DEF last
      <4>2. At' = temp - 1
        BY <1>2, <1>4, <2>1, <3>1, <4>1, FindPakcetDataType
      <4> QED BY <4>1, <4>2
    <3>2. CASE ~(temp > 0 /\ temp <= analyzer.total_packet_)
      <4>1. At' = At
        BY <1>2, <1>4, <2>1, <3>2
      <4>2. ~(temp - 1 \in 0 .. last)
        BY <1>1, <1>2, <2>1, <2>2, <3>2 DEF last
      <4> QED BY <4>1, <4>2
    <3> QED BY <3>1, <3>2
  <2>5. Browser!Find
    BY <1>1, <1>5, <2>1, <2>3, <2>4 DEF Browser!Find, Browser!Obey, Browser!GoTo
  <2> QED BY <2>5 DEF Browser!Next, Browser!Program
<1>18. CASE ReadNumber
  <2>1. /\ pc = "switch" /\ key = "f" /\ pc' = "find" /\ analyzer' = analyzer
        /\ UNCHANGED Page /\ temp' \in Numbers
    BY <1>18 DEF ReadNumber, Page
  <2>2. Phase = "f" /\ Phase' = "find" /\ At' = At
    BY <1>2, <1>4, <2>1 DEF Phase
  <2>3. Browser!Type
    BY <1>5, <2>1, <2>2 DEF Browser!Type
  <2> QED BY <2>3 DEF Browser!Next
<1>14. CASE StartCheck
  <2>1. /\ pc = "switch" /\ key = "c" /\ pc' = "check" /\ UNCHANGED <<Page, temp>>
        /\ analyzer' = [analyzer EXCEPT !.current_packet_ = 0]
    BY <1>14 DEF StartCheck, Case, Call, Page
  <2>2. At' = 0 /\ Phase = "c" /\ Phase' = "check"
    BY <1>2, <1>4, <2>1 DEF Phase, Analyzers
  <2>3. Browser!StartCheck
    BY <1>5, <2>1, <2>2 DEF Browser!StartCheck
  <2> QED BY <2>3 DEF Browser!Next, Browser!Program
<1>15. CASE CheckNext
  <2>1. /\ pc = "check" /\ pc' = "check" /\ UNCHANGED <<Page, temp>>
        /\ analyzer' = GetNextPacketData(analyzer)
    BY <1>15 DEF CheckNext, Page
  <2>2. At' = IF At + 1 < TotalPackets(file) THEN At + 1 ELSE At
    BY <1>2, <1>4, <2>1 DEF GetNextPacketData, Analyzers
  <2>3. Phase = "check" /\ Phase' = "check"
    BY <2>1 DEF Phase
  <2>4. CASE At + 1 < TotalPackets(file)
    <3>1. At < last /\ At' = At + 1
      BY <1>1, <1>2, <2>1, <2>2, <2>4 DEF last
    <3>2. Browser!CheckNext
      BY <1>1, <1>5, <2>1, <2>3, <3>1 DEF Browser!CheckNext
    <3> QED BY <3>2 DEF Browser!Next, Browser!Program
  <2>5. CASE ~(At + 1 < TotalPackets(file))
    BY <1>5, <2>1, <2>2, <2>3, <2>5 DEF Browser!vars
  <2> QED BY <2>4, <2>5
<1>16. CASE Quit \/ EndCheck
  <2>1. /\ pc' = "quit" /\ UNCHANGED <<Page, temp>>
        /\ analyzer' = CloseFile(ResetAnalyzer(analyzer))
        /\ \/ pc = "switch" /\ key = "q"
           \/ pc = "check" /\ analyzer.current_packet_ = analyzer.total_packet_ - 1
    BY <1>16 DEF Quit, EndCheck, Case, Call, Page
  <2>2. pc # "construct" /\ analyzer'.current_packet_ = analyzer.current_packet_
    BY <1>2, <2>1 DEF CloseFile, ResetAnalyzer, Analyzers
  <2>3. At' = At /\ Phase' = "left"
    BY <1>2, <1>4, <2>1, <2>2 DEF Phase
  <2>4. Phase = "q" \/ (Phase = "check" /\ At = LastPackets[file])
    BY <1>1, <1>2, <2>1, <2>2 DEF Phase, last
  <2>5. Browser!Leave
    BY <1>5, <2>1, <2>3, <2>4 DEF Browser!Leave
  <2> QED BY <2>5 DEF Browser!Next, Browser!Program
<1>17. CASE UNCHANGED vars
  BY <1>17 DEF vars, Browser!vars, At, Page, Phase
<1> QED BY <1>6, <1>7, <1>8, <1>9, <1>10, <1>11, <1>12, <1>13, <1>14, <1>15,
           <1>16, <1>17, <1>18 DEF Next, Step

\* The loop implements the browser, liveness aside: it starts as a browser, and
\* each step of it does what the command of the user says or nothing visible.
THEOREM StepsOfBrowser ==
    ASSUME SmallFiles
    PROVE  Spec => Browser!Init /\ [][Browser!Next]_(Browser!vars)
<1>1. Init => Browser!Init
  BY DEF Init, Browser!Init, At, Page, Phase, Constructing
<1> QED BY <1>1, BrowserStep, PlaceInvariance, ScreenInvariance, PTL DEF Spec
=============================================================================
