------------------------------- MODULE Viewer -------------------------------
(***************************************************************************)
(* The interactive loop of _tmain: show the current packet, ask for a key, *)
(* move.  (In this build StartServer, called before the loop, never        *)
(* returns; the loop is modelled as it is written.)                        *)
(***************************************************************************)
EXTENDS PacketAnalyzer

CONSTANTS Numbers,   \* what temp may hold, typed after 'f' or uninitialised
          MaxLeaked, \* bound: blocks lost before the user stops typing
          MaxText,   \* bound: sections in one parser's text, likewise
          NoKey,     \* key before the first prompt
          NoAnalyzer \* the analyser before it is constructed

ASSUME ViewerAssumption == Numbers \subseteq Int

VARIABLES pc,        \* the call that comes next
          file,      \* the file that is viewed
          analyzer,  \* packet_analyzer
          key,       \* the character read at the last prompt
          temp,      \* the number read after 'f'
          cinFailed, \* cin is in its failed state
          screen,    \* what PrintInfo printed last
          checked    \* the buffers CheckContinuityCounter was given

vars == <<pc, file, analyzer, key, temp, cinFailed, screen, checked>>

Keys == {"1", "2", "f", "c", "q", "other"}

NothingShown == [packet |-> 0, report |-> <<>>, hex |-> <<>>]

Init == /\ pc = "construct"
        /\ file \in Files
        /\ analyzer = NoAnalyzer
        /\ key = NoKey
        /\ temp = 0
        /\ cinFailed = FALSE
        /\ screen = NothingShown
        /\ checked = {}

\* One call on the analyser; result is the set of its outcomes.
Call(here, after, result) ==
    /\ pc = here
    /\ pc' = after
    /\ analyzer' \in result
    /\ UNCHANGED <<file, key, temp, cinFailed, checked>>

Construct == Call("construct", "read", Constructed(file)) /\ UNCHANGED screen
ReadPacket == Call("read", "analyse", {GetPacketData(analyzer)})
                 /\ UNCHANGED screen
Analyse == Call("analyse", "format",
                {TSPacketDataAnalysis(analyzer, c) :
                    c \in ContentsOf(file, analyzer.packet_data_)})
              /\ UNCHANGED screen
Format == Call("format", "print", {SetPrintInfo(analyzer)}) /\ UNCHANGED screen
PrintInfo == /\ Call("print", "reset", {analyzer})
             /\ screen' = [packet |-> analyzer.current_packet_,
                           report |-> analyzer.ts_packet_.report,
                           hex    |-> analyzer.hex_data_buffer_]
ResetStep == Call("reset", "prompt", {ResetAnalyzer(analyzer)})
                /\ UNCHANGED screen

WithinBounds == /\ analyzer.ts_packet_.leaked < MaxLeaked
                /\ \A s \in Sections : Len(analyzer.ts_packet_.text[s]) < MaxText

\* What key holds when nothing could be read into it: what it held before,
\* which is anything while nothing was ever read.
Unread == IF key = NoKey THEN Keys ELSE {key}

\* cin >> key: a key is read, or the input has ended and cin fails; once it has
\* failed it neither waits nor reads.
Prompt == /\ pc = "prompt"
          /\ WithinBounds
          /\ \/ ~cinFailed /\ key' \in Keys /\ UNCHANGED cinFailed
             \/ key' \in Unread /\ cinFailed' = TRUE
          /\ pc' = "switch"
          /\ UNCHANGED <<file, analyzer, temp, screen, checked>>

\* The cases of the switch.
Case(k, after, result) == /\ key = k
                          /\ Call("switch", after, result)
                          /\ UNCHANGED screen

Previous == Case("1", "read", {GetPreviousPacketData(analyzer)})
Forward  == Case("2", "read", {GetNextPacketData(analyzer)})
Ignore   == Case("other", "read", {analyzer})
Quit     == Case("q", "quit", {CloseFile(ResetAnalyzer(analyzer))})

\* cin >> temp: what is typed may be no number, which fails cin for good and
\* leaves temp as it was, uninitialised.
ReadNumber == /\ pc = "switch"
              /\ key = "f"
              /\ pc' = "find"
              /\ temp' \in Numbers
              /\ cinFailed' \in {cinFailed, TRUE}
              /\ UNCHANGED <<file, analyzer, key, screen, checked>>

\* The scope of temp ends with the case.
MoveTo(pa) == /\ pc = "find"
              /\ pc' = "read"
              /\ analyzer' = pa
              /\ temp' = 0
              /\ UNCHANGED <<file, key, cinFailed, screen, checked>>

\* Mutants: a number below 1 is accepted; the number is taken for an index.
FindNegative ==
    MoveTo(IF temp <= analyzer.total_packet_
           THEN FindPakcetData(analyzer, temp - 1) ELSE analyzer)
FindFromZero ==
    MoveTo(IF temp > 0 /\ temp < analyzer.total_packet_
           THEN FindPakcetData(analyzer, temp) ELSE analyzer)

Find == MoveTo(IF temp > 0 /\ temp <= analyzer.total_packet_
               THEN FindPakcetData(analyzer, temp - 1) ELSE analyzer)

\* CheckContinuityCounter, one pass of its loop at a time.  Its case falls
\* through to 'q'.
StartCheck == Case("c", "check", {[analyzer EXCEPT !.current_packet_ = 0]})

CheckNext ==
    /\ pc = "check"
    /\ analyzer.current_packet_ # analyzer.total_packet_ - 1
    /\ analyzer' = GetNextPacketData(analyzer)
    /\ checked' = checked \cup {analyzer.packet_data_}
    /\ UNCHANGED <<pc, file, key, temp, cinFailed, screen>>

EndCheck == /\ pc = "check"
            /\ analyzer.current_packet_ = analyzer.total_packet_ - 1
            /\ Call("check", "quit", {CloseFile(ResetAnalyzer(analyzer))})
            /\ UNCHANGED screen

\* The program's own steps, and those that wait for the user.
Step == \/ Construct \/ ReadPacket \/ Analyse \/ Format \/ PrintInfo \/ ResetStep
        \/ Previous \/ Forward \/ Find \/ Ignore \/ Quit
        \/ StartCheck \/ CheckNext \/ EndCheck

Next == Step \/ Prompt \/ ReadNumber

Spec == Init /\ [][Next]_vars /\ WF_vars(Step)

-----------------------------------------------------------------------------
(* Properties.                                                             *)

Constructing == pc = "construct"
Total        == TotalPackets(file)
Parser       == analyzer.ts_packet_

TypeOK ==
    /\ pc \in {"construct", "read", "analyse", "format", "print", "reset",
               "prompt", "switch", "find", "check", "quit"}
    /\ key \in Keys \cup {NoKey}
    /\ temp \in IF pc = "find" THEN Numbers ELSE {0}
    /\ cinFailed \in BOOLEAN
    /\ checked \subseteq Buffers
    /\ ~Constructing => /\ analyzer \in Analyzers /\ analyzer.file = file
                        /\ analyzer.current_packet_ \in Nat

\* Whatever is typed, the loop stands on a packet of the file: neither end is
\* passed by '1' and '2', and 'f' accepts no other number.
OnAPacket == ~Constructing /\ Total > 0 => analyzer.current_packet_ \in 0 .. Total - 1

\* The packet on the screen is the one the prompt counts, byte for byte; where
\* a short last packet ends, blanks follow and not bytes of another packet.
ScreenShowsPacket ==
    /\ pc = "prompt"
    /\ analyzer.current_packet_ * PACKET_SIZE <= LONG_MAX
    /\ Size[file] >= PACKET_SIZE
    => /\ screen.packet = analyzer.current_packet_
       /\ \A i \in Positions :
              screen.hex[i] = IF Packet(screen.packet)[i] < Size[file]
                              THEN Packet(screen.packet)[i] ELSE Blank

\* Every part of the report that was decoded from the packet on the screen is
\* the last of its kind in it.
ReportEndsWithPacket ==
    pc = "prompt" =>
        \A i \in DOMAIN screen.report :
            (\A j \in DOMAIN screen.report :
                 screen.report[j].part = screen.report[i].part => j <= i)
            => screen.report[i].from = screen.hex

\* Private data of an adaptation field is gone before the next packet is read,
\* and while there is any, the flag by which Reset frees it is set, whatever the
\* packets before had.
PrivateDataFreed == ~Constructing /\ "private" \in Parser.live =>
    pc \in {"format", "print", "reset"} /\ Parser.private_flag

\* The continuity check ends for every file that has a packet, and the
\* program with it.
CheckEnds == pc = "check" /\ Total > 0 ~> pc = "quit"

\* The page a packet is shown as: its bytes, then blanks.  The buffer of a file
\* without one whole packet holds at first what was never written.
PagesOf(f, p) ==
    {[i \in Positions |-> IF Packet(p)[i] < Size[f] THEN Packet(p)[i] ELSE rest] :
        rest \in IF Size[f] < PACKET_SIZE THEN {Blank, Garbage} ELSE {Blank}}

\* The loop as a browser: reading, analysing, formatting, resetting and the
\* parser are invisible to the user.
LastPackets == [f \in Files |-> TotalPackets(f) - 1]
AllPages    == [f \in Files |-> [p \in 0 .. TotalPackets(f) |-> PagesOf(f, p)]]
At          == IF Constructing THEN 0 ELSE analyzer.current_packet_
Page        == screen.hex
Phase       == CASE pc \in {"construct", "read", "analyse", "format", "print"} -> "turn"
                 [] pc \in {"reset", "prompt"} -> "ask"
                 [] pc = "switch" -> key
                 [] pc = "find"   -> "find"
                 [] pc = "check"  -> "check"
                 [] pc = "quit"   -> "left"

Browser == INSTANCE PacketBrowser WITH
    Last     <- LastPackets,
    Pages    <- AllPages,
    NoPage   <- NothingShown.hex,
    Commands <- Keys,
    at       <- At,
    number   <- temp,
    page     <- Page,
    phase    <- Phase

\* Every behaviour of the loop is one of the browser: each command moves to the
\* packet it names and to no other, f to the packet whose number was read,
\* whatever the order of the calls in between, and its page, byte for byte,
\* follows.
ImplementsBrowser == Browser!Spec

\* HexViewer.cpp:39: the values are reset after a packet was shown.
\* No report holds a part that was decoded from an earlier packet.
ReportFresh == pc = "prompt" =>
    \A i \in DOMAIN screen.report : screen.report[i].from = screen.hex

\* PacketAnalyzer.cpp:65 and 106: the check goes on to the data of the next
\* packet.  In a file that has packets, a buffer it examines holds the bytes of
\* one of them, as far as the file goes.
ChecksPackets ==
    Total > 0 =>
        \A data \in checked : \E p \in 0 .. Total - 1 : \A i \in Positions :
            Packet(p)[i] < Size[file] => data[i] = Packet(p)[i]
=============================================================================
