--------------------------- MODULE RequestWorker ---------------------------
(***************************************************************************)
(* ServerSocket::ReadAndWrite: what one worker thread does with its        *)
(* connection, from recv to send, one call after the other.                *)
(*                                                                         *)
(* A request is the file name and the packet number found in the bytes     *)
(* recv returned.  The number is missing (NoNumber) when the bytes hold no *)
(* second token: they are cut short, or recv returned nothing.             *)
(***************************************************************************)
EXTENDS PacketAnalyzer

CONSTANTS Names,     \* the file names clients ask for
          Numbers,   \* the packet numbers clients ask for
          NoNumber,  \* no second token in the request
          NoAnalyzer \* the analyser before it is constructed

ASSUME WorkerAssumption == /\ Files \subseteq Names
                           /\ Numbers \subseteq Int
                           /\ NoNumber \notin Int

VARIABLES pc,        \* the call that comes next
          request,   \* get_file_name and get_packet_num
          analyzer,  \* packet_analyzer
          reply,     \* what send put on the connection
          lost       \* the blocks no pointer reaches when the thread has ended

vars == <<pc, request, analyzer, reply, lost>>

Requests == [file : Names, num : Numbers \cup {NoNumber}]
NoReply  == [report |-> <<>>, hex |-> <<>>]

\* Blocks: those the parts held, and those that had lost their owner before.
NoBlocks == [held |-> {}, dropped |-> 0]

\* The process ends: an access violation, or exit(1) in FileOpen.
Die == pc' = "dead"

Init == /\ pc = "recv"
        /\ request \in Requests
        /\ analyzer = NoAnalyzer
        /\ reply = NoReply
        /\ lost = NoBlocks

\* Mutant: the second token is not looked for.
RecvUnchecked == /\ pc = "recv"
                 /\ pc' = "construct"
                 /\ UNCHANGED <<request, analyzer, reply, lost>>

\* strtok finds the name and the number; without a number atoi is given NULL.
Recv == /\ pc = "recv"
        /\ IF request.num = NoNumber THEN Die ELSE pc' = "construct"
        /\ UNCHANGED <<request, analyzer, reply, lost>>

Construct == /\ pc = "construct"
             /\ request.file \in Files
             /\ analyzer' \in Constructed(request.file)
             /\ pc' = "find"
             /\ UNCHANGED <<request, reply, lost>>

OpenFails == /\ pc = "construct"
             /\ request.file \notin Files
             /\ Die
             /\ UNCHANGED <<request, analyzer, reply, lost>>

Call(here, after, result) == /\ pc = here
                             /\ pc' = after
                             /\ analyzer' \in result
                             /\ UNCHANGED <<request, reply, lost>>

Find    == Call("find", "read", {FindPakcetData(analyzer, request.num)})
Read    == Call("read", "analyse", {GetPacketData(analyzer)})
Analyse == Call("analyse", "format",
                {TSPacketDataAnalysis(analyzer, c) :
                    c \in ContentsOf(analyzer.file, analyzer.packet_data_)})
Format  == Call("format", "send", {SetPrintInfo(analyzer)})

\* The thread ends without closing the file or the connection.  The analyser is
\* destroyed with it: the destructors free nothing, so the blocks its parts
\* still hold are lost.
Send == /\ pc = "send"
        /\ reply' = analyzer.send_buffer_
        /\ lost' = [held    |-> analyzer.ts_packet_.live,
                    dropped |-> analyzer.ts_packet_.leaked]
        /\ analyzer' = NoAnalyzer
        /\ pc' = "done"
        /\ UNCHANGED request

Next == \/ Recv
        \/ Construct
        \/ OpenFails
        \/ Find
        \/ Read
        \/ Analyse
        \/ Format
        \/ Send

Spec == Init /\ [][Next]_vars /\ WF_vars(Next)

-----------------------------------------------------------------------------
(* Properties.                                                             *)

TypeOK == /\ pc \in {"recv", "construct", "find", "read", "analyse",
                     "format", "send", "done", "dead"}
          /\ request \in Requests
          /\ pc \notin {"recv", "dead"} => request.num \in Numbers
          /\ pc \in {"find", "read", "analyse", "format", "send"}
                => analyzer \in Analyzers /\ analyzer.file = request.file
          /\ lost \in [held : SUBSET Owners, dropped : Nat]

\* The packet the request names is in the file in full, and fseek reaches it.
Reachable == /\ request.file \in Files
             /\ request.num \in Int
             /\ InFile(request.file, request.num)
             /\ request.num * PACKET_SIZE <= LONG_MAX

\* The dump a client receives shows the bytes of the packet it asked for, for
\* every packet that is complete and within reach of fseek: the packet the
\* constructor had left in the buffer is overwritten by FindPakcetData.
ReplyShowsPacket ==
    pc = "done" /\ Reachable => reply.hex = Packet(request.num)

\* A client never receives bytes of the buffer as it was before the first read,
\* unless the file holds less than two packets.
NoGarbageSent ==
    pc = "done" /\ Size[request.file] >= 2 * PACKET_SIZE
        => \A i \in Positions : reply.hex[i] # Garbage

\* Report and dump of one reply are about the same bytes: nothing the parser
\* kept from the packet analysed during construction is reported, and no part
\* is reported twice.
ReportMatchesDump ==
    pc = "done" =>
        /\ reply.report[1].part = "header"
        /\ \A i \in DOMAIN reply.report : reply.report[i].from = reply.hex
        /\ \A i, j \in DOMAIN reply.report :
               reply.report[i].part = reply.report[j].part => i = j

\* A request costs the process the blocks of the packet it reports and no other:
\* Reset at the end of the construction has freed those of packet 1, and no
\* block was dropped on the way.  (These it does cost, at every request: nothing
\* is freed when the analyser is destroyed.)
LosesOwnBlocksOnly ==
    pc = "done" =>
        /\ lost.dropped = 0
        /\ \A owner \in lost.held : \E i \in DOMAIN reply.report :
               reply.report[i].part =
                   IF owner = "private" THEN "adaptation" ELSE owner

\* PacketAnalyzer.cpp:61 says that GetPacketData receives the data of one
\* packet and stores it.  A client that asks for a packet the file has, the
\* last one included, is shown bytes of this packet and of no other; where a
\* short last packet has no bytes, blanks.
ShowsOnlyThatPacket ==
    /\ pc = "done"
    /\ request.num \in 0 .. TotalPackets(request.file) - 1
    /\ request.num * PACKET_SIZE <= LONG_MAX
    => \A i \in Positions : reply.hex[i] \in {Packet(request.num)[i], Blank}

\* PacketAnalyzer.cpp:58 says that the file is moved on by that many packets.
\* Reading packet n of a file that holds it leaves the file right behind it.
SeeksToPacket ==
    pc = "analyse" /\ InFile(request.file, request.num)
        => analyzer.offset = (request.num + 1) * PACKET_SIZE
=============================================================================
