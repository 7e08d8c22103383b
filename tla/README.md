# HexViewer in TLA+

HexViewer reads an MPEG transport stream file, splits it into packets of 188
bytes, decodes the headers of one packet at a time and shows a report and a hex
dump of it.  It does so for clients that connect to a TCP port (`ServerSocket`)
and, in a loop of its own, for a user at the console (`_tmain`).  This directory
holds a TLA+ model of it, the TLC runs that check the model and the proofs TLAPS
checks.

    tlc -config MCServer.cfg MCServer.tla      one run; PROJECT.json lists all
    tlapm ContinuityCounterProofs.tla          the proofs of one module

## 1. Inventory

| Component | State | Operations | Talks to |
|---|---|---|---|
| `ServerSocket` (main thread) | `clientNumber`, `clientSocketTemp`, three arrays of 10, `hMutex` | constructor, `Binding`, `Listen`, `Accept` | Winsock; starts a worker per connection |
| worker thread (`ThreadFunction`, `ReadAndWrite`) | its socket, two buffers of 2048 bytes, a `PacketAnalyzer` of its own | recv, parse, construct, find, read, analyse, format, send | Winsock, `PacketAnalyzer` |
| `PacketAnalyzer` | open file, `current_packet_`, `total_packet_`, `packet_data_`, two text buffers | open, find, read, next, previous, analyse, format, dump, check, reset, close | C runtime, `TSPacket` |
| `TSPacket` | the cursor `pos_`, header and adaptation fields, `private_data_byte_`, `packet_info_buffer_`, four section parsers | `GetHeaderInfo`, `GetAdaptationField`, `SetPrintHeaderInfo`, `Reset` | `PESPacket`, `PATPacket`, `CCATPacket`, `PMTPacket` |
| continuity check (in `TSPacket`) | `cc_list_`, `cc_error_counter_` | `SetPidValueInit`, `CheckContinuityCounter` | `PMTPacket::stream_info_` |
| section parsers | fields, `is_exist_data_`, text, for PAT and PMT an allocated list | `SetHeaderInfo`, `SetPrint...Info`, `Init`, `Reset` | - |
| `_tmain` | a `PacketAnalyzer`, the last key, the state of `cin` | construct, server, show, prompt, '1' '2' 'f' 'c' 'q' | console, all of the above |
| `HTTPConnect` | - | `Connect` | never instantiated |

What is hard about it:

* **Threads.** The accept loop hands connections to workers and goes on; all of
  them live in one process that `exit(1)` in any of them ends.
* **Failure.** recv may return less than a request or nothing, its result is
  ignored; fopen, accept and `_beginthreadex` end the process when they fail;
  fseek and fread fail without being noticed.
* **Bounds.** Ten slots that are never given back, streams that are never
  closed, an `fseek` with a 32-bit offset, a dump line of 80 columns, a four-bit
  counter.
* **Order of calls.** What `Reset` frees and clears depends on flags that the
  formatting before it has cleared; each request analyses two packets with one
  parser.
* **A cursor by hand.** Some fifty optional fields are read at a cursor that each
  `if` moves on by a number, section lists are walked to an end that lengths in
  the packet give, and the values are put together by masks and shifts.

What makes each part correct, in one line each: the server hands every
connection to one worker, answers each client with what it asked for, and ends
only when something failed; a worker replies with the packet of the request; the
loop never leaves the file and shows the packet it counts; the parser reads every
field where it stands, stays inside packets and lists whose lengths add up, and
keeps nothing of one packet for the next; the continuity check reports losses and only
losses; the dump shows every byte and writes nowhere else.

`PROJECT.json` lists the hazards line by line with the properties aimed at them.

## 2. Modules

| Module | Models | Checked by | Proofs |
|---|---|---|---|
| `ContinuityCounter` | `TSPacket::SetPidValueInit`, `CheckContinuityCounter` and a stream | `cc_counter` | `ContinuityCounterProofs` |
| `TSPacket` | the parsers as one step per method: flags, texts, report, allocated blocks | through its users | `AnalyzerProofs` (lemmas) |
| `PacketParser` | `GetHeaderInfo` and the `SetHeaderInfo` of all parsers, read by read | `parser`, `parser_bits` | `PacketParserProofs` |
| `PacketLayout` | where the fields of a packet stand (the standard, not the code) | `parser` | `LayoutProofs` (lemmas) |
| `FieldBits` | the values assembled from bytes, and what they ought to be | `parser`, `parser_bits` | `LayoutProofs` |
| `ReportSize` | the length of report and dump | `parser` | `PacketParserProofs` |
| `PacketAnalyzer` | the analyser: file, position, buffer; one operator per method | through its users | `AnalyzerProofs` (lemmas) |
| `RequestWorker` | `ReadAndWrite`, one action per call | `worker`, `worker_stale`, `worker_far_seek` | `RequestWorkerProofs` |
| `RequestService` | what a server promises its clients (abstract) | `server` | `ServerProofs` (steps) |
| `Server` | start-up, accept loop, slots, mutex, worker threads, clients | `server`, `server_slots` | `ServerProofs` |
| `PacketBrowser` | what the loop of `_tmain` promises its user (abstract) | `viewer` | `ViewerProofs` (steps) |
| `Viewer` | the loop of `_tmain`, one action per call and per key | `viewer`, `viewer_fresh`, `viewer_check` | `ViewerProofs` |
| `HexDump` | `SetPrintHexData`, one byte per step | `hex_dump` | `HexDumpProofs` |

The `MC...` modules extend them with the constants of the runs.  `TSPacket` and
`PacketAnalyzer` have no variables: an object is a record and a method an
operator from the object before the call to the object after it, so the worker
and the interactive loop, which drive the same class, share one model of it.

### How state and actions correspond to the code

*Server.*  `main` is the next call of the main thread: first the constructor
(`Create`), `Binding` and `Listen`, then the loop in `Accept` (lines 71-99):
`Accept`, `Lock`, `Store`, `Spawn`, `Unlock`, `Count`, with the error paths
`StartFails`, `AcceptFails` and `SpawnFails`, all of which end in
`ErrorHandling`.  Before `Listen` a client that connects is refused.  The
members from `clientSocketArray` to `hMutex` are one array `words`, in the order
of ServerSocket.h and one 32-bit word each as in the Win32 build the project
file describes, because the code indexes the arrays with an unbounded
`clientNumber`: a store past the end lands in the next member, and behind the last
one on the stack of `_tmain`, which holds the object, until it leaves the stack
(`Memory`) and ends the process (`NoThread`).  So `hMutex` may come to hold the
identifier of a thread, the wait for which fails or never ends (`stuck`), or the
handle of one, for which `Lock` waits until that worker has ended: from then on a
silent client keeps the loop from all others.  A worker has the
steps `Recv`, `Open`, `Send`; everything between opening and sending is local to
its thread and is the subject of `RequestWorker`.  (`ThreadFunction` calls
`ReadAndWrite` through a `this` that is the socket number; the method touches no
member, so this has no effect and is not modelled.)  Clients connect once, send
a request in one or two pieces, close or reset.  `recv` returns any prefix that
has arrived; the request is then what strtok and atoi make of it (`Cuts`).

*RequestWorker.*  `pc` runs through the calls of `ReadAndWrite`.  The request is
a name and a number or `NoNumber`, when strtok finds no second token and
`atoi(NULL)` ends the process.  With the end of the thread `packet_analyzer` is
destroyed, whose destructors free nothing: what its parsers hold is `lost`.

*PacketAnalyzer.*  A byte is its offset in the file, so a buffer shows where each
of its bytes came from; `Blank` and `Garbage` are the byte memset writes and one
never written.  `ToLong` is the conversion of the offset to the `long` of fseek.
What the parser makes of a buffer depends on the bytes: `ContentsOf` is the
content of the packet when the buffer is one, and any content when it is a
mixture of two packets.  An offset is small, the range of `ToLong` is a constant:
a file just over `LONG_MAX` behaves as one over 2 GB.

*TSPacket.*  Decoded values are abstracted to the buffer they come from.  Kept is
the control: which sections a packet selects, the `is_exist_data_` flags, the
text each parser accumulates, what is allocated and what is freed.  How a packet
is walked is the subject of `PacketParser`, and `AgreesWithTSPacket` is the tie:
after the walk the decoded parts and the allocated blocks are those `TSPacket`
computes in one step.

*PacketParser.*  A packet is a record of what its layout depends on (which
optional fields it has, its lengths, what starts in it).  `pos_` is the cursor of
the code; there is one action per `if`, per pass of a loop and per run of
unconditional reads, in the order of the source.  `read` records where each field
was read.  A read behind byte 188 ends the walk as `overrun`, and `StaysInPacket`
says for which packets it never does.  The loop over the streams of a programme map
is the exception: nothing but its own arithmetic ends it, so it is followed on.
Where no stream of the packet stands (`section_length` is wrong) the code finds two
bits and a byte of whatever does, a CRC, another section, stuffing or what the
process has behind the packet (`AnyLength`); a pass that finds `stream_info_` full
writes behind it, which the process survives (`PMTEntry`) or not (`PMTCrash`), as it
does behind the end of its `Memory`.
`PacketLayout` is the reference: the field table of ISO/IEC 13818-1, written
independently of the cursor.

*FieldBits.*  A number is the set of its one bits; `Plus` and `Term` are addition
and mask-and-shift in 32 bits, because `uint64` is `unsigned long` in this code
(PMTPacket.h:7).  Each value is a list of terms taken from its assignment, with
the precedence C++ gives the expression, against the bit ranges of the standard.
`Source` is the field last stored in a value: the OPCR is assembled into the values
of the PCR (TSPacket.cpp:200, 207), and its own are never assigned.

*ReportSize.*  A line counts its label and the most digits its value can have.

*Viewer.*  `pc` runs through the calls of the loop.  Both reads of `cin` may fail,
that of the key at the end of the input, that of the number when something else is
typed (`Prompt`, `ReadNumber`); from then on `cin` neither waits nor changes what it
is to read (Visual C++'s runtime).  `temp` is the number read after 'f', or
whatever an uninitialised variable holds.  The check is one action per pass of its
loop and falls through to 'q', as the missing `break` has it.  In this build
`StartServer` is called before the loop and never returns, so the loop is modelled
as it is written, not as it is reached.

*ContinuityCounter.*  `cc_list_` is a function from PID to expected counter.  The
stream is external: it numbers payload packets, loses and repeats some, and
mixes in NULL packets and packets without payload.  `first`, `lost`, `repeated`,
`reported` and `realigned` only record what happened.

*HexDump.*  A column of the line is a blank, the terminator or the byte it shows.

## 3. Runs

Every pass run checks deadlock except where the program really stops (a process
that ended, a user who does not type, a finished dump or walk).

| Run | Shows | Bounds, and why they are enough |
|---|---|---|
| `cc_counter` | no false alarm; `Accounting` relates the expected counter exactly to losses; at most Modulus-1 errors per loss; a loss leaves an error | two PIDs and NULL, modulus 3, two losses and one repetition each: all residues, losses that come full circle, two list entries that could be confused. The proofs cover 16 |
| `worker` | the reply is the packet asked for, report and dump agree, the blocks a request costs are those of its own packet, nothing unwritten is sent where the file has two packets | packets of 3 bytes, files of 1, 2 1/3 and 7 packets, LONG_MAX 7 so that the last file is out of reach; numbers -1 to 8 cover below, inside, the short end, beyond, wrapped |
| `server` | six invariants, `Answered` and `ImplementsService` under every interleaving of three clients | a slot for each client; backlog 2 (one is refused), two streams (one of them the main thread's) and two threads, so that all three limits bite; the object alone on the stack (`Memory` is 3 * Slots + 2 words); one client is unruly (hangs up, resets, sends in pieces), one asks for a file that is not there, one behaves: every kind next to every other |
| `viewer` | stays inside the file; the screen is the packet it counts; reports end with it; private data is freed; the check of a file with packets ends; `ImplementsBrowser` | four files: tables, media with a short end, one packet, empty; numbers below, inside and above, the input ending and numbers mistyped at any time. `MaxLeaked` and `MaxText` stop the user once two blocks are lost or a text has three entries: the code accumulates both for ever |
| `hex_dump` | no write outside the line; every byte shown; twelve lines | the real constants: 188, 80, 15 |
| `parser` | every field is read where the standard puts it; nothing outside packets and lists whose lengths add up, whose walk ends; where they do not, the loop over the streams ends only behind them; entries at the right places; the same outcome as `TSPacket`; values; size of report | the real packet size, and families of packets: all combinations of adaptation flags times all units times stuffing; all combinations of PES flags and all stream ids; PAT and CAT of any length a packet holds, and the greatest; programme maps with right lengths and wrong ones, up to as many streams as fit; one bit of one byte, and all, in every field, and in the OPCR alone. Behind the streams the lengths 0, 255 and 1023; 200 bytes of memory, so that the run-away loop ends either way |

`Answered`, `ImplementsService`, `CheckEnds`, `ImplementsBrowser` and
`ParsingEnds` are temporal properties, the others state invariants.

**Fairness.**  `Server` assumes weak fairness of the accept loop and of each
worker: they are threads of an operating system and none waits for a condition
another can keep from it, except recv.  Clients are free: none has to connect,
ask or stay.  `Viewer` assumes that the program goes on with its own steps
(`WF(Step)`); the user (`Prompt`, `ReadNumber`) may stop at any time.  `PacketParser`
is sequential code that calls nothing that waits, so it goes on (`WF(Next)`).

**Refinement.**  `ImplementsService` maps the server to `RequestService`: a
client that asks is answered once, with exactly what it asked if its request
arrived whole, and otherwise with something its request can be cut to; or it
leaves; or the whole service goes down.  The fairness of the abstract `Answer`
follows from that of the threads.  `ImplementsBrowser` maps the loop to
`PacketBrowser`: a command decides which packet comes next, "f" with the number
that was read, and the page of that packet, byte for byte, follows; buffers, parser and the order of the calls in
between do not show.  `AgreesWithTSPacket` connects the two models of the parser.

### Disagreements between the code and its comments

Each of these runs checks one statement the repository makes and finds a
behaviour of the code that contradicts it.

| Run | Statement | What happens |
|---|---|---|
| `server_slots` | ServerSocket.cpp:95: the mutex is made available again | one client more than there are slots: its thread identifier is stored over `hMutex`, `ReleaseMutex` gets a number that is no handle. The run has 2 slots and 3 clients; with 10 slots it is the eleventh |
| `worker_stale` | PacketAnalyzer.cpp:61: data of one packet is received | a short last packet: the rest of the buffer is the packet of the constructor |
| `worker_far_seek` | PacketAnalyzer.cpp:58: the file is moved on | the offset wraps at 2 GB |
| `viewer_fresh` | HexViewer.cpp:39: the values are reset | formatting clears the flag `PATPacket::Reset` tests: text and list of a PAT or PMT stay, the next report repeats them, the list is lost |
| `viewer_check` | PacketAnalyzer.cpp:65, 106: the check goes through the packets | in a file of three packets it counts through them, but nothing is read in its loop; it examines the blanked buffer |
| `parser_bits` | the comments that count the bits of each value in the headers | values lose bits, below |

`ValuesDecoded` holds for every value but three that is read at its place: masks and shifts put
the bits that arrive to their places.  `Kept` lists which arrive.  All of them do
for `piecewise_rate_`, the PCR extension, `pcr_pid_`, `version_number_`,
`crc_32_`, the copy info, the sequence counter and the stuffing length.  `pts_`,
`dts_` and the PCR base lose bit 32 in 32-bit arithmetic; the values of the PCR are
overwritten by an OPCR, those of the OPCR never assigned;
`previous_pes_packet_crc_` and `escr_extension_` lose what a second assignment
overwrites; `ltw_offset_` and `dts_next_au_` lose bits to masks and shifts, where
`&` binds weaker than `<<`.  In `es_rate_`, `p_std_buffer_size_` and `escr_base_`
(`Misplaced`) even the bits that arrive are wrong.  `parser_bits` compares all of
them with the widths in the comments.

What the program does elsewhere that a user may not expect is part of the passing
runs: a failed `cin` repeats the last key at every later prompt, so the loop may
spin on 'f' and never hear Q; one client's missing file ends the process for all,
and so does the end of the streams, which no worker gives back although the loop is
there to keep receiving users (ServerSocket.cpp:70; both are disjuncts of
`OnlyFaultsEndProcess`); every request loses the lists of the packet it reports
(`LosesOwnBlocksOnly` says: no more than those), and so does the interactive loop
when tables follow each other; a file without two whole packets is sent with bytes
that were never written (the precondition of `NoGarbageSent`); the check of an
empty file never ends (`CheckEnds` assumes a packet); a text of a PAT or PMT
repeats earlier ones, but ends with the packet on the screen
(`ReportEndsWithPacket`); a programme map whose lengths do not add up makes the
parser write behind its list (`PMTEntry`).

## 4. Proofs

TLAPS checks every leaf; the constants are arbitrary within the named assumptions
of the modules (`CCAssumption`, `AnalyzerAssumption`, `KindAssumption`,
`WorkerAssumption`, `ViewerAssumption`, `ServerAssumption`, `DumpAssumption`,
`PacketsAssumption`, `FitAssumption`, `LengthAssumption`, `MemoryAssumption`).  In each module the
theorems follow from inductive invariants: such an invariant holds initially,
every action preserves it (a lemma or a step for each), and it implies the
property.

| Theorem | States | Argument |
|---|---|---|
| `ContinuityCounterProofs!TypeCorrect`, `NoFalseAlarms` | types; a stream without loss is never reported | the counter the analyser remembers for a PID is the one the stream sent last on that PID, as long as nothing was lost |
| `ContinuityCounterProofs!ExactBooks`, `BoundedErrors`, `LossIsReported` | what the check knows of a PID is exactly its losses; at most Modulus-1 errors per loss; a loss leaves an error | `BookInv`, below |
| `RequestWorkerProofs!TypeCorrect`, `ReplyCorrect` | types; the reply is made of the packet and the file position the request names | `PacketInv` says what the analyser's buffer and its flags are at each step of the worker; it rests on the lemmas of `AnalyzerProofs` about what one call of the analyser leaves behind, and on the file being small enough for a 32-bit offset |
| `RequestWorkerProofs!ReportCorrect`, `RequestCost`, `NothingUnwrittenSent` | the report is about the bytes of the dump, each part once; a request loses the blocks of its own packet and no other; no unwritten byte is sent | `FreshInv`: the reset in the constructor runs before anything is formatted, so the flags it tests are still set and the parser is as new; what is analysed with it is then all it holds. `WrittenInv`: the constructor fills the buffer, and a read only replaces |
| `ServerProofs!TypeCorrect`, `OneWorker`, `OwnAnswers` | types; one thread for each accepted connection; nobody receives another client's answer | `Inv`, below |
| `ServerProofs!MutexFree`, `ArraysDescribeThreads` | with a slot for every client (`Cardinality(Clients) <= Slots`) the mutex is free outside its section, and the arrays describe the threads | `SlotInv`, below |
| `ServerProofs!FaultsEndProcess` | the process ends only for the listed reasons, with more clients than slots, too | each step that ends it has one of them: a request without a number was cut or never came, a file that cannot be opened is missing or the streams are used up |
| `ServerProofs!StepsOfService` | every behaviour of the server is, liveness aside, one of `RequestService` | `Inv`, `AnsweredInv` (a client whose thread is not done has no answer yet) and `PieceInv` (a worker has what its client's request can be cut to): a send is an `Answer`, the first piece an `Ask`, hanging up a `Leave`, `exit` a `GoDown`, and nothing else shows |
| `ViewerProofs!TypeCorrect`, `StaysInFile` | types; the loop stands on a packet of its file | `PlaceInv`: `total_packet_` is the number of packets of the file |
| `ViewerProofs!ReportEnds`, `PrivateFreed` | the last entry of each part of a report is of the packet on the screen; private data is freed by its flag | `ParserInv`: after every reset the flags and the report are empty whatever a table keeps, so what is analysed next is the last entry of each text |
| `ViewerProofs!ScreenCorrect` | the screen is the packet that is counted, then blanks | `ScreenInv`: from the dump to the next read the buffer is blank, so what a short packet does not overwrite is blank |
| `ViewerProofs!StepsOfBrowser` | every behaviour of the loop is, liveness aside, one of `PacketBrowser`, for files whose offsets fit a long (`SmallFiles`) | one step of the browser, or none, for each action, from `PlaceInv` and `ScreenInv`; `Find` goes to the number that was read |
| `HexDumpProofs!TypeCorrect`, `NoWriteOutside`, `ShowsEveryByte`, `LinesOfPacket` | types; no write outside the line; every byte in its place; one line per 16 bytes begun - for every packet size | the counters determine the next byte (`i = 16 * lines + column`), and the line in work shows the bytes since the last line (`LineInv`) |
| `PacketParserProofs!TypeCorrect`, `EndsOnAnEntry` | types; the loop over the streams ends with the entry the section ends with if there is one, and otherwise only behind all of them - for every set of packets and any bytes behind | `Inv`, below |
| `PacketParserProofs!KeepsToLayout`, `ReadsFieldsInPlace`, `NeverOverruns`, `HoldsEveryEntry` | the cursor keeps to the layout; so every field is read where it stands and no other, nothing behind a packet that holds its unit, every entry at its place, no programme left out, and lists whose lengths add up have room | `Walk`, `ListsInv`, below |
| `PacketParserProofs!WalkImplementsTSPacket`, `ReportsFit` | the walk ends with the parts and blocks of the one step `TSPacket` takes; the text of a packet with few fields and entries fits its buffer | `PartsInv` (in `Walk`) says at each label which parts are decoded and which blocks held |
| `LayoutProofs!BitsInPlace`, `PacketParserProofs!DecodesValues` | masks, shifts and additions make of any six bytes the bits the standard gives a value, as far as the code keeps them; so do the parsers of the bytes they find, of the OPCR's where it overwrote the PCR | terms of a value have no bit in common, so adding them, carries and all, is their union; each term is what the code keeps of one piece; and the bytes are those at the field (`ReadsFieldsInPlace`) |
| `PacketParserProofs!LeavesLess` | each step of the walk over a packet whose lengths add up decreases a number that is never negative | `Left`: the stages to come, then the bytes ahead of the cursor; a pass of a loop reads at least four |

`BookInv` keeps the books of each PID.  Every step has one of four effects on a
watched PID: nothing the check can see, a report, a loss, or a loss that a packet
hid (`Keeps`, `IsReported`, `IsLost`, `IsHidden`), and each keeps the congruence
of `Accounting` and the inequality of `AmplificationBounded`.  The arithmetic
modulo an unknown number is in the lemmas about remainders.

The properties of the server are not inductive.  `Inv` adds, and needs:

* `QueueInv`: a connection is in the queue of `accept` once, and then it is not
  accepted yet.  Without it the same connection could be accepted twice.
* `CountInv`: `clientNumber` is the number of accepted connections, less the one
  in hand (`Holding`; during the start there is none).  With it `WordsApart` bounds
  the index where there is a slot for every client.
* `HandoverInv`: the sockets of the threads are exactly the accepted connections,
  less the one in hand, and after `Store` the word that `Spawn` passes is that one.
  This holds for stores behind the array as well, because nothing is written
  between the store and the call that reads it, and because the place of the last
  identifier, further behind, was still on the stack.
* `AnswerInv`: a worker past `recv` has the request of its own connection, and an
  answered client has sent something.

`SlotInv` adds that `hMutex` is the handle, and that the mutex is owned in
`store`, `spawn` and `unlock` and nowhere else.  The assumption it needs is the one
that `server_slots` drops: with one client more the third array runs into `hMutex`.

The first group of server theorems holds for every finite set of clients: it says
what remains true when the indices run past the arrays, over the mutex handle and
to the end of the stack.  `ServerAssumption` asks only that the object itself is on
the stack.

The parser's `Inv` is about lengths that disagree.  The loop over the streams of a
programme map compares `pointer` with the end of the section for equality.  `LoopInv`
says that the cursor stands where an entry of the packet ends, or that the walk has
taken something else for an entry, or has left the packet; if the section's length is
right, the end is still ahead as long as it has not left it.  Nothing is assumed of
what stands behind the streams but that ten bits are read of it (`LengthAssumption`).
`RoomInv` says that the block of a list has the size the section's length gave when
it was allocated; that a list of streams is not overfilled follows from
`BeforeEnd`, only when the lengths add up.

`Walk` relates the walk to the layout of `PacketLayout`, which is the sequence of the
fields a packet has, with their sizes.  Where the cursor stands follows from how that
sequence splits: at every label there are fields `behind` and fields ahead such that
the layout is the one followed by the other, the size of `behind` is the position of
the cursor, and `read` holds the places of the fields behind and of no other
(`Cursor`).  Four things make it less simple than that, and the invariant longer.
The code does not skip a pack header nor the descriptors of a CAT, so behind them
the cursor lags by their size; `Cursor` carries the lag.  With stuffing the unit is
never found, and the walk ends in front of it.  When the packet does not hold its unit
nothing is claimed once the walk has left it (`WellFormed`).  And in a list the
position is counted in entries (`ListsInv`), which is where `LoopInv` comes in again.
One lemma says what reading does to a `Cursor` (`Passage`); each action of
`PacketParser` is then a case of it, given how the layout splits at that label, which
is in `LayoutProofs`.

`LayoutProofs` needs induction: sizes are sums over a sequence, and so are the
values, with a chain of carries below.  The induction theorems of the library take
an operator as a parameter, which no prover here instantiates; `SetInduction` says
the same of a set, and is proved from the well-foundedness of the numbers.

What the proofs brought to light: the two cases of `Unit` in `PacketLayout` overlapped
for a packet in whose payload no unit starts, which TLC resolves by order but
nothing else has to; `PacketOK` left the lengths of a pack header and the two bits of
`pts_dts_flags_` free; and `ValuesDecoded` asked for the right value of a field
that is read too early, which no packet of the run has.

## 5. Only model-checked, and not modelled

With TLC alone: liveness (`Answered`, `CheckEnds`, `ParsingEnds`) and with it the
fairness in the two refinements, whose steps are proved: the proof system has no
rules for ENABLED, on which fairness rests.  Of `ParsingEnds`, `LeavesLess` proves
the half that needs no fairness.  Every invariant the passing runs check is a theorem.
The reports of disagreement of section 3 are runs only: a behaviour that shows them
is their proof.

The theorems about the parser say nothing about packets outside `FitAssumption`:
those whose adaptation field is shorter than its flags announce, or whose payload
has no three bytes for a start code.

Not modelled:

* `HTTPConnect`: no object of the class is ever created.
* Adaptation fields and PES headers shorter than what their flags announce.  The
  code checks no length, so it reads what follows as fields; the families have
  fields that fit, and only the section lengths go wrong.
* What stands behind the 188 bytes of the buffer: a read there ends the walk in
  `overrun`, but in the loop over the streams, where it may yield anything.
* The names of stream types and the flags `is_video_`, which are set from a table
  and read by the report only; the sums `base * 300 + extension` of PCR and
  OPCR (`result_pcr_`, `result_opcr_`), which repeat the loss of bit 32; the values of private data.
* Which packet the PIDs of the continuity check come from: its properties are
  about any set of PIDs.
* Which characters `isprint` accepts, the wording of reports and console output.

## 6. Plan

Done: the components of section 1 but `HTTPConnect`, with the runs of section 3 and
the proofs of section 4.

What is left, in this order:

1. Malformed adaptation fields and PES headers, with the bytes of the payload read
   as fields.
2. The PIDs of `SetPidValueInit` related to the programme map `PacketParser` walks.
