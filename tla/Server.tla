------------------------------- MODULE Server -------------------------------
(***************************************************************************)
(* ServerSocket: the accept loop of the main thread and one worker thread  *)
(* per connection, all in one process that any of them can end.            *)
(*                                                                         *)
(* A connection is named by its client.  Each worker runs ReadAndWrite;    *)
(* what it does between opening the file and sending is local to it and is *)
(* the subject of module RequestWorker, so a reply is abstracted here to   *)
(* the request it answers.                                                 *)
(*                                                                         *)
(* The members of ServerSocket from clientSocketArray on are modelled as   *)
(* the consecutive 32-bit words they are in the Win32 build: a store       *)
(* through an index past the end of an array lands in its successor.  The  *)
(* object is a local variable of _tmain, so behind its last member comes   *)
(* the rest of the main thread's stack, of which the loop uses nothing.    *)
(***************************************************************************)
EXTENDS Integers, Sequences, FiniteSets

CONSTANTS Clients,      \* each connects at most once
          Unruly,       \* those that may hang up or send in pieces
          Request,      \* client -> the file name and packet number it sends
          Names,        \* the names clients ask for
          Files,        \* those of them that can be opened
          Slots,        \* 10: the length of the three arrays
          Memory,       \* words from clientSocketArray to the end of the stack
          Backlog,      \* 5: connections that may wait for accept
          MaxFiles,     \* streams the C runtime can keep open
          MaxThreads,   \* worker threads the system can run at once
          NoNumber,     \* no second token in a request
          None,         \* no request, no reply
          Unset,        \* a word that was never written
          MutexHandle   \* the handle CreateMutex returned

ASSUME ServerAssumption == /\ IsFiniteSet(Clients)
                           /\ Unruly \subseteq Clients
                           /\ Request \in [Clients -> [file : Names, num : Nat]]
                           /\ Files \subseteq Names
                           /\ NoNumber \notin Nat
                           /\ None \notin [file : Names, num : Nat]
                           /\ Slots \in Nat \ {0}
                           /\ Memory \in Nat /\ Memory >= 3 * Slots + 2
                           /\ Backlog \in Nat \ {0}
                           /\ MaxFiles \in Nat \ {0}
                           /\ MaxThreads \in Nat

VARIABLES alive,            \* the process has not ended
          main,             \* the next step of the accept loop
          clientSocketTemp, \* the connection accept returned last
          clientNumber,     \* connections accepted so far
          words,            \* the members from clientSocketArray on
          mutexOwned,       \* the main thread holds the mutex
          threads,          \* the worker threads, in the order of creation
          openFiles,        \* streams that are open
          conn,             \* client -> how far its connection has come
          backlog,          \* the connections waiting for accept
          inbox,            \* client -> how much of its request has arrived
          hangup,           \* client -> it closed or reset the connection
          reply             \* client -> the request that was answered

server  == <<main, clientSocketTemp, clientNumber, words, mutexOwned>>
clients == <<conn, inbox, hangup>>
vars    == <<alive, main, clientSocketTemp, clientNumber, words, mutexOwned,
             threads, openFiles, conn, backlog, inbox, hangup, reply>>

SocketWord(n)   == n                      \* clientSocketArray[n]
LengthWord      == Slots                  \* clientAddressLength
ThreadWord(n)   == Slots + 1 + n          \* serverThread[n]
ThreadIDWord(n) == 2 * Slots + 1 + n      \* dwServerThreadID[n]
MutexWord       == 3 * Slots + 1          \* hMutex
Words           == 0 .. Memory - 1

Init == /\ alive = TRUE
        /\ main = "create"
        /\ clientSocketTemp = None
        /\ clientNumber = 0
        /\ words = [w \in Words |-> Unset]
        /\ mutexOwned = FALSE
        /\ threads = <<>>
        /\ openFiles = 1       \* the analyser of _tmain keeps its file open
        /\ conn = [c \in Clients |-> "idle"]
        /\ backlog = <<>>
        /\ inbox = [c \in Clients |-> "nothing"]
        /\ hangup = [c \in Clients |-> "no"]
        /\ reply = [c \in Clients |-> None]

-----------------------------------------------------------------------------
(* The constructor, Binding and Listen, which run before any other thread. *)

At(here, after) == alive /\ main = here /\ main' = after

\* ErrorHandling prints a message and calls exit(1).
ErrorHandling == /\ alive' = FALSE
                 /\ UNCHANGED <<server, threads, openFiles, clients, backlog, reply>>

Starting == main \in {"create", "bind", "listen"}

\* Any call of the start may fail: no mutex, no socket, a port in use.
StartFails == alive /\ Starting /\ ErrorHandling

\* WSAStartup, CreateMutex and socket; the mutex is nobody's.
Create == /\ At("create", "bind")
          /\ words' = [words EXCEPT ![MutexWord] = MutexHandle]
          /\ UNCHANGED <<alive, clientSocketTemp, clientNumber, mutexOwned, threads,
                         openFiles, clients, backlog, reply>>

\* From listen on, connections queue.
Binding == At("bind", "listen")
              /\ UNCHANGED <<alive, clientSocketTemp, clientNumber, words, mutexOwned,
                             threads, openFiles, clients, backlog, reply>>
Listen  == At("listen", "accept")
              /\ UNCHANGED <<alive, clientSocketTemp, clientNumber, words, mutexOwned,
                             threads, openFiles, clients, backlog, reply>>

-----------------------------------------------------------------------------
(* The accept loop.                                                        *)

INVALID_SOCKET == -1

\* Mutants: what accept returns is not looked at; a connection that was closed
\* makes accept fail, too.
AcceptUnchecked == /\ At("accept", "lock")
                   /\ backlog # <<>>
                   /\ hangup[Head(backlog)] = "reset"
                   /\ clientSocketTemp' = INVALID_SOCKET
                   /\ backlog' = Tail(backlog)
                   /\ UNCHANGED <<alive, clientNumber, words, mutexOwned, threads,
                                  openFiles, clients, reply>>
AcceptFailsOnClose == /\ alive
                      /\ main = "accept"
                      /\ backlog # <<>>
                      /\ hangup[Head(backlog)] # "no"
                      /\ ErrorHandling

\* accept returns INVALID_SOCKET for a connection that was reset in the queue.
AcceptFails == /\ alive
               /\ main = "accept"
               /\ backlog # <<>>
               /\ hangup[Head(backlog)] = "reset"
               /\ ErrorHandling

Accept == /\ At("accept", "lock")
          /\ backlog # <<>>
          /\ hangup[Head(backlog)] # "reset"
          /\ words' = [words EXCEPT ![LengthWord] = <<"length", 0>>]
          /\ clientSocketTemp' = Head(backlog)
          /\ backlog' = Tail(backlog)
          /\ conn' = [conn EXCEPT ![Head(backlog)] = "accepted"]
          /\ UNCHANGED <<alive, clientNumber, mutexOwned, threads, openFiles,
                         inbox, hangup, reply>>

\* hMutex is the handle of the mutex, or the handle of a thread.
IsMutex     == words[MutexWord] = MutexHandle
IsThread(i) == words[MutexWord] = <<"thread", i - 1>>

\* Mutant: the mutex is held by a worker as long as it works.
LockWhenIdle == /\ At("lock", "store")
                /\ \A i \in DOMAIN threads : threads[i].pc = "done"
                /\ mutexOwned' = (IsMutex \/ mutexOwned)
                /\ UNCHANGED <<alive, clientSocketTemp, clientNumber, words,
                               threads, openFiles, clients, backlog, reply>>

\* WaitForSingleObject.  The mutex is recursive and only the main thread ever
\* asks for it; the handle of a thread is waited for until the thread ends; any
\* other value may be no handle, and the wait fails unnoticed, or the handle of
\* something that is waited for in vain.
Lock == /\ alive
        /\ main = "lock"
        /\ \A i \in DOMAIN threads : IsThread(i) => threads[i].pc = "done"
        /\ main' \in IF IsMutex \/ \E i \in DOMAIN threads : IsThread(i)
                     THEN {"store"} ELSE {"store", "stuck"}
        /\ mutexOwned' = (IsMutex \/ mutexOwned)
        /\ UNCHANGED <<alive, clientSocketTemp, clientNumber, words, threads,
                       openFiles, clients, backlog, reply>>

Store == /\ At("store", "spawn")
         /\ words' = [words EXCEPT ![SocketWord(clientNumber)] = clientSocketTemp]
         /\ UNCHANGED <<alive, clientSocketTemp, clientNumber, mutexOwned,
                        threads, openFiles, clients, backlog, reply>>

\* Mutant: the first connection is passed to every thread.
ArgumentOfFirst == words[SocketWord(0)]

\* The socket is passed to the thread by value.
Argument == words[SocketWord(clientNumber)]

Running == {i \in DOMAIN threads : threads[i].pc # "done"}

\* There is no thread left, and _beginthreadex returns 0; or the identifier's
\* place is behind the stack, and storing it ends the process.
NoThread == \/ Cardinality(Running) >= MaxThreads
            \/ ThreadIDWord(clientNumber) \notin Words

SpawnFails == /\ alive
              /\ main = "spawn"
              /\ NoThread
              /\ ErrorHandling

\* _beginthreadex stores the identifier, the assignment the handle.
Spawn == /\ At("spawn", "unlock")
         /\ ~NoThread
         /\ threads' = Append(threads, [socket |-> Argument, pc |-> "recv",
                                        request |-> None])
         /\ words' = [words EXCEPT
                        ![ThreadIDWord(clientNumber)] = <<"id", clientNumber>>,
                        ![ThreadWord(clientNumber)] = <<"thread", clientNumber>>]
         /\ UNCHANGED <<alive, clientSocketTemp, clientNumber, mutexOwned,
                        openFiles, clients, backlog, reply>>

\* Mutant: ReleaseMutex is not called.
UnlockForgotten == /\ At("unlock", "count")
                   /\ UNCHANGED <<alive, clientSocketTemp, clientNumber, words,
                                  mutexOwned, threads, openFiles, clients,
                                  backlog, reply>>

\* ReleaseMutex fails, unnoticed, when hMutex is not the mutex.
Unlock == /\ At("unlock", "count")
          /\ mutexOwned' = (mutexOwned /\ ~IsMutex)
          /\ UNCHANGED <<alive, clientSocketTemp, clientNumber, words, threads,
                         openFiles, clients, backlog, reply>>

\* Mutant: clientNumber stays 0.
CountForgotten == /\ At("count", "accept")
                  /\ UNCHANGED <<alive, clientSocketTemp, clientNumber, words,
                                 mutexOwned, threads, openFiles, clients,
                                 backlog, reply>>

Count == /\ At("count", "accept")
         /\ clientNumber' = clientNumber + 1
         /\ UNCHANGED <<alive, clientSocketTemp, words, mutexOwned, threads,
                        openFiles, clients, backlog, reply>>

MainStep == \/ StartFails \/ Create \/ Binding \/ Listen
            \/ AcceptFails \/ Accept \/ Lock \/ Store \/ SpawnFails \/ Spawn
            \/ Unlock \/ Count

-----------------------------------------------------------------------------
(* The workers.                                                            *)

\* What recv may return of a request that arrived in part: it ends before the
\* separator, right after it (the blanks that follow are number 0), or within
\* the number.  At most three digits.
Cuts(r) == {[r EXCEPT !.num = n] : n \in {NoNumber, 0, r.num \div 10,
                                          r.num \div 100}}

Nothing(c) == {[Request[c] EXCEPT !.num = NoNumber]}

\* Mutant: a request that arrived whole may be cut.
ReceivedInPieces(c) == IF inbox[c] = "nothing" THEN Nothing(c)
                       ELSE Cuts(Request[c]) \cup {Request[c]}

Received(c) == CASE inbox[c] \in {"whole", "both"} -> {Request[c]}
                 [] inbox[c] = "part"              -> Cuts(Request[c])
                 [] inbox[c] = "nothing"           -> Nothing(c)

\* recv returns whatever has arrived, or nothing once the client hung up; the
\* code does not look at its result.  atoi(NULL) ends the process.
Recv(i) ==
    LET c == threads[i].socket
    IN  /\ alive
        /\ threads[i].pc = "recv"
        /\ inbox[c] # "nothing" \/ hangup[c] # "no"
        /\ \E got \in Received(c) \cup (IF hangup[c] = "reset" THEN Nothing(c)
                                                             ELSE {}) :
              IF got.num = NoNumber
              THEN alive' = FALSE /\ UNCHANGED threads
              ELSE /\ threads' = [threads EXCEPT ![i].pc = "open",
                                                 ![i].request = got]
                   /\ UNCHANGED alive
        /\ UNCHANGED <<server, openFiles, clients, backlog, reply>>

\* The constructor of PacketAnalyzer: exit(1) when fopen fails.
CanOpen(name) == name \in Files /\ openFiles < MaxFiles

Open(i) ==
    /\ alive
    /\ threads[i].pc = "open"
    /\ IF CanOpen(threads[i].request.file)
       THEN /\ openFiles' = openFiles + 1
            /\ threads' = [threads EXCEPT ![i].pc = "send"]
            /\ UNCHANGED alive
       ELSE alive' = FALSE /\ UNCHANGED <<threads, openFiles>>
    /\ UNCHANGED <<server, clients, backlog, reply>>

\* Mutant: the send buffer is shared and holds what the newest thread asked.
SendNewest(i) ==
    LET c == threads[i].socket
    IN  /\ alive
        /\ threads[i].pc = "send"
        /\ reply' = IF hangup[c] = "no"
                    THEN [reply EXCEPT ![c] = threads[Len(threads)].request]
                    ELSE reply
        /\ threads' = [threads EXCEPT ![i].pc = "done"]
        /\ UNCHANGED <<alive, server, openFiles, clients, backlog>>

\* The thread ends; neither its stream nor its connection is closed.
Send(i) ==
    LET c == threads[i].socket
    IN  /\ alive
        /\ threads[i].pc = "send"
        /\ reply' = IF hangup[c] = "no"
                    THEN [reply EXCEPT ![c] = threads[i].request] ELSE reply
        /\ threads' = [threads EXCEPT ![i].pc = "done"]
        /\ UNCHANGED <<alive, server, openFiles, clients, backlog>>

Worker(i) == i \in DOMAIN threads /\ (Recv(i) \/ Open(i) \/ Send(i))

-----------------------------------------------------------------------------
(* The clients, as long as there is a process to talk to.                  *)

Connect(c) ==
    /\ alive
    /\ conn[c] = "idle"
    /\ IF ~Starting /\ Len(backlog) < Backlog
       THEN /\ backlog' = Append(backlog, c)
            /\ conn' = [conn EXCEPT ![c] = "queued"]
       ELSE /\ conn' = [conn EXCEPT ![c] = "refused"]
            /\ UNCHANGED backlog
    /\ UNCHANGED <<alive, server, threads, openFiles, inbox, hangup, reply>>

Connected(c) == conn[c] \in {"queued", "accepted"} /\ hangup[c] = "no"

\* A request arrives at once, or in two parts.
SendRequest(c) ==
    /\ alive
    /\ Connected(c)
    /\ \/ inbox[c] = "nothing" /\ inbox' = [inbox EXCEPT ![c] = "whole"]
       \/ /\ c \in Unruly
          /\ inbox[c] = "nothing" /\ inbox' = [inbox EXCEPT ![c] = "part"]
       \/ inbox[c] = "part" /\ inbox' = [inbox EXCEPT ![c] = "both"]
    /\ UNCHANGED <<alive, server, threads, openFiles, conn, backlog, hangup, reply>>

HangUp(c, how) ==
    /\ alive
    /\ Connected(c)
    /\ c \in Unruly
    /\ hangup' = [hangup EXCEPT ![c] = how]
    /\ UNCHANGED <<alive, server, threads, openFiles, conn, backlog, inbox, reply>>

Client(c) == \/ Connect(c)
             \/ SendRequest(c)
             \/ \E how \in {"close", "reset"} : HangUp(c, how)

Next == \/ MainStep
        \/ \E i \in DOMAIN threads : Worker(i)
        \/ \E c \in Clients : Client(c)

\* The operating system schedules every thread that can run; clients are free.
Fairness == /\ WF_vars(MainStep)
            /\ \A i \in 1 .. Cardinality(Clients) : WF_vars(Worker(i))

Spec == Init /\ [][Next]_vars /\ Fairness

-----------------------------------------------------------------------------
(* Properties.                                                             *)

Accepted == {c \in Clients : conn[c] = "accepted"}

Asked   == [file : Names, num : Nat]
Threads == [socket : Clients, pc : {"recv", "open", "send", "done"},
            request : Asked \cup {None}]

TypeOK ==
    /\ alive \in BOOLEAN
    /\ main \in {"create", "bind", "listen", "accept", "lock", "stuck", "store",
                 "spawn", "unlock", "count"}
    /\ clientSocketTemp \in Clients \cup {None}
    /\ clientNumber \in Nat
    /\ DOMAIN words = Words
    /\ mutexOwned \in BOOLEAN
    /\ threads \in Seq(Threads)
    /\ openFiles \in 1 .. MaxFiles
    /\ conn \in [Clients -> {"idle", "queued", "refused", "accepted"}]
    /\ backlog \in Seq(Clients) /\ Len(backlog) <= Backlog
    /\ inbox \in [Clients -> {"nothing", "part", "whole", "both"}]
    /\ hangup \in [Clients -> {"no", "close", "reset"}]
    /\ reply \in [Clients -> Asked \cup {None}]

\* The connections that have a thread but are not counted yet.
InHand == IF main \in {"unlock", "count"} THEN 1 ELSE 0

\* Every accepted connection that was handed over has one worker thread, and
\* no two threads read from the same connection.
OneWorkerPerConnection ==
    /\ Len(threads) = clientNumber + InHand
    /\ \A i, j \in DOMAIN threads :
           threads[i].socket = threads[j].socket => i = j
    /\ main = "accept" => {threads[i].socket : i \in DOMAIN threads} = Accepted

\* The three arrays describe the threads: slot n holds the connection, the
\* handle and the identifier of thread n, whatever was stored since.
MembersIntact ==
    \A i \in DOMAIN threads :
        /\ words[SocketWord(i - 1)] = threads[i].socket
        /\ words[ThreadWord(i - 1)] = <<"thread", i - 1>>
        /\ words[ThreadIDWord(i - 1)] = <<"id", i - 1>>

\* ServerSocket.cpp:95 says that the mutex is made available again: it is free
\* whenever the accept loop is outside the section it protects.
MutexReleased == mutexOwned => main \in {"store", "spawn", "unlock"}

\* A client receives an answer to its own request and to no other; if it sent
\* the request in one piece, to exactly what it asked.
AnswersOwnRequest ==
    \A c \in Clients : reply[c] # None =>
        /\ reply[c].file = Request[c].file
        /\ inbox[c] = "whole" => reply[c] = Request[c]

\* What a client can do to end the process for everyone.
Faulty(c) == /\ conn[c] \in {"queued", "accepted"}
             /\ \/ hangup[c] = "reset"
                \/ hangup[c] = "close" /\ inbox[c] = "nothing"
                \/ inbox[c] = "part"
                \/ Request[c].file \notin Files

\* The process ends only at its start, through a client that resets, closes
\* early, sends its request in pieces or names a file that is not there, or when
\* what is never given back has run out: streams, threads that still wait, the
\* memory behind the slots.
OnlyFaultsEndProcess ==
    ~alive => \/ Starting
              \/ openFiles = MaxFiles /\ \E i \in DOMAIN threads : threads[i].pc = "open"
              \/ main = "spawn" /\ NoThread
              \/ \E c \in Clients : Faulty(c)

\* A client that sent its request and stays on the line is answered, unless the
\* process ends: a silent client does not hold up the others.
Answered ==
    \A c \in Clients :
        inbox[c] \in {"whole", "both"} ~>
            reply[c] # None \/ hangup[c] # "no" \/ ~alive

\* The server as a service: the accept loop, the slots, the mutex, the threads
\* and the streams are invisible to a client.
InPieces == [c \in Clients |-> Cuts(Request[c]) \cup {Request[c]}]
HowAsked == [c \in Clients |-> CASE inbox[c] = "nothing" -> "no"
                                 [] inbox[c] = "whole"   -> "whole"
                                 [] OTHER                -> "pieces"]
OnTheLine == [c \in Clients |-> hangup[c] = "no"]

Service == INSTANCE RequestService WITH
    Exact    <- Request,
    Possible <- InPieces,
    up       <- alive,
    asked    <- HowAsked,
    here     <- OnTheLine,
    answer   <- reply

\* Every behaviour of the server is one of the service it promises to be,
\* fairness included.
ImplementsService == Service!Spec
=============================================================================
