---------------------------- MODULE ServerProofs ----------------------------
(***************************************************************************)
(* Type correctness of the server, one worker per connection and the       *)
(* answers clients receive, for every finite set of clients, the slots     *)
(* exceeded or not; the mutex and the members of ServerSocket for every    *)
(* set of clients that fits the slots.                                     *)
(*                                                                         *)
(* Then how far the server goes: what ends its process, and that each of   *)
(* its steps is one of the service it promises.                            *)
(***************************************************************************)
EXTENDS Server, FiniteSetTheorems, SequenceTheorems, FunctionTheorems, TLAPS

-----------------------------------------------------------------------------
(* The inductive invariant.                                                *)

\* The connections that wait for accept are there once, and not accepted yet.
QueueInv == /\ \A k \in DOMAIN backlog : conn[backlog[k]] = "queued"
            /\ \A k, l \in DOMAIN backlog : backlog[k] = backlog[l] => k = l

\* A connection is in hand.
Holding == main \in {"lock", "stuck", "store", "spawn", "unlock", "count"}

\* clientNumber counts the accepted connections but the one in hand.
CountInv == Cardinality(Accepted) = clientNumber + (IF Holding THEN 1 ELSE 0)

\* The accepted connections that have a thread.
HandedOver == IF main \in {"lock", "stuck", "store", "spawn"}
              THEN Accepted \ {clientSocketTemp} ELSE Accepted

Sockets == {threads[i].socket : i \in DOMAIN threads}

\* The connections handed over, each to one thread, whose identifier's place was
\* not behind the stack.
HandoverInv ==
    /\ Len(threads) + 2 * Slots < Memory
    /\ Holding => clientSocketTemp \in Accepted
    /\ main = "spawn" => Argument = clientSocketTemp
    /\ Len(threads) = clientNumber + InHand
    /\ \A i, j \in DOMAIN threads :
           threads[i].socket = threads[j].socket => i = j
    /\ Sockets = HandedOver

\* A worker that has received works on the request of its connection, which
\* arrived before.
WorkerHasRequest(i) ==
    LET c == threads[i].socket
    IN  /\ threads[i].request # None
        /\ inbox[c] # "nothing"
        /\ threads[i].request.file = Request[c].file
        /\ inbox[c] = "whole" => threads[i].request = Request[c]

AnswerInv ==
    /\ \A i \in DOMAIN threads : threads[i].pc # "recv" => WorkerHasRequest(i)
    /\ \A c \in Clients : reply[c] # None => inbox[c] # "nothing"
    /\ AnswersOwnRequest

Inv == TypeOK /\ QueueInv /\ CountInv /\ HandoverInv /\ AnswerInv

-----------------------------------------------------------------------------
(* Sizes.                                                                  *)

\* The accepted connections are finitely many, and no more than the clients.
LEMMA AcceptedFinite ==
    /\ IsFiniteSet(Accepted)
    /\ Cardinality(Accepted) \in Nat
    /\ Cardinality(Clients) \in Nat
    /\ Cardinality(Accepted) <= Cardinality(Clients)
BY ServerAssumption, FS_Subset, FS_CardinalityType DEF Accepted

\* The connection in hand is not among those its number counts.
LEMMA NumberBound ==
    ASSUME TypeOK, CountInv
    PROVE  /\ clientNumber <= Cardinality(Clients)
           /\ Holding => clientNumber + 1 <= Cardinality(Clients)
BY AcceptedFinite DEF TypeOK, CountInv, Holding

-----------------------------------------------------------------------------
(* The initial state.                                                      *)

\* The invariant holds before the first connection.
LEMMA InitInv == ASSUME Init PROVE Inv
<1>1. TypeOK
  <2>1. /\ threads \in Seq(Threads)
        /\ backlog \in Seq(Clients) /\ Len(backlog) <= Backlog
    BY ServerAssumption, EmptySeq DEF Init
  <2>2. DOMAIN words = Words /\ openFiles \in 1 .. MaxFiles
    BY ServerAssumption DEF Init
  <2>3. /\ conn \in [Clients -> {"idle", "queued", "refused", "accepted"}]
        /\ inbox \in [Clients -> {"nothing", "part", "whole", "both"}]
        /\ hangup \in [Clients -> {"no", "close", "reset"}]
        /\ reply \in [Clients -> Asked \cup {None}]
    BY DEF Init
  <2> QED BY <2>1, <2>2, <2>3 DEF Init, TypeOK
<1>2. Accepted = {} /\ threads = <<>> /\ backlog = <<>>
  BY DEF Init, Accepted
<1>3. DOMAIN threads = {} /\ DOMAIN backlog = {} /\ Len(threads) = 0
  BY <1>2
<1>4. QueueInv
  BY <1>3 DEF QueueInv
<1>5. CountInv
  BY <1>2, FS_EmptySet DEF CountInv, Holding, Init
<1>6. HandoverInv
  <2>1. Len(threads) + 2 * Slots < Memory
    BY <1>3, ServerAssumption
  <2> QED BY <1>2, <1>3, <2>1
          DEF HandoverInv, Holding, Sockets, HandedOver, InHand, Init
<1>7. AnswerInv
  BY <1>3 DEF AnswerInv, AnswersOwnRequest, Init
<1> QED BY <1>1, <1>4, <1>5, <1>6, <1>7 DEF Inv

-----------------------------------------------------------------------------
(* The steps of a worker.                                                  *)

\* What recv returns, when it holds a number, is a request of this connection,
\* and all of it when it was sent in one piece.
LEMMA ReceivedRequest ==
    ASSUME TypeOK, NEW c \in Clients,
           NEW got \in Received(c) \cup Nothing(c), got.num # NoNumber
    PROVE  /\ got \in Asked
           /\ got.file = Request[c].file
           /\ inbox[c] # "nothing"
           /\ inbox[c] = "whole" => got = Request[c]
<1>1. /\ Request[c] \in Asked
      /\ Request[c].num \in Nat
  BY ServerAssumption DEF Asked
<1>2. \A r \in Nothing(c) : r.num = NoNumber
  BY <1>1 DEF Nothing, Asked
<1>3. ASSUME NEW r \in Cuts(Request[c]), r.num # NoNumber
      PROVE  r \in Asked /\ r.file = Request[c].file
  <2>1. PICK n \in {NoNumber, 0, Request[c].num \div 10, Request[c].num \div 100} :
            r = [Request[c] EXCEPT !.num = n]
    BY <1>3 DEF Cuts
  <2>2. r.num = n /\ r.file = Request[c].file
    BY <1>1, <2>1 DEF Asked
  <2>3. n \in Nat
    BY <1>1, <1>3, <2>1, <2>2
  <2> QED BY <1>1, <2>1, <2>2, <2>3 DEF Asked
<1>4. inbox[c] \in {"nothing", "part", "whole", "both"}
  BY DEF TypeOK
<1> QED BY <1>1, <1>2, <1>3, <1>4 DEF Received

\* The type of one thread.
LEMMA ThreadType ==
    ASSUME TypeOK, NEW i \in DOMAIN threads
    PROVE  /\ threads[i] \in Threads
           /\ threads[i].socket \in Clients
           /\ threads[i].request \in Asked \cup {None}
<1>1. threads \in Seq(Threads)
  BY DEF TypeOK
<1>2. i \in 1 .. Len(threads)
  BY <1>1, LenProperties
<1>3. threads[i] \in Threads
  BY <1>1, <1>2, ElementOfSeq
<1> QED BY <1>3 DEF Threads

\* Replacing a thread by one with the same connection.
LEMMA ThreadStep ==
    ASSUME threads \in Seq(Threads), NEW i \in DOMAIN threads,
           NEW t \in Threads, t.socket = threads[i].socket,
           threads' = [threads EXCEPT ![i] = t]
    PROVE  /\ threads' \in Seq(Threads)
           /\ Len(threads') = Len(threads) /\ DOMAIN threads' = DOMAIN threads
           /\ threads'[i] = t
           /\ \A k \in DOMAIN threads : k # i => threads'[k] = threads[k]
           /\ \A k \in DOMAIN threads : threads'[k].socket = threads[k].socket
<1>1. DOMAIN threads = 1 .. Len(threads)
  BY LenProperties
<1>2. /\ threads' \in Seq(Threads)
      /\ Len(threads') = Len(threads)
      /\ \A k \in DOMAIN threads : threads'[k] = IF k = i THEN t ELSE threads[k]
  BY <1>1, ExceptSeq
<1>3. DOMAIN threads' = DOMAIN threads
  BY <1>1, <1>2, LenProperties
<1> QED BY <1>2, <1>3

\* A step of worker i changes its own thread, and there neither the connection
\* nor anything of the accept loop or the clients.
LEMMA WorkerStep ==
    ASSUME TypeOK, NEW i \in DOMAIN threads, Worker(i)
    PROVE  /\ UNCHANGED <<server, clients, backlog>>
           /\ alive' \in BOOLEAN
           /\ openFiles' \in 1 .. MaxFiles
           /\ threads' \in Seq(Threads)
           /\ Len(threads') = Len(threads) /\ DOMAIN threads' = DOMAIN threads
           /\ \A k \in DOMAIN threads : k # i => threads'[k] = threads[k]
           /\ \A k \in DOMAIN threads : threads'[k].socket = threads[k].socket
           /\ threads'[i].pc # "recv" =>
                 \/ threads[i].pc # "recv" /\ threads'[i].request = threads[i].request
                 \/ /\ threads'[i].request # None
                    /\ inbox[threads[i].socket] # "nothing"
                    /\ threads'[i].request.file = Request[threads[i].socket].file
                    /\ inbox[threads[i].socket] = "whole"
                          => threads'[i].request = Request[threads[i].socket]
           /\ \/ reply' = reply
              \/ /\ threads[i].pc # "recv"
                 /\ reply' = [reply EXCEPT ![threads[i].socket] = threads[i].request]
<1> DEFINE c == threads[i].socket
<1>1. /\ threads[i] \in Threads
      /\ c \in Clients /\ threads[i].request \in Asked \cup {None}
  BY ThreadType
<1>2. None \notin Asked
  BY ServerAssumption DEF Asked
<1>3. CASE Recv(i)
  <2>1. PICK got \in Received(c) \cup Nothing(c) :
            IF got.num = NoNumber
            THEN alive' = FALSE /\ UNCHANGED threads
            ELSE /\ threads' = [threads EXCEPT ![i].pc = "open", ![i].request = got]
                 /\ UNCHANGED alive
    BY <1>3 DEF Recv
  <2>2. CASE got.num = NoNumber
    BY <1>3, <2>1, <2>2 DEF Recv, TypeOK
  <2>3. CASE got.num # NoNumber
    <3> DEFINE t == [threads[i] EXCEPT !.pc = "open", !.request = got]
    <3>1. /\ got \in Asked
          /\ got.file = Request[c].file
          /\ inbox[c] # "nothing"
          /\ inbox[c] = "whole" => got = Request[c]
      BY <1>1, <2>3, ReceivedRequest
    <3>2. t \in Threads /\ t.socket = c /\ t.request = got
      BY <1>1, <3>1 DEF Threads
    <3>3. threads' = [threads EXCEPT ![i] = t]
      BY <2>1, <2>3
    <3> HIDE DEF t
    <3>4. /\ threads' \in Seq(Threads)
          /\ Len(threads') = Len(threads) /\ DOMAIN threads' = DOMAIN threads
          /\ threads'[i] = t
          /\ \A k \in DOMAIN threads : k # i => threads'[k] = threads[k]
          /\ \A k \in DOMAIN threads : threads'[k].socket = threads[k].socket
      BY <3>2, <3>3, ThreadStep DEF TypeOK
    <3>5. /\ UNCHANGED <<server, clients, backlog>> /\ reply' = reply
          /\ alive' \in BOOLEAN /\ openFiles' \in 1 .. MaxFiles
      BY <1>3, <2>1, <2>3 DEF Recv, TypeOK
    <3> QED BY <1>2, <3>1, <3>2, <3>4, <3>5
  <2> QED BY <2>2, <2>3
<1>4. CASE Open(i)
  <2>1. CASE CanOpen(threads[i].request.file)
    <3> DEFINE t == [threads[i] EXCEPT !.pc = "send"]
    <3>1. t \in Threads /\ t.socket = c /\ t.request = threads[i].request
      BY <1>1 DEF Threads
    <3>2. threads' = [threads EXCEPT ![i] = t]
      BY <1>4, <2>1 DEF Open
    <3> HIDE DEF t
    <3>3. /\ threads' \in Seq(Threads)
          /\ Len(threads') = Len(threads) /\ DOMAIN threads' = DOMAIN threads
          /\ threads'[i] = t
          /\ \A k \in DOMAIN threads : k # i => threads'[k] = threads[k]
          /\ \A k \in DOMAIN threads : threads'[k].socket = threads[k].socket
      BY <3>1, <3>2, ThreadStep DEF TypeOK
    <3>4. openFiles' \in 1 .. MaxFiles
      BY SMTT(30), <1>4, <2>1, ServerAssumption DEF Open, CanOpen, TypeOK
    <3>5. /\ UNCHANGED <<server, clients, backlog>> /\ reply' = reply
          /\ alive' \in BOOLEAN /\ threads[i].pc = "open"
      BY <1>4, <2>1 DEF Open, TypeOK
    <3> QED BY <3>1, <3>3, <3>4, <3>5
  <2>2. CASE ~CanOpen(threads[i].request.file)
    BY <1>4, <2>2 DEF Open, TypeOK
  <2> QED BY <2>1, <2>2
<1>5. CASE Send(i)
  <2> DEFINE t == [threads[i] EXCEPT !.pc = "done"]
  <2>1. t \in Threads /\ t.socket = c /\ t.request = threads[i].request
    BY <1>1 DEF Threads
  <2>2. threads' = [threads EXCEPT ![i] = t]
    BY <1>5 DEF Send
  <2> HIDE DEF t
  <2>3. /\ threads' \in Seq(Threads)
        /\ Len(threads') = Len(threads) /\ DOMAIN threads' = DOMAIN threads
        /\ threads'[i] = t
        /\ \A k \in DOMAIN threads : k # i => threads'[k] = threads[k]
        /\ \A k \in DOMAIN threads : threads'[k].socket = threads[k].socket
    BY <2>1, <2>2, ThreadStep DEF TypeOK
  <2>4. /\ UNCHANGED <<server, clients, backlog>>
        /\ alive' \in BOOLEAN /\ openFiles' \in 1 .. MaxFiles
        /\ threads[i].pc = "send"
    BY <1>5 DEF Send, TypeOK
  <2>5. \/ reply' = reply
        \/ reply' = [reply EXCEPT ![c] = threads[i].request]
    BY <1>5 DEF Send
  <2> QED BY <2>1, <2>3, <2>4, <2>5
<1> QED BY <1>3, <1>4, <1>5 DEF Worker

\* The worker's part of the inductive step.
LEMMA WorkerInv ==
    ASSUME Inv, NEW i \in DOMAIN threads, Worker(i)
    PROVE  Inv'
<1>1. /\ TypeOK /\ QueueInv /\ CountInv /\ HandoverInv /\ AnswerInv
  BY DEF Inv
<1>2. /\ UNCHANGED <<server, clients, backlog>>
      /\ threads' \in Seq(Threads)
      /\ alive' \in BOOLEAN /\ openFiles' \in 1 .. MaxFiles
      /\ Len(threads') = Len(threads) /\ DOMAIN threads' = DOMAIN threads
      /\ \A k \in DOMAIN threads : k # i => threads'[k] = threads[k]
      /\ \A k \in DOMAIN threads : threads'[k].socket = threads[k].socket
  BY <1>1, WorkerStep
<1>3. UNCHANGED <<main, clientSocketTemp, clientNumber, words, mutexOwned, conn,
                  inbox, hangup, backlog>>
  BY <1>2 DEF server, clients
<1>4. threads[i].socket \in Clients /\ threads[i].request \in Asked \cup {None}
  BY <1>1, ThreadType
<1>5. reply' \in [Clients -> Asked \cup {None}]
  <2>1. reply \in [Clients -> Asked \cup {None}]
    BY <1>1 DEF TypeOK
  <2>2. \/ reply' = reply
        \/ reply' = [reply EXCEPT ![threads[i].socket] = threads[i].request]
    BY <1>1, WorkerStep
  <2> QED BY <1>4, <2>1, <2>2
<1>6. TypeOK'
  BY <1>1, <1>2, <1>3, <1>5 DEF TypeOK
<1>7. QueueInv'
  BY <1>1, <1>3 DEF QueueInv
<1>8. Accepted' = Accepted
  BY <1>3 DEF Accepted
<1>9. CountInv'
  BY <1>1, <1>3, <1>8 DEF CountInv, Holding
<1>10. HandoverInv'
  <2>1. Sockets' = Sockets
    BY <1>2 DEF Sockets
  <2>2. HandedOver' = HandedOver /\ Argument' = Argument /\ InHand' = InHand
    BY <1>3, <1>8 DEF HandedOver, Argument, InHand, SocketWord
  <2> QED BY <1>1, <1>2, <1>3, <1>8, <2>1, <2>2 DEF HandoverInv, Holding
<1>11. AnswerInv'
  <2>1. ASSUME NEW k \in DOMAIN threads, threads'[k].pc # "recv"
        PROVE  WorkerHasRequest(k)'
    <3>1. CASE k # i
      BY <1>1, <1>2, <1>3, <2>1, <3>1 DEF AnswerInv, WorkerHasRequest
    <3>2. CASE k = i
      <4>1. CASE threads[i].pc # "recv" /\ threads'[i].request = threads[i].request
        BY <1>1, <1>2, <1>3, <3>2, <4>1 DEF AnswerInv, WorkerHasRequest
      <4>2. CASE /\ threads'[i].request # None
                 /\ inbox[threads[i].socket] # "nothing"
                 /\ threads'[i].request.file = Request[threads[i].socket].file
                 /\ inbox[threads[i].socket] = "whole"
                       => threads'[i].request = Request[threads[i].socket]
        BY <1>2, <1>3, <3>2, <4>2 DEF WorkerHasRequest
      <4> QED BY <1>1, <2>1, <3>2, <4>1, <4>2, WorkerStep
    <3> QED BY <3>1, <3>2
  <2>2. ASSUME NEW c \in Clients, reply'[c] # None
        PROVE  /\ inbox[c] # "nothing"
               /\ reply'[c].file = Request[c].file
               /\ inbox[c] = "whole" => reply'[c] = Request[c]
    <3>1. CASE reply' = reply
      BY <1>1, <2>2, <3>1 DEF AnswerInv, AnswersOwnRequest
    <3>2. CASE /\ threads[i].pc # "recv"
               /\ reply' = [reply EXCEPT ![threads[i].socket] = threads[i].request]
      <4>1. WorkerHasRequest(i)
        BY <1>1, <3>2 DEF AnswerInv
      <4>2. CASE c = threads[i].socket
        BY <1>1, <3>2, <4>1, <4>2 DEF WorkerHasRequest, TypeOK
      <4>3. CASE c # threads[i].socket
        BY <1>1, <2>2, <3>2, <4>3 DEF AnswerInv, AnswersOwnRequest, TypeOK
      <4> QED BY <4>2, <4>3
    <3> QED BY <1>1, <3>1, <3>2, WorkerStep
  <2> QED BY <1>2, <1>3, <2>1, <2>2 DEF AnswerInv, AnswersOwnRequest
<1> QED BY <1>6, <1>7, <1>9, <1>10, <1>11 DEF Inv

-----------------------------------------------------------------------------
(* The steps of a client.                                                  *)

\* Connecting touches neither the accepted connections nor the threads, and
\* queues the client at most once.
LEMMA ConnectInv ==
    ASSUME Inv, NEW c \in Clients, Connect(c)
    PROVE  Inv'
<1>1. /\ TypeOK /\ QueueInv /\ CountInv /\ HandoverInv /\ AnswerInv
  BY DEF Inv
<1>2. /\ UNCHANGED <<alive, server, threads, openFiles, inbox, hangup, reply>>
      /\ conn[c] = "idle" /\ conn'[c] # "accepted"
      /\ \A d \in Clients : d # c => conn'[d] = conn[d]
      /\ conn' \in [Clients -> {"idle", "queued", "refused", "accepted"}]
  BY <1>1 DEF Connect, TypeOK
<1>3. UNCHANGED <<main, clientSocketTemp, clientNumber, words, mutexOwned>>
  BY <1>2 DEF server
<1>4. Accepted' = Accepted
  BY <1>2 DEF Accepted
<1>5. /\ backlog' \in Seq(Clients) /\ Len(backlog') <= Backlog
      /\ QueueInv'
  <2>1. backlog \in Seq(Clients) /\ DOMAIN backlog = 1 .. Len(backlog)
    BY <1>1, LenProperties DEF TypeOK
  <2>2. \A k \in DOMAIN backlog : backlog[k] \in Clients /\ backlog[k] # c
    BY <1>1, <1>2, <2>1, ElementOfSeq DEF QueueInv
  <2>3. CASE backlog' = backlog
    BY <1>1, <1>2, <2>1, <2>2, <2>3 DEF QueueInv, TypeOK
  <2>4. CASE /\ Len(backlog) < Backlog /\ backlog' = Append(backlog, c)
             /\ conn'[c] = "queued"
    <3>1. /\ backlog' \in Seq(Clients) /\ Len(backlog') = Len(backlog) + 1
          /\ \A k \in 1 .. Len(backlog) : backlog'[k] = backlog[k]
          /\ backlog'[Len(backlog) + 1] = c
      BY <2>1, <2>4, AppendProperties
    <3>2. DOMAIN backlog' = 1 .. Len(backlog) + 1 /\ Len(backlog) \in Nat
      BY <2>1, <3>1, LenProperties
    <3>3. \A k \in DOMAIN backlog' :
             \/ k \in DOMAIN backlog /\ backlog'[k] = backlog[k]
             \/ k = Len(backlog) + 1 /\ backlog'[k] = c
      BY <2>1, <3>1, <3>2
    <3>4. \A k \in DOMAIN backlog' : conn'[backlog'[k]] = "queued"
      BY <1>1, <1>2, <2>2, <2>4, <3>3 DEF QueueInv
    <3>5. \A k, l \in DOMAIN backlog' : backlog'[k] = backlog'[l] => k = l
      BY <1>1, <2>2, <3>3 DEF QueueInv
    <3>6. Len(backlog') <= Backlog
      BY <2>4, <3>1, <3>2, ServerAssumption
    <3> QED BY <3>1, <3>4, <3>5, <3>6 DEF QueueInv
  <2> QED BY <1>1, <2>3, <2>4 DEF Connect, TypeOK
<1>6. TypeOK'
  BY <1>1, <1>2, <1>3, <1>5 DEF TypeOK
<1>7. CountInv'
  BY <1>1, <1>3, <1>4 DEF CountInv, Holding
<1>8. HandoverInv'
  BY <1>1, <1>2, <1>3, <1>4
     DEF HandoverInv, Holding, Sockets, HandedOver, InHand, Argument, SocketWord
<1>9. AnswerInv'
  BY <1>1, <1>2 DEF AnswerInv, AnswersOwnRequest, WorkerHasRequest
<1> QED BY <1>5, <1>6, <1>7, <1>8, <1>9 DEF Inv

\* A request that arrives makes nothing whole that was not empty before.
LEMMA ClientInv ==
    ASSUME Inv, NEW c \in Clients,
           SendRequest(c) \/ \E how \in {"close", "reset"} : HangUp(c, how)
    PROVE  Inv'
<1>1. /\ TypeOK /\ QueueInv /\ CountInv /\ HandoverInv /\ AnswerInv
  BY DEF Inv
<1>2. UNCHANGED <<alive, server, threads, openFiles, conn, backlog, reply>>
  BY DEF SendRequest, HangUp
<1>3. UNCHANGED <<main, clientSocketTemp, clientNumber, words, mutexOwned>>
  BY <1>2 DEF server
<1>4. /\ inbox' \in [Clients -> {"nothing", "part", "whole", "both"}]
      /\ hangup' \in [Clients -> {"no", "close", "reset"}]
      /\ \A d \in Clients :
            \/ inbox'[d] = inbox[d]
            \/ inbox[d] = "nothing"
            \/ inbox'[d] = "both"
  BY <1>1 DEF SendRequest, HangUp, TypeOK
<1>5. TypeOK'
  BY <1>1, <1>2, <1>3, <1>4 DEF TypeOK
<1>6. Accepted' = Accepted
  BY <1>2 DEF Accepted
<1>7. QueueInv' /\ CountInv'
  BY <1>1, <1>2, <1>3, <1>6 DEF QueueInv, CountInv, Holding
<1>8. HandoverInv'
  BY <1>1, <1>2, <1>3, <1>6
     DEF HandoverInv, Holding, Sockets, HandedOver, InHand, Argument, SocketWord
<1>9. AnswerInv'
  <2>1. \A k \in DOMAIN threads : threads[k].socket \in Clients
    BY <1>1, ThreadType
  <2>2. ASSUME NEW k \in DOMAIN threads, threads[k].pc # "recv"
        PROVE  WorkerHasRequest(k)'
    BY <1>1, <1>2, <1>4, <2>1, <2>2 DEF AnswerInv, WorkerHasRequest
  <2>3. ASSUME NEW d \in Clients, reply[d] # None
        PROVE  /\ inbox'[d] # "nothing"
               /\ reply[d].file = Request[d].file
               /\ inbox'[d] = "whole" => reply[d] = Request[d]
    BY <1>1, <1>4, <2>3 DEF AnswerInv, AnswersOwnRequest
  <2> QED BY <1>2, <2>2, <2>3 DEF AnswerInv, AnswersOwnRequest
<1> QED BY <1>5, <1>7, <1>8, <1>9 DEF Inv

-----------------------------------------------------------------------------
(* The steps of the accept loop.                                           *)

\* A step that ends the process changes nothing else.
LEMMA ErrorHandlingInv ==
    ASSUME Inv, StartFails \/ AcceptFails \/ SpawnFails
    PROVE  Inv'
<1>1. /\ TypeOK /\ QueueInv /\ CountInv /\ HandoverInv /\ AnswerInv
  BY DEF Inv
<1>2. alive' = FALSE /\ UNCHANGED <<server, threads, openFiles, clients, backlog, reply>>
  BY DEF StartFails, AcceptFails, SpawnFails, ErrorHandling
<1>3. UNCHANGED <<main, clientSocketTemp, clientNumber, words, mutexOwned, conn,
                  inbox, hangup>>
  BY <1>2 DEF server, clients
<1>4. TypeOK'
  BY <1>1, <1>2, <1>3 DEF TypeOK
<1>5. Accepted' = Accepted
  BY <1>3 DEF Accepted
<1>6. QueueInv' /\ CountInv'
  BY <1>1, <1>2, <1>3, <1>5 DEF QueueInv, CountInv, Holding
<1>7. HandoverInv'
  BY <1>1, <1>2, <1>3, <1>5
     DEF HandoverInv, Holding, Sockets, HandedOver, InHand, Argument, SocketWord
<1>8. AnswerInv'
  BY <1>1, <1>2, <1>3 DEF AnswerInv, AnswersOwnRequest, WorkerHasRequest
<1> QED BY <1>4, <1>6, <1>7, <1>8 DEF Inv

\* Before the first connection nothing but hMutex changes.
LEMMA StartInv == ASSUME Inv, Create \/ Binding \/ Listen PROVE Inv'
<1>1. /\ TypeOK /\ QueueInv /\ CountInv /\ HandoverInv /\ AnswerInv
  BY DEF Inv
<1>2. /\ main \in {"create", "bind", "listen"}
      /\ main' \in {"bind", "listen", "accept"}
      /\ UNCHANGED <<alive, clientSocketTemp, clientNumber, mutexOwned, threads,
                     openFiles, clients, backlog, reply>>
  BY DEF Create, Binding, Listen, At
<1>3. UNCHANGED <<conn, inbox, hangup>>
  BY <1>2 DEF clients
<1>4. DOMAIN words' = Words
  BY <1>1 DEF Create, Binding, Listen, TypeOK
<1>5. TypeOK'
  BY <1>1, <1>2, <1>3, <1>4 DEF TypeOK
<1>6. Accepted' = Accepted
  BY <1>3 DEF Accepted
<1>7. QueueInv' /\ CountInv'
  BY <1>1, <1>2, <1>3, <1>6 DEF QueueInv, CountInv, Holding
<1>8. HandoverInv'
  BY <1>1, <1>2, <1>6 DEF HandoverInv, Holding, Sockets, HandedOver, InHand
<1>9. AnswerInv'
  BY <1>1, <1>2, <1>3 DEF AnswerInv, AnswersOwnRequest, WorkerHasRequest
<1> QED BY <1>5, <1>7, <1>8, <1>9 DEF Inv

\* The connection that accept takes from the queue was not accepted before, so
\* it is counted once and has no thread yet.
LEMMA AcceptInv == ASSUME Inv, Accept PROVE Inv'
<1> DEFINE c == Head(backlog)
<1>1. /\ TypeOK /\ QueueInv /\ CountInv /\ HandoverInv /\ AnswerInv
  BY DEF Inv
<1>2. /\ main = "accept" /\ main' = "lock" /\ backlog # <<>>
      /\ words' = [words EXCEPT ![LengthWord] = <<"length", 0>>]
      /\ clientSocketTemp' = c /\ backlog' = Tail(backlog)
      /\ conn' = [conn EXCEPT ![c] = "accepted"]
      /\ UNCHANGED <<alive, clientNumber, mutexOwned, threads, openFiles,
                     inbox, hangup, reply>>
  BY DEF Accept, At
<1>3. /\ backlog \in Seq(Clients) /\ DOMAIN backlog = 1 .. Len(backlog)
      /\ Len(backlog) \in Nat /\ Len(backlog) # 0
  BY <1>1, <1>2, LenProperties, EmptySeq DEF TypeOK
<1>4. /\ c \in Clients /\ c = backlog[1]
      /\ backlog' \in Seq(Clients) /\ Len(backlog') = Len(backlog) - 1
      /\ \A k \in 1 .. Len(backlog') : backlog'[k] = backlog[k + 1]
  BY <1>2, <1>3, HeadTailProperties
<1>5. DOMAIN backlog' = 1 .. Len(backlog) - 1
  BY <1>4, LenProperties
<1>6. conn[c] = "queued"
  BY <1>1, <1>3, <1>4 DEF QueueInv
<1>7. /\ conn' \in [Clients -> {"idle", "queued", "refused", "accepted"}]
      /\ conn'[c] = "accepted"
      /\ \A d \in Clients : d # c => conn'[d] = conn[d]
  BY <1>1, <1>2, <1>4 DEF TypeOK
<1> HIDE DEF c
<1>8. TypeOK'
  <2>1. DOMAIN words' = Words
    BY <1>1, <1>2 DEF TypeOK
  <2>2. Len(backlog') <= Backlog
    BY <1>1, <1>3, <1>4, ServerAssumption DEF TypeOK
  <2> QED BY <1>1, <1>2, <1>4, <1>7, <2>1, <2>2 DEF TypeOK
<1>9. QueueInv'
  <2>1. \A k \in DOMAIN backlog' : k + 1 \in DOMAIN backlog /\ k \in Nat
                                   /\ backlog'[k] = backlog[k + 1]
    BY <1>3, <1>4, <1>5
  <2>2. \A k \in DOMAIN backlog' : backlog'[k] \in Clients /\ backlog'[k] # c
    <3> SUFFICES ASSUME NEW k \in DOMAIN backlog'
                 PROVE  backlog'[k] \in Clients /\ backlog'[k] # c
      OBVIOUS
    <3>1. backlog[k + 1] \in Clients
      BY <1>3, <2>1, ElementOfSeq
    <3>2. 1 \in DOMAIN backlog /\ k + 1 # 1
      BY <1>3, <1>5
    <3>3. backlog[k + 1] # backlog[1]
      BY <1>1, <2>1, <3>2 DEF QueueInv
    <3> QED BY <1>4, <2>1, <3>1, <3>3
  <2>3. \A k \in DOMAIN backlog' : conn'[backlog'[k]] = "queued"
    BY <1>1, <1>7, <2>1, <2>2 DEF QueueInv
  <2>4. ASSUME NEW k \in DOMAIN backlog', NEW l \in DOMAIN backlog',
               backlog'[k] = backlog'[l]
        PROVE  k = l
    <3>1. k + 1 = l + 1
      BY <1>1, <2>1, <2>4 DEF QueueInv
    <3> QED BY <2>1, <3>1
  <2> QED BY <2>3, <2>4 DEF QueueInv
<1>10. c \notin Accepted /\ Accepted' = Accepted \cup {c}
  BY <1>4, <1>6, <1>7 DEF Accepted
<1>11. CountInv'
  <2>1. Cardinality(Accepted') = Cardinality(Accepted) + 1
    BY <1>10, AcceptedFinite, FS_AddElement
  <2>2. Cardinality(Accepted) = clientNumber /\ Holding'
    BY <1>1, <1>2, AcceptedFinite DEF CountInv, Holding, TypeOK
  <2>3. Cardinality(Accepted') = clientNumber' + 1
    BY <1>2, <2>1, <2>2
  <2> QED BY <2>2, <2>3 DEF CountInv, Holding
<1>12. HandoverInv'
  <2>1. Sockets' = Sockets
    BY <1>2 DEF Sockets
  <2>2. HandedOver = Accepted /\ HandedOver' = Accepted
    BY <1>2, <1>10 DEF HandedOver
  <2>3. InHand' = InHand
    BY <1>2 DEF InHand
  <2> QED BY <1>1, <1>2, <1>10, <2>1, <2>2, <2>3 DEF HandoverInv, Holding
<1>13. AnswerInv'
  BY <1>1, <1>2 DEF AnswerInv, AnswersOwnRequest, WorkerHasRequest
<1> QED BY <1>8, <1>9, <1>11, <1>12, <1>13 DEF Inv

\* The mutex is irrelevant to the workers.
LEMMA MutexInv == ASSUME Inv, Lock \/ Unlock PROVE Inv'
<1>1. /\ TypeOK /\ QueueInv /\ CountInv /\ HandoverInv /\ AnswerInv
  BY DEF Inv
<1>2. /\ \/ main = "lock" /\ main' \in {"store", "stuck"}
         \/ main = "unlock" /\ main' = "count"
      /\ UNCHANGED <<alive, clientSocketTemp, clientNumber, words, threads,
                     openFiles, clients, backlog, reply>>
  BY DEF Lock, Unlock, At
<1>3. mutexOwned' \in BOOLEAN
  BY <1>1 DEF Lock, Unlock, TypeOK
<1>4. UNCHANGED <<conn, inbox, hangup>>
  BY <1>2 DEF clients
<1>5. TypeOK'
  BY <1>1, <1>2, <1>3, <1>4 DEF TypeOK
<1>6. Accepted' = Accepted
  BY <1>4 DEF Accepted
<1>7. QueueInv' /\ CountInv'
  BY <1>1, <1>2, <1>4, <1>6 DEF QueueInv, CountInv, Holding
<1>8. HandoverInv'
  BY <1>1, <1>2, <1>6 DEF HandoverInv, Holding, Sockets, HandedOver, InHand
<1>9. AnswerInv'
  BY <1>1, <1>2, <1>4 DEF AnswerInv, AnswersOwnRequest, WorkerHasRequest
<1> QED BY <1>5, <1>7, <1>8, <1>9 DEF Inv

\* The word that the socket is stored into is on the stack, a member of the object
\* or not, so it is read back for the thread.
LEMMA StoreInv == ASSUME Inv, Store PROVE Inv'
<1>1. /\ TypeOK /\ QueueInv /\ CountInv /\ HandoverInv /\ AnswerInv
  BY DEF Inv
<1>2. /\ main = "store" /\ main' = "spawn"
      /\ words' = [words EXCEPT ![SocketWord(clientNumber)] = clientSocketTemp]
      /\ UNCHANGED <<alive, clientSocketTemp, clientNumber, mutexOwned,
                     threads, openFiles, clients, backlog, reply>>
  BY DEF Store, At
<1>3. UNCHANGED <<conn, inbox, hangup>>
  BY <1>2 DEF clients
<1>4. DOMAIN words = Words /\ DOMAIN words' = Words
  BY <1>1, <1>2 DEF TypeOK
<1>5. TypeOK'
  BY <1>1, <1>2, <1>3, <1>4 DEF TypeOK
<1>6. Accepted' = Accepted
  BY <1>3 DEF Accepted
<1>7. QueueInv' /\ CountInv'
  BY <1>1, <1>2, <1>3, <1>6 DEF QueueInv, CountInv, Holding
<1>8. HandoverInv'
  <2>1. clientNumber \in Words
    <3>1. Len(threads) = clientNumber /\ clientNumber \in Nat
      BY <1>1, <1>2 DEF HandoverInv, InHand, TypeOK
    <3>2. Len(threads) + 2 * Slots < Memory
      BY <1>1 DEF HandoverInv
    <3> QED BY <3>1, <3>2, ServerAssumption DEF Words
  <2>2. Argument' = clientSocketTemp'
    BY <1>2, <1>4, <2>1 DEF Argument, SocketWord
  <2> QED BY <1>1, <1>2, <1>6, <2>2 DEF HandoverInv, Holding, Sockets, HandedOver, InHand
<1>9. AnswerInv'
  BY <1>1, <1>2, <1>3 DEF AnswerInv, AnswersOwnRequest, WorkerHasRequest
<1> QED BY <1>5, <1>7, <1>8, <1>9 DEF Inv

\* The new thread has the connection in hand, which no other thread has.
LEMMA SpawnInv == ASSUME Inv, Spawn PROVE Inv'
<1> DEFINE t == [socket |-> clientSocketTemp, pc |-> "recv", request |-> None]
           n == Len(threads)
<1>1. /\ TypeOK /\ QueueInv /\ CountInv /\ HandoverInv /\ AnswerInv
  BY DEF Inv
<1>2. /\ main = "spawn" /\ main' = "unlock"
      /\ threads' = Append(threads, [socket |-> Argument, pc |-> "recv",
                                     request |-> None])
      /\ UNCHANGED <<alive, clientSocketTemp, clientNumber, mutexOwned,
                     openFiles, clients, backlog, reply>>
  BY DEF Spawn, At
<1>3. UNCHANGED <<conn, inbox, hangup>>
  BY <1>2 DEF clients
<1>4. DOMAIN words' = Words
  BY <1>1 DEF Spawn, TypeOK
<1>5. clientSocketTemp \in Accepted /\ clientSocketTemp \in Clients
  BY <1>1, <1>2 DEF HandoverInv, Holding, Accepted
<1>6. t \in Threads
  BY <1>5 DEF Threads
<1>7. threads' = Append(threads, t)
  BY <1>1, <1>2 DEF HandoverInv, Holding
<1>8. t.socket = clientSocketTemp /\ t.pc = "recv"
  OBVIOUS
<1> HIDE DEF t
<1>9. /\ threads \in Seq(Threads) /\ n \in Nat /\ DOMAIN threads = 1 .. n
  BY <1>1, LenProperties DEF TypeOK
<1>10. /\ threads' \in Seq(Threads) /\ Len(threads') = n + 1
       /\ \A k \in 1 .. n : threads'[k] = threads[k]
       /\ threads'[n + 1] = t
  BY <1>6, <1>7, <1>9, AppendProperties
<1>11. DOMAIN threads' = DOMAIN threads \cup {n + 1} /\ n + 1 \notin DOMAIN threads
  BY <1>9, <1>10, LenProperties
<1>12. TypeOK'
  BY <1>1, <1>2, <1>3, <1>4, <1>10 DEF TypeOK
<1>13. Accepted' = Accepted
  BY <1>3 DEF Accepted
<1>14. QueueInv' /\ CountInv'
  BY <1>1, <1>2, <1>3, <1>13 DEF QueueInv, CountInv, Holding
<1>15. HandoverInv'
  <2>1. Sockets' = Sockets \cup {clientSocketTemp}
    BY <1>8, <1>9, <1>10, <1>11 DEF Sockets
  <2>2. Sockets = Accepted \ {clientSocketTemp}
    BY <1>1, <1>2 DEF HandoverInv, Holding, HandedOver
  <2>3. Sockets' = HandedOver'
    BY <1>2, <1>5, <1>13, <2>1, <2>2 DEF HandedOver
  <2>4. \A k \in DOMAIN threads : threads'[k].socket # clientSocketTemp
                                  /\ threads'[k] = threads[k]
    BY <1>9, <1>10, <2>2 DEF Sockets
  <2>5. \A i, j \in DOMAIN threads' :
            threads'[i].socket = threads'[j].socket => i = j
    BY <1>1, <1>8, <1>10, <1>11, <2>4 DEF HandoverInv, Holding
  <2>6. Len(threads') = clientNumber' + InHand'
    BY <1>1, <1>2, <1>9, <1>10 DEF HandoverInv, Holding, InHand, TypeOK
  <2>7. Len(threads') + 2 * Slots < Memory
    <3>1. ThreadIDWord(clientNumber) \in Words
      BY DEF Spawn, NoThread
    <3>2. 2 * Slots + 1 + clientNumber < Memory
      BY <3>1, ServerAssumption DEF ThreadIDWord, Words
    <3>3. n = clientNumber /\ clientNumber \in Nat
      BY <1>1, <1>2 DEF HandoverInv, InHand, TypeOK
    <3> QED BY <1>10, <3>2, <3>3, ServerAssumption
  <2> QED BY <1>2, <1>5, <1>13, <2>3, <2>5, <2>6, <2>7 DEF HandoverInv, Holding
<1>16. AnswerInv'
  <2>1. ASSUME NEW k \in DOMAIN threads', threads'[k].pc # "recv"
        PROVE  WorkerHasRequest(k)'
    <3>1. k \in DOMAIN threads /\ threads'[k] = threads[k]
      BY <1>8, <1>9, <1>10, <1>11, <2>1
    <3> QED BY <1>1, <1>3, <2>1, <3>1 DEF AnswerInv, WorkerHasRequest
  <2> QED BY <1>1, <1>2, <1>3, <2>1 DEF AnswerInv, AnswersOwnRequest
<1> QED BY <1>12, <1>14, <1>15, <1>16 DEF Inv

\* Counting ends the step in which a connection is in hand.
LEMMA CountStepInv == ASSUME Inv, Count PROVE Inv'
<1>1. /\ TypeOK /\ QueueInv /\ CountInv /\ HandoverInv /\ AnswerInv
  BY DEF Inv
<1>2. /\ main = "count" /\ main' = "accept" /\ clientNumber' = clientNumber + 1
      /\ UNCHANGED <<alive, clientSocketTemp, words, mutexOwned, threads,
                     openFiles, clients, backlog, reply>>
  BY DEF Count, At
<1>3. UNCHANGED <<conn, inbox, hangup>>
  BY <1>2 DEF clients
<1>4. clientNumber' \in Nat
  BY <1>1, <1>2 DEF TypeOK
<1>5. TypeOK'
  BY <1>1, <1>2, <1>3, <1>4 DEF TypeOK
<1>6. Accepted' = Accepted
  BY <1>3 DEF Accepted
<1>7. QueueInv' /\ CountInv'
  BY <1>1, <1>2, <1>3, <1>6, AcceptedFinite DEF QueueInv, CountInv, Holding, TypeOK
<1>8. HandoverInv'
  <2>1. Len(threads') = clientNumber' + InHand'
    BY <1>1, <1>2 DEF HandoverInv, Holding, InHand, TypeOK
  <2> QED BY <1>1, <1>2, <1>6, <2>1 DEF HandoverInv, Holding, Sockets, HandedOver
<1>9. AnswerInv'
  BY <1>1, <1>2, <1>3 DEF AnswerInv, AnswersOwnRequest, WorkerHasRequest
<1> QED BY <1>5, <1>7, <1>8, <1>9 DEF Inv

-----------------------------------------------------------------------------
(* The theorems.                                                           *)

\* Every step, and every step that changes nothing, keeps the invariant.
LEMMA NextInv == ASSUME Inv, [Next]_vars PROVE Inv'
<1>1. CASE MainStep
  BY <1>1, ErrorHandlingInv, StartInv, AcceptInv, MutexInv, StoreInv, SpawnInv, CountStepInv
     DEF MainStep
<1>2. CASE \E i \in DOMAIN threads : Worker(i)
  BY <1>2, WorkerInv
<1>3. CASE \E c \in Clients : Client(c)
  BY <1>3, ConnectInv, ClientInv DEF Client
<1>4. CASE UNCHANGED vars
  <2>1. UNCHANGED <<alive, main, clientSocketTemp, clientNumber, words,
                    mutexOwned, threads, openFiles, conn, backlog, inbox,
                    hangup, reply>>
    BY <1>4 DEF vars
  <2>2. Accepted' = Accepted
    BY <2>1 DEF Accepted
  <2> QED BY <2>1, <2>2 DEF Inv, TypeOK, QueueInv, CountInv, Holding, HandoverInv, Sockets,
             HandedOver, InHand, Argument, SocketWord, AnswerInv,
             AnswersOwnRequest, WorkerHasRequest
<1> QED BY <1>1, <1>2, <1>3, <1>4 DEF Next

\* The invariant holds in every state the server reaches.
THEOREM Invariance == Spec => []Inv
<1>1. Init => Inv
  BY InitInv
<1>2. Inv /\ [Next]_vars => Inv'
  BY NextInv
<1> QED BY <1>1, <1>2, PTL DEF Spec

\* The members of ServerSocket, the threads and the connections have their types
\* in every reachable state.
THEOREM TypeCorrect == Spec => []TypeOK
<1>1. Inv => TypeOK
  BY DEF Inv
<1> QED BY <1>1, Invariance, PTL

\* The accept loop gives every connection one thread of its own, in whatever
\* order clients connect and threads run.
THEOREM OneWorker == Spec => []OneWorkerPerConnection
<1>1. Inv => OneWorkerPerConnection
  BY DEF Inv, HandoverInv, HandedOver, Sockets, OneWorkerPerConnection
<1> QED BY <1>1, Invariance, PTL

\* A worker answers its own client, and what that client asked when its request
\* arrived in one piece.
THEOREM OwnAnswers == Spec => []AnswersOwnRequest
<1>1. Inv => AnswersOwnRequest
  BY DEF Inv, AnswerInv
<1> QED BY <1>1, Invariance, PTL

-----------------------------------------------------------------------------
(* With a slot for every client.                                           *)

\* hMutex is the mutex, and the main thread owns it exactly in the section that
\* it protects.
HandleInv == /\ main # "create" => words[MutexWord] = MutexHandle
             /\ mutexOwned <=> main \in {"store", "spawn", "unlock"}

SlotInv == HandleInv /\ MembersIntact

\* Where the members are: no index of a slot leaves its array.
LEMMA WordsApart ==
    ASSUME Cardinality(Clients) <= Slots, Inv, Holding
    PROVE  /\ clientNumber \in Nat /\ clientNumber < Slots
           /\ SocketWord(clientNumber) \in Words
           /\ ThreadWord(clientNumber) \in Words
           /\ ThreadIDWord(clientNumber) \in Words
           /\ MutexWord \notin {SocketWord(clientNumber), ThreadWord(clientNumber),
                                ThreadIDWord(clientNumber)}
<1>1. clientNumber \in Nat /\ clientNumber + 1 <= Cardinality(Clients)
  BY NumberBound DEF Inv, TypeOK
<1>2. /\ Slots \in Nat /\ Cardinality(Clients) \in Nat
      /\ Memory \in Nat /\ 3 * Slots + 2 <= Memory
  BY ServerAssumption, AcceptedFinite
<1>3. clientNumber < Slots
  BY <1>1, <1>2
<1> QED BY <1>1, <1>2, <1>3 DEF SocketWord, ThreadWord, ThreadIDWord, MutexWord, Words

\* The threads are numbered like the connections, below the number in hand.
LEMMA ThreadNumbers ==
    ASSUME Cardinality(Clients) <= Slots, Inv, NEW i \in DOMAIN threads
    PROVE  /\ i \in Nat /\ 1 <= i /\ i <= Slots
           /\ main \in {"lock", "store", "spawn"} => i <= clientNumber
<1>1. /\ TypeOK /\ CountInv /\ HandoverInv
  BY DEF Inv
<1>2. threads \in Seq(Threads) /\ DOMAIN threads = 1 .. Len(threads)
  BY <1>1, LenProperties DEF TypeOK
<1>3. i \in Nat /\ 1 <= i /\ i <= Len(threads) /\ Len(threads) \in Nat
  BY <1>2, LenProperties
<1>4. Len(threads) = clientNumber + InHand /\ clientNumber \in Nat
  BY <1>1 DEF HandoverInv, Holding, TypeOK
<1>5. /\ clientNumber <= Cardinality(Clients)
      /\ Holding => clientNumber + 1 <= Cardinality(Clients)
  BY <1>1, NumberBound
<1>6. Slots \in Nat /\ Cardinality(Clients) \in Nat
  BY ServerAssumption, AcceptedFinite
<1> QED BY <1>3, <1>4, <1>5, <1>6 DEF InHand, Holding

\* The accept loop writes only into the slot of the connection in hand and into
\* the address length.
LEMMA NextSlotInv ==
    ASSUME Cardinality(Clients) <= Slots, Inv, SlotInv, [Next]_vars
    PROVE  SlotInv'
<1>1. /\ TypeOK /\ HandoverInv /\ HandleInv /\ MembersIntact
  BY DEF Inv, SlotInv
<1>2. /\ DOMAIN words = Words /\ Slots \in Nat /\ Slots # 0
      /\ Memory \in Nat /\ 3 * Slots + 2 <= Memory
  BY <1>1, ServerAssumption DEF TypeOK
<1>3. \A i \in DOMAIN threads :
         /\ i \in Nat /\ 1 <= i /\ i <= Slots
         /\ main \in {"lock", "store", "spawn"} => i <= clientNumber
  BY ThreadNumbers
<1>4. ASSUME UNCHANGED <<words, mutexOwned, main, threads>>
      PROVE  SlotInv'
  BY <1>1, <1>4 DEF SlotInv, HandleInv, MembersIntact
<1>5. CASE StartFails \/ AcceptFails \/ SpawnFails
  BY <1>4, <1>5 DEF StartFails, AcceptFails, SpawnFails, ErrorHandling, server
<1>6. CASE Accept
  <2>1. /\ words' = [words EXCEPT ![LengthWord] = <<"length", 0>>]
        /\ main = "accept" /\ main' = "lock" /\ UNCHANGED <<threads, mutexOwned>>
    BY <1>6 DEF Accept, At
  <2>2. \A w \in Words : w # Slots => words'[w] = words[w]
    BY <1>2, <2>1 DEF LengthWord
  <2>3. MutexWord \in Words /\ MutexWord # Slots
    BY <1>2 DEF MutexWord, Words
  <2>4. HandleInv'
    BY <1>1, <2>1, <2>2, <2>3 DEF HandleInv
  <2>5. ASSUME NEW i \in DOMAIN threads
        PROVE  \A w \in {SocketWord(i - 1), ThreadWord(i - 1), ThreadIDWord(i - 1)} :
                  w \in Words /\ w # Slots
    BY <1>2, <1>3 DEF SocketWord, ThreadWord, ThreadIDWord, MutexWord, Words
  <2> QED BY <1>1, <2>1, <2>2, <2>4, <2>5 DEF SlotInv, MembersIntact
<1>7. CASE Lock
  <2>1. main = "lock" /\ IsMutex /\ UNCHANGED <<words, threads>>
    BY <1>1, <1>7 DEF Lock, HandleInv, IsMutex
  <2>2. main' = "store" /\ mutexOwned'
    BY <1>7, <2>1 DEF Lock
  <2> QED BY <1>1, <2>1, <2>2 DEF SlotInv, HandleInv, MembersIntact
<1>8. CASE Store
  <2>1. /\ words' = [words EXCEPT ![SocketWord(clientNumber)] = clientSocketTemp]
        /\ main = "store" /\ main' = "spawn" /\ UNCHANGED <<threads, mutexOwned>>
    BY <1>8 DEF Store, At
  <2>2. clientNumber \in Nat /\ clientNumber < Slots
    BY <2>1, WordsApart DEF Holding
  <2>3. \A w \in Words : w # clientNumber => words'[w] = words[w]
    BY <1>2, <2>1 DEF SocketWord
  <2>4. MutexWord \in Words /\ MutexWord # clientNumber
    BY <1>2, <2>2 DEF MutexWord, Words
  <2>5. HandleInv'
    BY <1>1, <2>1, <2>3, <2>4 DEF HandleInv
  <2>6. ASSUME NEW i \in DOMAIN threads
        PROVE  \A w \in {SocketWord(i - 1), ThreadWord(i - 1), ThreadIDWord(i - 1)} :
                  w \in Words /\ w # clientNumber
    BY <1>2, <1>3, <2>1, <2>2 DEF SocketWord, ThreadWord, ThreadIDWord, MutexWord, Words
  <2> QED BY <1>1, <2>1, <2>3, <2>5, <2>6 DEF SlotInv, MembersIntact
<1>9. CASE Spawn
  <2> DEFINE n  == clientNumber
             sw == ThreadWord(n)
             iw == ThreadIDWord(n)
  <2>1. /\ words' = [words EXCEPT ![iw] = <<"id", n>>, ![sw] = <<"thread", n>>]
        /\ threads' = Append(threads, [socket |-> Argument, pc |-> "recv",
                                       request |-> None])
        /\ main = "spawn" /\ main' = "unlock" /\ UNCHANGED mutexOwned
    BY <1>9 DEF Spawn, At
  <2>2. n \in Nat /\ n < Slots /\ sw \in Words /\ iw \in Words /\ n \in Words
    BY <2>1, WordsApart DEF SocketWord, Holding
  <2>3. sw = Slots + 1 + n /\ iw = 2 * Slots + 1 + n
    BY DEF ThreadWord, ThreadIDWord
  <2> HIDE DEF sw, iw
  <2>4. /\ words'[sw] = <<"thread", n>> /\ words'[iw] = <<"id", n>>
        /\ \A w \in Words : w # sw /\ w # iw => words'[w] = words[w]
    BY <1>2, <2>1, <2>2, <2>3
  <2>5. HandleInv'
    <3>1. MutexWord \in Words /\ MutexWord # sw /\ MutexWord # iw
      BY <1>2, <2>2, <2>3 DEF MutexWord, Words
    <3> QED BY <1>1, <2>1, <2>4, <3>1 DEF HandleInv
  <2>6. threads \in Seq(Threads) /\ DOMAIN threads = 1 .. Len(threads) /\ Len(threads) = n
    BY <1>1, <2>1, LenProperties DEF TypeOK, HandoverInv, InHand
  <2>7. /\ DOMAIN threads' = 1 .. n + 1
        /\ \A i \in 1 .. n : threads'[i] = threads[i]
        /\ threads'[n + 1].socket = Argument
    BY <2>1, <2>2, <2>6
  <2>8. ASSUME NEW i \in 1 .. n
        PROVE  /\ words'[SocketWord(i - 1)] = threads'[i].socket
               /\ words'[ThreadWord(i - 1)] = <<"thread", i - 1>>
               /\ words'[ThreadIDWord(i - 1)] = <<"id", i - 1>>
    <3>1. \A w \in {SocketWord(i - 1), ThreadWord(i - 1), ThreadIDWord(i - 1)} :
             w \in Words /\ w # sw /\ w # iw
      BY <1>2, <2>2, <2>3 DEF SocketWord, ThreadWord, ThreadIDWord, MutexWord, Words
    <3> QED BY <1>1, <2>4, <2>6, <2>7, <3>1 DEF MembersIntact
  <2>9. /\ words'[SocketWord(n)] = threads'[n + 1].socket
        /\ words'[ThreadWord(n)] = <<"thread", n>>
        /\ words'[ThreadIDWord(n)] = <<"id", n>>
    <3>1. n # sw /\ n # iw
      BY <1>2, <2>2, <2>3
    <3> QED BY <2>2, <2>4, <2>7, <3>1 DEF SocketWord, Argument, sw, iw
  <2>10. ASSUME NEW i \in DOMAIN threads'
         PROVE  /\ words'[SocketWord(i - 1)] = threads'[i].socket
                /\ words'[ThreadWord(i - 1)] = <<"thread", i - 1>>
                /\ words'[ThreadIDWord(i - 1)] = <<"id", i - 1>>
    <3>1. i \in 1 .. n \/ i = n + 1
      BY <2>2, <2>7
    <3>2. (n + 1) - 1 = n
      BY <2>2
    <3> QED BY <2>8, <2>9, <3>1, <3>2
  <2> QED BY <2>5, <2>10 DEF SlotInv, MembersIntact
<1>10. CASE Unlock
  <2>1. main = "unlock" /\ main' = "count" /\ UNCHANGED <<words, threads>>
    BY <1>10 DEF Unlock, At
  <2>2. ~mutexOwned'
    BY <1>1, <1>10, <2>1 DEF Unlock, HandleInv, IsMutex
  <2> QED BY <1>1, <2>1, <2>2 DEF SlotInv, HandleInv, MembersIntact
<1>11. CASE Count
  BY <1>1, <1>11 DEF Count, At, SlotInv, HandleInv, MembersIntact
<1>12. ASSUME NEW i \in DOMAIN threads, Worker(i)
       PROVE  SlotInv'
  <2>1. /\ UNCHANGED server /\ DOMAIN threads' = DOMAIN threads
        /\ \A k \in DOMAIN threads : threads'[k].socket = threads[k].socket
    BY <1>1, <1>12, WorkerStep
  <2> QED BY <1>1, <2>1 DEF server, SlotInv, HandleInv, MembersIntact
<1>15. CASE Create
  <2>1. /\ words' = [words EXCEPT ![MutexWord] = MutexHandle]
        /\ main = "create" /\ main' = "bind" /\ UNCHANGED <<threads, mutexOwned>>
    BY <1>15 DEF Create, At
  <2>2. /\ MutexWord \in Words
        /\ \A w \in Words : w # MutexWord => words'[w] = words[w]
    BY <1>2, <2>1 DEF MutexWord, Words
  <2>3. HandleInv'
    BY <1>1, <1>2, <2>1, <2>2 DEF HandleInv
  <2>4. ASSUME NEW i \in DOMAIN threads
        PROVE  \A w \in {SocketWord(i - 1), ThreadWord(i - 1), ThreadIDWord(i - 1)} :
                  w \in Words /\ w # MutexWord
    BY <1>2, <1>3 DEF SocketWord, ThreadWord, ThreadIDWord, MutexWord, Words
  <2> QED BY <1>1, <2>1, <2>2, <2>3, <2>4 DEF SlotInv, MembersIntact
<1>16. CASE Binding \/ Listen
  BY <1>1, <1>16 DEF Binding, Listen, At, SlotInv, HandleInv, MembersIntact
<1>13. CASE \E c \in Clients : Client(c)
  BY <1>4, <1>13 DEF Client, Connect, SendRequest, HangUp, server
<1>14. CASE UNCHANGED vars
  BY <1>4, <1>14 DEF vars
<1> QED BY <1>5, <1>6, <1>7, <1>8, <1>9, <1>10, <1>11, <1>12, <1>13, <1>14, <1>15, <1>16
        DEF Next, MainStep

\* With a slot for every client the members stay what they are meant to be.
LEMMA SlotInvariance ==
    ASSUME Cardinality(Clients) <= Slots
    PROVE  Spec => []SlotInv
<1>1. Init => SlotInv
  <2> SUFFICES ASSUME Init PROVE SlotInv
    OBVIOUS
  <2>2. ~mutexOwned /\ main = "create"
    BY DEF Init
  <2>3. DOMAIN threads = {}
    BY DEF Init
  <2> QED BY <2>2, <2>3 DEF SlotInv, HandleInv, MembersIntact
<1>2. Inv /\ SlotInv /\ [Next]_vars => SlotInv'
  BY NextSlotInv
<1> QED BY <1>1, <1>2, Invariance, PTL DEF Spec

\* The mutex is free whenever the main thread is outside its section, as long as
\* there is a slot for every client.
THEOREM MutexFree ==
    ASSUME Cardinality(Clients) <= Slots
    PROVE  Spec => []MutexReleased
<1>1. SlotInv => MutexReleased
  BY DEF SlotInv, HandleInv, MutexReleased
<1> QED BY <1>1, SlotInvariance, PTL

\* The three arrays describe the threads, as long as there is a slot for every
\* client.
THEOREM ArraysDescribeThreads ==
    ASSUME Cardinality(Clients) <= Slots
    PROVE  Spec => []MembersIntact
<1>1. SlotInv => MembersIntact
  BY DEF SlotInv
<1> QED BY <1>1, SlotInvariance, PTL


-----------------------------------------------------------------------------
(* What ends the process.                                                  *)

\* A request without a number comes from a client that reset, closed early or
\* sent it in pieces.
LEMMA NoNumberIsFault ==
    ASSUME Inv, NEW i \in DOMAIN threads, Recv(i), ~alive'
    PROVE  Faulty(threads[i].socket)
<1> DEFINE c == threads[i].socket
<1>1. /\ TypeOK /\ HandoverInv
  BY DEF Inv
<1>2. c \in Clients
  BY <1>1, ThreadType
<1>3. conn[c] = "accepted"
  <2>1. c \in Sockets
    BY DEF Sockets
  <2> QED BY <1>1, <2>1 DEF HandoverInv, HandedOver, Accepted
<1>4. inbox[c] # "nothing" \/ hangup[c] # "no"
  BY DEF Recv
<1>5. PICK got \in Received(c) \cup (IF hangup[c] = "reset" THEN Nothing(c) ELSE {}) :
          IF got.num = NoNumber
          THEN alive' = FALSE /\ UNCHANGED threads
          ELSE /\ threads' = [threads EXCEPT ![i].pc = "open", ![i].request = got]
               /\ UNCHANGED alive
  BY DEF Recv
<1>6. got.num = NoNumber
  BY <1>4, <1>5 DEF Recv
<1>7. /\ inbox[c] \in {"nothing", "part", "whole", "both"}
      /\ hangup[c] \in {"no", "close", "reset"}
  BY <1>1, <1>2 DEF TypeOK
<1>8. CASE hangup[c] = "reset"
  BY <1>2, <1>3, <1>8 DEF Faulty
<1>9. CASE hangup[c] # "reset"
  <2>1. got \in Received(c)
    BY <1>5, <1>9
  <2>2. inbox[c] \notin {"whole", "both"}
    <3>1. Request[c].num # NoNumber
      BY <1>2, ServerAssumption
    <3> QED BY <1>6, <2>1, <3>1 DEF Received
  <2>3. inbox[c] = "part" \/ (inbox[c] = "nothing" /\ hangup[c] = "close")
    BY <1>4, <1>7, <1>9, <2>2
  <2> QED BY <1>2, <1>3, <2>3 DEF Faulty
<1> QED BY <1>8, <1>9

\* A file that cannot be opened is not there, or the streams are used up.
LEMMA OpenFailureIsFault ==
    ASSUME Inv, NEW i \in DOMAIN threads, Open(i), ~alive'
    PROVE  \/ openFiles = MaxFiles /\ threads[i].pc = "open"
           \/ Faulty(threads[i].socket)
<1> DEFINE c == threads[i].socket
<1>1. /\ TypeOK /\ HandoverInv /\ AnswerInv
  BY DEF Inv
<1>2. c \in Clients
  BY <1>1, ThreadType
<1>3. conn[c] = "accepted"
  <2>1. c \in Sockets
    BY DEF Sockets
  <2> QED BY <1>1, <2>1 DEF HandoverInv, HandedOver, Accepted
<1>4. alive /\ threads[i].pc = "open" /\ ~CanOpen(threads[i].request.file)
  BY DEF Open
<1>5. threads[i].request.file = Request[c].file
  BY <1>1, <1>4 DEF AnswerInv, WorkerHasRequest
<1>6. openFiles = MaxFiles \/ Request[c].file \notin Files
  BY <1>1, <1>4, <1>5, ServerAssumption DEF CanOpen, TypeOK
<1> QED BY <1>3, <1>4, <1>6 DEF Faulty

\* No step but a fault ends the process, and nothing happens after it.
LEMMA FaultStep ==
    ASSUME Inv, OnlyFaultsEndProcess, [Next]_vars
    PROVE  OnlyFaultsEndProcess'
<1>1. TypeOK /\ QueueInv
  BY DEF Inv
<1>2. CASE UNCHANGED vars
  BY <1>2 DEF vars, OnlyFaultsEndProcess, Starting, NoThread, Running, Faulty,
              ThreadIDWord, Words
<1>3. CASE alive'
  BY <1>3 DEF OnlyFaultsEndProcess
<1>4. ASSUME ~alive', StartFails \/ AcceptFails \/ SpawnFails
      PROVE  OnlyFaultsEndProcess'
  <2>1. UNCHANGED <<main, clientNumber, threads, openFiles, conn, inbox, hangup>>
    BY <1>4 DEF StartFails, AcceptFails, SpawnFails, ErrorHandling, server, clients
  <2>2. CASE StartFails
    BY <2>1, <2>2 DEF StartFails, OnlyFaultsEndProcess, Starting
  <2>3. CASE AcceptFails
    <3>1. backlog # <<>> /\ hangup[Head(backlog)] = "reset"
      BY <2>3 DEF AcceptFails
    <3>2. PICK c \in Clients : c = Head(backlog) /\ c = backlog[1] /\ 1 \in DOMAIN backlog
      <4>1. /\ backlog \in Seq(Clients) /\ DOMAIN backlog = 1 .. Len(backlog)
            /\ Len(backlog) \in Nat /\ Len(backlog) # 0
        BY <1>1, <3>1, LenProperties, EmptySeq DEF TypeOK
      <4> QED BY <3>1, <4>1, HeadTailProperties
    <3>3. conn[c] = "queued"
      BY <1>1, <3>2 DEF QueueInv
    <3>4. Faulty(c)'
      BY <2>1, <3>1, <3>2, <3>3 DEF Faulty
    <3> QED BY <3>4 DEF OnlyFaultsEndProcess
  <2>4. CASE SpawnFails
    <3>1. main' = "spawn" /\ NoThread'
      BY <2>1, <2>4 DEF SpawnFails, NoThread, Running, ThreadIDWord, Words
    <3> QED BY <3>1 DEF OnlyFaultsEndProcess
  <2> QED BY <1>4, <2>2, <2>3, <2>4
<1>5. ASSUME ~alive', NEW i \in DOMAIN threads, Worker(i)
      PROVE  OnlyFaultsEndProcess'
  <2>1. threads[i].socket \in Clients
    BY <1>1, ThreadType
  <2>2. CASE Recv(i)
    <3>1. UNCHANGED <<conn, inbox, hangup>>
      BY <2>2 DEF Recv, clients
    <3>2. Faulty(threads[i].socket)
      BY <1>5, <2>2, NoNumberIsFault
    <3>3. \E c \in Clients : Faulty(c)'
      BY <2>1, <3>1, <3>2 DEF Faulty
    <3> QED BY <3>3 DEF OnlyFaultsEndProcess
  <2>3. CASE Open(i)
    <3>1. UNCHANGED <<threads, openFiles, conn, inbox, hangup>>
      BY <1>5, <2>3 DEF Open, clients
    <3>2. \/ openFiles = MaxFiles /\ threads[i].pc = "open"
          \/ Faulty(threads[i].socket)
      BY <1>5, <2>3, OpenFailureIsFault
    <3>3. \/ openFiles' = MaxFiles /\ \E k \in DOMAIN threads' : threads'[k].pc = "open"
          \/ \E c \in Clients : Faulty(c)'
      BY <2>1, <3>1, <3>2 DEF Faulty
    <3> QED BY <3>3 DEF OnlyFaultsEndProcess
  <2>4. CASE Send(i)
    BY <1>5, <2>4 DEF Send
  <2> QED BY <1>5, <2>2, <2>3, <2>4 DEF Worker
<1>6. ASSUME ~alive', NEW c \in Clients, Client(c)
      PROVE  FALSE
  BY <1>6 DEF Client, Connect, SendRequest, HangUp
<1>7. ASSUME ~alive', MainStep
      PROVE  StartFails \/ AcceptFails \/ SpawnFails
  BY <1>7 DEF MainStep, Create, Binding, Listen, Accept, Lock, Store, Spawn,
              Unlock, Count, At
<1> QED BY <1>2, <1>3, <1>4, <1>5, <1>6, <1>7 DEF Next

\* The process ends only at its start, through a client that misbehaves or asks
\* for a file that is not there, or when streams, threads or the memory behind
\* the slots run out: for every finite set of clients, however many there are.
THEOREM FaultsEndProcess == Spec => []OnlyFaultsEndProcess
<1>1. Init => OnlyFaultsEndProcess
  BY DEF Init, OnlyFaultsEndProcess
<1>2. Inv /\ OnlyFaultsEndProcess /\ [Next]_vars => OnlyFaultsEndProcess'
  BY FaultStep
<1> QED BY <1>1, <1>2, Invariance, PTL DEF Spec

-----------------------------------------------------------------------------
(* The server is a service.                                                *)

\* An answered client has a thread that is done.
AnsweredInv == \A c \in Clients : reply[c] # None =>
                   \E i \in DOMAIN threads :
                       threads[i].socket = c /\ threads[i].pc = "done"

\* A worker that answers is done, and stays so.
LEMMA WorkerAnswers ==
    ASSUME Inv, AnsweredInv, NEW i \in DOMAIN threads, Worker(i)
    PROVE  AnsweredInv'
<1>1. TypeOK
  BY DEF Inv
<1>2. /\ DOMAIN threads' = DOMAIN threads
      /\ \A k \in DOMAIN threads : k # i => threads'[k] = threads[k]
      /\ \A k \in DOMAIN threads : threads'[k].socket = threads[k].socket
  BY <1>1, WorkerStep
<1>3. CASE Recv(i) \/ Open(i)
  <2>1. threads[i].pc # "done" /\ reply' = reply
    BY <1>3 DEF Recv, Open
  <2> QED BY <1>2, <2>1 DEF AnsweredInv
<1>4. CASE Send(i)
  <2>1. threads[i] \in Threads /\ threads \in Seq(Threads)
    BY <1>1, ThreadType DEF TypeOK
  <2>2. threads'[i].pc = "done"
    BY <1>4, <2>1 DEF Send, Threads
  <2>3. ASSUME NEW c \in Clients, reply'[c] # None
        PROVE  \E k \in DOMAIN threads' :
                   threads'[k].socket = c /\ threads'[k].pc = "done"
    <3>1. CASE c = threads[i].socket
      BY <1>2, <2>2, <3>1
    <3>2. CASE c # threads[i].socket
      <4>1. reply[c] # None
        BY <1>1, <1>4, <2>3, <3>2 DEF Send, TypeOK
      <4>2. PICK k \in DOMAIN threads : threads[k].socket = c /\ threads[k].pc = "done"
        BY <4>1 DEF AnsweredInv
      <4> QED BY <1>2, <2>2, <4>2
    <3> QED BY <3>1, <3>2
  <2> QED BY <2>3 DEF AnsweredInv
<1> QED BY <1>3, <1>4 DEF Worker

\* A new thread changes none of the others; the other steps answer nobody.
LEMMA AnsweredStep ==
    ASSUME Inv, AnsweredInv, [Next]_vars
    PROVE  AnsweredInv'
<1>1. TypeOK
  BY DEF Inv
<1>2. ASSUME UNCHANGED <<threads, reply>>
      PROVE  AnsweredInv'
  BY <1>2 DEF AnsweredInv
<1>3. CASE Spawn
  <2>1. /\ \E r : threads' = Append(threads, [socket |-> Argument, pc |-> "recv",
                                             request |-> r])
        /\ UNCHANGED reply
    BY <1>3 DEF Spawn
  <2>2. threads \in Seq(Threads) /\ DOMAIN threads = 1 .. Len(threads) /\ Len(threads) \in Nat
    BY <1>1, LenProperties DEF TypeOK
  <2>3. /\ DOMAIN threads \subseteq DOMAIN threads'
        /\ \A k \in DOMAIN threads : threads'[k] = threads[k]
    BY <2>1, <2>2
  <2> QED BY <2>1, <2>3 DEF AnsweredInv
<1>4. CASE StartFails \/ AcceptFails \/ SpawnFails
  BY <1>2, <1>4 DEF StartFails, AcceptFails, SpawnFails, ErrorHandling
<1>5. CASE Create \/ Binding \/ Listen \/ Accept \/ Lock \/ Store \/ Unlock \/ Count
  BY <1>2, <1>5 DEF Create, Binding, Listen, Accept, Lock, Store, Unlock, Count
<1>6. CASE \E c \in Clients : Client(c)
  BY <1>2, <1>6 DEF Client, Connect, SendRequest, HangUp
<1>7. CASE UNCHANGED vars
  BY <1>2, <1>7 DEF vars
<1> QED BY <1>3, <1>4, <1>5, <1>6, <1>7, WorkerAnswers DEF Next, MainStep

\* A worker past recv has what its client's request can be cut to.
PieceInv == \A i \in DOMAIN threads :
    threads[i].pc # "recv" => threads[i].request \in InPieces[threads[i].socket]

\* Only recv brings a request.
LEMMA PieceStep ==
    ASSUME Inv, PieceInv, [Next]_vars
    PROVE  PieceInv'
<1>1. TypeOK
  BY DEF Inv
<1>2. ASSUME NEW i \in DOMAIN threads, Worker(i)
      PROVE  PieceInv'
  <2> DEFINE c == threads[i].socket
  <2>1. /\ DOMAIN threads' = DOMAIN threads
        /\ \A k \in DOMAIN threads : k # i => threads'[k] = threads[k]
        /\ \A k \in DOMAIN threads : threads'[k].socket = threads[k].socket
    BY <1>1, <1>2, WorkerStep
  <2>2. threads[i] \in Threads /\ c \in Clients
    BY <1>1, ThreadType
  <2>3. threads \in Seq(Threads) /\ i \in DOMAIN threads
    BY <1>1 DEF TypeOK
  <2>4. CASE Recv(i)
    <3>1. PICK got \in Received(c) \cup Nothing(c) :
              IF got.num = NoNumber
              THEN alive' = FALSE /\ UNCHANGED threads
              ELSE /\ threads' = [threads EXCEPT ![i].pc = "open", ![i].request = got]
                   /\ UNCHANGED alive
      BY <2>4 DEF Recv
    <3>2. got \in InPieces[c]
      <4>1. inbox[c] \in {"nothing", "part", "whole", "both"}
        BY <1>1, <2>2 DEF TypeOK
      <4>2. Nothing(c) \subseteq Cuts(Request[c])
        BY DEF Nothing, Cuts
      <4> QED BY <2>2, <3>1, <4>1, <4>2 DEF Received, InPieces
    <3>3. CASE got.num = NoNumber
      BY <3>1, <3>3 DEF PieceInv
    <3>4. CASE got.num # NoNumber
      <4>1. threads' = [threads EXCEPT ![i] =
                           [threads[i] EXCEPT !.pc = "open", !.request = got]]
        BY <3>1, <3>4
      <4>2. threads'[i] = [threads[i] EXCEPT !.pc = "open", !.request = got]
        BY <2>3, <4>1
      <4>3. threads'[i].request = got
        BY <2>2, <4>2 DEF Threads
      <4> QED BY <2>1, <3>2, <4>3 DEF PieceInv
    <3> QED BY <3>3, <3>4
  <2>5. CASE Open(i) \/ Send(i)
    <3>1. threads[i].pc # "recv" /\ threads'[i].request = threads[i].request
      BY <2>2, <2>3, <2>5 DEF Open, Send, Threads
    <3> QED BY <2>1, <3>1 DEF PieceInv
  <2> QED BY <1>2, <2>4, <2>5 DEF Worker
<1>3. CASE Spawn
  <2>1. threads' = Append(threads, [socket |-> Argument, pc |-> "recv",
                                    request |-> None])
    BY <1>3 DEF Spawn
  <2>2. threads \in Seq(Threads) /\ DOMAIN threads = 1 .. Len(threads) /\ Len(threads) \in Nat
    BY <1>1, LenProperties DEF TypeOK
  <2>3. /\ DOMAIN threads' = DOMAIN threads \cup {Len(threads) + 1}
        /\ \A k \in DOMAIN threads : threads'[k] = threads[k]
        /\ threads'[Len(threads) + 1].pc = "recv"
    BY <2>1, <2>2
  <2> QED BY <2>3 DEF PieceInv
<1>4. CASE UNCHANGED threads
  BY <1>4 DEF PieceInv
<1>5. CASE \/ StartFails \/ AcceptFails \/ SpawnFails \/ Create \/ Binding \/ Listen
           \/ Accept \/ Lock \/ Store \/ Unlock \/ Count
  BY <1>4, <1>5 DEF StartFails, AcceptFails, SpawnFails, ErrorHandling, Create, Binding,
                    Listen, Accept, Lock, Store, Unlock, Count
<1>6. CASE \E c \in Clients : Client(c)
  BY <1>4, <1>6 DEF Client, Connect, SendRequest, HangUp
<1>7. CASE UNCHANGED vars
  BY <1>4, <1>7 DEF vars
<1> QED BY <1>2, <1>3, <1>5, <1>6, <1>7 DEF Next, MainStep

\* A step that leaves requests, lines and replies alone is none of the service,
\* or ends it.
LEMMA InvisibleStep ==
    ASSUME UNCHANGED <<inbox, hangup, reply>>, alive \/ UNCHANGED alive,
           alive \in BOOLEAN, alive' \in BOOLEAN
    PROVE  [Service!Next]_(Service!vars)
<1>1. UNCHANGED <<HowAsked, OnTheLine>>
  BY DEF HowAsked, OnTheLine
<1>2. CASE alive' = alive
  BY <1>1, <1>2 DEF Service!vars
<1>3. CASE alive' # alive
  <2>1. Service!GoDown
    BY <1>1, <1>3 DEF Service!GoDown
  <2> QED BY <2>1 DEF Service!Next
<1> QED BY <1>2, <1>3

\* Sending is answering: once, a client that asked, with what it may be answered.
LEMMA SendStep ==
    ASSUME Inv, AnsweredInv, PieceInv, NEW i \in DOMAIN threads, Send(i)
    PROVE  [Service!Next]_(Service!vars)
<1> DEFINE c == threads[i].socket
<1>1. TypeOK /\ HandoverInv /\ AnswerInv
  BY DEF Inv
<1>2. c \in Clients /\ threads[i].pc = "send" /\ alive /\ alive' = alive
      /\ UNCHANGED <<inbox, hangup>>
  BY <1>1, ThreadType DEF Send, clients
<1>3. CASE hangup[c] # "no"
  BY <1>1, <1>2, <1>3, InvisibleStep DEF Send, TypeOK
<1>4. CASE hangup[c] = "no"
  <2>1. reply' = [reply EXCEPT ![c] = threads[i].request]
    BY <1>4 DEF Send
  <2>2. reply[c] = None
    <3> SUFFICES ASSUME reply[c] # None PROVE FALSE
      OBVIOUS
    <3>1. PICK k \in DOMAIN threads : threads[k].socket = c /\ threads[k].pc = "done"
      BY <1>2 DEF AnsweredInv
    <3> QED BY <1>1, <1>2, <3>1 DEF HandoverInv
  <2>3. /\ inbox[c] # "nothing"
        /\ inbox[c] = "whole" => threads[i].request = Request[c]
        /\ threads[i].request \in InPieces[c]
    BY <1>1, <1>2 DEF AnswerInv, WorkerHasRequest, PieceInv
  <2>4. /\ HowAsked[c] # "no" /\ OnTheLine[c]
        /\ HowAsked[c] = "whole" => inbox[c] = "whole"
        /\ UNCHANGED <<HowAsked, OnTheLine>>
    BY <1>2, <1>4, <2>3 DEF HowAsked, OnTheLine
  <2>5. threads[i].request \in Service!Allowed(c)
    BY <2>3, <2>4 DEF Service!Allowed
  <2>6. Service!Answer(c)
    BY <1>2, <2>1, <2>2, <2>4, <2>5 DEF Service!Answer
  <2> QED BY <1>2, <2>6 DEF Service!Next
<1> QED BY <1>3, <1>4

\* Every step of the server is one of the service, or nothing a client can see.
LEMMA ServiceStep ==
    ASSUME Inv, Inv', AnsweredInv, PieceInv, [Next]_vars
    PROVE  [Service!Next]_(Service!vars)
<1>1. TypeOK /\ alive \in BOOLEAN /\ alive' \in BOOLEAN
  BY DEF Inv, TypeOK
<1>2. ASSUME NEW i \in DOMAIN threads, Worker(i)
      PROVE  [Service!Next]_(Service!vars)
  <2>1. CASE Recv(i) \/ Open(i)
    BY <1>1, <2>1, InvisibleStep DEF Recv, Open, clients
  <2> QED BY <1>2, <2>1, SendStep DEF Worker
<1>3. CASE MainStep
  BY <1>1, <1>3, InvisibleStep
     DEF MainStep, StartFails, AcceptFails, SpawnFails, ErrorHandling, Create, Binding,
         Listen, Accept, Lock, Store, Spawn, Unlock, Count, At, clients
<1>4. ASSUME NEW c \in Clients, Connect(c)
      PROVE  [Service!Next]_(Service!vars)
  BY <1>1, <1>4, InvisibleStep DEF Connect
<1>5. ASSUME NEW c \in Clients, SendRequest(c)
      PROVE  [Service!Next]_(Service!vars)
  <2>1. /\ alive /\ alive' = alive /\ hangup[c] = "no" /\ UNCHANGED <<hangup, reply>>
        /\ inbox \in [Clients -> {"nothing", "part", "whole", "both"}]
    BY <1>1, <1>5 DEF SendRequest, Connected, TypeOK
  <2>2. UNCHANGED OnTheLine /\ OnTheLine[c]
    BY <2>1 DEF OnTheLine
  <2>3. ASSUME NEW how \in {"whole", "part"}, inbox[c] = "nothing",
               inbox' = [inbox EXCEPT ![c] = how]
        PROVE  Service!Ask(c)
    <3>1. HowAsked[c] = "no"
      BY <2>3 DEF HowAsked
    <3>2. HowAsked' = [HowAsked EXCEPT ![c] = IF how = "whole" THEN "whole" ELSE "pieces"]
      BY <2>1, <2>3 DEF HowAsked
    <3> QED BY <2>1, <2>2, <3>1, <3>2 DEF Service!Ask
  <2>4. ASSUME inbox[c] = "part", inbox' = [inbox EXCEPT ![c] = "both"]
        PROVE  UNCHANGED HowAsked
    BY <2>1, <2>4 DEF HowAsked
  <2>5. CASE UNCHANGED HowAsked
    BY <2>1, <2>2, <2>5 DEF Service!vars
  <2> QED BY <1>5, <2>3, <2>4, <2>5 DEF SendRequest, Service!Next
<1>6. ASSUME NEW c \in Clients, NEW how \in {"close", "reset"}, HangUp(c, how)
      PROVE  [Service!Next]_(Service!vars)
  <2>1. /\ alive /\ alive' = alive /\ hangup[c] = "no" /\ UNCHANGED <<inbox, reply>>
        /\ hangup' = [hangup EXCEPT ![c] = how]
        /\ hangup \in [Clients -> {"no", "close", "reset"}]
    BY <1>1, <1>6 DEF HangUp, Connected, TypeOK
  <2>2. UNCHANGED HowAsked /\ OnTheLine[c]
    BY <2>1 DEF HowAsked, OnTheLine
  <2>3. OnTheLine' = [OnTheLine EXCEPT ![c] = FALSE]
    BY <2>1 DEF OnTheLine
  <2>4. Service!Leave(c)
    BY <2>1, <2>2, <2>3 DEF Service!Leave
  <2> QED BY <2>4 DEF Service!Next
<1>7. CASE UNCHANGED vars
  BY <1>1, <1>7, InvisibleStep DEF vars
<1> QED BY <1>2, <1>3, <1>4, <1>5, <1>6, <1>7 DEF Next, Client

\* The server implements the service, liveness aside: whatever its threads and
\* its clients do, a client that asks is answered at most once and with
\* something its request allows.
THEOREM StepsOfService == Spec => Service!Init /\ [][Service!Next]_(Service!vars)
<1>1. Init => Service!Init
  BY DEF Init, Service!Init, HowAsked, OnTheLine
<1>2. Init => PieceInv
  <2> SUFFICES ASSUME Init PROVE PieceInv
    OBVIOUS
  <2>1. DOMAIN threads = {}
    BY DEF Init
  <2> QED BY <2>1 DEF PieceInv
<1>3. Inv /\ PieceInv /\ [Next]_vars => PieceInv'
  BY PieceStep
<1>4. Init => AnsweredInv
  BY DEF Init, AnsweredInv
<1>5. Inv /\ AnsweredInv /\ [Next]_vars => AnsweredInv'
  BY AnsweredStep
<1>6. Inv /\ Inv' /\ AnsweredInv /\ PieceInv /\ [Next]_vars
          => [Service!Next]_(Service!vars)
  BY ServiceStep
<1> QED BY <1>1, <1>2, <1>3, <1>4, <1>5, <1>6, Invariance, PTL DEF Spec
=============================================================================
