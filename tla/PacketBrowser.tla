--------------------------- MODULE PacketBrowser ---------------------------
(***************************************************************************)
(* What the interactive loop promises its user, without buffers, parsers   *)
(* or calls: a page of the file is shown, the user gives a command, the    *)
(* command decides which page is shown next, or ends the program.          *)
(***************************************************************************)
EXTENDS Integers

CONSTANTS Files,
          Last,     \* file -> the number of its last packet
          Pages,    \* file -> packet -> the pages it may be shown as
          NoPage,   \* the screen before the first page
          Numbers,  \* what may be given for the number of a packet
          Commands  \* "1", "2", "f", "c", "q", and others that do nothing

VARIABLES file,   \* the file that is viewed
          at,     \* the packet the user is at
          number, \* the number given after "f", 0 elsewhere
          page,   \* what is on the screen
          phase   \* what happens next: a command that is to be obeyed, or
                  \* "turn" (show the page), "ask", "find", "check", "left"

vars == <<file, at, number, page, phase>>

Init == file \in Files /\ at = 0 /\ number = 0 /\ page = NoPage /\ phase = "turn"

Show == /\ phase = "turn"
        /\ page' \in Pages[file][at]
        /\ phase' = "ask"
        /\ UNCHANGED <<file, at, number>>

Ask == phase = "ask" /\ phase' \in Commands /\ UNCHANGED <<file, at, number, page>>

\* The user gives the number of a packet, or whatever else.
Type == /\ phase = "f"
        /\ number' \in Numbers
        /\ phase' = "find"
        /\ UNCHANGED <<file, at, page>>

\* Go to a packet the file has; stay otherwise.
GoTo(p) == at' = IF p \in 0 .. Last[file] THEN p ELSE at

Obey(command, p) == /\ phase = command
                    /\ phase' = "turn"
                    /\ GoTo(p)
                    /\ number' = 0
                    /\ UNCHANGED <<file, page>>

Previous == Obey("1", at - 1)
Forward  == Obey("2", at + 1)
Find     == Obey("find", number - 1)  \* the packets are numbered from 1
Nothing  == \E command \in Commands \ {"1", "2", "f", "c", "q"} : Obey(command, at)

\* The check goes through the packets from the first on and ends the program
\* at the last; it does so in a file that has one.
StartCheck == /\ phase = "c"
              /\ phase' = "check"
              /\ at' = 0
              /\ UNCHANGED <<file, number, page>>
CheckNext  == /\ phase = "check"
              /\ at < Last[file]
              /\ at' = at + 1
              /\ UNCHANGED <<file, number, page, phase>>
Leave      == /\ phase = "q" \/ (phase = "check" /\ at = Last[file])
              /\ phase' = "left"
              /\ UNCHANGED <<file, at, number, page>>

Program == \/ Show \/ Previous \/ Forward \/ Find \/ Nothing
           \/ StartCheck \/ CheckNext \/ Leave

Next == Program \/ Ask \/ Type

\* The program does not keep its user waiting; the user may.
Spec == Init /\ [][Next]_vars /\ WF_vars(Program)
=============================================================================
