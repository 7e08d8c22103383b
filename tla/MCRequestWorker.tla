-------------------------- MODULE MCRequestWorker --------------------------
(* Files of one packet, of two and a half, and one beyond the reach of     *)
(* fseek (LONG_MAX is 7, a packet has 3 bytes).                            *)
EXTENDS RequestWorker, TLC

CONSTANTS single, cut, long, missing

MCFiles   == {single, cut, long}
MCSize    == (single :> 3) @@ (cut :> 7) @@ (long :> 21)
MCNames   == MCFiles \cup {missing}
MCNumbers == -1 .. 8

\* Every pair of an adaptation field and a section occurs in some packet.
MCKind ==
    [f \in MCFiles |->
        [p \in 0 .. 6 |->
            CASE p % 4 = 0 -> [adaptation |-> "private", unit |-> "pat"]
              [] p % 4 = 1 -> [adaptation |-> "private", unit |-> "pmt"]
              [] p % 4 = 2 -> [adaptation |-> "empty", unit |-> "pes"]
              [] p % 4 = 3 -> [adaptation |-> "none", unit |-> "none"]]]
=============================================================================
