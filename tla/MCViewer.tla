------------------------------ MODULE MCViewer ------------------------------
(* A file whose three packets are a PAT, a PAT and a PMT (with private     *)
(* data), one of three packets and a short one without tables, an empty    *)
(* one, and one of a single packet.                                        *)
EXTENDS Viewer, TLC

CONSTANTS tables, media, empty, single

MCFiles   == {tables, media, single, empty}
MCSize    == (tables :> 9) @@ (media :> 10) @@ (single :> 3) @@ (empty :> 0)
MCNumbers == {0, 1, 3, 4, 5}

TableKinds ==
           <<[adaptation |-> "private", unit |-> "pat"],
             [adaptation |-> "none", unit |-> "pat"],
             [adaptation |-> "plain", unit |-> "pmt"],
             [adaptation |-> "none", unit |-> "none"]>>
MediaKinds ==
           <<[adaptation |-> "none", unit |-> "pes"],
             [adaptation |-> "private", unit |-> "cat"],
             [adaptation |-> "empty", unit |-> "none"],
             [adaptation |-> "none", unit |-> "none"]>>

MCKind == [f \in MCFiles |-> [p \in 0 .. 3 |->
              IF f = tables THEN TableKinds[p + 1] ELSE MediaKinds[p + 1]]]
=============================================================================
