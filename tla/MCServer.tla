------------------------------ MODULE MCServer ------------------------------
(* Three clients: one may hang up or send in pieces, one asks for a file   *)
(* that is not there.                                                      *)
EXTENDS Server, TLC

CONSTANTS ann, bob, eve, film, trailer, missing

MCClients == {ann, bob, eve}
MCNames   == {film, trailer, missing}
MCFiles   == {film, trailer}
MCRequest == (ann :> [file |-> film, num |-> 12])
                @@ (bob :> [file |-> trailer, num |-> 34])
                @@ (eve :> [file |-> missing, num |-> 1])

MCUnruly == {bob}
=============================================================================
