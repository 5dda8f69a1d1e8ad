---------------------------- MODULE MCClientApp ----------------------------
(* An instance of ClientApp: a torrent whose two files lie in a folder in a *)
(* folder.                                                                  *)
EXTENDS ClientApp

MCPath == [f \in {1, 2} |-> <<"album", "disc", ToString(f)>>]
=============================================================================
