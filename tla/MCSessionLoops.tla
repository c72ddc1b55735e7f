--------------------------- MODULE MCSessionLoops ---------------------------
(* Instances of SessionLoops for TLC. *)
EXTENDS SessionLoops

MCClients == {{"Stop", "Write", "Close"}, {"Stop", "Read", "Close"},
              {"Stop", "Close", "RegisterAsap"}, {"Connect", "Read"}}
=============================================================================
