----------------------------- MODULE MCCvCamera -----------------------------
(* Two clients; a header of two bytes and an image of two, so that both can *)
(* be cut.                                                                  *)
EXTENDS CvCamera, TLC

CONSTANTS c1, c2

MCSizesBefore == {0, 3}
ClientsAlike == Permutations(Clients)
=============================================================================
