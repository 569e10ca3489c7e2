---------------------------- MODULE MCSessionHub ----------------------------
(* Small instances of SessionHub for TLC.                                  *)
EXTENDS SessionHub, TLC

\* Connections are interchangeable, and so are nodes.
HubSymmetry == Permutations(Conns) \cup Permutations(Nodes)
=============================================================================
