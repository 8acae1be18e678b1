------------------------------ MODULE MCNodeRed ------------------------------
(***************************************************************************)
(* One or two instances on two ports, and a Node.js one or more majors     *)
(* away from the LTS.                                                      *)
(***************************************************************************)
EXTENDS NodeRed, TLC
CONSTANTS u1, u2, p1, p2

MCUsers == {u1, u2}
MCPorts == {p1, p2}

MCHosts == {<<0, 0>>, <<1, 1>>, <<1, 2>>, <<2, 0>>, <<3, 2>>, <<3, 3>>, <<4, 3>>}

(* Nothing tells one user from another, or one port.                       *)
MCSymmetry == Permutations(MCUsers) \cup Permutations(MCPorts)
=============================================================================
