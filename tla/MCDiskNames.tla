--------------------------- MODULE MCDiskNames ---------------------------
(* Two hosts that carry one disk between them, each with its service, one  *)
(* with a menu; the clock of the host with the menu is behind or not.      *)
EXTENDS DiskNames, TLC

CONSTANTS h1, h2, menu1, service1, menu2, service2, d1

MCHostOf == menu1 :> h1 @@ service1 :> h1 @@ menu2 :> h2 @@ service2 :> h2

MCNames == {"", "backup"}

MCSkew == h1 :> 0 @@ h2 :> 1
(* All clocks agree. *)
MCNoSkew == h1 :> 0 @@ h2 :> 0
==========================================================================
