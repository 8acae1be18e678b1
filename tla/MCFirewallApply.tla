-------------------------- MODULE MCFirewallApply --------------------------
(* One firewall, one menu, policies that change both files, one of *)
(* them, or none.                                                          *)
EXTENDS FirewallApply

CONSTANTS r1, r2

MCRules == {r1, r2}

MCConfigs == {[v4 |-> r2, v6 |-> r2], [v4 |-> r2, v6 |-> r1]}
=============================================================================
