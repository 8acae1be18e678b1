----------------------------- MODULE MCHubSync -----------------------------
(* One host, its menu and its hourly service, and three providers: one     *)
(* whose collector fails, one every schema has, one of a newer schema.     *)
EXTENDS HubSync

CONSTANTS h1, menu, service

MCHostOf == [p \in Procs |-> h1]

MCProviders == <<"bacula_fd", "disks", "firewall_rules">>

MCMinSchema == [k \in Keys |-> IF k = "firewall_rules" THEN 1 ELSE 0]
=============================================================================
