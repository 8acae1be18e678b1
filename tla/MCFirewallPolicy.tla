-------------------------- MODULE MCFirewallPolicy --------------------------
(* Two clients, c1 and c2, in a network vpn that begins with v0; a server  *)
(* with two names, addresses and interfaces; a host of IPv6. The host is   *)
(* new, or has a policy of version 1, or the blocks of the old generator.  *)
EXTENDS FirewallPolicy, TLC

MCHosts == {"v0", "c1", "c2", "ip1", "ip2", "six", "here6"}

MCSpan == [h \in MCHosts |-> {h}] @@ [vpn |-> {"v0", "c1", "c2"}]

MCFirst == [h \in MCHosts |-> h] @@ [vpn |-> "v0"]

Ways == {"c1", "c2"} \X {"ip1", "ip2"} \cup {<<"c1", "c2">>, <<"six", "here6">>}

(* The forms ask for a port of what is forwarded only.                     *)
MCPackets ==
  {[chain |-> c[1], interface |-> i, source |-> w[1], destination |-> w[2], port |-> c[2]] :
     c \in {<<"input", Star>>, <<"forward", Star>>, <<"forward", 22>>},
     i \in {"tun1", "tun2"}, w \in Ways}

ServerA == [label |-> "A", ip |-> "ip1", interface |-> "tun1"]

MCServerForms == {ServerA, [ServerA EXCEPT !.ip = "ip2"],
                  [label |-> "B", ip |-> "ip1", interface |-> "tun2"]}

Form(direction, action, source, destination) ==
  [direction |-> direction, action |-> action, source |-> source,
   destination |-> destination, invert |-> FALSE, protocol |-> "any",
   ports |-> {}, interface |-> Star]

Isolation(source) == [Form("forward", "deny", source, "ip1") EXCEPT !.invert = TRUE]

Trusting == Form("input", "allow", "c1", Star)

MCRuleForms ==
  {Trusting, Isolation("c1"), Isolation("vpn"), Form("input", "deny", "vpn", Star),
   [Form("forward", "allow", Star, "c2") EXCEPT !.protocol = "tcp", !.ports = {22}],
   Form("input", "reject", "six", Star)}

MCLegacies ==
  {[server |-> ServerA,
    clients |-> <<[source |-> "c1", type |-> 1, until |-> 1],
                  [source |-> "v0", type |-> 0, until |-> 0],
                  [source |-> "c2", type |-> 2, until |-> 0]>>]}

Version1 ==
  [version |-> 1, server |-> ServerA,
   rules |-> <<Ban("c1", 0, TRUE, Star), Standard(Isolation("c2"), TRUE, Star),
               Standard(Trusting, TRUE, Star)>>]

MCStarts == {Config(<<>>, <<>>), Version1}

New == <<Line("rule"), Line("required"), Line("commit")>>

OldBlocks ==
  <<Block("openvpn", "A", <<Action("input", "tun1", "c1", Star, FALSE, "any", Star, "deny")>>),
    Line("comment"), Block("hard_sources", Star, <<Trust("c1")>>)>>

MCStartFiles ==
  {[f \in {4, 6} |-> New],
   [f \in {4, 6} |-> IF f = 6 THEN <<Line("commit")>>
                     ELSE <<Line("rule")>> \o OldBlocks \o <<Line("rule"), Line("commit")>>]}
=============================================================================
