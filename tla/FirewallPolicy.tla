--------------------------- MODULE FirewallPolicy ---------------------------
(***************************************************************************)
(* The policy of the Firewall Manager: what firewall.json says, how the    *)
(* menus edit it (config.py, menu_rules.py, menu_vpn.py), how it becomes   *)
(* blocks of rules (compiler.py, policy.py) and how those replace the      *)
(* blocks that before.rules and before6.rules hold, between the lines of   *)
(* other people.                                                           *)
(*                                                                         *)
(* The edits and the Apply of one host follow each other: one menu runs at *)
(* a time. Here an Apply is one step, the replacement of both files; how   *)
(* it is guarded, confirmed and undone is module FirewallApply.            *)
(***************************************************************************)
EXTENDS Naturals, FiniteSets, SequencesExt

CONSTANTS
  Hosts,       \* single addresses
  Span,        \* the networks, each with the addresses it holds
  First,       \* the address a network begins with
  V6,          \* the networks of IPv6
  Interfaces,
  Labels,      \* the names of servers, with their networks
  Packets,     \* the packets the properties speak of
  ServerForms, \* what the form of an OpenVPN server is filled in with
  RuleForms,   \* what the form of a standard rule is filled in with
  Clients,     \* what the form of a ban is filled in with: addresses
  Dates,       \* and last days
  Legacies,    \* the files of the old generator
  Starts,      \* what firewall.json may hold at the start
  StartFiles,  \* what before.rules may hold at the start
  ServerIds, LegacyId,
  Star,         \* an empty field: any address, any interface, no server
  LastDay,               \* bound: the calendar
  MaxRules, MaxServers,  \* bounds: what firewall.json holds
  MaxSaves,              \* bound: edits that are saved in the menus
  MaxTouches             \* bound: edits of the rules files by hand

VARIABLES
  stored,   \* firewall.json
  files,    \* per family: the lines and blocks of its rules file
  today,
  applied,  \* history: the policy and the day of the last Apply, Star when
            \* somebody has touched a managed block since
  saves, touches

policyVars == <<stored, files, today, applied, saves, touches>>

(* The sequences that Op makes of the elements, one after the other; the   *)
(* elements that pass a test, in their order.                              *)
Concat(seq, Op(_)) == FlattenSeq([i \in DOMAIN seq |-> Op(seq[i])])

Select(seq, Test(_)) == Concat(seq, LAMBDA x : IF Test(x) THEN <<x>> ELSE <<>>)

Networks == DOMAIN Span

Versions == {4, 6}

Family(n) == IF n \in V6 THEN 6 ELSE 4

Ports == 1 .. 65535

(* A ban without a date is permanent.                                      *)
Permanent == 0

Servers == {[id |-> i, label |-> f.label, ip |-> f.ip, interface |-> f.interface] :
              i \in ServerIds \cup {LegacyId}, f \in ServerForms}

(* A rule of either kind. Of the protocols with ports there is one, tcp.   *)
PolicyRules == [kind : {"standard", "vpn_ban"}, enabled : BOOLEAN,
                server : ServerIds \cup {LegacyId, Star}, until : Nat,
                direction : {"input", "forward", "output"},
                action : {"allow", "deny", "reject"},
                source : Networks \cup {Star}, destination : Networks \cup {Star},
                invert : BOOLEAN, protocol : {"any", "tcp", "icmp"},
                ports : SUBSET Ports, interface : Interfaces \cup {Star}]

(* The label of a server is its name and its network: the identity of its  *)
(* block in before.rules.                                                  *)
Standard(form, enabled, server) ==
  [kind |-> "standard", enabled |-> enabled, server |-> server, until |-> Permanent,
   direction |-> form.direction, action |-> form.action, source |-> form.source,
   destination |-> form.destination, invert |-> form.invert,
   protocol |-> form.protocol, ports |-> form.ports, interface |-> form.interface]

Ban(source, until, enabled, server) ==
  [kind |-> "vpn_ban", enabled |-> enabled, server |-> server, until |-> until,
   direction |-> "input", action |-> "deny", source |-> source,
   destination |-> Star, invert |-> FALSE,
   protocol |-> "any", ports |-> {}, interface |-> Star]

Config(servers, rules) == [version |-> 2, servers |-> servers, rules |-> rules]

----------------------------------------------------------------------------
(* Normalization: what firewall.json may hold.                             *)
NormalRule(r) ==
  /\ r.invert => r.destination # Star
  /\ r.ports # {} => r.protocol = "tcp"
  /\ r.kind = "vpn_ban" =>
       r.server # Star /\ r.source \in Hosts /\ Family(r.source) = 4

(* Slip: two servers may have one label.                                   *)
AcceptedAnyLabel(c) ==
  /\ \A i \in DOMAIN c.rules :
       /\ NormalRule(c.rules[i])
       /\ c.rules[i].server # Star => \E s \in ToSet(c.servers) : s.id = c.rules[i].server

Accepted(c) ==
  /\ \A i, j \in DOMAIN c.servers :
       c.servers[i].label = c.servers[j].label \/ c.servers[i].id = c.servers[j].id => i = j
  /\ \A i \in DOMAIN c.rules :
       /\ NormalRule(c.rules[i])
       /\ c.rules[i].server # Star => \E s \in ToSet(c.servers) : s.id = c.rules[i].server

(* A rule that lets a client of a VPN reach nothing but the server.        *)
Isolates(r, s) ==
  /\ r.kind = "standard" /\ r.direction = "forward" /\ r.action = "deny"
  /\ r.protocol = "any" /\ r.invert
  /\ r.destination # Star /\ First[r.destination] = s.ip
  /\ r.interface \in {Star, s.interface}

(* Version 1 knew one server and no links: its bans and isolations become  *)
(* rules of that server, the server exists only if there are any.          *)
Migrated(raw) ==
  LET server == [id |-> LegacyId, label |-> raw.server.label, ip |-> raw.server.ip,
                 interface |-> raw.server.interface]
      Belongs(r) == r.kind = "vpn_ban" \/ Isolates(r, server)
  IN Config(IF \E r \in ToSet(raw.rules) : Belongs(r) THEN <<server>> ELSE <<>>,
            [i \in DOMAIN raw.rules |->
               IF Belongs(raw.rules[i]) THEN [raw.rules[i] EXCEPT !.server = LegacyId]
                                        ELSE raw.rules[i]])

Load == IF stored.version = 1 THEN Migrated(stored) ELSE stored

----------------------------------------------------------------------------
(* The compiler: a policy as blocks of actions.                            *)
Action(chain, interface, source, destination, invert, protocol, port, target) ==
  [chain |-> chain, interface |-> interface, source |-> source,
   destination |-> destination, invert |-> invert, protocol |-> protocol,
   port |-> port, target |-> target]

Trust(source) == Action("input", Star, source, Star, FALSE, "any", Star, "allow")

(* Input from a source, whatever it asks for: the Hard Source block.       *)
Trusted(r) ==
  /\ r.enabled /\ r.kind = "standard" /\ r.direction = "input" /\ r.action = "allow"
  /\ r.protocol = "any" /\ r.source # Star /\ r.destination = Star
  /\ r.interface = Star /\ r.server = Star

(* The rules that a block other than the Standard one represents.          *)
Managed(c, r) ==
  \/ Trusted(r)
  \/ /\ r.enabled /\ r.source # Star
     /\ \E s \in ToSet(c.servers) : s.id = r.server /\ Isolates(r, s)

(* The clients of one server, as the old generator knew them.              *)
ClientRules(c, s) ==
  Select(c.rules, LAMBDA r : /\ r.enabled /\ r.server = s.id
                             /\ r.kind = "vpn_ban" \/ Isolates(r, s))

(* Each client is one IPv4 address and occurs once.                        *)
ClientsCompile(c, s) ==
  LET rules == ClientRules(c, s)
  IN /\ \A r \in ToSet(rules) : r.source # Star /\ Family(r.source) = 4
     /\ \A i, j \in DOMAIN rules : First[rules[i].source] = First[rules[j].source] => i = j

(* Slip: a ban ends when its last day begins.                              *)
ActiveUntilMidnight(r, day) == r.until = Permanent \/ day < r.until

Active(r, day) == r.until = Permanent \/ day <= r.until

ClientActions(r, s, day) ==
  LET Drop(chain, destination) ==
        Action(chain, s.interface, First[r.source], destination, destination # Star,
               "any", Star, "deny")
  IN CASE r.kind = "standard" -> <<Drop("forward", s.ip)>>
       [] r.kind = "vpn_ban" /\ Active(r, day) -> <<Drop("forward", Star), Drop("input", Star)>>
       [] OTHER -> <<>>

ServerActions(c, s, day) ==
  Concat(ClientRules(c, s), LAMBDA r : ClientActions(r, s, day))

TrustedActions(c, f) ==
  Concat(Select(c.rules, LAMBDA r : Trusted(r) /\ Family(r.source) = f),
         LAMBDA r : <<Trust(r.source)>>)

Own(r) == {Family(n) : n \in {r.source, r.destination} \ {Star}}

RuleFamilies(r) == IF Own(r) = {} THEN Versions ELSE Own(r)

StandardRules(c) ==
  Select(c.rules, LAMBDA r : r.enabled /\ r.kind = "standard" /\ ~Managed(c, r))

StandardActions(c, f) ==
  Concat(Select(StandardRules(c), LAMBDA r : f \in RuleFamilies(r)),
         LAMBDA r : LET terms == IF r.ports = {} THEN <<Star>> ELSE SetToSeq(r.ports)
                    IN [i \in DOMAIN terms |->
                          Action(r.direction, r.interface, r.source, r.destination,
                                 r.invert, r.protocol, terms[i], r.action)])

Compiles(c) ==
  /\ \A s \in ToSet(c.servers) : ClientsCompile(c, s)
  /\ \A r \in ToSet(StandardRules(c)) : Cardinality(Own(r)) <= 1   \* not mixed

Block(kind, label, actions) == [kind |-> kind, label |-> label, actions |-> actions]

(* A server has a block as long as any rule refers to it.                  *)
Compiled(c, f, day) ==
  LET used == Select(c.servers, LAMBDA s : \E r \in ToSet(c.rules) : r.server = s.id)
      openvpn == [i \in DOMAIN used |->
                    Block("openvpn", used[i].label, ServerActions(c, used[i], day))]
      common == <<Block("hard_sources", Star, TrustedActions(c, f)),
                  Block("standard", Star, StandardActions(c, f))>>
  IN IF f = 4 THEN openvpn \o common ELSE common

----------------------------------------------------------------------------
(* The candidate: a rules file with its managed blocks replaced. Of the    *)
(* lines of others only what they are matters: a rule, a comment, the      *)
(* comment that ends the required lines, the end of the table, or half of  *)
(* a marker, which hides where a block ends.                               *)
Line(what) == [kind |-> "line", label |-> what, actions |-> <<>>]

CompiledActions ==
  [chain : {"input", "forward", "output"}, interface : Interfaces \cup {Star},
   source : Networks \cup {Star}, destination : Networks \cup {Star}, invert : BOOLEAN,
   protocol : {"any", "tcp", "icmp"}, port : Ports \cup {Star},
   target : {"allow", "deny", "reject"}]

Items ==
  [kind : {"line", "openvpn", "hard_sources", "standard"},
   label : Labels \cup {Star, "rule", "comment", "required", "commit", "marker"},
   actions : Seq(CompiledActions)]

IsBlock(item) == item.kind # "line"

Executable(item) == item.kind = "line" /\ item.label \in {"rule", "commit"}

Rank(item) == CASE item.kind = "openvpn" -> 1 [] item.kind = "hard_sources" -> 2
                [] item.kind = "standard" -> 3

Blocks(file) == Select(file, IsBlock)

Lines(file) == Select(file, LAMBDA item : ~IsBlock(item))

(* inspect_before_rules: every marker has its partner, no block occurs     *)
(* twice, and bans come before trusted sources, those before the rest.     *)
Inspected(file, f) ==
  /\ Line("marker") \notin ToSet(file)
  /\ \A i, j \in DOMAIN Blocks(file) :
       i < j => LET x == Blocks(file)[i]
                    y == Blocks(file)[j]
                IN \/ Rank(x) < Rank(y)
                   \/ Rank(x) = 1 /\ Rank(y) = 1 /\ x.label # y.label
  /\ f = 6 => \A i \in DOMAIN Blocks(file) : Blocks(file)[i].kind # "openvpn"

(* A block of a server the policy does not know is somebody else's.        *)
Represented(file, desired) ==
  \A x \in ToSet(Blocks(file)) :
    x.kind = "openvpn" => \E y \in ToSet(desired) : y.kind = "openvpn" /\ y.label = x.label

(* Slip: nobody looks what stands between two managed blocks.              *)
SomethingBetween(file) == TRUE

NothingBetween(file) ==
  \A i, j, k \in DOMAIN file :
    i < j /\ j < k /\ IsBlock(file[i]) /\ IsBlock(file[k]) => ~Executable(file[j])

(* The place of the new blocks: where the first old one began, or after    *)
(* the required lines, or before the end of the table, which there must be *)
(* then: 0 if there is none.                                               *)
Anchor(file) ==
  IF Blocks(file) # <<>> THEN SelectInSeq(file, IsBlock)
  ELSE LET required == {i \in DOMAIN file : file[i].label = "required"}
       IN IF Cardinality(required) = 1
            THEN (CHOOSE i \in required : TRUE) + 1
            ELSE SelectInSeq(file, LAMBDA item : item.label = "commit")

Buildable(file, f, desired) ==
  /\ Inspected(file, f) /\ Represented(file, desired)
  /\ Blocks(file) = desired \/ (NothingBetween(file) /\ Anchor(file) # 0)

CandidateFile(file, desired) ==
  IF Blocks(file) = desired THEN file
  ELSE Lines(SubSeq(file, 1, Anchor(file) - 1)) \o desired
         \o Lines(SubSeq(file, Anchor(file), Len(file)))

----------------------------------------------------------------------------
(* What the constants stand for. A network begins with one of its          *)
(* addresses and holds addresses of its family only.                       *)
ASSUME NetworksHoldHosts ==
  /\ Hosts \subseteq Networks
  /\ \A h \in Hosts : Span[h] = {h}
  /\ \A n \in Networks :
       /\ First[n] \in Span[n] /\ Span[n] \subseteq Hosts
       /\ \A h \in Span[n] : Family(h) = Family(n)

ASSUME StarIsNoName ==
  /\ Star \notin Networks /\ Star \notin Interfaces /\ Star \notin Ports
  /\ Star \notin ServerIds /\ Star # LegacyId

(* The menus fill in what normalize_rule and normalize_vpn_server accept   *)
(* of each field: a server has an address of IPv4 and an interface.        *)
ASSUME FormsAreFilledIn ==
  /\ ServerForms \subseteq [label : Labels, ip : Hosts \ V6, interface : Interfaces]
  /\ \A form \in RuleForms : Standard(form, TRUE, Star) \in PolicyRules
  /\ Clients \subseteq Networks /\ Dates \subseteq Nat
  /\ \A legacy \in Legacies :
       /\ legacy.server \in ServerForms
       /\ legacy.clients \in Seq([source : Networks, type : 0 .. 2, until : Nat])

(* new_server_id never runs out of ids.                                    *)
ASSUME IdsSuffice == IsFiniteSet(ServerIds) /\ Cardinality(ServerIds) >= MaxServers

(* A packet has two addresses of one family.                               *)
ASSUME PacketsHaveOneFamily ==
  \A p \in Packets :
    /\ {p.source, p.destination} \subseteq Hosts
    /\ Family(p.source) = Family(p.destination)

ASSUME BoundsAreNatural ==
  /\ LastDay \in Nat \ {0}
  /\ MaxRules \in Nat /\ MaxServers \in Nat /\ MaxSaves \in Nat /\ MaxTouches \in Nat

IsPolicy(c) ==
  /\ c.version = 2 /\ c = Config(c.servers, c.rules)
  /\ c.servers \in Seq(Servers) /\ c.rules \in Seq(PolicyRules)
  /\ Accepted(c)

(* A policy of version 1 that load_config accepts.                         *)
IsVersion1(c) ==
  /\ c.version = 1
  /\ c.server \in ServerForms /\ c.rules \in Seq(PolicyRules)
  /\ \A r \in ToSet(c.rules) : r.server = Star /\ NormalRule([r EXCEPT !.server = LegacyId])

ASSUME StartsAreAccepted == \A c \in Starts : IsPolicy(c) \/ IsVersion1(c)

ASSUME StartFilesAreRead == StartFiles \subseteq [Versions -> Seq(Items)]

PolicyInit ==
  /\ stored \in Starts /\ files \in StartFiles
  /\ today = 1 /\ applied = Star
  /\ saves = 0 /\ touches = 0

(* Every edit loads, changes and saves; what is not accepted is not saved. *)
Save(c) ==
  /\ saves < MaxSaves /\ Len(c.rules) <= MaxRules /\ Len(c.servers) <= MaxServers
  /\ Accepted(c)
  /\ stored' = c
  /\ saves' = saves + 1
  /\ UNCHANGED <<files, today, applied, touches>>

SaveRules(rules) == Save(Config(Load.servers, rules))

(* A standard rule made in the menu belongs to no server.                  *)
AddRule ==
  \E form \in RuleForms : SaveRules(Append(Load.rules, Standard(form, TRUE, Star)))

EditRule ==
  \E i \in DOMAIN Load.rules, form \in RuleForms :
    LET r == Load.rules[i]
    IN /\ r.kind = "standard"
       /\ SaveRules(ReplaceAt(Load.rules, i, Standard(form, r.enabled, r.server)))

AddBan ==
  \E s \in ToSet(Load.servers), source \in Clients, until \in Dates :
    SaveRules(Append(Load.rules, Ban(source, until, TRUE, s.id)))

EditBan ==
  \E i \in DOMAIN Load.rules, source \in Clients, until \in Dates :
    LET r == Load.rules[i]
    IN /\ r.kind = "vpn_ban"
       /\ SaveRules(ReplaceAt(Load.rules, i, Ban(source, until, r.enabled, r.server)))

ToggleRule ==
  \E i \in DOMAIN Load.rules :
    SaveRules([Load.rules EXCEPT ![i].enabled = ~Load.rules[i].enabled])

DeleteRule ==
  \E i \in DOMAIN Load.rules : SaveRules(RemoveAt(Load.rules, i))

Server(id, form) == [id |-> id, label |-> form.label, ip |-> form.ip,
                     interface |-> form.interface]

FreshId == CHOOSE i \in ServerIds : \A s \in ToSet(Load.servers) : s.id # i

AddServer ==
  \E form \in ServerForms :
    Save(Config(Append(Load.servers, Server(FreshId, form)), Load.rules))

(* Slip: the rules follow the address of their server, not its interface.  *)
AddressFollows(r, s) ==
  IF /\ r.kind = "standard" /\ r.server = s.id /\ r.direction = "forward"
     /\ r.action = "deny" /\ r.protocol = "any" /\ r.invert
    THEN [r EXCEPT !.destination = s.ip]
    ELSE r

(* The isolations linked to a server follow it.                            *)
Follows(r, s) ==
  IF /\ r.kind = "standard" /\ r.server = s.id /\ r.direction = "forward"
     /\ r.action = "deny" /\ r.protocol = "any" /\ r.invert
    THEN [r EXCEPT !.destination = s.ip, !.interface = s.interface]
    ELSE r

EditServer ==
  \E k \in DOMAIN Load.servers, form \in ServerForms :
    LET s == Server(Load.servers[k].id, form)
    IN Save(Config(ReplaceAt(Load.servers, k, s),
                   [i \in DOMAIN Load.rules |-> Follows(Load.rules[i], s)]))

DeleteServer ==
  \E k \in DOMAIN Load.servers :
    /\ \A r \in ToSet(Load.rules) : r.server # Load.servers[k].id
    /\ Save(Config(RemoveAt(Load.servers, k), Load.rules))

(* The clients of a file of the old generator become rules of a new        *)
(* server; the first import also adopts the trusted sources that            *)
(* before.rules already has.                                                *)
Imported(legacy, id) ==
  Concat(Select(legacy.clients, LAMBDA x : x.type \in {1, 2}),
         LAMBDA x : <<IF x.type = 1 THEN Ban(x.source, x.until, TRUE, id)
                      ELSE Standard([direction |-> "forward", action |-> "deny",
                                     source |-> x.source, destination |-> legacy.server.ip,
                                     invert |-> TRUE, protocol |-> "any", ports |-> {},
                                     interface |-> legacy.server.interface], TRUE, id)>>)

Adopted(file) ==
  LET old == Concat(Select(file, LAMBDA x : x.kind = "hard_sources"), LAMBDA x : x.actions)
  IN Concat(Select(old, LAMBDA a : a = Trust(a.source)),
            LAMBDA a : <<Standard([direction |-> "input", action |-> "allow",
                                   source |-> a.source, destination |-> Star,
                                   invert |-> FALSE, protocol |-> "any", ports |-> {},
                                   interface |-> Star], TRUE, Star)>>)

Import ==
  \E legacy \in Legacies :
    LET c == Load
        first == c.rules = <<>> /\ c.servers = <<>>
    IN /\ Inspected(files[4], 4)
       /\ Save(Config(Append(c.servers, Server(FreshId, legacy.server)),
                      c.rules \o Imported(legacy, FreshId)
                        \o (IF first THEN Adopted(files[4]) ELSE <<>>)))

(* Apply refuses a policy it cannot compile and a file it cannot read;     *)
(* otherwise both files get their blocks, or have them already.            *)
ApplyPolicy ==
  LET c == Load
      Desired(f) == Compiled(c, f, today)
  IN /\ Compiles(c)
     /\ \A f \in Versions : Buildable(files[f], f, Desired(f))
     /\ files' = [f \in Versions |-> CandidateFile(files[f], Desired(f))]
     /\ applied' = [policy |-> c, day |-> today]
     /\ UNCHANGED <<stored, today, saves, touches>>

NextDay ==
  /\ today < LastDay
  /\ today' = today + 1
  /\ UNCHANGED <<stored, files, applied, saves, touches>>

(* Other people edit the rules files too: they add a rule anywhere, or     *)
(* remove a block or half of its markers.                                  *)
Touch(f, file) ==
  /\ touches < MaxTouches
  /\ files' = [files EXCEPT ![f] = file]
  /\ touches' = touches + 1
  /\ UNCHANGED <<stored, today, saves>>

AddLine ==
  \E f \in Versions : \E i \in DOMAIN files[f] :
    /\ Touch(f, InsertAt(files[f], i, Line("rule")))
    /\ UNCHANGED applied

RemoveBlock ==
  \E f \in Versions : \E i \in DOMAIN files[f] :
    /\ IsBlock(files[f][i])
    /\ Touch(f, RemoveAt(files[f], i))
    /\ applied' = Star

BreakMarker ==
  \E f \in Versions : \E i \in DOMAIN files[f] :
    /\ IsBlock(files[f][i])
    /\ Touch(f, ReplaceAt(files[f], i, Line("marker")))
    /\ applied' = Star

Edit ==
  \/ AddRule \/ EditRule \/ AddBan \/ EditBan \/ ToggleRule \/ DeleteRule
  \/ AddServer \/ EditServer \/ DeleteServer \/ Import

PolicyNext == Edit \/ ApplyPolicy \/ NextDay \/ AddLine \/ RemoveBlock \/ BreakMarker

PolicySpec == PolicyInit /\ [][PolicyNext]_policyVars

----------------------------------------------------------------------------
(* What a packet meets in a file, and what the policy wants it to meet.    *)
Covers(network, host) == network = Star \/ host \in Span[network]

(* Whatever is not in a network of IPv4 is still an address of IPv4.       *)
Matches(x, p) ==
  /\ p.interface = x.interface \/ x.interface = Star
  /\ Covers(x.source, p.source)
  /\ Covers(x.destination, p.destination) # x.invert
  /\ x.destination # Star => Family(x.destination) = Family(p.destination)
  /\ x.protocol = "tcp" => p.port # Star

(* The managed blocks, read in their order: the first match decides.       *)
Actions(file) == Concat(Blocks(file), LAMBDA b : b.actions)

Verdict(actions, p) ==
  LET Hits(x) == x.chain = p.chain /\ Matches(x, p) /\ x.port \in {Star, p.port}
  IN IF \E x \in ToSet(actions) : Hits(x)
       THEN actions[SelectInSeq(actions, Hits)].target
       ELSE "pass"

(* The server a rule belongs to.                                           *)
ServerOf(c, r) == CHOOSE s \in ToSet(c.servers) : s.id = r.server

Banned(c, day, p) ==
  /\ p.chain \in {"input", "forward"}
  /\ \E r \in ToSet(c.rules) :
       /\ r.kind = "vpn_ban" /\ r.enabled
       /\ r.until # Permanent => ~(day > r.until)
       /\ r.source = p.source /\ ServerOf(c, r).interface = p.interface

(* A rule as it is shown in the menu, applied to a packet.                 *)
Asks(r, p) ==
  /\ r.enabled /\ r.kind = "standard" /\ r.direction = p.chain
  /\ Matches(r, p)
  /\ r.ports = {} \/ p.port \in r.ports

(* An isolation that is linked to a server holds on its interface.         *)
Isolated(c, p) ==
  \E r \in ToSet(c.rules) :
    /\ r.server # Star /\ Isolates(r, ServerOf(c, r))
    /\ Asks(r, p) /\ p.interface = ServerOf(c, r).interface

TrustedPacket(c, p) == \E r \in ToSet(c.rules) : Trusted(r) /\ Asks(r, p)

(* Bans come first, then isolation, then trusted sources, then the rules   *)
(* in their order.                                                         *)
Wanted(c, day, p) ==
  LET Rest(r) == Asks(r, p) /\ ~(r.server # Star /\ Isolates(r, ServerOf(c, r)))
  IN IF Banned(c, day, p) \/ Isolated(c, p) THEN "deny"
     ELSE IF TrustedPacket(c, p) THEN "allow"
     ELSE IF \E r \in ToSet(c.rules) : Rest(r)
       THEN c.rules[SelectInSeq(c.rules, Rest)].action
       ELSE "pass"

----------------------------------------------------------------------------
(* Type invariant. What was saved is a policy that every later load        *)
(* accepts: the labels of the servers are distinct, as are their ids, and  *)
(* every link of a rule leads to one of them.                              *)
PolicyTypeOK ==
  /\ stored.version = 1 \/
       /\ stored.version = 2
       /\ stored.servers \in Seq(Servers) /\ stored.rules \in Seq(PolicyRules)
       /\ Cardinality({s.label : s \in ToSet(stored.servers)}) = Len(stored.servers)
       /\ Cardinality({s.id : s \in ToSet(stored.servers)}) = Len(stored.servers)
       /\ {r.server : r \in ToSet(stored.rules)} \subseteq
            {s.id : s \in ToSet(stored.servers)} \cup {Star}
  /\ files \in [Versions -> Seq(Items)]
  /\ today \in 1 .. LastDay /\ saves \in 0 .. MaxSaves /\ touches \in 0 .. MaxTouches
  /\ applied # Star => applied.day \in 1 .. today

(* An isolation of a whole network, or to a whole network, is compiled for *)
(* the first address of each only.                                         *)
Narrowed(c, p) ==
  \E r \in ToSet(c.rules) :
    /\ r.enabled /\ r.server # Star /\ Isolates(r, ServerOf(c, r))
    /\ ~({r.source, r.destination} \subseteq Hosts) /\ Covers(r.source, p.source)

(* The managed blocks treat every packet as the policy of the last Apply   *)
(* asks: a banned client is dropped through his last day even if he is a   *)
(* trusted source, a lifted ban leaves nothing behind, no rule is lost     *)
(* between the blocks and none is in two (compile_firewall,                *)
(* managed_standard_rule_ids, build_candidate).                            *)
FileTellsPolicy ==
  applied # Star =>
    LET actions == [f \in Versions |-> Actions(files[f])]
    IN \A p \in Packets :
         Narrowed(applied.policy, p) \/
           Verdict(actions[Family(p.source)], p) = Wanted(applied.policy, applied.day, p)

(* Lines of other people that are executed before a block.                 *)
Ahead(file, i) == Cardinality({j \in 1 .. (i - 1) : Executable(file[j])})

(* An Apply keeps the lines of other people, in their order, and no rule   *)
(* of theirs changes sides with a managed block (build_candidate).         *)
RulesKeepTheirSide ==
  [][touches' = touches /\ files' # files =>
       \A f \in Versions :
         /\ Lines(files'[f]) = Lines(files[f])
         /\ \A i \in DOMAIN files[f], j \in DOMAIN files'[f] :
              IsBlock(files[f][i]) /\ files'[f][j].kind = files[f][i].kind
                /\ files'[f][j].label = files[f][i].label
              => Ahead(files'[f], j) = Ahead(files[f], i)]_policyVars

(* When a server gets another address or interface, the clients isolated   *)
(* on it stay isolated on it (replace_vpn_server).                         *)
IsolationFollowsServer ==
  [][LET old == Load
         new == Load'
     IN old.servers # new.servers /\ Len(old.servers) = Len(new.servers) =>
          \A i \in DOMAIN old.rules :
            old.rules[i].server # Star /\ Isolates(old.rules[i], ServerOf(old, old.rules[i]))
            => Isolates(new.rules[i], ServerOf(new, new.rules[i]))]_policyVars
=============================================================================
