--------------------------- MODULE SettingsPackage ---------------------------
(***************************************************************************)
(* Centralized settings (libs/app/settings_package.py, settings_menu.py).  *)
(*                                                                         *)
(* A host exports its Hub and SMTP settings as a package with a revision;  *)
(* the package is put at an URL, and every host applies it when it starts. *)
(* A host remembers the revision, the hash and what it applied. These      *)
(* markers decide three things: whether the package is applied again,      *)
(* whether it is refused, and which editors the menu hides.                *)
(*                                                                         *)
(* The hash of a package is its number in issued; 0 is "no hash".          *)
(***************************************************************************)
EXTENDS Naturals, Sequences

CONSTANTS Hosts,
          HubValues,   \* contents of the Hub section
          Names,       \* SMTP hosts and From addresses
          NoName,      \* an SMTP host or a From address that is not set
          Accounts,    \* the other values of the SMTP section
          Offsets,     \* how far the clock of a host may be ahead
          MaxExports, MaxEdits, MaxFaults

ASSUME OffsetsAreNat == Offsets \subseteq Nat
ASSUME NoNameIsNone == NoName \notin Names
ASSUME BoundsAreNat == MaxExports \in Nat /\ MaxEdits \in Nat /\ MaxFaults \in Nat

VARIABLES
  disk,         \* per host: config.ini
  mem,          \* per host: the configuration of the running program
  phase,        \* per host: "off", "starting", "menu"
  override,     \* per host: started with --local-settings
  lastExported, \* per host: _LAST_EXPORTED_REVISION of the running program
  issued,       \* the packages that have been exported
  central,      \* the package at the URL, 0 when there is none
  edits, faults

hostVars == <<disk, mem, phase, override, lastExported>>
vars == <<hostVars, issued, central, edits, faults>>

Sections == {"hub", "smtp"}
Keys == {"hub", "host", "from", "account"}

Values(k) ==
  CASE k = "hub" -> HubValues
    [] k = "account" -> Accounts
    [] OTHER -> Names \cup {NoName}

Kept == "smtp:1[keep=from_address]"
Entries == {"hub:1", "hub:skip", "smtp:1", "smtp:skip", Kept}

Package == [revision : Nat, hub : HubValues, host : Values("host"),
            from : Values("from"), account : Accounts]

Conf == [hub : HubValues, host : Values("host"), from : Values("from"),
         account : Accounts, revision : Nat, sha : Nat,
         applied : SUBSET Entries, skip : SUBSET Sections, keepFrom : BOOLEAN]

----------------------------------------------------------------------------
(* The menu hides the editors of these values.                             *)
Managed(c) ==
  (IF "hub:1" \in c.applied THEN {"hub"} ELSE {})
    \cup (IF {"smtp:1", Kept} \cap c.applied # {} THEN {"host", "account"} ELSE {})
    \cup (IF "smtp:1" \in c.applied THEN {"from"} ELSE {})

(* Slip: only the SMTP host is compared.                                   *)
ConflictHost(c, p) ==
  "smtp" \notin c.skip /\ c.host # NoName /\ c.host # p.host

(* The package would replace the identity the host sends mail with.        *)
Conflict(c, p) ==
  /\ "smtp" \notin c.skip
  /\ \/ c.host # NoName /\ c.host # p.host
     \/ ~c.keepFrom /\ c.from # NoName /\ c.from # p.from

Prepared(c, declined) == Sections \ (c.skip \cup declined)

(* A section declined for this import leaves no trace in the signature.    *)
Signature(c, declined) ==
  {e \in Entries :
     \/ e = "hub:1"     /\ "hub" \in Prepared(c, declined)
     \/ e = "smtp:1"    /\ "smtp" \in Prepared(c, declined) /\ ~c.keepFrom
     \/ e = Kept        /\ "smtp" \in Prepared(c, declined) /\ c.keepFrom
     \/ e = "hub:skip"  /\ "hub" \in c.skip
     \/ e = "smtp:skip" /\ "smtp" \in c.skip}

(* The configuration with package n applied.                               *)
WithPackage(c, n, declined) ==
  LET p == issued[n]
      smtp == "smtp" \in Prepared(c, declined)
  IN  [c EXCEPT !.hub = IF "hub" \in Prepared(c, declined) THEN p.hub ELSE @,
                !.host = IF smtp THEN p.host ELSE @,
                !.from = IF smtp /\ ~c.keepFrom THEN p.from ELSE @,
                !.account = IF smtp THEN p.account ELSE @,
                !.revision = p.revision,
                !.sha = n,
                !.applied = Signature(c, declined)]

(* Slip: a package of the same revision is taken whatever it holds.        *)
AcceptableByRevision(c, n) == issued[n].revision >= c.revision

SameContent(c, n) ==
  issued[n].revision = c.revision /\ c.sha # 0 => c.sha = n

Acceptable(c, n) == issued[n].revision >= c.revision /\ SameContent(c, n)

(* Slip: what was applied is not compared.                                 *)
CurrentByHash(c, n, declined) == issued[n].revision = c.revision /\ c.sha = n

Current(c, n, declined) ==
  /\ issued[n].revision = c.revision
  /\ c.sha = n
  /\ c.applied = Signature(c, declined)

(* A startup cannot ask: it leaves out a section that conflicts.           *)
Declined(c, n) == IF Conflict(c, issued[n]) THEN {"smtp"} ELSE {}

----------------------------------------------------------------------------
Counted == edits < MaxEdits /\ edits' = edits + 1

Running(h) == phase[h] = "menu"

Become(h, c) == mem' = [mem EXCEPT ![h] = c]

Save(h, c) == disk' = [disk EXCEPT ![h] = c] /\ UNCHANGED faults

SaveFails == faults < MaxFaults /\ faults' = faults + 1 /\ UNCHANGED disk

(* A new host, with settings of its own or none.                           *)
Init ==
  /\ disk \in [Hosts -> [hub : HubValues, host : Values("host"),
                         from : Values("from"), account : Accounts,
                         revision : {0}, sha : {0}, applied : {{}},
                         skip : {{}}, keepFrom : {FALSE}]]
  /\ mem = disk
  /\ phase = [h \in Hosts |-> "off"]
  /\ override = [h \in Hosts |-> FALSE]
  /\ lastExported = [h \in Hosts |-> 0]
  /\ issued = <<>>
  /\ central = 0
  /\ edits = 0
  /\ faults = 0

(***************************************************************************)
(* The program starts, brings its settings up to date, shows its menu.     *)
(***************************************************************************)
Start(h) ==
  /\ phase[h] = "off"
  /\ phase' = [phase EXCEPT ![h] = "starting"]
  /\ \E flag \in BOOLEAN : override' = [override EXCEPT ![h] = flag]
  /\ UNCHANGED <<disk, mem, lastExported, issued, central, edits, faults>>

EntersMenu(h) ==
  /\ phase[h] = "starting"
  /\ phase' = [phase EXCEPT ![h] = "menu"]
  /\ UNCHANGED <<override, lastExported, issued, central, edits>>

(* A later revision, or the same package in another scope.                 *)
UpdateApplies(h) ==
  /\ EntersMenu(h)
  /\ central # 0
  /\ Acceptable(mem[h], central)
  /\ LET declined == Declined(mem[h], central)
         new == WithPackage(mem[h], central, declined)
     IN  /\ ~Current(mem[h], central, declined)
         /\ Become(h, new)
         /\ Save(h, new)

(* No package, a refused one, or one that is applied already.              *)
UpdateKeeps(h) ==
  /\ EntersMenu(h)
  /\ central # 0 /\ Acceptable(mem[h], central) =>
       Current(mem[h], central, Declined(mem[h], central))
  /\ UNCHANGED <<disk, mem, faults>>

(* The URL cannot be read, the package cannot be decoded, the new          *)
(* configuration cannot be saved: the values in memory are put back.       *)
UpdateFails(h) ==
  /\ EntersMenu(h)
  /\ central # 0
  /\ SaveFails
  /\ UNCHANGED mem

(* What only the running program knew is gone.                             *)
Ends(h) ==
  /\ phase' = [phase EXCEPT ![h] = "off"]
  /\ override' = [override EXCEPT ![h] = FALSE]
  /\ lastExported' = [lastExported EXCEPT ![h] = 0]
  /\ Become(h, disk[h])
  /\ UNCHANGED <<issued, central, edits>>

(* The operator leaves the menu.                                           *)
Leave(h) == Running(h) /\ Ends(h) /\ UNCHANGED <<disk, faults>>

(* The program is killed before it has brought its settings up to date.    *)
Killed(h) == phase[h] = "starting" /\ Ends(h) /\ SaveFails

(***************************************************************************)
(* The menus.                                                              *)
(***************************************************************************)
InMenu(h) ==
  /\ Running(h)
  /\ Counted
  /\ UNCHANGED <<phase, override, lastExported, issued, central>>

(* invalidate_central_settings_after_local_override                        *)
Edited(h, k, v) ==
  [mem[h] EXCEPT ![k] = v,
                 !.applied = IF override[h] /\ k \in Managed(mem[h]) THEN {} ELSE @]

(* Slip: the markers are invalidated after the save.                       *)
EditSavedFirst(h, k, v) ==
  /\ InMenu(h)
  /\ override[h] \/ k \notin Managed(mem[h])
  /\ v # mem[h][k]
  /\ Become(h, Edited(h, k, v))
  /\ Save(h, [mem[h] EXCEPT ![k] = v])

Edit(h, k, v) ==
  /\ InMenu(h)
  /\ override[h] \/ k \notin Managed(mem[h])
  /\ v # mem[h][k]
  /\ LET new == Edited(h, k, v)
     IN  Become(h, new) /\ (Save(h, new) \/ SaveFails)

(* A change of the import policy makes the next startup evaluate again.    *)
SetPolicy(h, skip, keepFrom) ==
  /\ InMenu(h)
  /\ LET new == [mem[h] EXCEPT !.skip = skip, !.keepFrom = keepFrom, !.applied = {}]
     IN  Become(h, new) /\ (Save(h, new) \/ SaveFails)

ToggleSection(h, s) ==
  LET skip == mem[h].skip
  IN  SetPolicy(h, (skip \ {s}) \cup ({s} \ skip), mem[h].keepFrom)

ToggleFrom(h) ==
  /\ "smtp" \notin mem[h].skip
  /\ SetPolicy(h, mem[h].skip, ~mem[h].keepFrom)

(* The operator imports a package, from the URL or pasted, answers for     *)
(* what it would replace and confirms a downgrade: there is none to        *)
(* confirm, and none is made, when no section is left.                     *)
Import(h, n) ==
  /\ InMenu(h)
  /\ SameContent(mem[h], n)
  /\ \E declined \in {{}, Declined(mem[h], n)} :
       LET new == WithPackage(mem[h], n, declined)
       IN  /\ \/ issued[n].revision >= mem[h].revision
              \/ Prepared(mem[h], declined) # {}
           /\ \/ Become(h, new) /\ Save(h, new)
              \/ SaveFails /\ UNCHANGED mem

(* Slip: a package of the old format leaves the hash alone.                *)
WithLegacyHashed(c, v) ==
  [c EXCEPT !.hub = IF "hub" \in Prepared(c, {}) THEN v ELSE @]

(* A package of the old format has a Hub section and no revision.          *)
WithLegacy(c, v) ==
  [c EXCEPT !.hub = IF "hub" \in Prepared(c, {}) THEN v ELSE @, !.sha = 0]

ImportLegacy(h, v) ==
  /\ InMenu(h)
  /\ LET new == WithLegacy(mem[h], v)
     IN  \/ Become(h, new) /\ Save(h, new)
         \/ SaveFails /\ UNCHANGED mem

(* At least one past what the host has applied or the program has issued.  *)
NextRevision(h, now) ==
  LET after == mem[h].revision + 1
      again == lastExported[h] + 1
      later == IF after >= again THEN after ELSE again
  IN  IF now >= later THEN now ELSE later

Export(h) ==
  /\ Running(h)
  /\ Len(issued) < MaxExports
  /\ \E ahead \in Offsets :
       LET new == NextRevision(h, Len(issued) + 1 + ahead)
       IN  /\ issued' = Append(issued, [revision |-> new, hub |-> mem[h].hub,
                                       host |-> mem[h].host, from |-> mem[h].from,
                                       account |-> mem[h].account])
           /\ lastExported' = [lastExported EXCEPT ![h] = new]
  /\ UNCHANGED <<disk, mem, phase, override, central, edits, faults>>

(* Somebody puts a package at the URL, or takes it away.                   *)
Publish ==
  /\ \E n \in 0 .. Len(issued) : n # central /\ central' = n
  /\ Counted
  /\ UNCHANGED <<hostVars, issued, faults>>

Update(h) == UpdateApplies(h) \/ UpdateKeeps(h) \/ UpdateFails(h)

Use(h) ==
  \/ \E k \in Keys : \E v \in Values(k) : Edit(h, k, v)
  \/ \E s \in Sections : ToggleSection(h, s)
  \/ ToggleFrom(h)
  \/ \E n \in DOMAIN issued : Import(h, n)
  \/ \E v \in HubValues : ImportLegacy(h, v)
  \/ Export(h)

Next ==
  \/ \E h \in Hosts : Start(h) \/ Update(h) \/ Leave(h) \/ Killed(h) \/ Use(h)
  \/ Publish

(* The program is started, updated and left again and again.               *)
Fairness ==
  \A h \in Hosts : WF_vars(Start(h)) /\ WF_vars(Update(h)) /\ WF_vars(Leave(h))

Spec == Init /\ [][Next]_vars
FairSpec == Spec /\ Fairness

----------------------------------------------------------------------------
(* Well formed: markers refer to issued packages; a host keeps on disk     *)
(* what the running program has unless a save failed.                      *)
TypeOK ==
  /\ issued \in Seq(Package)
  /\ central \in 0 .. Len(issued)
  /\ disk \in [Hosts -> Conf] /\ mem \in [Hosts -> Conf]
  /\ faults = 0 => mem = disk
  /\ \A h \in Hosts : {disk[h].sha, mem[h].sha} \subseteq 0 .. Len(issued)
  /\ phase \in [Hosts -> {"off", "starting", "menu"}]
  /\ override \in [Hosts -> BOOLEAN]
  /\ lastExported \in [Hosts -> Nat]
  /\ edits \in 0 .. MaxEdits
  /\ faults \in 0 .. MaxFaults

(* What the menu calls centrally managed, and hides, has the value of the  *)
(* package whose hash the host remembers: on disk and in memory, whatever  *)
(* was edited, skipped, declined, imported or not saved before.            *)
Genuine(c) ==
  c.sha # 0 => \A k \in Managed(c) : c[k] = issued[c.sha][k]

ManagedIsCentral ==
  \A h \in Hosts : Genuine(disk[h]) /\ Genuine(mem[h])

(* A startup never changes an SMTP host or a From address that is set.     *)
IdentityIsKept ==
  [][\A h \in Hosts, k \in {"host", "from"} :
       phase[h] = "starting" /\ disk[h][k] # NoName => disk'[h][k] = disk[h][k]]_vars

(* A startup moves the markers to a later revision, or to the package they *)
(* name already, or fills a hash that an import of the old format cleared. *)
MarkersMoveForward ==
  [][\A h \in Hosts : phase[h] = "starting" =>
       \/ disk'[h].revision > disk[h].revision
       \/ /\ disk'[h].revision = disk[h].revision
          /\ disk[h].sha \in {0, disk'[h].sha}]_vars

(* Unless it is refused, the package at the URL reaches every host that is *)
(* started again and again: all of a section, except what the policy keeps *)
(* and, as long as it conflicts, the SMTP section.                         *)
Arrived(c, p) ==
  /\ "hub" \notin c.skip => c.hub = p.hub
  /\ "smtp" \notin c.skip /\ ~Conflict(c, p) =>
       /\ c.host = p.host /\ c.account = p.account
       /\ c.keepFrom \/ c.from = p.from

PackageArrives ==
  \A h \in Hosts : []<>(\/ central = 0
                        \/ ~Acceptable(disk[h], central)
                        \/ Arrived(disk[h], issued[central]))
=============================================================================
