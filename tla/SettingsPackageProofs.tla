------------------------ MODULE SettingsPackageProofs ------------------------
(***************************************************************************)
(* Theorems about centralized settings, for any hosts, any contents of the *)
(* sections and any clocks: the configurations are well formed, what a     *)
(* host calls centrally managed is genuine, a startup does not go back and *)
(* does not replace the identity a host sends mail with.                   *)
(***************************************************************************)
EXTENDS SettingsPackage, TLAPS

(* A configuration whose managed values are those of the package it names, *)
(* which has been issued.                                                  *)
Sound(c, packages) ==
  /\ c \in Conf
  /\ c.sha \in 0 .. Len(packages)
  /\ c.sha # 0 => \A k \in Managed(c) : c[k] = packages[c.sha][k]

LEMMA ValuesOfKeys ==
  /\ Values("hub") = HubValues
  /\ Values("account") = Accounts
  /\ Values("host") = Names \cup {NoName}
  /\ Values("from") = Names \cup {NoName}
BY DEF Values

(* A package that is issued keeps every older one in place.                *)
LEMMA SoundIsKept ==
  ASSUME NEW c, issued \in Seq(Package), NEW p \in Package, Sound(c, issued)
  PROVE  Sound(c, Append(issued, p))
<1>1. Len(Append(issued, p)) = Len(issued) + 1 /\ Len(issued) \in Nat
  OBVIOUS
<1>2. c.sha # 0 => Append(issued, p)[c.sha] = issued[c.sha]
  BY <1>1 DEF Sound
<1> QED
  BY <1>1, <1>2 DEF Sound

(* Applying a package makes a sound configuration of any other.            *)
LEMMA AppliedIsSound ==
  ASSUME NEW c \in Conf, issued \in Seq(Package), NEW n \in 1 .. Len(issued),
         NEW declined \in SUBSET Sections
  PROVE  Sound(WithPackage(c, n, declined), issued)
<1> DEFINE d == WithPackage(c, n, declined)
<1>1. issued[n] \in Package
  OBVIOUS
<1>2. d \in Conf
  <2>1. Signature(c, declined) \in SUBSET Entries
    BY DEF Signature
  <2>2. n \in Nat /\ issued[n].revision \in Nat
    BY <1>1 DEF Package
  <2>3. /\ issued[n].hub \in HubValues /\ issued[n].account \in Accounts
        /\ issued[n].host \in Values("host") /\ issued[n].from \in Values("from")
    BY <1>1 DEF Package
  <2> QED
    BY <2>1, <2>2, <2>3 DEF Conf, WithPackage
<1>3. d.sha = n /\ d.applied = Signature(c, declined)
  BY DEF WithPackage, Conf
<1>4. "hub" \in Managed(d) => d.hub = issued[n].hub
  BY <1>3 DEF Managed, Signature, WithPackage, Conf, Kept, Entries
<1>5. "host" \in Managed(d) => d.host = issued[n].host
  BY <1>3 DEF Managed, Signature, WithPackage, Conf, Kept, Entries
<1>6. "account" \in Managed(d) => d.account = issued[n].account
  BY <1>3 DEF Managed, Signature, WithPackage, Conf, Kept, Entries
<1>7. "from" \in Managed(d) => d.from = issued[n].from
  BY <1>3 DEF Managed, Signature, WithPackage, Conf, Kept, Entries
<1>8. Managed(d) \subseteq {"hub", "host", "account", "from"}
  BY DEF Managed
<1> QED
  BY <1>2, <1>3, <1>4, <1>5, <1>6, <1>7, <1>8 DEF Sound

(* An edit of a value that is not managed, or that drops the markers.      *)
LEMMA EditedIsSound ==
  ASSUME NEW h \in Hosts, NEW k \in Keys, NEW v \in Values(k),
         Sound(mem[h], issued), override[h] \in BOOLEAN,
         override[h] \/ k \notin Managed(mem[h])
  PROVE  Sound(Edited(h, k, v), issued)
<1> DEFINE c == mem[h]
           d == Edited(h, k, v)
<1>1. c \in Conf
  BY DEF Sound
<1>2. d \in Conf
  <2>1. CASE k = "hub"
    BY <1>1, <2>1, ValuesOfKeys DEF Edited, Conf
  <2>2. CASE k = "host"
    BY <1>1, <2>2, ValuesOfKeys DEF Edited, Conf
  <2>3. CASE k = "from"
    BY <1>1, <2>3, ValuesOfKeys DEF Edited, Conf
  <2>4. CASE k = "account"
    BY <1>1, <2>4, ValuesOfKeys DEF Edited, Conf
  <2> QED
    BY <2>1, <2>2, <2>3, <2>4 DEF Keys
<1>3. d.sha = c.sha
  BY <1>1 DEF Edited, Conf, Keys
<1>4. CASE k \in Managed(c)
  <2>1. d.applied = {}
    BY <1>1, <1>4 DEF Edited, Conf, Keys
  <2>2. Managed(d) = {}
    BY <2>1 DEF Managed
  <2> QED
    BY <1>2, <1>3, <2>2 DEF Sound
<1>5. CASE k \notin Managed(c)
  <2>1. d.applied = c.applied
    BY <1>1, <1>5 DEF Edited, Conf, Keys
  <2>2. Managed(d) = Managed(c)
    BY <2>1 DEF Managed
  <2>3. Managed(c) \subseteq Keys
    BY DEF Managed, Keys
  <2>4. ASSUME NEW j \in Managed(c) PROVE d[j] = c[j]
    BY <1>1, <1>5, <2>3 DEF Edited, Conf, Keys
  <2> QED
    BY <1>2, <1>3, <2>2, <2>4 DEF Sound
<1> QED
  BY <1>4, <1>5

----------------------------------------------------------------------------
AllSound == \A h \in Hosts : Sound(disk[h], issued) /\ Sound(mem[h], issued)

(* What every step keeps.                                                  *)
Inv ==
  /\ issued \in Seq(Package)
  /\ central \in 0 .. Len(issued)
  /\ disk \in [Hosts -> Conf] /\ mem \in [Hosts -> Conf]
  /\ AllSound
  /\ phase \in [Hosts -> {"off", "starting", "menu"}]
  /\ override \in [Hosts -> BOOLEAN]
  /\ lastExported \in [Hosts -> Nat]
  /\ edits \in 0 .. MaxEdits
  /\ faults \in 0 .. MaxFaults
  /\ faults = 0 => mem = disk

LEMMA InvIsEnough == Inv => TypeOK /\ ManagedIsCentral
BY DEF Inv, AllSound, Sound, TypeOK, ManagedIsCentral, Genuine

(* A host takes a sound configuration, on disk too unless a save fails.    *)
Takes(h) ==
  \E c : Sound(c, issued) /\ Become(h, c) /\ (Save(h, c) \/ SaveFails)

LEMMA TakesKeeps ==
  ASSUME Inv, NEW h \in Hosts, Takes(h), issued' = issued
  PROVE  /\ disk' \in [Hosts -> Conf] /\ mem' \in [Hosts -> Conf]
         /\ AllSound'
         /\ faults' \in 0 .. MaxFaults
         /\ faults' = 0 => mem' = disk'
<1>1. PICK c : Sound(c, issued) /\ Become(h, c) /\ (Save(h, c) \/ SaveFails)
  BY DEF Takes
<1>2. c \in Conf
  BY <1>1 DEF Sound
<1>3. mem' = [mem EXCEPT ![h] = c] /\ mem' \in [Hosts -> Conf]
  BY <1>1, <1>2 DEF Become, Inv
<1>4. \A g \in Hosts : Sound(mem'[g], issued)
  BY <1>1, <1>3 DEF Inv, AllSound
<1>5. CASE Save(h, c)
  <2>1. disk' = [disk EXCEPT ![h] = c] /\ disk' \in [Hosts -> Conf] /\ faults' = faults
    BY <1>5, <1>2 DEF Save, Inv
  <2>2. \A g \in Hosts : Sound(disk'[g], issued)
    BY <1>1, <2>1 DEF Inv, AllSound
  <2>3. faults' = 0 => mem' = disk'
    BY <1>3, <2>1 DEF Inv
  <2> QED
    BY <1>3, <1>4, <2>1, <2>2, <2>3 DEF Inv, AllSound
<1>6. CASE SaveFails
  <2>1. disk' = disk /\ faults' = faults + 1 /\ faults < MaxFaults
    BY <1>6 DEF SaveFails
  <2>2. faults' \in 0 .. MaxFaults /\ faults' # 0
    BY <2>1, BoundsAreNat DEF Inv
  <2> QED
    BY <1>3, <1>4, <2>1, <2>2 DEF Inv, AllSound
<1> QED
  BY <1>1, <1>5, <1>6

(* A failed import or update leaves both as they were.                     *)
LEMMA FailureKeeps ==
  ASSUME Inv, SaveFails, mem' = mem, issued' = issued
  PROVE  /\ disk' \in [Hosts -> Conf] /\ mem' \in [Hosts -> Conf]
         /\ AllSound'
         /\ faults' \in 0 .. MaxFaults
         /\ faults' = 0 => mem' = disk'
<1>1. disk' = disk /\ faults' = faults + 1 /\ faults < MaxFaults
  BY DEF SaveFails
<1>2. faults' \in 0 .. MaxFaults /\ faults' # 0
  BY <1>1, BoundsAreNat DEF Inv
<1> QED
  BY <1>1, <1>2 DEF Inv, AllSound

LEMMA Counts == ASSUME Inv, Counted PROVE edits' \in 0 .. MaxEdits
BY BoundsAreNat DEF Inv, Counted

LEMMA InitKeeps == Init => Inv
<1> SUFFICES ASSUME Init PROVE Inv
  OBVIOUS
<1>1. /\ issued = <<>> /\ central = 0 /\ mem = disk
      /\ edits = 0 /\ faults = 0
  BY DEF Init
<1>2. issued \in Seq(Package) /\ Len(issued) = 0
  BY <1>1
<1>3. \A h \in Hosts : Sound(disk[h], issued)
  <2> SUFFICES ASSUME NEW h \in Hosts PROVE Sound(disk[h], issued)
    OBVIOUS
  <2>1. disk[h] \in [hub : HubValues, host : Values("host"),
                     from : Values("from"), account : Accounts,
                     revision : {0}, sha : {0}, applied : {{}},
                     skip : {{}}, keepFrom : {FALSE}]
    BY DEF Init
  <2>2. /\ disk[h].revision = 0 /\ disk[h].sha = 0 /\ disk[h].applied = {}
        /\ disk[h].skip = {} /\ disk[h].keepFrom = FALSE
    BY <2>1
  <2>3. {0} \subseteq Nat /\ {{}} \subseteq SUBSET Entries
        /\ {{}} \subseteq SUBSET Sections /\ {FALSE} \subseteq BOOLEAN
    OBVIOUS
  <2>4. disk[h] \in Conf
    BY <2>1, <2>3, Zenon DEF Conf
  <2> QED
    BY <1>2, <2>2, <2>4 DEF Sound
<1>4. disk \in [Hosts -> Conf]
  BY <1>3 DEF Init, Sound
<1> QED
  BY <1>1, <1>2, <1>3, <1>4, BoundsAreNat DEF Init, Inv, AllSound

LEMMA UpdateAppliesKeeps ==
  ASSUME Inv, NEW h \in Hosts, UpdateApplies(h)
  PROVE  Inv'
<1> DEFINE d == WithPackage(mem[h], central, Declined(mem[h], central))
<1>1. central \in 1 .. Len(issued) /\ mem[h] \in Conf
  BY DEF UpdateApplies, Inv
<1>2. Declined(mem[h], central) \in SUBSET Sections
  BY DEF Declined, Sections
<1>3. issued \in Seq(Package)
  BY DEF Inv
<1>4. Sound(d, issued)
  BY <1>1, <1>2, <1>3, AppliedIsSound
<1>5. /\ phase' = [phase EXCEPT ![h] = "menu"]
      /\ UNCHANGED <<override, lastExported, issued, central, edits>>
  BY DEF UpdateApplies, EntersMenu
<1>6. Become(h, d) /\ Save(h, d)
  BY DEF UpdateApplies
<1>7. Takes(h)
  BY <1>4, <1>6 DEF Takes
<1> QED
  BY <1>5, <1>7, TakesKeeps DEF Inv

LEMMA UpdateKeepsKeeps ==
  ASSUME Inv, NEW h \in Hosts, UpdateKeeps(h)
  PROVE  Inv'
BY DEF UpdateKeeps, EntersMenu, Inv, AllSound

LEMMA UpdateFailsKeeps ==
  ASSUME Inv, NEW h \in Hosts, UpdateFails(h)
  PROVE  Inv'
<1>1. /\ phase' = [phase EXCEPT ![h] = "menu"] /\ SaveFails
      /\ UNCHANGED <<override, lastExported, issued, central, edits, mem>>
  BY DEF UpdateFails, EntersMenu
<1> QED
  BY <1>1, FailureKeeps DEF Inv

LEMMA StartKeeps ==
  ASSUME Inv, NEW h \in Hosts, Start(h)
  PROVE  Inv'
BY DEF Start, Inv, AllSound

(* A program that ends: what it had in memory gives way to the disk.       *)
LEMMA EndsKeeps ==
  ASSUME Inv, NEW h \in Hosts, Ends(h), disk' = disk,
         faults' \in 0 .. MaxFaults, faults' = 0 => faults = 0
  PROVE  Inv'
<1>1. mem' = [mem EXCEPT ![h] = disk[h]] /\ mem' \in [Hosts -> Conf]
  BY DEF Ends, Become, Inv
<1>2. \A g \in Hosts : Sound(mem'[g], issued) /\ Sound(disk[g], issued)
  BY <1>1 DEF Inv, AllSound
<1>3. faults' = 0 => mem' = disk'
  BY <1>1 DEF Inv
<1>4. issued' = issued /\ AllSound'
  BY <1>2 DEF AllSound, Ends
<1> QED
  BY <1>1, <1>3, <1>4 DEF Inv, Ends

LEMMA LeaveKeeps ==
  ASSUME Inv, NEW h \in Hosts, Leave(h)
  PROVE  Inv'
<1>1. Ends(h) /\ disk' = disk /\ faults' = faults
  BY DEF Leave
<1>2. faults' \in 0 .. MaxFaults /\ (faults' = 0 => faults = 0)
  BY <1>1 DEF Inv
<1> QED
  BY <1>1, <1>2, EndsKeeps

LEMMA KilledKeeps ==
  ASSUME Inv, NEW h \in Hosts, Killed(h)
  PROVE  Inv'
<1>1. Ends(h) /\ disk' = disk /\ faults' = faults + 1 /\ faults < MaxFaults
  BY DEF Killed, SaveFails
<1>2. faults' \in 0 .. MaxFaults /\ (faults' = 0 => faults = 0)
  BY <1>1, BoundsAreNat DEF Inv
<1> QED
  BY <1>1, <1>2, EndsKeeps

LEMMA EditKeeps ==
  ASSUME Inv, NEW h \in Hosts, NEW k \in Keys, NEW v \in Values(k), Edit(h, k, v)
  PROVE  Inv'
<1>1. Sound(mem[h], issued) /\ override[h] \in BOOLEAN
  BY DEF Inv, AllSound
<1>2. override[h] \/ k \notin Managed(mem[h])
  BY DEF Edit
<1>3. Sound(Edited(h, k, v), issued)
  BY <1>1, <1>2, EditedIsSound
<1>4. Become(h, Edited(h, k, v)) /\ (Save(h, Edited(h, k, v)) \/ SaveFails)
  BY DEF Edit
<1>5. Takes(h)
  BY <1>3, <1>4 DEF Takes
<1>6. UNCHANGED <<phase, override, lastExported, issued, central>> /\ Counted
  BY DEF Edit, InMenu
<1> QED
  BY <1>5, <1>6, TakesKeeps, Counts DEF Inv

LEMMA SetPolicyKeeps ==
  ASSUME Inv, NEW h \in Hosts, NEW skip \in SUBSET Sections, NEW keepFrom \in BOOLEAN,
         SetPolicy(h, skip, keepFrom)
  PROVE  Inv'
<1> DEFINE d == [mem[h] EXCEPT !.skip = skip, !.keepFrom = keepFrom, !.applied = {}]
<1>1. mem[h] \in Conf /\ mem[h].sha \in 0 .. Len(issued)
  BY DEF Inv, AllSound, Sound
<1>2. d \in Conf /\ d.sha = mem[h].sha /\ d.applied = {}
  BY <1>1 DEF Conf
<1>3. Sound(d, issued)
  BY <1>1, <1>2 DEF Sound, Managed
<1>4. Become(h, d) /\ (Save(h, d) \/ SaveFails)
  BY DEF SetPolicy
<1>5. Takes(h)
  BY <1>3, <1>4 DEF Takes
<1>6. UNCHANGED <<phase, override, lastExported, issued, central>> /\ Counted
  BY DEF SetPolicy, InMenu
<1> QED
  BY <1>5, <1>6, TakesKeeps, Counts DEF Inv

LEMMA ImportKeeps ==
  ASSUME Inv, NEW h \in Hosts, NEW n \in DOMAIN issued, Import(h, n)
  PROVE  Inv'
<1>1. /\ UNCHANGED <<phase, override, lastExported, issued, central>> /\ Counted
      /\ issued \in Seq(Package) /\ mem[h] \in Conf /\ n \in 1 .. Len(issued)
  BY DEF Import, InMenu, Inv
<1>2. PICK declined \in {{}, Declined(mem[h], n)} :
        \/ /\ Become(h, WithPackage(mem[h], n, declined))
           /\ Save(h, WithPackage(mem[h], n, declined))
        \/ SaveFails /\ UNCHANGED mem
  BY DEF Import
<1>3. declined \in SUBSET Sections
  BY DEF Declined, Sections
<1>4. Sound(WithPackage(mem[h], n, declined), issued)
  BY <1>1, <1>3, AppliedIsSound
<1>5. CASE /\ Become(h, WithPackage(mem[h], n, declined))
           /\ Save(h, WithPackage(mem[h], n, declined))
  <2>1. Takes(h)
    BY <1>4, <1>5 DEF Takes
  <2> QED
    BY <1>1, <2>1, TakesKeeps, Counts DEF Inv
<1>6. CASE SaveFails /\ UNCHANGED mem
  BY <1>1, <1>6, FailureKeeps, Counts DEF Inv
<1> QED
  BY <1>2, <1>5, <1>6

LEMMA ImportLegacyKeeps ==
  ASSUME Inv, NEW h \in Hosts, NEW v \in HubValues, ImportLegacy(h, v)
  PROVE  Inv'
<1> DEFINE d == WithLegacy(mem[h], v)
<1>1. /\ UNCHANGED <<phase, override, lastExported, issued, central>>
      /\ Counted /\ mem[h] \in Conf /\ issued \in Seq(Package)
  BY DEF ImportLegacy, InMenu, Inv
<1>2. d \in Conf /\ d.sha = 0
  BY <1>1 DEF WithLegacy, Conf
<1>3. Sound(d, issued)
  BY <1>1, <1>2 DEF Sound
<1>4. \/ Become(h, d) /\ Save(h, d)
      \/ SaveFails /\ UNCHANGED mem
  BY DEF ImportLegacy
<1>5. CASE Become(h, d) /\ Save(h, d)
  <2>1. Takes(h)
    BY <1>3, <1>5 DEF Takes
  <2> QED
    BY <1>1, <2>1, TakesKeeps, Counts DEF Inv
<1>6. CASE SaveFails /\ UNCHANGED mem
  BY <1>1, <1>6, FailureKeeps, Counts DEF Inv
<1> QED
  BY <1>4, <1>5, <1>6

LEMMA ExportKeeps ==
  ASSUME Inv, NEW h \in Hosts, Export(h)
  PROVE  Inv'
<1>1. PICK ahead \in Offsets :
        LET new == NextRevision(h, Len(issued) + 1 + ahead)
        IN  /\ issued' = Append(issued, [revision |-> new, hub |-> mem[h].hub,
                                         host |-> mem[h].host, from |-> mem[h].from,
                                         account |-> mem[h].account])
            /\ lastExported' = [lastExported EXCEPT ![h] = new]
  BY DEF Export
<1> DEFINE new == NextRevision(h, Len(issued) + 1 + ahead)
           p == [revision |-> new, hub |-> mem[h].hub, host |-> mem[h].host,
                 from |-> mem[h].from, account |-> mem[h].account]
<1>2. mem[h] \in Conf /\ lastExported[h] \in Nat /\ Len(issued) \in Nat /\ ahead \in Nat
  BY OffsetsAreNat DEF Inv
<1>3. mem[h].revision \in Nat
  BY <1>2 DEF Conf
<1>4. new \in Nat
  BY <1>2, <1>3 DEF NextRevision
<1>5. p \in Package
  BY <1>2, <1>4 DEF Package, Conf
<1>6. issued' = Append(issued, p) /\ lastExported' = [lastExported EXCEPT ![h] = new]
  BY <1>1
<1>7. issued' \in Seq(Package) /\ Len(issued') = Len(issued) + 1
  BY <1>5, <1>6 DEF Inv
<1>8. /\ UNCHANGED <<disk, mem, phase, override, central, edits, faults>>
      /\ issued \in Seq(Package)
  BY DEF Export, Inv
<1>9. \A g \in Hosts : Sound(disk[g], issued') /\ Sound(mem[g], issued')
  BY <1>5, <1>6, <1>8, SoundIsKept DEF Inv, AllSound
<1>10. AllSound'
  BY <1>8, <1>9 DEF AllSound
<1>11. central' \in 0 .. Len(issued')
  BY <1>2, <1>7, <1>8 DEF Inv
<1>12. lastExported' \in [Hosts -> Nat]
  BY <1>4, <1>6 DEF Inv
<1> QED
  BY <1>7, <1>8, <1>10, <1>11, <1>12 DEF Inv

LEMMA PublishKeeps == ASSUME Inv, Publish PROVE Inv'
<1>1. UNCHANGED <<hostVars, issued, faults>> /\ Counted /\ central' \in 0 .. Len(issued)
  BY DEF Publish
<1> QED
  BY <1>1, Counts DEF Inv, AllSound, hostVars

LEMMA NextKeeps == Inv /\ [Next]_vars => Inv'
<1> SUFFICES ASSUME Inv, [Next]_vars PROVE Inv'
  OBVIOUS
<1>1. CASE UNCHANGED vars
  BY <1>1 DEF vars, hostVars, Inv, AllSound
<1>2. CASE Publish
  BY <1>2, PublishKeeps
<1>3. ASSUME NEW h \in Hosts, Start(h) PROVE Inv'
  BY <1>3, StartKeeps
<1>4. ASSUME NEW h \in Hosts, Update(h) PROVE Inv'
  BY <1>4, UpdateAppliesKeeps, UpdateKeepsKeeps, UpdateFailsKeeps DEF Update
<1>5. ASSUME NEW h \in Hosts, Leave(h) \/ Killed(h) PROVE Inv'
  BY <1>5, LeaveKeeps, KilledKeeps
<1>6. ASSUME NEW h \in Hosts, Use(h) PROVE Inv'
  <2>1. mem[h].skip \in SUBSET Sections /\ mem[h].keepFrom \in BOOLEAN
    BY DEF Inv, Conf
  <2>2. ASSUME NEW s \in Sections, ToggleSection(h, s) PROVE Inv'
    BY <2>1, <2>2, SetPolicyKeeps DEF ToggleSection
  <2>3. CASE ToggleFrom(h)
    BY <2>1, <2>3, SetPolicyKeeps DEF ToggleFrom
  <2>4. CASE \E k \in Keys : \E v \in Values(k) : Edit(h, k, v)
    BY <2>4, EditKeeps
  <2>5. CASE \E n \in DOMAIN issued : Import(h, n)
    BY <2>5, ImportKeeps
  <2>6. CASE \E v \in HubValues : ImportLegacy(h, v)
    BY <2>6, ImportLegacyKeeps
  <2>7. CASE Export(h)
    BY <2>7, ExportKeeps
  <2> QED
    BY <1>6, <2>2, <2>3, <2>4, <2>5, <2>6, <2>7 DEF Use
<1> QED
  BY <1>1, <1>2, <1>3, <1>4, <1>5, <1>6 DEF Next

(* Markers name issued packages, and memory and disk agree until a save    *)
(* fails, whatever is exported, published, imported and edited.            *)
THEOREM TypeCorrect == Spec => []TypeOK
<1>1. Spec => []Inv
  BY InitKeeps, NextKeeps, PTL DEF Spec
<1> QED
  BY <1>1, InvIsEnough, PTL

(* A value whose editor the menu hides is the value of the package whose   *)
(* hash the host remembers (settings_package.py:172-194, 791-873).         *)
THEOREM ManagedGenuine == Spec => []ManagedIsCentral
<1>1. Spec => []Inv
  BY InitKeeps, NextKeeps, PTL DEF Spec
<1> QED
  BY <1>1, InvIsEnough, PTL

----------------------------------------------------------------------------
(* Until it shows its menu, the program has what is on disk.               *)
Fresh == \A h \in Hosts : phase[h] # "menu" => mem[h] = disk[h]

(* A step of one host leaves the disks of the others alone.                *)
OnlyOf(h) ==
  \A g \in Hosts \ {h} : disk'[g] = disk[g] /\ mem'[g] = mem[g] /\ phase'[g] = phase[g]

LEMMA TakesOnly ==
  ASSUME Inv, NEW h \in Hosts, NEW c, Become(h, c), Save(h, c) \/ SaveFails,
         UNCHANGED phase
  PROVE  OnlyOf(h)
BY DEF Become, Save, SaveFails, Inv, OnlyOf

LEMMA UseOnly ==
  ASSUME Inv, NEW h \in Hosts, Use(h)
  PROVE  OnlyOf(h) /\ phase[h] = "menu" /\ phase' = phase
<1>1. ASSUME NEW k \in Keys, NEW v \in Values(k), Edit(h, k, v)
      PROVE  OnlyOf(h) /\ phase[h] = "menu" /\ phase' = phase
  BY <1>1, TakesOnly DEF Edit, InMenu, Running
<1>2. ASSUME NEW skip, NEW keepFrom, SetPolicy(h, skip, keepFrom)
      PROVE  OnlyOf(h) /\ phase[h] = "menu" /\ phase' = phase
  BY <1>2, TakesOnly DEF SetPolicy, InMenu, Running
<1>3. ASSUME NEW n \in DOMAIN issued, Import(h, n)
      PROVE  OnlyOf(h) /\ phase[h] = "menu" /\ phase' = phase
  <2>1. phase[h] = "menu" /\ phase' = phase
    BY <1>3 DEF Import, InMenu, Running
  <2>2. PICK declined :
          \/ /\ Become(h, WithPackage(mem[h], n, declined))
             /\ Save(h, WithPackage(mem[h], n, declined))
          \/ SaveFails /\ UNCHANGED mem
    BY <1>3 DEF Import
  <2>3. CASE SaveFails /\ UNCHANGED mem
    BY <2>1, <2>3 DEF SaveFails, OnlyOf
  <2> QED
    BY <2>1, <2>2, <2>3, TakesOnly
<1>4. ASSUME NEW v \in HubValues, ImportLegacy(h, v)
      PROVE  OnlyOf(h) /\ phase[h] = "menu" /\ phase' = phase
  <2>1. phase[h] = "menu" /\ phase' = phase
    BY <1>4 DEF ImportLegacy, InMenu, Running
  <2>2. \/ Become(h, WithLegacy(mem[h], v)) /\ Save(h, WithLegacy(mem[h], v))
        \/ SaveFails /\ UNCHANGED mem
    BY <1>4 DEF ImportLegacy
  <2>3. CASE SaveFails /\ UNCHANGED mem
    BY <2>1, <2>3 DEF SaveFails, OnlyOf
  <2> QED
    BY <2>1, <2>2, <2>3, TakesOnly
<1>5. CASE Export(h)
  BY <1>5 DEF Export, Running, OnlyOf
<1> QED
  BY <1>1, <1>2, <1>3, <1>4, <1>5 DEF Use, ToggleSection, ToggleFrom

(* What a host does between its start and its menu.                        *)
Applies(h) ==
  /\ central # 0
  /\ Acceptable(mem[h], central)
  /\ disk'[h] = WithPackage(mem[h], central, Declined(mem[h], central))

LEMMA StartingStep ==
  ASSUME Inv, Next, NEW h \in Hosts
  PROVE  /\ phase[h] = "starting" => disk'[h] = disk[h] \/ Applies(h)
         /\ phase'[h] # "menu" => \/ mem'[h] = disk'[h]
                                  \/ /\ phase[h] # "menu" /\ mem'[h] = mem[h]
                                     /\ disk'[h] = disk[h]
<1> DEFINE Goal == /\ phase[h] = "starting" => disk'[h] = disk[h] \/ Applies(h)
                   /\ phase'[h] # "menu" => \/ mem'[h] = disk'[h]
                                            \/ /\ phase[h] # "menu" /\ mem'[h] = mem[h]
                                               /\ disk'[h] = disk[h]
<1>1. CASE Publish
  BY <1>1 DEF Publish, hostVars
<1>2. ASSUME NEW g \in Hosts, Start(g) PROVE Goal
  BY <1>2 DEF Start, Inv
<1>3. ASSUME NEW g \in Hosts, Leave(g) \/ Killed(g) PROVE Goal
  <2>1. disk' = disk /\ Ends(g)
    BY <1>3 DEF Leave, Killed, SaveFails
  <2> QED
    BY <2>1 DEF Ends, Become, Inv
<1>4. ASSUME NEW g \in Hosts, UpdateApplies(g) PROVE Goal
  <2> DEFINE d == WithPackage(mem[g], central, Declined(mem[g], central))
  <2>1. /\ disk' = [disk EXCEPT ![g] = d] /\ mem' = [mem EXCEPT ![g] = d]
        /\ phase' = [phase EXCEPT ![g] = "menu"]
        /\ central # 0 /\ Acceptable(mem[g], central)
    BY <1>4 DEF UpdateApplies, EntersMenu, Become, Save
  <2> HIDE DEF d
  <2>2. CASE g # h
    BY <2>1, <2>2 DEF Inv
  <2>3. CASE g = h
    BY <2>1, <2>3 DEF Inv, Applies, d
  <2> QED
    BY <2>2, <2>3
<1>5. ASSUME NEW g \in Hosts, UpdateKeeps(g) \/ UpdateFails(g) PROVE Goal
  <2>1. disk' = disk /\ mem' = mem /\ phase' = [phase EXCEPT ![g] = "menu"]
    BY <1>5 DEF UpdateKeeps, UpdateFails, EntersMenu, SaveFails
  <2> QED
    BY <2>1 DEF Inv
<1>6. ASSUME NEW g \in Hosts, Use(g) PROVE Goal
  <2>1. OnlyOf(g) /\ phase[g] = "menu" /\ phase' = phase
    BY <1>6, UseOnly
  <2>2. CASE g = h
    BY <2>1, <2>2
  <2>3. CASE g # h
    BY <2>1, <2>3 DEF OnlyOf
  <2> QED
    BY <2>2, <2>3
<1> QED
  BY <1>1, <1>2, <1>3, <1>4, <1>5, <1>6 DEF Next, Update

LEMMA FreshKeeps == Inv /\ Fresh /\ [Next]_vars => Fresh'
<1>1. ASSUME Inv, Fresh, Next PROVE Fresh'
  BY <1>1, StartingStep DEF Fresh
<1>2. ASSUME Fresh, UNCHANGED vars PROVE Fresh'
  BY <1>2 DEF Fresh, vars, hostVars
<1> QED
  BY <1>1, <1>2

LEMMA AlwaysInv == Spec => [](Inv /\ Fresh)
<1>1. Init => Fresh
  BY DEF Init, Fresh
<1> QED
  BY <1>1, InitKeeps, NextKeeps, FreshKeeps, PTL DEF Spec

(* The effect of a package on the markers and on the identity.             *)
LEMMA AppliedMarkers ==
  ASSUME NEW c \in Conf, issued \in Seq(Package), NEW n \in 1 .. Len(issued)
  PROVE  LET d == WithPackage(c, n, Declined(c, n))
         IN  /\ d.revision = issued[n].revision /\ d.sha = n
             /\ d.revision \in Nat
             /\ c.host # NoName => d.host = c.host
             /\ c.from # NoName => d.from = c.from
<1> DEFINE d == WithPackage(c, n, Declined(c, n))
<1>0. issued[n] \in Package
  OBVIOUS
<1>1. issued[n] \in Package /\ issued[n].revision \in Nat
  BY <1>0 DEF Package
<1>2. d.revision = issued[n].revision /\ d.sha = n
  BY DEF WithPackage, Conf
<1>3. CASE "smtp" \notin Prepared(c, Declined(c, n))
  BY <1>1, <1>2, <1>3 DEF WithPackage, Conf
<1>4. CASE "smtp" \in Prepared(c, Declined(c, n))
  <2>1. "smtp" \notin c.skip /\ ~Conflict(c, issued[n])
    BY <1>4 DEF Prepared, Declined
  <2>2. /\ c.host # NoName => c.host = issued[n].host
        /\ c.keepFrom \/ c.from = NoName \/ c.from = issued[n].from
    BY <2>1 DEF Conflict
  <2>3. d.host = issued[n].host /\ d.from = IF c.keepFrom THEN c.from ELSE issued[n].from
    BY <1>4 DEF WithPackage, Conf
  <2> QED
    BY <1>1, <1>2, <2>2, <2>3
<1> QED
  BY <1>3, <1>4

(* An automatic update never goes back to an older package and never takes *)
(* a second package of the same revision (settings_package.py:824-834).    *)
THEOREM MarkersForward == Spec => MarkersMoveForward
<1> DEFINE Step == \A h \in Hosts : phase[h] = "starting" =>
             \/ disk'[h].revision > disk[h].revision
             \/ /\ disk'[h].revision = disk[h].revision
                /\ disk[h].sha \in {0, disk'[h].sha}
<1>1. ASSUME Inv, Fresh, [Next]_vars PROVE [Step]_vars
  <2>1. CASE UNCHANGED vars
    BY <2>1
  <2>2. CASE Next
    <3> SUFFICES ASSUME NEW h \in Hosts, phase[h] = "starting"
                 PROVE  \/ disk'[h].revision > disk[h].revision
                        \/ /\ disk'[h].revision = disk[h].revision
                           /\ disk[h].sha \in {0, disk'[h].sha}
      OBVIOUS
    <3>1. disk'[h] = disk[h] \/ Applies(h)
      BY <1>1, <2>2, StartingStep
    <3>2. mem[h] = disk[h] /\ mem[h] \in Conf /\ issued \in Seq(Package)
      BY <1>1 DEF Fresh, Inv
    <3>3. CASE Applies(h)
      <4> DEFINE d == WithPackage(mem[h], central, Declined(mem[h], central))
      <4>1. central \in 1 .. Len(issued) /\ disk'[h] = d
        BY <1>1, <3>3 DEF Applies, Inv
      <4>2. d.revision = issued[central].revision /\ d.sha = central /\ d.revision \in Nat
        BY <3>2, <4>1, AppliedMarkers
      <4>3. Acceptable(mem[h], central) /\ mem[h].revision \in Nat
        BY <3>2, <3>3 DEF Applies, Conf
      <4> HIDE DEF d
      <4> QED
        BY <3>2, <4>1, <4>2, <4>3 DEF Acceptable, SameContent
    <3> QED
      BY <3>1, <3>3
  <2> QED
    BY <1>1, <2>1, <2>2
<1> QED
  BY <1>1, AlwaysInv, PTL DEF Spec, MarkersMoveForward

(* An automatic update never changes an SMTP host or a From address that   *)
(* is set (settings_package.py:426-465, 1063-1080).                        *)
THEOREM IdentityKept == Spec => IdentityIsKept
<1> DEFINE Step == \A h \in Hosts, k \in {"host", "from"} :
             phase[h] = "starting" /\ disk[h][k] # NoName => disk'[h][k] = disk[h][k]
<1>1. ASSUME Inv, Fresh, [Next]_vars PROVE [Step]_vars
  <2>1. CASE UNCHANGED vars
    BY <2>1
  <2>2. CASE Next
    <3> SUFFICES ASSUME NEW h \in Hosts, phase[h] = "starting"
                 PROVE  \A k \in {"host", "from"} :
                          disk[h][k] # NoName => disk'[h][k] = disk[h][k]
      OBVIOUS
    <3>1. disk'[h] = disk[h] \/ Applies(h)
      BY <1>1, <2>2, StartingStep
    <3>2. mem[h] = disk[h] /\ mem[h] \in Conf /\ issued \in Seq(Package)
      BY <1>1 DEF Fresh, Inv
    <3>3. CASE Applies(h)
      <4> DEFINE d == WithPackage(mem[h], central, Declined(mem[h], central))
      <4>1. central \in 1 .. Len(issued) /\ disk'[h] = d
        BY <1>1, <3>3 DEF Applies, Inv
      <4>2. /\ mem[h].host # NoName => d.host = mem[h].host
            /\ mem[h].from # NoName => d.from = mem[h].from
        BY <3>2, <4>1, AppliedMarkers
      <4> HIDE DEF d
      <4> QED
        BY <3>2, <4>1, <4>2
    <3> QED
      BY <3>1, <3>3
  <2> QED
    BY <1>1, <2>1, <2>2
<1> QED
  BY <1>1, AlwaysInv, PTL DEF Spec, IdentityIsKept
=============================================================================
