----------------------------- MODULE DiskNames -----------------------------
(***************************************************************************)
(* The shared disk names and the places of the disks                       *)
(* (libs/app/disk_hlp.py, app_10_disk/hub_provider.py, the disk writer of  *)
(* libs/app/hub/database.py).                                              *)
(*                                                                         *)
(* Every host keeps a name and the time it was given for each disk it has  *)
(* seen, in disk.json. A menu reads the file once and keeps it; the hourly *)
(* service reads it in each run. Each of them saves the whole file from    *)
(* what it keeps. A synchronization compares the names with the central    *)
(* registry in one transaction: newer local names are written, newer       *)
(* central names are handed back and applied after the commit.             *)
(*                                                                         *)
(* The registry is InnoDB with its default isolation: a plain SELECT reads *)
(* the snapshot opened by the first SELECT of the transaction, except for  *)
(* a row the transaction has itself changed. The decision, its writes and  *)
(* the commit are one step: the rows stay locked in between, and nobody    *)
(* sees them.                                                              *)
(***************************************************************************)
EXTENDS Naturals, FiniteSets

CONSTANTS Hosts, Disks,
          Procs, HostOf,   \* the processes and the host of each
          Services,        \* the hourly services; the others are menus
          Names,           \* what a user may type, "" clears the name
          Skew,            \* how far the clock of each host is ahead
          Nowhere,         \* a disk no host has reported
          MaxEdits,        \* bound: what the operators do
          MaxMoves,        \* bound: disks carried to another host
          MaxFaults        \* bound: failed transactions, killed processes

ASSUME HostsAreGiven == HostOf \in [Procs -> Hosts] /\ Services \subseteq Procs
ASSUME SkewIsTime == Skew \in [Hosts -> Nat]
ASSUME BoundsAreNat == MaxEdits \in Nat /\ MaxMoves \in Nat /\ MaxFaults \in Nat
ASSUME NowhereIsNoHost == Nowhere \notin Hosts
ASSUME NamesCanBeCleared == "" \in Names

VARIABLES
  file,     \* per host: disk.json
  cache,    \* per process: diskNames and diskNameUpdatedAt in memory
  phase,    \* per process: where its synchronization is
  there,    \* per process: the disks lsblk has listed
  view,     \* per process: the snapshot its transaction reads
  known,    \* per process: the disks that have a row in this snapshot
  gifts,    \* per process: the remote updates it has to apply
  central,  \* the registry: name and time of every disk
  rows,     \* the registry: the disks that have a row
  place,    \* the registry: host_disks, the host of every disk
  where,    \* where every disk really is
  given,    \* history: the names users have given, with their times
  edits, moves, faults

fileVars    == <<file, cache>>
centralVars == <<central, rows, place>>
runVars     == <<phase, there, view, known, gifts>>
vars == <<fileVars, centralVars, runVars, where, given, edits, moves, faults>>

Host(p) == HostOf[p]

NoName == [name |-> "", at |-> 0]     \* neither a name nor a time

Blank == [d \in Disks |-> NoName]

NoGifts == [d \in {} |-> NoName]

At(p, ph) == phase[p] = ph

Goto(p, next) == phase' = [phase EXCEPT ![p] = next]

(* The host's lock is held from the collection to the end of the run.      *)
Busy(h) == \E q \in Procs : Host(q) = h /\ phase[q] \in {"collect", "open", "view", "apply"}

Attached(h) == {d \in Disks : where[d] = h}

----------------------------------------------------------------------------
Init ==
  /\ file = [h \in Hosts |-> Blank]
  /\ cache = [p \in Procs |-> Blank]
  /\ phase = [p \in Procs |-> "idle"]
  /\ there = [p \in Procs |-> {}]
  /\ view = [p \in Procs |-> Blank]
  /\ known = [p \in Procs |-> {}]
  /\ gifts = [p \in Procs |-> NoGifts]
  /\ central = Blank
  /\ rows = {}
  /\ place = [d \in Disks |-> Nowhere]
  /\ where \in [Disks -> Hosts]
  /\ given = {}
  /\ edits = 0
  /\ moves = 0
  /\ faults = 0

(***************************************************************************)
(* The operators.                                                          *)
(***************************************************************************)
Operator(p) ==
  /\ p \notin Services
  /\ At(p, "idle")
  /\ edits < MaxEdits
  /\ edits' = edits + 1

(* A new menu reads the file.                                              *)
Restart(p) ==
  /\ p \notin Services
  /\ At(p, "idle")
  /\ cache' = [cache EXCEPT ![p] = file[Host(p)]]
  /\ UNCHANGED <<file, centralVars, runVars, where, given, edits, moves, faults>>

Save(p) == file' = [file EXCEPT ![Host(p)] = cache'[p]]

Now(h) == edits + 1 + Skew[h]

(* rename_disk: named now, saved, then synchronized best effort.           *)
Rename(p, d, name) ==
  /\ Operator(p)
  /\ d \in Attached(Host(p))
  /\ LET entry == [name |-> name, at |-> Now(Host(p))] IN
       /\ cache' = [cache EXCEPT ![p][d] = entry]
       /\ given' = given \cup {<<d, entry>>}
  /\ Save(p)
  /\ Goto(p, "lock")
  /\ UNCHANGED <<centralVars, there, view, known, gifts, where, moves, faults>>

(* Another setting of the same file is changed.                            *)
ChangeDir(p) ==
  /\ Operator(p)
  /\ UNCHANGED cache
  /\ Save(p)
  /\ UNCHANGED <<centralVars, runVars, where, given, moves, faults>>

SyncAll(p) ==
  /\ Operator(p)
  /\ Goto(p, "lock")
  /\ UNCHANGED <<fileVars, centralVars, there, view, known, gifts, where, given, moves,
                 faults>>

(* A disk is carried to another host.                                      *)
Move(d, h) ==
  /\ moves < MaxMoves
  /\ where[d] # h
  /\ where' = [where EXCEPT ![d] = h]
  /\ moves' = moves + 1
  /\ UNCHANGED <<fileVars, centralVars, runVars, given, edits, faults>>

(***************************************************************************)
(* A synchronization of the disks.                                         *)
(***************************************************************************)
(* A run takes the lock of its host without waiting, or gives up.          *)
Attempt(p) ==
  /\ IF Busy(Host(p)) THEN Goto(p, "idle") ELSE Goto(p, "collect")
  /\ UNCHANGED <<fileVars, centralVars, there, view, known, gifts, where, given, edits, moves,
                 faults>>

(* The service is started: it has nothing to do before it asks for the lock. *)
TimerFires(p) == p \in Services /\ At(p, "idle") /\ Attempt(p)

(* The end of a run; the service forgets everything with its process.      *)
Leave(p) ==
  /\ Goto(p, "idle")
  /\ there' = [there EXCEPT ![p] = {}]
  /\ view' = [view EXCEPT ![p] = Blank]
  /\ known' = [known EXCEPT ![p] = {}]
  /\ gifts' = [gifts EXCEPT ![p] = NoGifts]

Forget(p) == IF p \in Services THEN [cache EXCEPT ![p] = Blank] ELSE cache

TakeLock(p) == At(p, "lock") /\ Attempt(p)

(* disk_settings.init reads the file once per process.                     *)
Collect(p) ==
  /\ At(p, "collect")
  /\ cache' = IF p \in Services THEN [cache EXCEPT ![p] = file[Host(p)]] ELSE cache
  /\ there' = [there EXCEPT ![p] = Attached(Host(p))]
  /\ Goto(p, "open")
  /\ UNCHANGED <<file, centralVars, view, known, gifts, where, given, edits, moves, faults>>

(* The first SELECT of the transaction (_host_id) fixes what it sees of    *)
(* the rows it does not write.                                             *)
OpenView(p) ==
  /\ At(p, "open")
  /\ view' = [view EXCEPT ![p] = central]
  /\ known' = [known EXCEPT ![p] = rows]
  /\ Goto(p, "view")
  /\ UNCHANGED <<fileVars, centralVars, there, gifts, where, given, edits, moves, faults>>

(* What is sent: the disks that are there, and those known by name.        *)
Items(p) == there[p] \cup {d \in Disks : cache[p][d] # NoName}

(* last_seen_at changes the row of a disk that is there, so its newest     *)
(* version is read; a disk that is only in the catalog is not touched.     *)
Seen(p, d) == IF d \in there[p] THEN central[d] ELSE view[p][d]

(* A row inserted since the snapshot keeps a catalog-only disk from being  *)
(* inserted, and the SELECT that follows does not find it.                 *)
Unresolved(p) == (Items(p) \ (there[p] \cup known[p])) \cap rows

(* Slip: the names are written whatever their times.                       *)
PushedBlindly(p) == {d \in Items(p) : cache[p][d].name # Seen(p, d).name}

Pushed(p) == {d \in Items(p) : cache[p][d].at > Seen(p, d).at}

Pulled(p) == {d \in Items(p) \ Pushed(p) :
                /\ Seen(p, d) # NoName
                /\ Seen(p, d).name # cache[p][d].name}

(* Slip: the name is kept with the time of the synchronization.            *)
WrittenNow(p) ==
  /\ rows' = rows \cup Items(p)
  /\ central' = [d \in Disks |-> IF d \in Pushed(p)
                                   THEN [cache[p][d] EXCEPT !.at = Now(Host(p))]
                                   ELSE central[d]]
  /\ place' = [d \in Disks |-> IF d \in there[p] THEN Host(p)
                               ELSE IF place[d] = Host(p) THEN Nowhere ELSE place[d]]

(* Slip: rows of other hosts are kept.                                     *)
WrittenBeside(p) ==
  /\ rows' = rows \cup Items(p)
  /\ central' = [d \in Disks |-> IF d \in Pushed(p) THEN cache[p][d] ELSE central[d]]
  /\ place' = [d \in Disks |-> IF d \in there[p] /\ place[d] = Nowhere THEN Host(p)
                               ELSE place[d]]

Written(p) ==
  /\ rows' = rows \cup Items(p)
  /\ central' = [d \in Disks |-> IF d \in Pushed(p) THEN cache[p][d] ELSE central[d]]
  /\ place' = [d \in Disks |-> IF d \in there[p] THEN Host(p)
                               ELSE IF place[d] = Host(p) THEN Nowhere ELSE place[d]]

Commit(p) ==
  /\ At(p, "view")
  /\ Unresolved(p) = {}
  /\ Written(p)
  /\ gifts' = [gifts EXCEPT ![p] = [d \in Pulled(p) |-> Seen(p, d)]]
  /\ Goto(p, "apply")
  /\ UNCHANGED <<fileVars, there, view, known, where, given, edits, moves, faults>>

(* One disk it cannot resolve, and the whole transaction is rolled back.   *)
CommitRefused(p) ==
  /\ At(p, "view")
  /\ Unresolved(p) # {}
  /\ cache' = Forget(p)
  /\ Leave(p)
  /\ UNCHANGED <<file, centralVars, where, given, edits, moves, faults>>

(* Rolled back; or committed and the answer is lost.                       *)
CommitFails(p) ==
  /\ At(p, "view")
  /\ faults < MaxFaults /\ faults' = faults + 1
  /\ \/ Unresolved(p) = {} /\ Written(p)
     \/ UNCHANGED centralVars
  /\ cache' = Forget(p)
  /\ Leave(p)
  /\ UNCHANGED <<file, where, given, edits, moves>>

(* Slip: only what is strictly newer is accepted: a tie is never settled.  *)
TiesAreKept(p) ==
  {d \in DOMAIN gifts[p] : gifts[p][d].at > cache[p][d].at}

(* apply_remote_names: what is not older than the name in memory.          *)
Accepted(p) ==
  {d \in DOMAIN gifts[p] : gifts[p][d].at >= cache[p][d].at /\ gifts[p][d] # cache[p][d]}

Apply(p) ==
  /\ At(p, "apply")
  /\ LET names == [d \in Disks |-> IF d \in Accepted(p) THEN gifts[p][d] ELSE cache[p][d]] IN
       /\ file' = IF Accepted(p) # {} THEN [file EXCEPT ![Host(p)] = names] ELSE file
       /\ cache' = IF p \in Services THEN Forget(p) ELSE [cache EXCEPT ![p] = names]
  /\ Leave(p)
  /\ UNCHANGED <<centralVars, where, given, edits, moves, faults>>

(* A killed menu is started again when somebody needs it.                  *)
Die(p) ==
  /\ ~At(p, "idle")
  /\ faults < MaxFaults /\ faults' = faults + 1
  /\ cache' = [cache EXCEPT ![p] = IF p \in Services THEN Blank ELSE file[Host(p)]]
  /\ Leave(p)
  /\ UNCHANGED <<file, centralVars, where, given, edits, moves>>

Run(p) ==
  \/ TakeLock(p) \/ Collect(p) \/ OpenView(p)
  \/ Commit(p) \/ CommitRefused(p) \/ CommitFails(p) \/ Apply(p)

Next ==
  \/ \E p \in Procs :
       \/ Restart(p) \/ ChangeDir(p) \/ SyncAll(p) \/ TimerFires(p) \/ Run(p) \/ Die(p)
       \/ \E d \in Disks, name \in Names : Rename(p, d, name)
  \/ \E d \in Disks, h \in Hosts : Move(d, h)

(* Calls time out, and the timers fire for ever; operators do as they like.*)
Fairness == \A p \in Procs : WF_vars(Run(p)) /\ WF_vars(TimerFires(p))

Spec == Init /\ [][Next]_vars

FairSpec == Spec /\ Fairness

----------------------------------------------------------------------------
Entries == [name : Names, at : Nat]

TypeOK ==
  /\ file \in [Hosts -> [Disks -> Entries]]
  /\ cache \in [Procs -> [Disks -> Entries]]
  /\ phase \in [Procs -> {"idle", "lock", "collect", "open", "view", "apply"}]
  /\ there \in [Procs -> SUBSET Disks]
  /\ view \in [Procs -> [Disks -> Entries]]
  /\ known \in [Procs -> SUBSET Disks]
  /\ DOMAIN gifts = Procs
  /\ \A p \in Procs : \E G \in SUBSET Disks : gifts[p] \in [G -> Entries]
  /\ central \in [Disks -> Entries]
  /\ rows \subseteq Disks
  /\ place \in [Disks -> Hosts \cup {Nowhere}]
  /\ where \in [Disks -> Hosts]
  /\ given \subseteq Disks \X Entries
  /\ edits \in 0 .. MaxEdits
  /\ moves \in 0 .. MaxMoves
  /\ faults \in 0 .. MaxFaults

(***************************************************************************)
(* Properties.                                                             *)
(***************************************************************************)

(* A name travels with the time its user gave it: no merge of a file, a    *)
(* memory and the registry makes up a pair nobody has given, which would   *)
(* let an old name win every comparison from then on.                      *)
Genuine(d, entry) == entry = NoName \/ <<d, entry>> \in given

NamesAreGenuine ==
  \A d \in Disks :
    /\ Genuine(d, central[d])
    /\ \A h \in Hosts : Genuine(d, file[h][d])
    /\ \A p \in Procs : Genuine(d, cache[p][d]) /\ Genuine(d, view[p][d])
    /\ \A p \in Procs : d \in DOMAIN gifts[p] => Genuine(d, gifts[p][d])

(* A name in the registry is replaced by an older one in a single case: by *)
(* a host that knows the disk by name only and read a row that was changed *)
(* before its commit. The host that has the disk never does it, however    *)
(* long ago it collected its own name, nor does anybody to a row that was  *)
(* not in his snapshot.                                                    *)
Overwrites(p, d) ==
  /\ At(p, "view") /\ ~At(p, "view")'
  /\ d \in known[p] \ there[p]
  /\ view[p][d].at < central[d].at

NewerNameStays ==
  [][\A d \in Disks :
       central'[d].at < central[d].at => \E p \in Procs : Overwrites(p, d)]_vars

(* When the operators are done, all hosts that know a disk and the         *)
(* registry come to agree on its name: after ties, wrong clocks, files     *)
(* overwritten from an old memory and lost answers alike.                  *)
HostsAgree ==
  \A h \in Hosts, d \in Disks :
    <>[](where[d] = h \/ file[h][d] # NoName => file[h][d].name = central[d].name)

(* A carried disk is found on its new host, though its old host may commit *)
(* what it collected before.                                               *)
PlacesAreFound == \A d \in Disks : <>[](place[d] = where[d])

(* What docs/sysapps-hub.md says of the names: the newest one wins.        *)
(* (Violated: see the README.)                                             *)
Newest(d) == \A g \in given : g[1] = d => g[2].at <= central[d].at

NewestNameWins == \A d \in Disks : <>[]Newest(d)
=============================================================================
