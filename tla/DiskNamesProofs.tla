-------------------------- MODULE DiskNamesProofs --------------------------
(***************************************************************************)
(* Proofs about DiskNames for any number of hosts, processes and disks,    *)
(* any clocks and any number of renames, moves and faults.                 *)
(***************************************************************************)
EXTENDS DiskNames, TLAPS

(* NoName and what is made of it are entries (disk_hlp.py:16-20).          *)
LEMMA NoNameTypes ==
  /\ NoName \in Entries
  /\ Blank \in [Disks -> Entries]
  /\ NoGifts \in [{} -> Entries]
BY NamesCanBeCleared DEF NoName, Blank, NoGifts, Entries

(* The host of a process is a host.                                        *)
LEMMA HostIsHost ==
  ASSUME NEW p \in Procs
  PROVE  Host(p) \in Hosts
BY HostsAreGiven DEF Host

(* A clock shows a time.                                                   *)
LEMMA NowIsTime ==
  ASSUME NEW h \in Hosts, TypeOK
  PROVE  Now(h) \in Nat
BY SkewIsTime, BoundsAreNat DEF Now, TypeOK

(* What a transaction reads of a disk is an entry.                         *)
LEMMA SeenType ==
  ASSUME NEW p \in Procs, NEW d \in Disks, TypeOK
  PROVE  Seen(p, d) \in Entries
BY DEF Seen, TypeOK

(* A transaction only writes and hands back disks it was sent.             *)
LEMMA ItemsAreDisks ==
  ASSUME NEW p \in Procs, TypeOK
  PROVE  /\ Items(p) \subseteq Disks
         /\ Pushed(p) \subseteq Items(p)
         /\ Pulled(p) \subseteq Disks
BY DEF Items, Pushed, Pulled, TypeOK

(* Leaving a run keeps the state of all runs well formed.                  *)
LEMMA LeaveTypes ==
  ASSUME NEW p \in Procs, TypeOK, Leave(p)
  PROVE  /\ phase' \in [Procs -> {"idle", "lock", "collect", "open", "view", "apply"}]
         /\ there' \in [Procs -> SUBSET Disks]
         /\ view' \in [Procs -> [Disks -> Entries]]
         /\ known' \in [Procs -> SUBSET Disks]
         /\ DOMAIN gifts' = Procs
         /\ \A q \in Procs : \E G \in SUBSET Disks : gifts'[q] \in [G -> Entries]
<1>1. /\ phase' \in [Procs -> {"idle", "lock", "collect", "open", "view", "apply"}]
      /\ there' \in [Procs -> SUBSET Disks]
      /\ known' \in [Procs -> SUBSET Disks]
  BY DEF Leave, Goto, TypeOK
<1>2. view' \in [Procs -> [Disks -> Entries]]
  BY NoNameTypes DEF Leave, TypeOK
<1>3. DOMAIN gifts' = Procs
  BY DEF Leave, TypeOK
<1>4. ASSUME NEW q \in Procs
      PROVE  \E G \in SUBSET Disks : gifts'[q] \in [G -> Entries]
  <2>1. CASE q = p
    <3>1. gifts'[q] \in [{} -> Entries]
      BY <2>1, NoNameTypes DEF Leave, TypeOK
    <3>2. QED
      BY <3>1
  <2>2. CASE q # p
    <3>1. gifts'[q] = gifts[q]
      BY <2>2 DEF Leave, TypeOK
    <3>2. QED
      BY <3>1 DEF TypeOK
  <2>3. QED
    BY <2>1, <2>2
<1>5. QED
  BY <1>1, <1>2, <1>3, <1>4

(* The registry stays well formed by the writes of a transaction.          *)
LEMMA WrittenTypes ==
  ASSUME NEW p \in Procs, TypeOK, Written(p)
  PROVE  /\ central' \in [Disks -> Entries]
         /\ rows' \subseteq Disks
         /\ place' \in [Disks -> Hosts \cup {Nowhere}]
<1>1. central' \in [Disks -> Entries]
  BY DEF Written, TypeOK
<1>2. place' \in [Disks -> Hosts \cup {Nowhere}]
  BY HostIsHost DEF Written, TypeOK
<1>3. rows' \subseteq Disks
  BY ItemsAreDisks DEF Written, TypeOK
<1>4. QED
  BY <1>1, <1>2, <1>3

(* Saving a well formed memory gives a well formed file.                   *)
LEMMA SaveTypes ==
  ASSUME NEW p \in Procs, TypeOK, cache' \in [Procs -> [Disks -> Entries]], Save(p)
  PROVE  file' \in [Hosts -> [Disks -> Entries]]
BY HostIsHost DEF Save, TypeOK

(* The memory after the process of a service is gone.                      *)
LEMMA ForgetTypes ==
  ASSUME NEW p \in Procs, TypeOK
  PROVE  Forget(p) \in [Procs -> [Disks -> Entries]]
<1>1. cache \in [Procs -> [Disks -> Entries]]
  BY DEF TypeOK
<1>2. QED
  BY <1>1, NoNameTypes DEF Forget

----------------------------------------------------------------------------
(* Every reachable state is well formed (disk_hlp.py, hub_provider.py and  *)
(* database.py:713-900).                                                   *)
THEOREM TypeCorrect == Spec => []TypeOK
<1>1. Init => TypeOK
  <2>1. SUFFICES ASSUME Init PROVE TypeOK
    OBVIOUS
  <2>2. /\ file \in [Hosts -> [Disks -> Entries]]
        /\ cache \in [Procs -> [Disks -> Entries]]
        /\ view \in [Procs -> [Disks -> Entries]]
        /\ central \in [Disks -> Entries]
    BY <2>1, NoNameTypes DEF Init
  <2>3. /\ DOMAIN gifts = Procs
        /\ \A p \in Procs : gifts[p] \in [{} -> Entries]
    BY <2>1, NoNameTypes DEF Init
  <2>4. \A p \in Procs : \E G \in SUBSET Disks : gifts[p] \in [G -> Entries]
    BY <2>3
  <2>5. /\ phase \in [Procs -> {"idle", "lock", "collect", "open", "view", "apply"}]
        /\ there \in [Procs -> SUBSET Disks]
        /\ known \in [Procs -> SUBSET Disks]
        /\ rows \subseteq Disks
        /\ place \in [Disks -> Hosts \cup {Nowhere}]
        /\ where \in [Disks -> Hosts]
        /\ given \subseteq Disks \X Entries
    BY <2>1 DEF Init
  <2>6. edits \in 0 .. MaxEdits /\ moves \in 0 .. MaxMoves /\ faults \in 0 .. MaxFaults
    BY <2>1, BoundsAreNat DEF Init
  <2>7. QED
    BY <2>2, <2>3, <2>4, <2>5, <2>6 DEF TypeOK
<1>2. TypeOK /\ [Next]_vars => TypeOK'
  <2>1. SUFFICES ASSUME TypeOK, [Next]_vars PROVE TypeOK'
    OBVIOUS
  <2>2. ASSUME NEW p \in Procs, Restart(p) PROVE TypeOK'
    <3>1. cache' \in [Procs -> [Disks -> Entries]]
      BY <2>1, <2>2, HostIsHost DEF Restart, TypeOK
    <3>2. QED
      BY <2>1, <2>2, <3>1
      DEF Restart, TypeOK, fileVars, centralVars, runVars
  <2>3. ASSUME NEW p \in Procs, NEW d \in Disks, NEW name \in Names, Rename(p, d, name)
        PROVE TypeOK'
    <3>1. [name |-> name, at |-> Now(Host(p))] \in Entries
      BY <2>1, HostIsHost, NowIsTime DEF Entries
    <3>2. /\ cache' \in [Procs -> [Disks -> Entries]]
          /\ given' \subseteq Disks \X Entries
      BY <2>1, <2>3, <3>1 DEF Rename, TypeOK
    <3>3. file' \in [Hosts -> [Disks -> Entries]]
      BY <2>1, <2>3, <3>2, SaveTypes DEF Rename
    <3>4. edits' \in 0 .. MaxEdits
      BY <2>1, <2>3, BoundsAreNat DEF Rename, Operator, TypeOK
    <3>5. phase' \in [Procs -> {"idle", "lock", "collect", "open", "view", "apply"}]
      BY <2>1, <2>3 DEF Rename, Goto, TypeOK
    <3>6. QED
      BY <2>1, <2>3, <3>2, <3>3, <3>4, <3>5
      DEF Rename, TypeOK, centralVars
  <2>4. ASSUME NEW p \in Procs, ChangeDir(p) PROVE TypeOK'
    <3>1. cache' \in [Procs -> [Disks -> Entries]]
      BY <2>1, <2>4 DEF ChangeDir, TypeOK
    <3>2. file' \in [Hosts -> [Disks -> Entries]]
      BY <2>1, <2>4, <3>1, SaveTypes DEF ChangeDir
    <3>3. edits' \in 0 .. MaxEdits
      BY <2>1, <2>4, BoundsAreNat DEF ChangeDir, Operator, TypeOK
    <3>4. QED
      BY <2>1, <2>4, <3>1, <3>2, <3>3
      DEF ChangeDir, TypeOK, centralVars, runVars
  <2>5. ASSUME NEW p \in Procs, SyncAll(p) PROVE TypeOK'
    <3>1. edits' \in 0 .. MaxEdits
      BY <2>1, <2>5, BoundsAreNat DEF SyncAll, Operator, TypeOK
    <3>2. QED
      BY <2>1, <2>5, <3>1
      DEF SyncAll, Goto, TypeOK, fileVars, centralVars
  <2>6. ASSUME NEW d \in Disks, NEW h \in Hosts, Move(d, h) PROVE TypeOK'
    <3>1. moves' \in 0 .. MaxMoves
      BY <2>1, <2>6, BoundsAreNat DEF Move, TypeOK
    <3>2. QED
      BY <2>1, <2>6, <3>1
      DEF Move, TypeOK, fileVars, centralVars, runVars
  <2>7. ASSUME NEW p \in Procs, TimerFires(p) PROVE TypeOK'
    BY <2>1, <2>7 DEF TimerFires, Attempt, Goto, TypeOK, fileVars, centralVars
  <2>8. ASSUME NEW p \in Procs, TakeLock(p) PROVE TypeOK'
    BY <2>1, <2>8 DEF TakeLock, Attempt, Goto, TypeOK, fileVars, centralVars
  <2>9. ASSUME NEW p \in Procs, Collect(p) PROVE TypeOK'
    <3>1. cache' \in [Procs -> [Disks -> Entries]]
      BY <2>1, <2>9, HostIsHost DEF Collect, TypeOK
    <3>2. /\ there' \in [Procs -> SUBSET Disks]
          /\ phase' \in [Procs -> {"idle", "lock", "collect", "open", "view", "apply"}]
      BY <2>1, <2>9 DEF Collect, Goto, Attached, TypeOK
    <3>3. QED
      BY <2>1, <2>9, <3>1, <3>2 DEF Collect, TypeOK, centralVars
  <2>9a. ASSUME NEW p \in Procs, OpenView(p) PROVE TypeOK'
    BY <2>1, <2>9a DEF OpenView, Goto, TypeOK, fileVars, centralVars
  <2>10. ASSUME NEW p \in Procs, Commit(p) PROVE TypeOK'
    <3>1. /\ central' \in [Disks -> Entries] /\ rows' \subseteq Disks
          /\ place' \in [Disks -> Hosts \cup {Nowhere}]
      BY <2>1, <2>10, WrittenTypes DEF Commit
    <3>2. [d \in Pulled(p) |-> Seen(p, d)] \in [Pulled(p) -> Entries]
      BY <2>1, ItemsAreDisks, SeenType
    <3>3. DOMAIN gifts' = Procs
      BY <2>1, <2>10 DEF Commit, TypeOK
    <3>4. ASSUME NEW q \in Procs
          PROVE  \E G \in SUBSET Disks : gifts'[q] \in [G -> Entries]
      <4>1. CASE q = p
        <5>1. gifts'[q] \in [Pulled(p) -> Entries]
          BY <2>1, <2>10, <3>2, <4>1 DEF Commit, TypeOK
        <5>2. QED
          BY <2>1, <5>1, ItemsAreDisks
      <4>2. CASE q # p
        <5>1. gifts'[q] = gifts[q]
          BY <2>1, <2>10, <4>2 DEF Commit, TypeOK
        <5>2. QED
          BY <2>1, <5>1 DEF TypeOK
      <4>3. QED
        BY <4>1, <4>2
    <3>5. phase' \in [Procs -> {"idle", "lock", "collect", "open", "view", "apply"}]
      BY <2>1, <2>10 DEF Commit, Goto, TypeOK
    <3>6. QED
      BY <2>1, <2>10, <3>1, <3>3, <3>4, <3>5 DEF Commit, TypeOK, fileVars
  <2>10a. ASSUME NEW p \in Procs, CommitRefused(p) PROVE TypeOK'
    <3>1. cache' \in [Procs -> [Disks -> Entries]]
      BY <2>1, <2>10a, ForgetTypes DEF CommitRefused
    <3>2. Leave(p)
      BY <2>10a DEF CommitRefused
    <3>3. QED
      BY <2>1, <2>10a, <3>1, <3>2, LeaveTypes DEF CommitRefused, TypeOK, centralVars
  <2>11. ASSUME NEW p \in Procs, CommitFails(p) PROVE TypeOK'
    <3>1. /\ central' \in [Disks -> Entries] /\ rows' \subseteq Disks
          /\ place' \in [Disks -> Hosts \cup {Nowhere}]
      BY <2>1, <2>11, WrittenTypes DEF CommitFails, TypeOK, centralVars
    <3>2. cache' \in [Procs -> [Disks -> Entries]]
      BY <2>1, <2>11, ForgetTypes DEF CommitFails
    <3>3. faults' \in 0 .. MaxFaults
      BY <2>1, <2>11, BoundsAreNat DEF CommitFails, TypeOK
    <3>4. Leave(p)
      BY <2>11 DEF CommitFails
    <3>5. QED
      BY <2>1, <2>11, <3>1, <3>2, <3>3, <3>4, LeaveTypes DEF CommitFails, TypeOK
  <2>12. ASSUME NEW p \in Procs, Apply(p) PROVE TypeOK'
    <3>1. PICK G \in SUBSET Disks : gifts[p] \in [G -> Entries]
      BY <2>1 DEF TypeOK
    <3>2. \A d \in Accepted(p) : gifts[p][d] \in Entries
      BY <3>1 DEF Accepted
    <3>3. [d \in Disks |-> IF d \in Accepted(p) THEN gifts[p][d] ELSE cache[p][d]]
            \in [Disks -> Entries]
      BY <2>1, <3>2 DEF TypeOK
    <3>4. file' \in [Hosts -> [Disks -> Entries]]
      BY <2>1, <2>12, <3>3, HostIsHost DEF Apply, TypeOK
    <3>5. cache' \in [Procs -> [Disks -> Entries]]
      BY <2>1, <2>12, <3>3, ForgetTypes DEF Apply, TypeOK
    <3>6. Leave(p)
      BY <2>12 DEF Apply
    <3>7. QED
      BY <2>1, <2>12, <3>4, <3>5, <3>6, LeaveTypes DEF Apply, TypeOK, centralVars
  <2>13. ASSUME NEW p \in Procs, Die(p) PROVE TypeOK'
    <3>1. cache' \in [Procs -> [Disks -> Entries]]
      BY <2>1, <2>13, HostIsHost, NoNameTypes DEF Die, TypeOK
    <3>2. faults' \in 0 .. MaxFaults
      BY <2>1, <2>13, BoundsAreNat DEF Die, TypeOK
    <3>3. Leave(p)
      BY <2>13 DEF Die
    <3>4. QED
      BY <2>1, <2>13, <3>1, <3>2, <3>3, LeaveTypes DEF Die, TypeOK, centralVars
  <2>14. CASE UNCHANGED vars
    BY <2>1, <2>14 DEF TypeOK, vars, fileVars, centralVars, runVars
  <2>15. QED
    BY <2>1, <2>2, <2>3, <2>4, <2>5, <2>6, <2>7, <2>8, <2>9, <2>9a, <2>10, <2>10a, <2>11,
       <2>12, <2>13, <2>14
    DEF Next, Run
<1>3. QED
  BY <1>1, <1>2, PTL DEF Spec

----------------------------------------------------------------------------
(* A disk without a row has no name in the registry (database.py:778-797). *)
NamedHaveRows == \A d \in Disks : d \notin rows => central[d] = NoName

(* What a step does to the registry is the write of one transaction.       *)
LEMMA OnlyCommitsWrite ==
  ASSUME TypeOK, [Next]_vars, ~UNCHANGED centralVars
  PROVE  \E p \in Procs :
           At(p, "view") /\ ~At(p, "view")' /\ Unresolved(p) = {} /\ Written(p)
<1>1. ASSUME NEW p \in Procs, Commit(p)
      PROVE  At(p, "view") /\ ~At(p, "view")' /\ Unresolved(p) = {} /\ Written(p)
  BY <1>1 DEF Commit, At, Goto, TypeOK
<1>2. ASSUME NEW p \in Procs, CommitFails(p)
      PROVE  At(p, "view") /\ ~At(p, "view")' /\ Unresolved(p) = {} /\ Written(p)
  BY <1>2 DEF CommitFails, Leave, At, Goto, TypeOK
<1>3. ASSUME NEW p \in Procs,
             \/ Restart(p) \/ ChangeDir(p) \/ SyncAll(p) \/ TimerFires(p)
             \/ TakeLock(p) \/ Collect(p) \/ OpenView(p) \/ CommitRefused(p) \/ Apply(p)
             \/ Die(p)
      PROVE  FALSE
  BY <1>3
  DEF Restart, ChangeDir, SyncAll, TimerFires, TakeLock, Attempt, Collect, OpenView,
      CommitRefused, Apply, Die
<1>4. ASSUME NEW p \in Procs, NEW e \in Disks, NEW name \in Names, Rename(p, e, name)
      PROVE  FALSE
  BY <1>4 DEF Rename
<1>5. ASSUME NEW e \in Disks, NEW h \in Hosts, Move(e, h) PROVE FALSE
  BY <1>5 DEF Move
<1>6. CASE UNCHANGED vars
  BY <1>6 DEF vars
<1>7. QED
  BY <1>1, <1>2, <1>3, <1>4, <1>5, <1>6 DEF Next, Run

(* Every transaction inserts the row of a disk before it writes its name.  *)
LEMMA RowsComeFirst == Spec => []NamedHaveRows
<1>1. Init => NamedHaveRows
  BY DEF Init, NamedHaveRows, Blank
<1>2. TypeOK /\ NamedHaveRows /\ [Next]_vars => NamedHaveRows'
  <2>1. SUFFICES ASSUME TypeOK, NamedHaveRows, [Next]_vars PROVE NamedHaveRows'
    OBVIOUS
  <2>2. CASE UNCHANGED centralVars
    BY <2>1, <2>2 DEF NamedHaveRows, centralVars
  <2>3. CASE ~UNCHANGED centralVars
    <3>1. PICK p \in Procs : Written(p)
      BY <2>1, <2>3, OnlyCommitsWrite
    <3>2. QED
      BY <2>1, <3>1, ItemsAreDisks DEF NamedHaveRows, Written
  <2>4. QED
    BY <2>2, <2>3
<1>3. QED
  BY <1>1, <1>2, TypeCorrect, PTL DEF Spec

(* A commit of a host that has the disk compares with the newest row, and  *)
(* one that knows it by name only with a row of its snapshot: only a row   *)
(* that was changed since can be replaced by an older name                 *)
(* (database.py:778-845).                                                  *)
THEOREM NewerStays == Spec => NewerNameStays
<1>1. TypeOK /\ NamedHaveRows /\ [Next]_vars =>
        [\A d \in Disks :
           central'[d].at < central[d].at => \E p \in Procs : Overwrites(p, d)]_vars
  <2>1. SUFFICES ASSUME TypeOK, NamedHaveRows, [Next]_vars, NEW d \in Disks,
                        central'[d].at < central[d].at
                 PROVE  \E p \in Procs : Overwrites(p, d)
    OBVIOUS
  <2>2. central[d].at \in Nat
    BY <2>1 DEF TypeOK, Entries
  <2>3. ASSUME UNCHANGED centralVars PROVE FALSE
    <3>1. central' = central
      BY <2>3 DEF centralVars
    <3>2. central[d].at < central[d].at
      BY <2>1, <3>1
    <3>3. QED
      BY <2>2, <3>2
  <2>4. PICK p \in Procs :
          At(p, "view") /\ ~At(p, "view")' /\ Unresolved(p) = {} /\ Written(p)
    BY <2>1, <2>3, OnlyCommitsWrite
  <2>5. d \in Pushed(p) /\ central'[d] = cache[p][d]
    <3>1. SUFFICES ASSUME d \notin Pushed(p) PROVE FALSE
      BY <2>4 DEF Written
    <3>2. central'[d] = central[d]
      BY <2>4, <3>1 DEF Written
    <3>3. central[d].at < central[d].at
      BY <2>1, <3>2
    <3>4. QED
      BY <2>2, <3>3
  <2>6. cache[p][d].at \in Nat /\ view[p][d].at \in Nat
    BY <2>1 DEF TypeOK, Entries
  <2>7. d \notin there[p]
    <3>1. SUFFICES ASSUME d \in there[p] PROVE FALSE
      OBVIOUS
    <3>2. cache[p][d].at > central[d].at
      BY <2>5, <3>1 DEF Pushed, Seen
    <3>3. QED
      BY <2>1, <2>2, <2>5, <2>6, <3>2
  <2>8. view[p][d].at < central[d].at
    <3>1. cache[p][d].at > view[p][d].at
      BY <2>5, <2>7 DEF Pushed, Seen
    <3>2. QED
      BY <2>1, <2>2, <2>5, <2>6, <3>1
  <2>9. d \in known[p]
    <3>1. d \in rows
      <4>1. central[d].at # 0
        BY <2>2, <2>6, <2>8
      <4>2. NoName.at = 0
        BY DEF NoName
      <4>3. QED
        BY <2>1, <4>1, <4>2 DEF NamedHaveRows
    <3>2. d \in Items(p)
      BY <2>5 DEF Pushed
    <3>3. QED
      BY <2>4, <2>7, <3>1, <3>2 DEF Unresolved
  <2>10. QED
    BY <2>4, <2>7, <2>8, <2>9 DEF Overwrites
<1>2. QED
  BY <1>1, TypeCorrect, RowsComeFirst, PTL DEF Spec, NewerNameStays
----------------------------------------------------------------------------
(* A registry a transaction has written holds genuine names.               *)
LEMMA WrittenGenuine ==
  ASSUME NEW p \in Procs, NamesAreGenuine, Written(p), NEW d \in Disks
  PROVE  Genuine(d, central'[d])
BY DEF NamesAreGenuine, Written, Items, Pushed, Genuine

(* What a transaction reads is genuine.                                    *)
LEMMA SeenGenuine ==
  ASSUME NEW p \in Procs, NamesAreGenuine, NEW d \in Disks
  PROVE  Genuine(d, Seen(p, d))
BY DEF NamesAreGenuine, Seen

(* Leaving a run makes up no name.                                         *)
LEMMA LeaveGenuine ==
  ASSUME NEW p \in Procs, TypeOK, NamesAreGenuine, Leave(p), NEW q \in Procs, NEW d \in Disks
  PROVE  /\ Genuine(d, view'[q][d])
         /\ d \in DOMAIN gifts'[q] => Genuine(d, gifts'[q][d])
<1>1. Genuine(d, Blank[d])
  BY DEF Genuine, Blank
<1>2. view'[q][d] = Blank[d] \/ view'[q] = view[q]
  BY DEF Leave, TypeOK
<1>3. DOMAIN gifts'[q] = {} \/ gifts'[q] = gifts[q]
  BY DEF Leave, NoGifts, TypeOK
<1>4. QED
  BY <1>1, <1>2, <1>3 DEF NamesAreGenuine

(* Memory, file, registry and what is under way never hold a name with a   *)
(* time its user did not give it: whole files saved from old memories,     *)
(* lost answers and kills included.                                        *)
THEOREM NamesGenuine == Spec => []NamesAreGenuine
<1>1. Init => NamesAreGenuine
  BY DEF Init, NamesAreGenuine, Genuine, Blank, NoGifts
<1>2. TypeOK /\ NamesAreGenuine /\ [Next]_vars => NamesAreGenuine'
  <2>1. SUFFICES ASSUME TypeOK, NamesAreGenuine, [Next]_vars PROVE NamesAreGenuine'
    OBVIOUS
  <2>2. /\ cache \in [Procs -> [Disks -> Entries]] /\ file \in [Hosts -> [Disks -> Entries]]
        /\ view \in [Procs -> [Disks -> Entries]] /\ DOMAIN gifts = Procs
    BY <2>1 DEF TypeOK
  <2>3. ASSUME NEW p \in Procs, Restart(p) PROVE NamesAreGenuine'
    BY <2>1, <2>2, <2>3, HostIsHost
    DEF Restart, NamesAreGenuine, Genuine, centralVars, runVars
  <2>4. ASSUME NEW p \in Procs, NEW e \in Disks, NEW name \in Names, Rename(p, e, name)
        PROVE NamesAreGenuine'
    <3>1. PICK entry : /\ cache' = [cache EXCEPT ![p][e] = entry]
                       /\ given' = given \cup {<<e, entry>>}
      BY <2>4 DEF Rename
    <3>2. given \subseteq given'
      BY <3>1
    <3>3. \A q \in Procs, d \in Disks : Genuine(d, cache[q][d])'
      <4>1. SUFFICES ASSUME NEW q \in Procs, NEW d \in Disks
                     PROVE  Genuine(d, cache[q][d])'
        OBVIOUS
      <4>2. CASE q = p /\ d = e
        BY <2>2, <3>1, <4>2 DEF Genuine
      <4>3. CASE ~(q = p /\ d = e)
        <5>1. cache'[q][d] = cache[q][d]
          BY <2>2, <3>1, <4>3
        <5>2. Genuine(d, cache[q][d])
          BY <2>1 DEF NamesAreGenuine
        <5>3. QED
          BY <3>2, <5>1, <5>2 DEF Genuine
      <4>4. QED
        BY <4>2, <4>3
    <3>4. \A h \in Hosts, d \in Disks : Genuine(d, file[h][d])'
      <4>1. SUFFICES ASSUME NEW h \in Hosts, NEW d \in Disks
                     PROVE  Genuine(d, file[h][d])'
        OBVIOUS
      <4>2. file'[h] = cache'[p] \/ file'[h] = file[h]
        BY <2>2, <2>4 DEF Rename, Save
      <4>3. QED
        BY <2>1, <3>1, <3>3, <4>2 DEF NamesAreGenuine, Genuine
    <3>5. /\ \A d \in Disks : Genuine(d, central[d])'
          /\ \A q \in Procs, d \in Disks : Genuine(d, view[q][d])'
          /\ \A q \in Procs, d \in Disks :
               (d \in DOMAIN gifts[q] => Genuine(d, gifts[q][d]))'
      BY <2>1, <2>4, <3>1 DEF Rename, NamesAreGenuine, Genuine, centralVars
    <3>6. QED
      BY <3>3, <3>4, <3>5 DEF NamesAreGenuine
  <2>5. ASSUME NEW p \in Procs, ChangeDir(p) PROVE NamesAreGenuine'
    BY <2>1, <2>2, <2>5
    DEF ChangeDir, Save, NamesAreGenuine, Genuine, centralVars, runVars
  <2>6. ASSUME NEW p \in Procs, SyncAll(p) PROVE NamesAreGenuine'
    BY <2>1, <2>6 DEF SyncAll, NamesAreGenuine, Genuine, fileVars, centralVars
  <2>7. ASSUME NEW e \in Disks, NEW h \in Hosts, Move(e, h) PROVE NamesAreGenuine'
    BY <2>1, <2>7 DEF Move, NamesAreGenuine, Genuine, fileVars, centralVars, runVars
  <2>8. ASSUME NEW p \in Procs, TimerFires(p) PROVE NamesAreGenuine'
    BY <2>1, <2>8 DEF TimerFires, Attempt, NamesAreGenuine, Genuine, fileVars, centralVars
  <2>9. ASSUME NEW p \in Procs, TakeLock(p) PROVE NamesAreGenuine'
    BY <2>1, <2>9 DEF TakeLock, Attempt, NamesAreGenuine, Genuine, fileVars, centralVars
  <2>10. ASSUME NEW p \in Procs, Collect(p) PROVE NamesAreGenuine'
    <3>1. \A q \in Procs : cache'[q] = cache[q] \/ cache'[q] = file[Host(p)]
      BY <2>2, <2>10 DEF Collect
    <3>2. UNCHANGED <<file, central, view, gifts, given>>
      BY <2>10 DEF Collect, centralVars
    <3>3. QED
      BY <2>1, <3>1, <3>2, HostIsHost DEF NamesAreGenuine, Genuine
  <2>10a. ASSUME NEW p \in Procs, OpenView(p) PROVE NamesAreGenuine'
    <3>1. \A q \in Procs : view'[q] = view[q] \/ view'[q] = central
      BY <2>2, <2>10a DEF OpenView
    <3>2. UNCHANGED <<file, cache, central, gifts, given>>
      BY <2>10a DEF OpenView, fileVars, centralVars
    <3>3. QED
      BY <2>1, <3>1, <3>2 DEF NamesAreGenuine, Genuine
  <2>11. ASSUME NEW p \in Procs, Commit(p) PROVE NamesAreGenuine'
    <3>1. UNCHANGED <<file, cache, view, given>>
      BY <2>11 DEF Commit, fileVars
    <3>2. \A d \in Disks : Genuine(d, central'[d])
      BY <2>1, <2>11, WrittenGenuine DEF Commit
    <3>3. \A q \in Procs, d \in Disks :
            d \in DOMAIN gifts'[q] => Genuine(d, gifts'[q][d])
      <4>1. SUFFICES ASSUME NEW q \in Procs, NEW d \in Disks, d \in DOMAIN gifts'[q]
                     PROVE  Genuine(d, gifts'[q][d])
        OBVIOUS
      <4>2. CASE q = p
        <5>1. gifts'[q] = [x \in Pulled(p) |-> Seen(p, x)]
          BY <2>2, <2>11, <4>2 DEF Commit
        <5>2. gifts'[q][d] = Seen(p, d)
          BY <4>1, <5>1
        <5>3. QED
          BY <2>1, <5>2, SeenGenuine
      <4>3. CASE q # p
        <5>1. gifts'[q] = gifts[q]
          BY <2>2, <2>11, <4>3 DEF Commit
        <5>2. QED
          BY <2>1, <4>1, <5>1 DEF NamesAreGenuine
      <4>4. QED
        BY <4>2, <4>3
    <3>4. QED
      BY <2>1, <3>1, <3>2, <3>3 DEF NamesAreGenuine, Genuine
  <2>11a. ASSUME NEW p \in Procs, CommitRefused(p) PROVE NamesAreGenuine'
    <3>1. UNCHANGED <<file, central, given>> /\ Leave(p)
      BY <2>11a DEF CommitRefused, centralVars
    <3>2. \A q \in Procs, d \in Disks : cache'[q][d] = NoName \/ cache'[q] = cache[q]
      BY <2>2, <2>11a DEF CommitRefused, Forget, Blank
    <3>3. QED
      BY <2>1, <3>1, <3>2, LeaveGenuine DEF NamesAreGenuine, Genuine
  <2>12. ASSUME NEW p \in Procs, CommitFails(p) PROVE NamesAreGenuine'
    <3>1. UNCHANGED <<file, given>> /\ Leave(p)
      BY <2>12 DEF CommitFails
    <3>2. \A d \in Disks : Genuine(d, central'[d])
      BY <2>1, <2>12, WrittenGenuine DEF CommitFails, NamesAreGenuine, centralVars
    <3>3. \A q \in Procs, d \in Disks : cache'[q][d] = NoName \/ cache'[q] = cache[q]
      BY <2>2, <2>12 DEF CommitFails, Forget, Blank
    <3>4. QED
      BY <2>1, <3>1, <3>2, <3>3, LeaveGenuine DEF NamesAreGenuine, Genuine
  <2>13. ASSUME NEW p \in Procs, Apply(p) PROVE NamesAreGenuine'
    <3>1. DEFINE names == [d \in Disks |-> IF d \in Accepted(p) THEN gifts[p][d]
                                                               ELSE cache[p][d]]
    <3>2. \A d \in Disks : Genuine(d, names[d])
      BY <2>1 DEF NamesAreGenuine, Accepted
    <3>3. \A h \in Hosts : file'[h] = file[h] \/ file'[h] = names
      BY <2>2, <2>13 DEF Apply
    <3>4. \A q \in Procs : \/ cache'[q] = cache[q] \/ cache'[q] = names
                            \/ cache'[q] = Blank
      BY <2>2, <2>13 DEF Apply, Forget
    <3>5. \A d \in Disks : Genuine(d, Blank[d])
      BY DEF Genuine, Blank
    <3>6. UNCHANGED <<central, given>> /\ Leave(p)
      BY <2>13 DEF Apply, centralVars
    <3>7. \A q \in Procs, d \in Disks : Genuine(d, cache'[q][d])
      BY <2>1, <3>2, <3>4, <3>5 DEF NamesAreGenuine
    <3>8. \A h \in Hosts, d \in Disks : Genuine(d, file'[h][d])
      BY <2>1, <3>2, <3>3 DEF NamesAreGenuine
    <3>9. QED
      BY <2>1, <3>6, <3>7, <3>8, LeaveGenuine DEF NamesAreGenuine, Genuine
  <2>14. ASSUME NEW p \in Procs, Die(p) PROVE NamesAreGenuine'
    <3>1. UNCHANGED <<file, central, given>> /\ Leave(p)
      BY <2>14 DEF Die, centralVars
    <3>2. \A q \in Procs, d \in Disks :
            \/ cache'[q][d] = NoName \/ cache'[q] = cache[q]
            \/ cache'[q] = file[Host(p)]
      BY <2>2, <2>14 DEF Die, Blank
    <3>3. QED
      BY <2>1, <3>1, <3>2, LeaveGenuine, HostIsHost DEF NamesAreGenuine, Genuine
  <2>15. CASE UNCHANGED vars
    BY <2>1, <2>15 DEF NamesAreGenuine, Genuine, vars, fileVars, centralVars, runVars
  <2>16. QED
    BY <2>1, <2>3, <2>4, <2>5, <2>6, <2>7, <2>8, <2>9, <2>10, <2>10a, <2>11, <2>11a,
       <2>12, <2>13, <2>14, <2>15
    DEF Next, Run
<1>3. QED
  BY <1>1, <1>2, TypeCorrect, PTL DEF Spec
=============================================================================
