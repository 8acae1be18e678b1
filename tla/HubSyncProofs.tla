--------------------------- MODULE HubSyncProofs ---------------------------
(***************************************************************************)
(* Proofs about HubSync for any number of hosts, processes, providers and  *)
(* faults: the type invariant, the lock, and the safety properties.        *)
(***************************************************************************)
EXTENDS HubSync, TLAPS

(* The list of providers is a non-empty sequence.                          *)
LEMMA ProviderList ==
  /\ Len(Providers) \in Nat
  /\ DOMAIN Providers = 1 .. Len(Providers)
  /\ 1 \in DOMAIN Providers
BY ProvidersAreListed

(* The provider a run is at is a registered one, its host a host.          *)
LEMMA KeyIsKey ==
  ASSUME NEW p \in Procs, TypeOK
  PROVE  Host(p) \in Hosts /\ Key(p) \in Keys
BY ProcsHaveHosts DEF TypeOK, Host, Key, Keys

(* Going on to the next provider stays in the list (runtime.py:273).       *)
LEMMA NextTypes ==
  ASSUME NEW p \in Procs, TypeOK, NextProvider(p)
  PROVE  /\ phase' \in [Procs -> {"idle", "lock"} \cup Inside]
         /\ pos' \in [Procs -> DOMAIN Providers]
<1>1. pos[p] \in 1 .. Len(Providers)
  BY ProviderList DEF TypeOK
<1>2. CASE job[p] = "all" /\ pos[p] < Len(Providers)
  <2>1. pos[p] + 1 \in DOMAIN Providers
    BY <1>1, <1>2, ProviderList
  <2>2. QED
    BY <1>2, <2>1 DEF NextProvider, Goto, TypeOK, Inside
<1>3. CASE ~(job[p] = "all" /\ pos[p] < Len(Providers))
  BY <1>3 DEF NextProvider, Goto, TypeOK, Inside
<1>4. QED
  BY <1>2, <1>3

(* Leaving a run frees at most the run's own lock.                         *)
LEMMA LeaveTypes ==
  ASSUME NEW p \in Procs, TypeOK, Leave(p)
  PROVE  /\ phase' \in [Procs -> {"idle", "lock"} \cup Inside]
         /\ lock' \in [Hosts -> Procs \cup {Nobody}]
BY DEF Leave, Goto, TypeOK

(* A failed provider ends the run or goes on to report it.                 *)
LEMMA FailedTypes ==
  ASSUME NEW p \in Procs, TypeOK, ProviderFailed(p)
  PROVE  /\ phase' \in [Procs -> {"idle", "lock"} \cup Inside]
         /\ lock' \in [Hosts -> Procs \cup {Nobody}]
         /\ pos' \in [Procs -> DOMAIN Providers]
<1>1. CASE job[p] = "all"
  BY <1>1 DEF ProviderFailed, Goto, TypeOK, Inside
<1>2. CASE job[p] # "all"
  BY <1>2, LeaveTypes DEF ProviderFailed, TypeOK
<1>3. QED
  BY <1>1, <1>2

(* The provider a run begins with is in the list.                          *)
LEMMA FirstType ==
  ASSUME NEW p \in Procs, TypeOK
  PROVE  FirstProvider(p) \in DOMAIN Providers
<1>1. CASE job[p] \in Keys
  <2>1. \E i \in DOMAIN Providers : Providers[i] = job[p]
    BY <1>1 DEF Keys
  <2>2. QED
    BY <1>1, <2>1 DEF FirstProvider
<1>2. CASE job[p] \notin Keys
  BY <1>2, ProviderList DEF FirstProvider
<1>3. QED
  BY <1>1, <1>2

(* The rows and the source a commit leaves are well formed.                *)
LEMMA PublishedTypes ==
  ASSUME NEW p \in Procs, TypeOK, Published(p)
  PROVE  /\ rows' \in [Hosts -> [Keys -> Nat]]
         /\ sources' \in [Hosts -> [Keys ->
                            [status : {"none", "ok", "error"}, items : Nat]]]
<1>1. Host(p) \in Hosts /\ Key(p) \in Keys
  BY KeyIsKey
<1>2. snap[p] \in Nat
  BY DEF TypeOK
<1>3. rows' = [rows EXCEPT ![Host(p)] = [rows[Host(p)] EXCEPT ![Key(p)] = snap[p]]]
  BY DEF Published
<1>4. QED
  BY <1>1, <1>2, <1>3 DEF Published, TypeOK

(* Every step is one of these.                                             *)
LEMMA StepCases ==
  ASSUME [Next]_vars
  PROVE  \/ \E p \in Procs : TimerFires(p)
         \/ \E p \in Procs : Start(p)
         \/ \E p \in Procs : Run(p)
         \/ \E p \in Procs : Die(p)
         \/ Upgrade
         \/ UNCHANGED vars
BY DEF Next

(* All the state of the synchronization stays well formed.                 *)
THEOREM TypeCorrect == Spec => []TypeOK
<1> USE DEF localVars, centralVars, runVars, vars, Fault, CanFault, At
<1>1. Init => TypeOK
  BY ProviderList, BoundsAreNat DEF Init, TypeOK, Jobs
<1>2. TypeOK /\ [Next]_vars => TypeOK'
  <2> SUFFICES ASSUME TypeOK, [Next]_vars PROVE TypeOK'
    OBVIOUS
  <2>1. ASSUME NEW p \in Procs, TimerFires(p) PROVE TypeOK'
    BY <2>1 DEF TimerFires, Call, Goto, TypeOK, Jobs
  <2>2. ASSUME NEW p \in Procs, Start(p) PROVE TypeOK'
    <3>0. Host(p) \in Hosts
      BY KeyIsKey
    <3>1. CASE SyncAll(p)
      BY <3>1 DEF SyncAll, Call, Goto, TypeOK, Jobs
    <3>2. ASSUME NEW k \in Keys, ChangeLocal(p, k) PROVE TypeOK'
      <4>1. changes' \in 0 .. MaxChanges
        BY <3>2, BoundsAreNat DEF ChangeLocal, TypeOK
      <4>2. local' \in [Hosts -> [Keys -> Nat]]
        BY <3>0, <3>2 DEF ChangeLocal, TypeOK
      <4>3. QED
        BY <3>2, <4>1, <4>2 DEF ChangeLocal, Call, Goto, TypeOK, Jobs
    <3>3. ASSUME NEW state \in {"yes", "no"}, ChooseMode(p, state) PROVE TypeOK'
      <4>1. changes' \in 0 .. MaxChanges
        BY <3>3, BoundsAreNat DEF ChooseMode, TypeOK
      <4>2. QED
        BY <3>0, <3>3, <4>1 DEF ChooseMode, Call, Goto, TypeOK, Jobs
    <3>4. QED
      BY <2>2, <3>1, <3>2, <3>3 DEF Start
  <2>3. ASSUME NEW p \in Procs, Run(p) PROVE TypeOK'
    <3>0. Host(p) \in Hosts /\ Key(p) \in Keys
      BY KeyIsKey
    <3>f. ASSUME Fault PROVE faults' \in 0 .. MaxFaults
      BY <3>f, BoundsAreNat DEF TypeOK
    <3>1. CASE TakeLock(p)
      BY <3>0, <3>1 DEF TakeLock, Goto, TypeOK, Inside
    <3>2. CASE Busy(p)
      BY <3>2 DEF Busy, Goto, TypeOK
    <3>3. CASE Ready(p)
      BY <3>3 DEF Ready, Goto, TypeOK, Inside
    <3>4. CASE CollectHost(p)
      <4>1. faults' \in 0 .. MaxFaults
        BY <3>4, <3>f DEF CollectHost, TypeOK
      <4>2. probe' \in [Procs -> {"yes", "no", "null"}]
        BY <3>0, <3>4 DEF CollectHost, TypeOK
      <4>3. QED
        BY <3>4, <4>1, <4>2 DEF CollectHost, Goto, TypeOK, Inside
    <3>5. CASE SyncCore(p)
      <4>1. Report(Host(p), probe[p]) \in {"missing", "null", "yes", "no"}
        BY <3>0 DEF Report, TypeOK
      <4>2. pos' \in [Procs -> DOMAIN Providers]
        BY <3>5, FirstType DEF SyncCore, TypeOK
      <4>3. QED
        BY <3>0, <3>5, <4>1, <4>2 DEF SyncCore, Goto, TypeOK, Inside
    <3>6. CASE CoreFails(p)
      <4>1. Report(Host(p), probe[p]) \in {"missing", "null", "yes", "no"}
        BY <3>0 DEF Report, TypeOK
      <4>2. reported' \in [Hosts -> {"missing", "null", "yes", "no"}]
        BY <3>0, <3>6, <4>1 DEF CoreFails, TypeOK
      <4>3. QED
        BY <3>6, <3>f, <4>2, LeaveTypes DEF CoreFails, TypeOK
    <3>7. CASE Collect(p)
      <4>1. local[Host(p)][Key(p)] \in Nat
        BY <3>0 DEF TypeOK
      <4>2. snap' \in [Procs -> Nat]
        BY <3>7, <4>1 DEF Collect, TypeOK
      <4>3. /\ phase' \in [Procs -> {"idle", "lock"} \cup Inside]
            /\ pos' \in [Procs -> DOMAIN Providers]
        BY <3>7, NextTypes DEF Collect, Goto, TypeOK, Inside
      <4>4. QED
        BY <3>7, <4>2, <4>3 DEF Collect, TypeOK
    <3>8. CASE CollectFails(p)
      <4>1. faults' \in 0 .. MaxFaults
        BY <3>8, <3>f DEF CollectFails, TypeOK
      <4>2. QED
        BY <3>8, <4>1, FailedTypes DEF CollectFails, TypeOK
    <3>9. CASE SyncProvider(p)
      BY <3>9, NextTypes, PublishedTypes DEF SyncProvider, TypeOK
    <3>10. CASE SyncProviderFails(p)
      <4>1. /\ rows' \in [Hosts -> [Keys -> Nat]]
            /\ sources' \in [Hosts -> [Keys ->
                               [status : {"none", "ok", "error"}, items : Nat]]]
        BY <3>10, PublishedTypes DEF SyncProviderFails, TypeOK
      <4>2. QED
        BY <3>10, <3>f, <4>1, FailedTypes DEF SyncProviderFails, TypeOK
    <3>11. CASE RecordError(p)
      <4>1. sources' \in [Hosts -> [Keys ->
                            [status : {"none", "ok", "error"}, items : Nat]]]
        BY <3>0, <3>11 DEF RecordError, TypeOK
      <4>2. QED
        BY <3>11, <4>1, NextTypes DEF RecordError, TypeOK
    <3>12. CASE RecordErrorFails(p)
      BY <3>12, <3>f, NextTypes DEF RecordErrorFails, TypeOK
    <3>13. CASE Finish(p)
      BY <3>13, LeaveTypes DEF Finish, TypeOK
    <3>14. QED
      BY <2>3, <3>1, <3>2, <3>3, <3>4, <3>5, <3>6, <3>7, <3>8, <3>9, <3>10, <3>11,
         <3>12, <3>13 DEF Run
  <2>4. ASSUME NEW p \in Procs, Die(p) PROVE TypeOK'
    <3>1. faults' \in 0 .. MaxFaults
      BY <2>4, BoundsAreNat DEF Die, TypeOK
    <3>2. QED
      BY <2>4, <3>1, LeaveTypes DEF Die, TypeOK
  <2>5. CASE Upgrade
    BY <2>5, BoundsAreNat DEF Upgrade, TypeOK
  <2>6. CASE UNCHANGED vars
    BY <2>6 DEF TypeOK
  <2>7. QED
    BY <2>1, <2>2, <2>3, <2>4, <2>5, <2>6, StepCases
<1>3. QED
  BY <1>1, <1>2, PTL DEF Spec

----------------------------------------------------------------------------
(***************************************************************************)
(* The lock: whoever is inside a run holds the lock of its host.           *)
(***************************************************************************)
LockHeld == \A p \in Procs : phase[p] \in Inside => lock[Host(p)] = p

(* A run that leaves takes no other run's lock away.                       *)
LEMMA LeaveKeepsLocks ==
  ASSUME NEW p \in Procs, TypeOK, LockHeld, Leave(p)
  PROVE  LockHeld'
<1> SUFFICES ASSUME NEW z \in Procs, phase'[z] \in Inside PROVE lock'[Host(z)] = z
  BY DEF LockHeld, Host
<1>0. Host(p) \in Hosts /\ Host(z) \in Hosts
  BY KeyIsKey
<1>1. z # p
  BY DEF Leave, Goto, TypeOK, Inside
<1>2. lock[Host(z)] = z
  BY <1>1 DEF Leave, Goto, TypeOK, LockHeld
<1>3. QED
  BY <1>0, <1>1, <1>2 DEF Leave, TypeOK

(* A run that stays inside keeps everybody's lock.                         *)
LEMMA StayKeepsLocks ==
  ASSUME NEW p \in Procs, TypeOK, LockHeld, phase[p] \in Inside,
         NEW next, Goto(p, next), UNCHANGED lock
  PROVE  LockHeld'
BY DEF LockHeld, Goto, TypeOK, Host

(* A provider's failure, too.                                              *)
LEMMA FailedKeepsLocks ==
  ASSUME NEW p \in Procs, TypeOK, LockHeld, phase[p] \in Inside, ProviderFailed(p)
  PROVE  LockHeld'
<1>1. CASE job[p] = "all"
  <2>1. Goto(p, "report") /\ UNCHANGED lock
    BY <1>1 DEF ProviderFailed
  <2>2. QED
    BY <2>1, StayKeepsLocks
<1>2. CASE job[p] # "all"
  BY <1>2, LeaveKeepsLocks DEF ProviderFailed
<1>3. QED
  BY <1>1, <1>2

(* And so does going on to the next provider.                              *)
LEMMA NextKeepsLocks ==
  ASSUME NEW p \in Procs, TypeOK, LockHeld, phase[p] \in Inside, NextProvider(p),
         UNCHANGED lock
  PROVE  LockHeld'
<1>1. Goto(p, "collect") \/ Goto(p, "finish")
  BY DEF NextProvider
<1>2. QED
  BY <1>1, StayKeepsLocks

(* A process outside a run that does not enter one changes nothing.        *)
LEMMA OutsideKeepsLocks ==
  ASSUME NEW p \in Procs, TypeOK, LockHeld, NEW next \in {"idle", "lock"},
         Goto(p, next), UNCHANGED lock
  PROVE  LockHeld'
BY DEF LockHeld, Goto, TypeOK, Host, Inside

(* No host ever runs two synchronizations at once: not the menu and the    *)
(* hourly service, not after a crash (sync_lock.py:24-45).                 *)
THEOREM OneRunPerHost == Spec => []LockHeld
<1>1. Init => LockHeld
  BY DEF Init, LockHeld, Inside
<1>2. TypeOK /\ LockHeld /\ [Next]_vars => LockHeld'
  <2> SUFFICES ASSUME TypeOK, LockHeld, [Next]_vars PROVE LockHeld'
    OBVIOUS
  <2>1. ASSUME NEW p \in Procs, TimerFires(p) PROVE LockHeld'
    BY <2>1, OutsideKeepsLocks DEF TimerFires, Call
  <2>2. ASSUME NEW p \in Procs, Start(p) PROVE LockHeld'
    BY <2>2, OutsideKeepsLocks DEF Start, SyncAll, ChangeLocal, ChooseMode, Call
  <2>3. ASSUME NEW p \in Procs, Run(p) PROVE LockHeld'
    <3> USE DEF At, Inside
    <3>1. CASE TakeLock(p)
      <4> SUFFICES ASSUME NEW z \in Procs, phase'[z] \in Inside
                   PROVE  lock'[Host(z)] = z
        BY DEF LockHeld, Host
      <4>0. Host(p) \in Hosts /\ Host(z) \in Hosts
        BY KeyIsKey
      <4>1. CASE z = p
        BY <3>1, <4>0, <4>1 DEF TakeLock, TypeOK
      <4>2. CASE z # p
        <5>1. lock[Host(z)] = z
          BY <3>1, <4>2 DEF TakeLock, Goto, TypeOK, LockHeld
        <5>2. Host(z) # Host(p)
          BY <3>1, <5>1, NobodyIsNoProc DEF TakeLock
        <5>3. QED
          BY <3>1, <4>0, <5>1, <5>2 DEF TakeLock, TypeOK
      <4>3. QED
        BY <4>1, <4>2
    <3>2. CASE Busy(p)
      BY <3>2, OutsideKeepsLocks DEF Busy
    <3>3. CASE Ready(p)
      BY <3>3, StayKeepsLocks DEF Ready
    <3>4. CASE CollectHost(p)
      BY <3>4, StayKeepsLocks DEF CollectHost
    <3>5. CASE SyncCore(p)
      BY <3>5, StayKeepsLocks DEF SyncCore
    <3>6. CASE CoreFails(p)
      BY <3>6, LeaveKeepsLocks DEF CoreFails
    <3>7. CASE Collect(p)
      BY <3>7, NextKeepsLocks, StayKeepsLocks DEF Collect
    <3>8. CASE CollectFails(p)
      BY <3>8, FailedKeepsLocks DEF CollectFails
    <3>9. CASE SyncProvider(p)
      BY <3>9, NextKeepsLocks DEF SyncProvider
    <3>10. CASE SyncProviderFails(p)
      BY <3>10, FailedKeepsLocks DEF SyncProviderFails
    <3>11. CASE RecordError(p)
      BY <3>11, NextKeepsLocks DEF RecordError
    <3>12. CASE RecordErrorFails(p)
      BY <3>12, NextKeepsLocks DEF RecordErrorFails
    <3>13. CASE Finish(p)
      BY <3>13, LeaveKeepsLocks DEF Finish
    <3>14. QED
      BY <2>3, <3>1, <3>2, <3>3, <3>4, <3>5, <3>6, <3>7, <3>8, <3>9, <3>10, <3>11,
         <3>12, <3>13 DEF Run
  <2>4. ASSUME NEW p \in Procs, Die(p) PROVE LockHeld'
    BY <2>4, LeaveKeepsLocks DEF Die
  <2>5. CASE Upgrade
    BY <2>5 DEF Upgrade, LockHeld, runVars, Host
  <2>6. CASE UNCHANGED vars
    BY <2>6 DEF LockHeld, vars, runVars, Host
  <2>7. QED
    BY <2>1, <2>2, <2>3, <2>4, <2>5, <2>6, StepCases
<1>3. QED
  BY <1>1, <1>2, TypeCorrect, PTL DEF Spec

----------------------------------------------------------------------------
(***************************************************************************)
(* Published data. While a run is between collecting and committing, its   *)
(* snapshot is at least as new as the rows: only the holder of the lock    *)
(* writes the rows of its host. known lags behind the schema, which only   *)
(* grows.                                                                  *)
(***************************************************************************)
LagInv ==
  /\ \A h \in Hosts, k \in Keys : rows[h][k] <= local[h][k]
  /\ \A p \in Procs : phase[p] = "write" =>
       /\ rows[Host(p)][Key(p)] <= snap[p]
       /\ snap[p] <= local[Host(p)][Key(p)]
       /\ MinSchema[Key(p)] <= known[p]
  /\ \A p \in Procs : known[p] <= schema
  /\ SchemaIsThere

(* Nobody begins to write, or moves the provider it writes.                *)
NoNewWriter ==
  \A z \in Procs : phase'[z] = "write" => phase[z] = "write" /\ pos'[z] = pos[z]

(* A step that publishes, collects and changes nothing keeps LagInv.       *)
LEMMA QuietKeepsLag ==
  ASSUME TypeOK, LagInv, NoNewWriter, UNCHANGED <<rows, local, snap, known, schema>>
  PROVE  LagInv'
BY DEF LagInv, NoNewWriter, Key, Host, SchemaIsThere

(* Only the holder of the lock publishes, and what it publishes is new.    *)
LEMMA CommitKeepsLag ==
  ASSUME NEW p \in Procs, TypeOK, LockHeld, LagInv, phase[p] = "write", Published(p),
         NoNewWriter, phase'[p] # "write", UNCHANGED <<local, snap, known, schema>>
  PROVE  /\ LagInv'
         /\ \A h \in Hosts, k \in Keys : rows'[h][k] >= rows[h][k]
<1>0. /\ Host(p) \in Hosts /\ Key(p) \in Keys /\ snap[p] \in Nat
      /\ known[p] \in Nat /\ schema \in Nat /\ MinSchema[Key(p)] \in Nat
  <2>1. Host(p) \in Hosts /\ Key(p) \in Keys
    BY KeyIsKey
  <2>2. snap[p] \in Nat /\ known[p] \in 0 .. Latest /\ schema \in 0 .. Latest
    BY DEF TypeOK
  <2>3. MinSchema[Key(p)] \in Nat
    BY <2>1, SchemasAreVersions
  <2>4. QED
    BY <2>1, <2>2, <2>3, BoundsAreNat
<1>1. ASSUME NEW h \in Hosts, NEW k \in Keys
      PROVE  rows'[h][k] = IF h = Host(p) /\ k = Key(p) THEN snap[p] ELSE rows[h][k]
  BY <1>0 DEF Published, TypeOK
<1>2. ASSUME NEW h \in Hosts, NEW k \in Keys
      PROVE  rows[h][k] \in Nat /\ local[h][k] \in Nat
  BY DEF TypeOK
<1>3. ASSUME NEW h \in Hosts, NEW k \in Keys
      PROVE  rows'[h][k] <= local'[h][k] /\ rows'[h][k] >= rows[h][k]
  BY <1>0, <1>1, <1>2 DEF LagInv
<1>4. ASSUME NEW z \in Procs, phase'[z] = "write"
      PROVE  /\ rows'[Host(z)][Key(z)'] <= snap'[z]
             /\ snap'[z] <= local'[Host(z)][Key(z)']
             /\ MinSchema[Key(z)'] <= known'[z]
  <2>1. z # p /\ phase[z] = "write" /\ Key(z)' = Key(z)
    BY <1>4 DEF NoNewWriter, Key
  <2>2. Host(z) # Host(p)
    BY <2>1 DEF LockHeld, Inside
  <2>3. Host(z) \in Hosts /\ Key(z) \in Keys
    BY KeyIsKey
  <2>4. rows'[Host(z)][Key(z)] = rows[Host(z)][Key(z)]
    BY <1>1, <2>2, <2>3
  <2>5. QED
    BY <2>1, <2>4 DEF LagInv
<1>5. SchemaIsThere'
  <2> SUFFICES ASSUME NEW h \in Hosts, NEW k \in Keys, rows'[h][k] # 0
               PROVE  MinSchema[k] <= schema'
    BY DEF SchemaIsThere
  <2>1. CASE h = Host(p) /\ k = Key(p)
    BY <1>0, <2>1 DEF LagInv
  <2>2. CASE ~(h = Host(p) /\ k = Key(p))
    BY <1>1, <2>2 DEF LagInv, SchemaIsThere
  <2>3. QED
    BY <2>1, <2>2
<1>6. QED
  BY <1>3, <1>4, <1>5 DEF LagInv, Host

(* Steps of the runs that neither collect nor publish let nobody write.    *)
LEMMA ControlIsNoWriter ==
  ASSUME NEW p \in Procs, TypeOK,
         \/ NextProvider(p)
         \/ ProviderFailed(p)
         \/ UNCHANGED pos /\ Leave(p)
         \/ \E next \in {"idle", "lock", "ready", "host", "core", "finish"} :
              UNCHANGED pos /\ Goto(p, next)
  PROVE  NoNewWriter /\ phase'[p] # "write"
BY DEF NextProvider, ProviderFailed, Leave, Goto, NoNewWriter, TypeOK

LEMMA LagStep ==
  ASSUME TypeOK, LockHeld, LagInv, [Next]_vars
  PROVE  /\ LagInv'
         /\ \A h \in Hosts, k \in Keys : rows'[h][k] >= rows[h][k]
<1> USE DEF localVars, centralVars, runVars, vars
<1>0. ASSUME UNCHANGED rows PROVE \A h \in Hosts, k \in Keys : rows'[h][k] >= rows[h][k]
  BY <1>0 DEF TypeOK
<1>1. ASSUME NEW p \in Procs, TimerFires(p)
      PROVE  LagInv' /\ UNCHANGED rows
  <2>1. NoNewWriter
    BY <1>1, ControlIsNoWriter DEF TimerFires, Call
  <2>2. QED
    BY <1>1, <2>1, QuietKeepsLag DEF TimerFires
<1>2. ASSUME NEW p \in Procs, Start(p)
      PROVE  LagInv' /\ UNCHANGED rows
  <2>1. NoNewWriter
    BY <1>2, ControlIsNoWriter DEF Start, SyncAll, ChangeLocal, ChooseMode, Call
  <2>2. CASE SyncAll(p)
    BY <2>1, <2>2, QuietKeepsLag DEF SyncAll
  <2>3. ASSUME NEW state \in {"yes", "no"}, ChooseMode(p, state)
        PROVE  LagInv' /\ UNCHANGED rows
    BY <2>1, <2>3, QuietKeepsLag DEF ChooseMode
  <2>4. ASSUME NEW k \in Keys, ChangeLocal(p, k)
        PROVE  LagInv' /\ UNCHANGED rows
    <3>1. ASSUME NEW h \in Hosts, NEW j \in Keys
          PROVE  /\ local[h][j] \in Nat /\ rows[h][j] \in Nat
                 /\ local'[h][j] \in Nat /\ local'[h][j] >= local[h][j]
      <4>1. local[h][j] \in Nat /\ rows[h][j] \in Nat
        BY DEF TypeOK
      <4>2. local'[h][j] = local[h][j] \/ local'[h][j] = local[h][j] + 1
        BY <2>4 DEF ChangeLocal, TypeOK
      <4>3. QED
        BY <4>1, <4>2
    <3>2. UNCHANGED <<rows, snap, known, schema>>
      BY <2>4 DEF ChangeLocal
    <3>3. ASSUME NEW z \in Procs, phase'[z] = "write"
          PROVE  /\ rows'[Host(z)][Key(z)'] <= snap'[z]
                 /\ snap'[z] <= local'[Host(z)][Key(z)']
                 /\ MinSchema[Key(z)'] <= known'[z]
      <4>1. phase[z] = "write" /\ Key(z)' = Key(z)
        BY <2>1, <3>3 DEF NoNewWriter, Key
      <4>2. Host(z) \in Hosts /\ Key(z) \in Keys /\ snap[z] \in Nat
        BY KeyIsKey DEF TypeOK
      <4>3. snap[z] <= local'[Host(z)][Key(z)]
        BY <3>1, <4>1, <4>2 DEF LagInv
      <4>4. QED
        BY <3>2, <4>1, <4>3 DEF LagInv
    <3>4. \A h \in Hosts, j \in Keys : rows'[h][j] <= local'[h][j]
      BY <3>1, <3>2 DEF LagInv
    <3>5. QED
      BY <3>2, <3>3, <3>4 DEF LagInv, SchemaIsThere, Host
  <2>5. QED
    BY <1>2, <2>2, <2>3, <2>4 DEF Start
<1>3. ASSUME NEW p \in Procs, Run(p)
      PROVE  /\ LagInv'
             /\ \A h \in Hosts, k \in Keys : rows'[h][k] >= rows[h][k]
  <2> USE DEF At
  <2>1. CASE TakeLock(p) \/ Busy(p) \/ CollectHost(p) \/ RecordError(p)
             \/ RecordErrorFails(p) \/ Finish(p) \/ CoreFails(p) \/ CollectFails(p)
    <3>1. NoNewWriter
      BY <2>1, ControlIsNoWriter
         DEF TakeLock, Busy, CollectHost, RecordError, RecordErrorFails, Finish,
             CoreFails, CollectFails
    <3>2. UNCHANGED <<rows, local, snap, known, schema>>
      BY <2>1 DEF TakeLock, Busy, CollectHost, RecordError, RecordErrorFails, Finish,
                  CoreFails, CollectFails
    <3>3. QED
      BY <1>0, <3>1, <3>2, QuietKeepsLag
  <2>2. CASE Ready(p)
    <3>1. NoNewWriter /\ phase'[p] # "write"
      BY <2>2, ControlIsNoWriter DEF Ready
    <3>2. UNCHANGED <<rows, local, snap, schema>>
      BY <2>2 DEF Ready
    <3>3. known' \in [Procs -> 0 .. Latest] /\ known' = [known EXCEPT ![p] = schema]
      BY <2>2 DEF Ready, TypeOK
    <3>4. schema \in Nat
      BY BoundsAreNat DEF TypeOK
    <3>5. ASSUME NEW z \in Procs PROVE known'[z] <= schema'
      BY <3>2, <3>3, <3>4 DEF LagInv, TypeOK
    <3>6. ASSUME NEW z \in Procs, phase'[z] = "write"
          PROVE  /\ rows'[Host(z)][Key(z)'] <= snap'[z]
                 /\ snap'[z] <= local'[Host(z)][Key(z)']
                 /\ MinSchema[Key(z)'] <= known'[z]
      <4>1. z # p /\ phase[z] = "write" /\ Key(z)' = Key(z)
        BY <3>1, <3>6 DEF NoNewWriter, Key
      <4>2. known'[z] = known[z]
        BY <3>3, <4>1 DEF TypeOK
      <4>3. QED
        BY <3>2, <4>1, <4>2 DEF LagInv
    <3>7. LagInv'
      BY <3>2, <3>5, <3>6 DEF LagInv, SchemaIsThere, Host
    <3>8. QED
      BY <1>0, <3>2, <3>7
  <2>3. CASE SyncCore(p)
    <3>1. NoNewWriter
      BY <2>3 DEF SyncCore, NoNewWriter, Goto, TypeOK
    <3>2. QED
      BY <1>0, <2>3, <3>1, QuietKeepsLag DEF SyncCore
  <2>4. CASE Collect(p)
    <3>1. Host(p) \in Hosts /\ Key(p) \in Keys
      BY KeyIsKey
    <3>2. UNCHANGED <<rows, local, known, schema>>
      BY <2>4 DEF Collect
    <3>3. snap'[p] = local[Host(p)][Key(p)] /\ snap'[p] \in Nat
      BY <2>4, <3>1 DEF Collect, TypeOK
    <3>4. ASSUME NEW z \in Procs, phase'[z] = "write"
          PROVE  /\ rows'[Host(z)][Key(z)'] <= snap'[z]
                 /\ snap'[z] <= local'[Host(z)][Key(z)']
                 /\ MinSchema[Key(z)'] <= known'[z]
      <4>1. CASE z = p
        <5>1. ~(MinSchema[Key(p)] > known[p]) /\ Key(p)' = Key(p)
          BY <2>4, <3>4, <4>1, ControlIsNoWriter DEF Collect, Key
        <5>2. MinSchema[Key(p)] \in Nat /\ known[p] \in 0 .. Latest
          BY <3>1, SchemasAreVersions DEF TypeOK
        <5>3. MinSchema[Key(p)] <= known[p]
          BY <5>1, <5>2, BoundsAreNat
        <5>4. rows[Host(p)][Key(p)] <= local[Host(p)][Key(p)]
          BY <3>1 DEF LagInv
        <5>5. snap'[p] <= local[Host(p)][Key(p)]
          BY <3>3
        <5>6. QED
          BY <3>2, <3>3, <4>1, <5>1, <5>3, <5>4, <5>5
      <4>2. CASE z # p
        <5>1. phase[z] = "write" /\ pos'[z] = pos[z]
          BY <2>4, <3>4, <4>2 DEF Collect, NextProvider, Goto, TypeOK
        <5>2. snap'[z] = snap[z] /\ Key(z)' = Key(z)
          BY <2>4, <4>2, <5>1 DEF Collect, TypeOK, Key
        <5>3. QED
          BY <3>2, <5>1, <5>2 DEF LagInv
      <4>3. QED
        BY <4>1, <4>2
    <3>5. LagInv'
      BY <3>2, <3>4 DEF LagInv, SchemaIsThere, Host
    <3>6. QED
      BY <1>0, <3>2, <3>5
  <2>5. CASE SyncProvider(p)
    <3>1. NoNewWriter /\ phase'[p] # "write"
      BY <2>5, ControlIsNoWriter DEF SyncProvider
    <3>2. QED
      BY <2>5, <3>1, CommitKeepsLag DEF SyncProvider
  <2>6. CASE SyncProviderFails(p)
    <3>1. NoNewWriter /\ phase'[p] # "write"
      BY <2>6, ControlIsNoWriter DEF SyncProviderFails
    <3>2. CASE Published(p)
      BY <2>6, <3>1, <3>2, CommitKeepsLag DEF SyncProviderFails
    <3>3. CASE UNCHANGED rows
      BY <1>0, <2>6, <3>1, <3>3, QuietKeepsLag DEF SyncProviderFails
    <3>4. QED
      BY <2>6, <3>2, <3>3 DEF SyncProviderFails
  <2>7. QED
    BY <1>3, <2>1, <2>2, <2>3, <2>4, <2>5, <2>6 DEF Run
<1>4. ASSUME NEW p \in Procs, Die(p)
      PROVE  LagInv' /\ UNCHANGED rows
  <2>1. NoNewWriter
    BY <1>4, ControlIsNoWriter DEF Die
  <2>2. QED
    BY <1>4, <2>1, QuietKeepsLag DEF Die
<1>5. CASE Upgrade
  <2>1. UNCHANGED <<rows, local, snap, known, phase, pos>> /\ schema' = schema + 1
    BY <1>5 DEF Upgrade
  <2>2. \A p \in Procs : known[p] \in Nat
    BY BoundsAreNat DEF TypeOK
  <2>3. schema \in Nat /\ \A k \in Keys : MinSchema[k] \in Nat
    BY SchemasAreVersions, BoundsAreNat DEF TypeOK
  <2>4. LagInv'
    BY <2>1, <2>2, <2>3 DEF LagInv, SchemaIsThere, Host, Key
  <2>5. QED
    BY <1>0, <2>1, <2>4
<1>6. CASE UNCHANGED vars
  <2>1. LagInv'
    BY <1>6 DEF LagInv, SchemaIsThere, Host, Key
  <2>2. QED
    BY <1>0, <1>6, <2>1
<1>7. QED
  BY <1>0, <1>1, <1>2, <1>3, <1>4, <1>5, <1>6, StepCases

LEMMA LagCorrect == Spec => []LagInv
<1>1. Init => LagInv
  BY DEF Init, LagInv, SchemaIsThere
<1>2. TypeOK /\ LockHeld /\ LagInv /\ [Next]_vars => LagInv'
  BY LagStep
<1>3. QED
  BY <1>1, <1>2, TypeCorrect, OneRunPerHost, PTL DEF Spec

(* The rows of a host only move forward, whatever its processes do at the  *)
(* same time and wherever they die (runtime.py:147-306, 328-360).          *)
THEOREM RowsMoveForward == Spec => RowsNeverGoBack
<1>1. TypeOK /\ LockHeld /\ LagInv /\ [Next]_vars =>
        [\A h \in Hosts, k \in Keys : rows'[h][k] >= rows[h][k]]_vars
  BY LagStep
<1>2. QED
  BY <1>1, TypeCorrect, OneRunPerHost, LagCorrect, PTL DEF Spec, RowsNeverGoBack

(* Nothing is written into tables the schema does not have yet             *)
(* (runtime.py:172-177).                                                   *)
THEOREM SchemaFirst == Spec => []SchemaIsThere
<1>1. LagInv => SchemaIsThere
  BY DEF LagInv
<1>2. QED
  BY <1>1, LagCorrect, PTL

(* A commit writes rows and source together, an error leaves both          *)
(* consistent (database.py:544-606, 902-922).                              *)
THEOREM SourcesCorrect == Spec => []SourceTellsTheRows
<1>1. Init => SourceTellsTheRows
  BY DEF Init, SourceTellsTheRows
<1>2. TypeOK /\ SourceTellsTheRows /\ [Next]_vars => SourceTellsTheRows'
  <2> SUFFICES ASSUME TypeOK, SourceTellsTheRows, [Next]_vars
               PROVE  SourceTellsTheRows'
    OBVIOUS
  <2> USE DEF localVars, centralVars, runVars, vars
  <2>0. ASSUME UNCHANGED <<rows, sources>> PROVE SourceTellsTheRows'
    BY <2>0 DEF SourceTellsTheRows
  <2>p. ASSUME NEW p \in Procs, Published(p) PROVE SourceTellsTheRows'
    <3>1. Host(p) \in Hosts /\ Key(p) \in Keys
      BY KeyIsKey
    <3>2. QED
      BY <2>p, <3>1 DEF Published, SourceTellsTheRows, TypeOK
  <2>1. ASSUME NEW p \in Procs, TimerFires(p) PROVE SourceTellsTheRows'
    BY <2>0, <2>1 DEF TimerFires
  <2>2. ASSUME NEW p \in Procs, Start(p) PROVE SourceTellsTheRows'
    BY <2>0, <2>2 DEF Start, SyncAll, ChangeLocal, ChooseMode
  <2>3. ASSUME NEW p \in Procs, Run(p) PROVE SourceTellsTheRows'
    <3>1. CASE SyncProvider(p)
      BY <2>p, <3>1 DEF SyncProvider
    <3>2. CASE SyncProviderFails(p)
      BY <2>0, <2>p, <3>2 DEF SyncProviderFails
    <3>3. CASE RecordError(p)
      <4>1. Host(p) \in Hosts /\ Key(p) \in Keys
        BY KeyIsKey
      <4>2. QED
        BY <3>3, <4>1 DEF RecordError, SourceTellsTheRows, TypeOK
    <3>4. CASE ~(SyncProvider(p) \/ SyncProviderFails(p) \/ RecordError(p))
      BY <2>0, <2>3, <3>4 DEF Run, TakeLock, Busy, Ready, CollectHost, SyncCore,
         CoreFails, Collect, CollectFails, RecordErrorFails, Finish
    <3>5. QED
      BY <3>1, <3>2, <3>3, <3>4
  <2>4. ASSUME NEW p \in Procs, Die(p) PROVE SourceTellsTheRows'
    BY <2>0, <2>4 DEF Die
  <2>5. CASE Upgrade
    BY <2>0, <2>5 DEF Upgrade
  <2>6. CASE UNCHANGED vars
    BY <2>0, <2>6
  <2>7. QED
    BY <2>1, <2>2, <2>3, <2>4, <2>5, <2>6, StepCases
<1>3. QED
  BY <1>1, <1>2, TypeCorrect, PTL DEF Spec

----------------------------------------------------------------------------
(***************************************************************************)
(* The refinement: what HubPublication promises.                           *)
(***************************************************************************)

(* A commit is one publication: of one dataset, no older, in its tables.   *)
LEMMA CommitPublishes ==
  ASSUME NEW p \in Procs, TypeOK, LagInv, phase[p] = "write", Published(p),
         UNCHANGED <<local, schema>>
  PROVE  Publication!Next
<1>1. Host(p) \in Hosts /\ Key(p) \in Keys
  BY KeyIsKey
<1>2. /\ snap[p] \in Nat /\ known[p] \in Nat /\ schema \in Nat
      /\ MinSchema[Key(p)] \in Nat
      /\ rows[Host(p)][Key(p)] \in Nat /\ local[Host(p)][Key(p)] \in Nat
  BY <1>1, SchemasAreVersions, BoundsAreNat DEF TypeOK
<1>3. MinSchema[Key(p)] <= schema
  BY <1>2 DEF LagInv
<1>4. snap[p] \in rows[Host(p)][Key(p)] .. local[Host(p)][Key(p)]
  BY <1>2 DEF LagInv
<1>5. Publication!Publish(Host(p), Key(p))
  BY <1>3, <1>4 DEF Publication!Publish, Published
<1>6. QED
  BY <1>1, <1>5 DEF Publication!Next

(* Every step of the synchronization is a step of the publication, or      *)
(* none.                                                                   *)
LEMMA StepPublishes ==
  ASSUME TypeOK, LagInv, [Next]_vars
  PROVE  [Publication!Next]_(Publication!pubVars)
<1> USE DEF localVars, centralVars, runVars, vars
<1>0. ASSUME UNCHANGED <<local, rows, schema>>
      PROVE  [Publication!Next]_(Publication!pubVars)
  BY <1>0 DEF Publication!pubVars
<1>1. ASSUME NEW p \in Procs, TimerFires(p)
      PROVE  [Publication!Next]_(Publication!pubVars)
  BY <1>0, <1>1 DEF TimerFires
<1>2. ASSUME NEW p \in Procs, Start(p)
      PROVE  [Publication!Next]_(Publication!pubVars)
  <2>1. ASSUME NEW k \in Keys, ChangeLocal(p, k) PROVE Publication!Next
    <3>1. Host(p) \in Hosts
      BY KeyIsKey
    <3>2. Publication!Change(Host(p), k)
      BY <2>1 DEF ChangeLocal, Publication!Change
    <3>3. QED
      BY <3>1, <3>2 DEF Publication!Next
  <2>2. CASE SyncAll(p) \/ \E state \in {"yes", "no"} : ChooseMode(p, state)
    BY <1>0, <2>2 DEF SyncAll, ChooseMode
  <2>3. QED
    BY <1>2, <2>1, <2>2 DEF Start
<1>3. ASSUME NEW p \in Procs, Run(p)
      PROVE  [Publication!Next]_(Publication!pubVars)
  <2>1. CASE SyncProvider(p)
    BY <2>1, CommitPublishes DEF SyncProvider, At
  <2>2. CASE SyncProviderFails(p)
    BY <1>0, <2>2, CommitPublishes DEF SyncProviderFails, At
  <2>3. CASE ~(SyncProvider(p) \/ SyncProviderFails(p))
    BY <1>0, <1>3, <2>3
       DEF Run, TakeLock, Busy, Ready, CollectHost, SyncCore, CoreFails, Collect,
           CollectFails, RecordError, RecordErrorFails, Finish
  <2>4. QED
    BY <2>1, <2>2, <2>3
<1>4. ASSUME NEW p \in Procs, Die(p)
      PROVE  [Publication!Next]_(Publication!pubVars)
  BY <1>0, <1>4 DEF Die
<1>5. CASE Upgrade
  BY <1>5 DEF Upgrade, Publication!Upgrade, Publication!Next
<1>6. CASE UNCHANGED vars
  BY <1>0, <1>6
<1>7. QED
  BY <1>1, <1>2, <1>3, <1>4, <1>5, <1>6, StepCases

(* The synchronization implements the publication, for any hosts,          *)
(* processes, providers, changes and faults (runtime.py:147-360).          *)
THEOREM Refinement == Spec => PublishesOnly
<1>1. Init => Publication!Init
  BY DEF Init, Publication!Init
<1>2. TypeOK /\ LagInv /\ [Next]_vars => [Publication!Next]_(Publication!pubVars)
  BY StepPublishes
<1>3. QED
  BY <1>1, <1>2, TypeCorrect, LagCorrect, PTL DEF Spec, PublishesOnly, Publication!Spec
=============================================================================
