------------------------------ MODULE HubSync ------------------------------
(***************************************************************************)
(* Synchronization of the local inventory into the central database        *)
(* (libs/app/hub/runtime.py, sync_lock.py, database.py, headless.py).      *)
(*                                                                         *)
(* On each host the menu and the hourly systemd service run the same       *)
(* HubRuntime in processes of their own. A run takes the host's flock      *)
(* without waiting, checks the database, writes the core inventory and     *)
(* then, provider by provider, collects a snapshot and writes it in one    *)
(* transaction. Local data changes meanwhile, the database is lost and     *)
(* found again, and a process is killed between any two steps.             *)
(*                                                                         *)
(* A dataset is known by the number of the local change it shows: 0 is     *)
(* "never published". What a writer does to its own rows is left out.      *)
(***************************************************************************)
EXTENDS Naturals, Sequences

CONSTANTS Hosts,
          Procs,        \* the processes that synchronize
          HostOf,       \* the host of each
          Timers,       \* the hourly services among them, the others are menus
          Providers,    \* the registered providers in their sorted order
          MinSchema,    \* the schema version each needs
          Latest,       \* the newest schema version
          Broken,       \* providers whose collector always fails
          Nobody,       \* holder of a free lock
          MaxChanges,   \* bound: local changes and mode changes
          MaxFaults     \* bound: lost database calls, killed processes

Keys == {Providers[i] : i \in DOMAIN Providers}

ASSUME ProcsHaveHosts == HostOf \in [Procs -> Hosts]
ASSUME ProvidersAreListed == Providers \in Seq(STRING) /\ Providers # <<>>
ASSUME BoundsAreNat == MaxChanges \in Nat /\ MaxFaults \in Nat /\ Latest \in Nat
ASSUME SchemasAreVersions == MinSchema \in [Keys -> Nat]
ASSUME NobodyIsNoProc == Nobody \notin Procs

VARIABLES
  lock,      \* per host: the process that holds the flock
  phase,     \* per process: where its run is
  job,       \* per process: "all", "core" or the one provider it synchronizes
  pos,       \* per process: the provider its run is at
  known,     \* per process: the schema version its run has seen
  snap,      \* per process: the snapshot it collected last
  probe,     \* per process: the timer state it collected
  local,     \* per host and provider: the last local change
  timer,     \* per host: jb-sysapps-hub.timer is enabled
  rows,      \* central: the change each dataset shows
  sources,   \* central: sync_sources, status and item count
  reported,  \* central: hosts.auto_sync_enabled, "missing" without a row
  schema,    \* central: the schema version
  changes, faults

localVars   == <<local, timer, changes>>
centralVars == <<rows, sources, reported>>
runVars     == <<lock, phase, job, pos, known, snap, probe>>
vars == <<localVars, centralVars, runVars, schema, faults>>

Jobs == {"all", "core"} \cup Keys

Inside == {"ready", "host", "core", "collect", "write", "report", "finish"}

Host(p) == HostOf[p]

Key(p) == Providers[pos[p]]

At(p, ph) == phase[p] = ph

Goto(p, next) == phase' = [phase EXCEPT ![p] = next]

CanFault == faults < MaxFaults

Fault == CanFault /\ faults' = faults + 1

----------------------------------------------------------------------------
Init ==
  /\ lock = [h \in Hosts |-> Nobody]
  /\ phase = [p \in Procs |-> "idle"]
  /\ job = [p \in Procs |-> "all"]
  /\ pos = [p \in Procs |-> 1]
  /\ known = [p \in Procs |-> 0]
  /\ snap = [p \in Procs |-> 0]
  /\ probe = [p \in Procs |-> "null"]
  /\ local = [h \in Hosts |-> [k \in Keys |-> 1]]
  /\ timer \in [Hosts -> {"yes", "no"}]
  /\ rows = [h \in Hosts |-> [k \in Keys |-> 0]]
  /\ sources = [h \in Hosts |-> [k \in Keys |-> [status |-> "none", items |-> 0]]]
  /\ reported = [h \in Hosts |-> "missing"]
  /\ schema \in 0 .. Latest
  /\ changes = 0
  /\ faults = 0

(***************************************************************************)
(* What starts a run.                                                      *)
(***************************************************************************)
Call(p, j) ==
  /\ At(p, "idle")
  /\ Goto(p, "lock")
  /\ job' = [job EXCEPT ![p] = j]

(* The hourly service, the "Sync all" of the menu and its startup.         *)
TimerFires(p) ==
  /\ p \in Timers
  /\ timer[Host(p)] = "yes"
  /\ Call(p, "all")
  /\ UNCHANGED <<localVars, centralVars, lock, pos, known, snap, probe, schema, faults>>

SyncAll(p) ==
  /\ p \notin Timers
  /\ Call(p, "all")
  /\ UNCHANGED <<localVars, centralVars, lock, pos, known, snap, probe, schema, faults>>

(* A menu changes local data and publishes it, best effort.                *)
ChangeLocal(p, k) ==
  /\ p \notin Timers
  /\ changes < MaxChanges
  /\ changes' = changes + 1
  /\ local' = [local EXCEPT ![Host(p)][k] = @ + 1]
  /\ Call(p, k)
  /\ UNCHANGED <<timer, centralVars, lock, pos, known, snap, probe, schema, faults>>

(* choose_sync_mode: systemd first, then the core inventory, best effort.  *)
ChooseMode(p, state) ==
  /\ p \notin Timers
  /\ timer[Host(p)] # state
  /\ changes < MaxChanges
  /\ changes' = changes + 1
  /\ timer' = [timer EXCEPT ![Host(p)] = state]
  /\ Call(p, "core")
  /\ UNCHANGED <<local, centralVars, lock, pos, known, snap, probe, schema, faults>>

(***************************************************************************)
(* The host's lock: taken without waiting, freed by the kernel with the    *)
(* process.                                                                *)
(***************************************************************************)
(* Slip: the run goes on without the lock.                                 *)
LockIgnored(p) ==
  /\ At(p, "lock")
  /\ lock' = [lock EXCEPT ![Host(p)] = p]
  /\ Goto(p, "ready")
  /\ UNCHANGED <<localVars, centralVars, job, pos, known, snap, probe, schema, faults>>

TakeLock(p) ==
  /\ At(p, "lock")
  /\ lock[Host(p)] = Nobody
  /\ lock' = [lock EXCEPT ![Host(p)] = p]
  /\ Goto(p, "ready")
  /\ UNCHANGED <<localVars, centralVars, job, pos, known, snap, probe, schema, faults>>

Busy(p) ==
  /\ At(p, "lock")
  /\ lock[Host(p)] # Nobody
  /\ Goto(p, "idle")
  /\ UNCHANGED <<localVars, centralVars, lock, job, pos, known, snap, probe, schema,
                 faults>>

Leave(p) ==
  /\ Goto(p, "idle")
  /\ lock' = [lock EXCEPT ![Host(p)] = IF @ = p THEN Nobody ELSE @]

(***************************************************************************)
(* The core inventory. Its failure ends the run.                           *)
(***************************************************************************)
Ready(p) ==
  /\ At(p, "ready")
  /\ known' = [known EXCEPT ![p] = schema]
  /\ Goto(p, "host")
  /\ UNCHANGED <<localVars, centralVars, lock, job, pos, snap, probe, schema, faults>>

(* A probe of systemd that fails reports the timer as unknown.             *)
CollectHost(p) ==
  /\ At(p, "host")
  /\ \/ probe' = [probe EXCEPT ![p] = timer[Host(p)]] /\ UNCHANGED faults
     \/ probe' = [probe EXCEPT ![p] = "null"] /\ Fault
  /\ Goto(p, "core")
  /\ UNCHANGED <<localVars, centralVars, lock, job, pos, known, snap, schema>>

(* Unknown never replaces what is known: COALESCE.                         *)
Report(h, state) ==
  IF state # "null" THEN state ELSE IF reported[h] = "missing" THEN "null" ELSE reported[h]

FirstProvider(p) == IF job[p] \in Keys THEN CHOOSE i \in DOMAIN Providers :
                                              Providers[i] = job[p]
                                       ELSE 1

SyncCore(p) ==
  /\ At(p, "core")
  /\ reported' = [reported EXCEPT ![Host(p)] = Report(Host(p), probe[p])]
  /\ pos' = [pos EXCEPT ![p] = FirstProvider(p)]
  /\ Goto(p, IF job[p] = "core" THEN "finish" ELSE "collect")
  /\ UNCHANGED <<localVars, rows, sources, lock, job, known, snap, probe, schema, faults>>

(* The database is lost, at the commit possibly after it was done.         *)
CoreFails(p) ==
  /\ At(p, "ready") \/ At(p, "core")
  /\ \/ UNCHANGED reported
     \/ At(p, "core")
        /\ reported' = [reported EXCEPT ![Host(p)] = Report(Host(p), probe[p])]
  /\ Leave(p)
  /\ Fault
  /\ UNCHANGED <<localVars, rows, sources, job, pos, known, snap, probe, schema>>

(***************************************************************************)
(* The providers, one transaction each.                                    *)
(***************************************************************************)
(* Slip: one provider too many.                                            *)
NextOverruns(p) ==
  IF job[p] = "all" /\ pos[p] <= Len(Providers)
    THEN Goto(p, "collect") /\ pos' = [pos EXCEPT ![p] = @ + 1]
    ELSE Goto(p, "finish") /\ pos' = pos

NextProvider(p) ==
  IF job[p] = "all" /\ pos[p] < Len(Providers)
    THEN Goto(p, "collect") /\ pos' = [pos EXCEPT ![p] = @ + 1]
    ELSE Goto(p, "finish") /\ pos' = pos

(* A provider fails: sync_all goes on with the next, after reporting it;   *)
(* sync_provider returns the error.                                        *)
ProviderFailed(p) ==
  /\ IF job[p] = "all" THEN Goto(p, "report") /\ UNCHANGED lock ELSE Leave(p)
  /\ UNCHANGED pos

(* Slip: the first failing provider ends the run.                          *)
CollectAborts(p) ==
  /\ At(p, "collect")
  /\ Key(p) \in Broken
  /\ Leave(p)
  /\ UNCHANGED <<localVars, centralVars, job, pos, known, snap, probe, schema, faults>>

CollectFails(p) ==
  /\ At(p, "collect")
  /\ \/ Key(p) \in Broken /\ UNCHANGED faults
     \/ Key(p) \notin Broken /\ Fault
  /\ ProviderFailed(p)
  /\ UNCHANGED <<localVars, centralVars, job, known, snap, probe, schema>>

Collect(p) ==
  /\ At(p, "collect")
  /\ Key(p) \notin Broken
  /\ snap' = [snap EXCEPT ![p] = local[Host(p)][Key(p)]]
  /\ IF MinSchema[Key(p)] > known[p]
       THEN NextProvider(p)
       ELSE Goto(p, "write") /\ UNCHANGED pos
  /\ UNCHANGED <<localVars, centralVars, lock, job, known, probe, schema, faults>>

Published(p) ==
  /\ rows' = [rows EXCEPT ![Host(p)][Key(p)] = snap[p]]
  /\ sources' = [sources EXCEPT ![Host(p)][Key(p)] = [status |-> "ok", items |-> snap[p]]]

SyncProvider(p) ==
  /\ At(p, "write")
  /\ Published(p)
  /\ NextProvider(p)
  /\ UNCHANGED <<localVars, reported, lock, job, known, snap, probe, schema, faults>>

(* Slip: the rows are written, the source is not: no transaction.          *)
FailsHalfway(p) ==
  /\ At(p, "write")
  /\ rows' = [rows EXCEPT ![Host(p)][Key(p)] = snap[p]]
  /\ ProviderFailed(p)
  /\ Fault
  /\ UNCHANGED <<localVars, sources, reported, job, known, snap, probe, schema>>

(* The transaction is rolled back; or it is committed and the answer is    *)
(* lost, or the applier of the remote updates fails after the commit.      *)
SyncProviderFails(p) ==
  /\ At(p, "write")
  /\ \/ UNCHANGED <<rows, sources>>
     \/ Published(p)
  /\ ProviderFailed(p)
  /\ Fault
  /\ UNCHANGED <<localVars, reported, job, known, snap, probe, schema>>

RecordError(p) ==
  /\ At(p, "report")
  /\ sources' = [sources EXCEPT ![Host(p)][Key(p)] = [status |-> "error", items |-> 0]]
  /\ NextProvider(p)
  /\ UNCHANGED <<localVars, rows, reported, lock, job, known, snap, probe, schema, faults>>

(* record_source_error swallows its own failure.                           *)
RecordErrorFails(p) ==
  /\ At(p, "report")
  /\ NextProvider(p)
  /\ Fault
  /\ UNCHANGED <<localVars, centralVars, lock, job, known, snap, probe, schema>>

Finish(p) ==
  /\ At(p, "finish")
  /\ Leave(p)
  /\ UNCHANGED <<localVars, centralVars, job, pos, known, snap, probe, schema, faults>>

(***************************************************************************)
(* Around the runs.                                                        *)
(***************************************************************************)
Die(p) ==
  /\ ~At(p, "idle")
  /\ Leave(p)
  /\ Fault
  /\ UNCHANGED <<localVars, centralVars, job, pos, known, snap, probe, schema>>

(* Somebody migrates the shared schema (HubSchema.tla).                    *)
Upgrade ==
  /\ schema < Latest
  /\ schema' = schema + 1
  /\ UNCHANGED <<localVars, centralVars, runVars, faults>>

Start(p) ==
  \/ SyncAll(p)
  \/ \E k \in Keys : ChangeLocal(p, k)
  \/ \E state \in {"yes", "no"} : ChooseMode(p, state)

Run(p) ==
  \/ TakeLock(p) \/ Busy(p)
  \/ Ready(p) \/ CollectHost(p) \/ SyncCore(p) \/ CoreFails(p)
  \/ Collect(p) \/ CollectFails(p) \/ SyncProvider(p) \/ SyncProviderFails(p)
  \/ RecordError(p) \/ RecordErrorFails(p) \/ Finish(p)

Next ==
  \/ \E p \in Procs : TimerFires(p) \/ Start(p) \/ Run(p) \/ Die(p)
  \/ Upgrade

(* Every call of a run returns (connect, read and write time out); systemd *)
(* starts the service again and again while the timer is enabled.          *)
Fairness == \A p \in Procs : WF_vars(Run(p)) /\ WF_vars(TimerFires(p))

Spec == Init /\ [][Next]_vars

FairSpec == Spec /\ Fairness

----------------------------------------------------------------------------
TypeOK ==
  /\ lock \in [Hosts -> Procs \cup {Nobody}]
  /\ phase \in [Procs -> {"idle", "lock"} \cup Inside]
  /\ job \in [Procs -> Jobs]
  /\ pos \in [Procs -> DOMAIN Providers]
  /\ known \in [Procs -> 0 .. Latest]
  /\ snap \in [Procs -> Nat]
  /\ probe \in [Procs -> {"yes", "no", "null"}]
  /\ local \in [Hosts -> [Keys -> Nat]]
  /\ timer \in [Hosts -> {"yes", "no"}]
  /\ rows \in [Hosts -> [Keys -> Nat]]
  /\ sources \in [Hosts -> [Keys -> [status : {"none", "ok", "error"}, items : Nat]]]
  /\ reported \in [Hosts -> {"missing", "null", "yes", "no"}]
  /\ schema \in 0 .. Latest
  /\ changes \in 0 .. MaxChanges
  /\ faults \in 0 .. MaxFaults

(***************************************************************************)
(* Properties.                                                             *)
(***************************************************************************)

(* The hourly service and the menu never publish at once: what reaches the *)
(* database is never older than what is there, whoever collected first and *)
(* committed last, and an error never takes published rows away.           *)
RowsNeverGoBack ==
  [][\A h \in Hosts, k \in Keys : rows'[h][k] >= rows[h][k]]_vars

(* All that the locks, the runs, their failures and their repetitions do   *)
(* is what HubPublication promises: the rows of one dataset at a time are  *)
(* replaced by a state of the host that is no older, in tables that exist. *)
Publication == INSTANCE HubPublication WITH shown <- rows

PublishesOnly == Publication!Spec

(* A source that says "ok" counts the rows that are there, also after a    *)
(* commit whose answer was lost and an error recorded on top of it.        *)
SourceTellsTheRows ==
  \A h \in Hosts, k \in Keys :
    sources[h][k].status = "ok" => sources[h][k].items = rows[h][k]

(* A dataset that needs a newer schema is not written before the schema    *)
(* has its tables, whatever version the run has seen.                      *)
SchemaIsThere ==
  \A h \in Hosts, k \in Keys : rows[h][k] # 0 => MinSchema[k] <= schema

(* While the timer is enabled every change of a working provider reaches   *)
(* the database and every broken provider is reported, however many runs   *)
(* were skipped because another one held the lock, failed or were killed.  *)
EverythingIsPublished ==
  \A h \in Hosts, k \in Keys :
    <>[](timer[h] = "yes" /\ MinSchema[k] <= schema) =>
      IF k \in Broken THEN <>[](sources[h][k].status = "error")
                      ELSE <>[](rows[h][k] = local[h][k])
=============================================================================
