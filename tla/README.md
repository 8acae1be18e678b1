# SysApps Terminal Manager in TLA+

SysApps is a terminal manager for Debian hosts, written in Python: an interactive menu that
administers a firewall, disks, Node-RED instances, SFTP jails and SSH keys of a host, and a *Hub*
that publishes the inventory of many hosts into one central MariaDB. This directory holds TLA+
models of the parts in which several actors meet (the menu, the hourly service, systemd, the
database server, other hosts, other administrators), the TLC runs that check them on small
instances, and theorems about them that TLAPS proves for every value of the constants.

Paths in this file and in the comments of the modules are relative to the root of the repository;
`hub/` stands for `libs/app/hub/` and `firewall/` for `libs/app/menus/app_40_firewall/`.

## 1. Inventory: the parts of the system

| Part | State it keeps | Operations | Meets |
|---|---|---|---|
| Guarded Apply (`firewall/apply.py`) | `/etc/ufw/before.rules`, `before6.rules`, status and loaded rules of UFW, backup directory, transient rollback unit, `state.json` | compile, back up, arm the rollback, write, dry-run, reload or enable, verify, ask, cancel, check, save, restore | systemd's timer and service, other administrators, a killed process, the next Apply |
| Firewall policy (`config.py`, `compiler.py`, `policy.py`, `reconcile.py`) | `firewall.json`: rules and VPN servers | append, replace, delete, merge, import; compile into managed blocks; inspect; compare with the accepted state | Apply, Hub providers |
| Hub runtime (`hub/runtime.py`, `sync_lock.py`, `headless.py`) | a host's flock; the schema version a run has seen; the snapshot it collected | synchronize all, core only, one provider; record an error | menu and hourly service of one host, a shared schema that others upgrade, lost connections |
| Hub writers (`hub/database.py`) | tables of the central database | one transaction per dataset | the writers of other hosts |
| Hub schema (`hub/schema.py`, `hub/migrations/`) | tables and columns, `schema_migrations`, a named server lock | check, upgrade | clients of several releases, a statement that outlives its client |
| Hub scheduling (`hub/scheduler.py`, `hub/menu.py`) | timer and service units, the mode in `config.ini` | switch the mode | a running service |
| Settings packages (`settings_package.py`, `settings_menu.py`, `cfg.py`) | `config.ini`, its copy in memory, revision, hash and signature of the last package, the policy of imports | export, publish, start-up update, import, edit, choose the policy | the central URL, older packages, the old format, `--local-settings` |
| Disks (`disk_hlp.py`, `app_10_disk/`) | `disk.json`, each process's memory of it, registry of disks | rename, collect, write, apply remote names; mount, image, repair | other hosts a disk is carried to, other processes of the host |
| Self-updater and plugins (`self_updater.py`, `plugin_manager.py`) | working trees, `plugins.jsonc` | update repository, submodules, plugins; enable, uninstall | git, a failure between two repositories |
| Node-RED (`instanceHelper.py`, `install_instance.py`, `backup.py`, `c_cfg.py`, ...) | accounts with their homes, units of one template, archives, the global Node.js and its repository, the list of ports the menu has read | install, update, back up, restore, save a configuration, run in the foreground, remove, switch Node.js | npm, apt, systemd, the service that changes its own flows, an owner who restarts it |
| SFTP manager (`app_33_sftpmanagr/`) | `config.jsonc` and its copy in the menu: users, mountpoints, keys, templates, access; accounts and mounts of the system | edit in memory, Apply, discard, uninstall all | Samba, `sshd`, a kill or a failure between two renames, users who are not on the screen |
| Main menu, start-up (`menuBoss.py`, `venv_run.py`) | a flock that allows one interactive menu | start-up order, the editors of the mail settings | settings update, Hub |
| SSH keys, swap, UART, services, mail | nothing between two operations | sequential dialogs over single commands | - |

**How they interact.** A start of the menu takes the flock of `venv_run.py`, checks for program
updates, runs the settings update (`settings_package.startup_settings_update`) and then starts the
Hub (`hub_runtime.startup`), which synchronizes if the mode says so. The firewall and disk menus
change local files and ask the Hub for a best-effort synchronization of their dataset; the hourly
service runs the same runtime in a process of its own, without the menu's flock but under the
Hub's. The database is the only thing hosts share, and the only channel through which a disk's name
travels; the central URL is the only channel of settings. "Update me" of the menu runs the updater
in the menu's own process, which ends when a working tree has changed: what starts next is what lies
on the disk by then.

**What is hard here**, and where it bites, is the list "hazards" of `PROJECT.json`. In short:

* a change of the firewall that cuts off the operator must come back by itself, whoever dies;
* two processes of one host keep their own memory of one file, and synchronize one dataset;
* the database commits DDL statement by statement and goes on after its client has left;
* a name, a setting and a package are compared by times and numbers whose issuers disagree;
* every call may fail after it has done its work.

**What makes each part correct.**

* *Apply*: a change is covered by its rollback until it is confirmed; a failure restores the host;
  a success is live; the backup is the text the change was computed from.
* *Runtime*: rows never go back to an older state; a source that says `ok` tells the truth; one
  broken provider or skipped run does not keep the others from being published.
* *Schema*: versions are executed and recorded one after the other; who may write finds its tables; concurrent
  upgrades do not run into each other; the lock is given back.
* *Settings*: what is hidden as centrally managed is central; the identity of the host survives;
  no older package replaces a newer one; the package at the URL arrives.
* *Disks*: a name travels with its time; a newer name is not replaced; hosts come to agree; a
  carried disk is found where it is.
* *Policy*: after an Apply every packet meets what the policy asks; rules of other people keep their
  side of every block; an isolation follows its server.
* *Updater*: a menu in use runs what is installed, whatever failed; a success is complete; an
  optional plugin stops nothing; the newest release arrives in the end.
* *Node-RED*: what is removed is archived as it was; a service that was stopped for a job comes
  back; a new instance gets a port of its own; switching Node.js does not lose it.
* *SFTP*: no edit breaks a user who is not on the screen or opens a point to him; the file holds
  what the system serves; Apply removes nobody who was not deleted.

## 2. The modules

Each component has `X.tla` (state, actions, properties), `MCX.tla` (definitions TLC needs as
constants), one or two `.cfg` files and `XProofs.tla` (theorems). All properties are stated at the
end of `X.tla`; the operators commented `Slip:` are plausible mistakes in the code, used only to
show that the properties notice them (`PROJECT.json`, "mutants").

### FirewallApply: the guarded Apply

`phase[p]` is where a run of `apply_local_config` is, `fam[p]` which of the two files its loop is
at. `file`, `ufw` and `kernel` are the host; `saved` is `state.json`; `before`, `backup`,
`wasActive`, `mutated` are the local variables of the function; `unit[p]` is the transient
`systemd-run` timer and service (`none -> armed -> v4 -> v6 -> ufw -> fired`, or `stopped`, or
`failed`). Every command that touches a file, UFW or systemd is one action, with its failures and,
where a timeout can cut it off after it has worked (`ufw reload`, `ufw enable`, `systemd-run`,
`systemctl stop`), both outcomes. A file is the edit that wrote its own text last and what its
managed blocks hold: a candidate keeps the first and replaces the second.

* `TimerElapses` is possible while the process is dead, at the prompt, or after it: the commands
  between arming and the prompt take at most 70 s by their own timeouts and the timer 90 s.
* `Begin` starts no run while another one runs: one interactive menu (`venv_run.py`). A
  rollback unit, which is a process of systemd, outlives its run and may meet the next.
* The exit status of `systemctl stop` is ignored (`apply.py:285`, `check=False`): where `StopMayFail`,
  `CancelRollback` may leave the timer as it is and go on. All properties of `firewall_apply` are
  checked and proved with it; `SuccessIsLive` is about a timer that was stopped.
* Copies of files are atomic; each edit of another administrator is a new text; a keyboard
  interrupt at the prompt is `Die`. The preview of the menu before Apply is the choice of `c` in
  `Begin(p, c)`.

### HubSync: runs of the Hub runtime

One `lock` per host (the flock, released by the kernel with its process), `phase`, `job`, `pos`,
`known`, `snap`, `probe` per process, `local` and `timer` per host, `rows`, `sources`, `reported`,
`schema` in the database. `TakeLock`/`Busy` are `HubSyncLock`; `Ready` is `_prepare` with the
schema check; `CollectHost`/`SyncCore` are the core inventory; `Collect`/`SyncProvider` are one
iteration of the loop over the sorted providers; `RecordError` is `record_source_error`. A dataset
is the number of the local change it shows. A failing commit either left the rows or did not, and
the client cannot tell (`SyncProviderFails`), also where an applier fails after the commit.
`HUB_ENABLED` is assumed set; what `set_schedule` does with failing `systemctl` calls is not
modelled.

**HubPublication** is what all this promises, without processes, locks, probes, failures and
retries: three variables (the last local change of every dataset, the change the database shows,
the version of the schema) and three actions. `Publish` replaces a dataset as a whole by a state its
host really had, no older than the one shown, under a schema that has its tables.
`HubSync!PublishesOnly` is the refinement (`INSTANCE HubPublication WITH shown <- rows`): each commit
is a `Publish`, also one whose answer is lost, and everything else stutters. It contains what
`RowsNeverGoBack` and `SchemaIsThere` say one by one.

### HubSchema: migrations

`done` is the set of executed statements, `recorded` the table `schema_migrations` with checksums,
`lock` the server's named lock; a client is `at` a migration and a statement. `Open`, `TakeLock`,
`Check`, `Execute`, `Record` and the operator `Close` follow `upgrade_schema`, `Duplicate` is a
statement that cannot be repeated; `Lost` is a connection that ends between two statements,
`GivesUp` one that ends inside a statement which the server then finishes on its own
(`OrphanEnds`) while it keeps the lock. A statement is repeatable (`CREATE TABLE IF NOT EXISTS`) or not (`ALTER TABLE`); a client knows
`Known[c]` migrations with checksums `Sum[c]`. `GET_LOCK` waits for 10 s, but the read timeout of
the client may be as short as 3 s (`database.py:86`): a session the client has given up may then get the
lock and hold it until the server notices that nobody is there. It executes nothing, so it only makes
another client wait; the model has no such session.

**HubUpgrade** is what the migrations promise, without clients, locks, checksums and interruptions: two
variables (the version that is reported, the statements that have been executed) and two actions.
`Build` executes a statement of the next version, `Report` goes to it when all of its statements are
there. `HubSchema!UpgradesInOrder` is the refinement; the version is the newest recorded one, as
`check` computes it (`Newest`), so no migration is skipped or begun before the one below it is
recorded, also by a statement whose client has gone away. With it HubSync may take an upgrade for one
step (`HubSync!Upgrade`, and `Upgrade` of HubPublication): a synchronizing host that
sees a version sees all of its tables.

### SettingsPackage: central settings

A host has a configuration on disk and the one its running program has in memory: a value for the
Hub section, the SMTP host, account and From address, the policy (`skip`, `keepFrom`), and the
markers of the last package (`revision`, `sha`, `sig`). `issued` is the sequence of all packages
ever exported: a package is its position there (which stands for its hash), its revision and its
contents. `central` is the package at the URL. `Update` is the whole of
`startup_settings_update`, with `UpdateApplies`, `UpdateKeeps` and `UpdateFails` for its ends;
`Import` is the dialog of the menu and `ImportLegacy` the old Hub-only format; `Edit` stands for
each editor of a managed value. Cryptography is a package that is read as written, or not at all.
`lastExported` is the counter of the process that keeps revisions of one second apart; the offset
of an export is how far ahead of the others the clock of its process was, so that two packages can
share a revision. Packages always carry both sections, as `export_encrypted_settings` makes them.
One host is enough for TLC, because packages of other hosts are those it exported itself with other
settings; the theorems hold for any set of hosts.

### DiskNames: the names of disks

`file[h]` is `disk.json`, `cache[p]` the memory of it that every process keeps from its first
use, `central` the registry, `place` the host the registry knows, `where` the host a disk is on.
`Rename` and `ChangeDir` are the menu; `TakeLock`, `Collect`, `OpenView`, `Commit` (or `CommitRefused`,
`CommitFails`) and `Apply` are a run of the disks provider, `Move` carries a disk. The snapshot of the transaction is opened by its first `SELECT` (InnoDB, REPEATABLE
READ), rows are locked as they are written, and an update that changes a row makes its newest
version visible, which a no-op update does not. The row-by-row decisions and the commit are one
step, for the locks are held until the commit. `rows` are the disks that have a row: one that is known
only by name and whose row was inserted after the snapshot is not found (`Unresolved`), and the whole
transaction is refused. `Skew` is the clock of each host. Duplicate PTUUIDs
and the transfer of a name by the PTUUID repair are not modelled; a save of `disk.json` is atomic.
Names of the old format, which have no time, are not modelled either: the first load of such a file gives
them the time of its last change and saves it (`disk_hlp.py:95-115`), and what is then in the file is a name with
a time, as if it had been given then. Two processes that load it at the same moment may read two such times.

### SelfUpdate: updates and plugins

`head` is the release the main repository is at, `tree` the commit of every submodule (0: not
installed), `dirty` the trees with tracked local changes, `deps` the release whose packages are
installed, `loaded` and `shown` what the running menu has read of them at its start. `phase` follows
`ApplicationUpdater.run`: `Preflight`, `Pull`, `InstallLib`, `UpdatePlugin` once per plugin of the
catalog of the *pulled* release (skipped, installed, or failed with the two meanings of `optional`),
`PluginsDone`, `RunSetup`; `End` is `updateMe`, which ends the program if a tree has changed. Any
command may fail (`Fault`), git may refuse to write over local changes (`Refuses`), and an update
can be killed anywhere, which may leave the tree that was just checked out half done (`HalfDone`).
`Cached` and `Asked` are the two ways to an answer about remote main; the five minutes of the
remembered answer are a choice between them. `Start` needs a JBLibs the release can be started with
(`Runs`); where it is not there, setup.sh by hand is the only way out. A command of git that fails
is taken to leave the commit of the tree alone, and submodules to have no submodules of their own. So
one case is left out: the commit has been checked out and its verification then fails
(`self_updater.py:491-494`, `603-605`). The code returns before it notes that the tree has changed, and the
menu may go on with the old modules until it is restarted; `MenuRunsInstalled` says nothing of it. Only the main
repository, JBLibs and the mandatory submodules are asked for local changes before the pull
(`self_updater.py:327`), as the code does; `docs/plugin-system.md:122` speaks of all relevant enabled submodules.
The order of the catalog is any order.

### NodeRed: instances and the global Node.js

`inst[u]` is an account, its home (the port in `muj-node-config.js`, whether the application is
there, how far the flows are) and its unit; `archives[u]` are the homes in its `.7z` files. The menu
does one `job` at a time: its plan is the list of commands of the function, `at` the one it is at.
What a command does, whether its failure ends the job or is ignored, and what is done then is
`Commands`, `Fails` and `NothingToWrite`. `menu`, `cache`, `changed`, `ports` are what the screens
remember (`cfg_data`, `_ports`). While a job runs, a running instance changes its flows (`Work`) and
its owner may restart it through sudo (`OwnerRestarts`), also between any two commands of the job; the
menu may be killed (`Kill`). Three flags of a job remember what happened to it: `calm` that no command
failed, `alone` that the owner did not restart the service meanwhile, `old` that the process that runs was started
before the job changed its files (a `systemctl start` of what runs already does nothing). The
majors of Node.js are small numbers: what is installed, what the repository of NodeSource is set to
and what the distribution itself offers. `ChangePort` asks nobody whether the port is free, and neither does a restore:
the code asks only when it installs. A home is one directory, where the code archives `/home/<user>`
(`backup.py:52`) and `userdel -r` removes the home of the account: the same for accounts this program makes.

### Sftp: users, mountpoints and keys

`cfg` is the configuration in the memory of the menu, `file` is `config.jsonc`, `system[u]` what the
account of a user is served. Every edit is one action on `cfg`, with the check it makes and what it
prunes; a template is edited on behalf of all users it is assigned to (`AssignedUsersResolve`,
`Pruned`). `phase` is where Apply is: accounts first (`Create`), unwanted accounts (`Clean`), `sshd`,
the new file beside the old, and the two renames of `save_config` (`SetAside`, `Replace`). Making and removing
accounts may fail after some of the work (`CreateFails`, `CleanFails`), `sshd` and the writing of the new file
before the first rename (`LateFailure`), and the listing of the backups or the second rename after it
(`ReplaceFails`): then the menu goes on without a file. The process may be killed between any two steps, and a file that
cannot be read or parsed counts as one without users (`ReadFails`). `broken` remembers that an Apply ended
between the renames, `blind` that the configuration in memory was loaded after that without a file, or from one
that could not be read. `Resolves`, `Served` and
`Unwanted` are JBLibs as the repository calls and tests it. A public key is a model value, and which
of them are malformed is a constant.

### FirewallPolicy: from `firewall.json` to packets

`stored` is `firewall.json`, `files[4]` and `files[6]` are `before.rules` and `before6.rules` as sequences of managed
blocks and of lines of other people, of which only the kind matters. Every edit loads (and migrates
version 1), changes, normalizes and saves. `Compiled` makes the blocks of a family, `Inspected`,
`Represented` and `NothingBetween` are the refusals of the inspection and of `build_candidate`, which also
needs a place for the blocks (`Anchor`); `CandidateFile` is the new file. `ApplyPolicy` is one step here;
how it is guarded and undone is FirewallApply. `applied` remembers the policy of the last Apply. The
module has names of its own for what FirewallApply has too (`PolicySpec`, `PolicyTypeOK`, `policyVars`, ...),
so that one module can prove about both. Selections and concatenations are `FlattenSeq` over a sequence
of parts (`Concat`, `Select`): the definitions a proof can take apart. The reference is a packet: `Verdict` is what it meets when the
managed blocks are read in order, `Wanted` what the policy asks in the words of the menus (bans, then
isolation, then trusted sources, then the rules), written without blocks, families or chains of
compilation. A network of IPv4 does not match a packet of IPv6, nor the other way round, also where
the rule negates it. Source and destination ports are one field.

## 3. The runs

| Run | Shows | Instance and bounds |
|---|---|---|
| `firewall_apply` | `TypeOK`, `ChangeIsCovered`, `FailureRestores`, `SuccessIsLive`, `BackupIsSource`, `ChangeIsSettled` | one run, policies that change one file or both, one act of an administrator (`MaxEdits = 1`) at any step |
| `firewall_race` | finding 1 | as above, but nobody edits and systemctl obeys (`StopMayFail = FALSE`) |
| `firewall_policy` | `PolicyTypeOK`, `FileTellsPolicy`, `RulesKeepTheirSide`, `IsolationFollowsServer` | a new host, one with a policy of version 1, one with the blocks of the old generator; two edits, one foreign edit of a file, two days, any number of Applies; two clients in one network and a host of IPv6 |
| `hub_sync` | `TypeOK`, `SourceTellsTheRows`, `PublishesOnly`, `EverythingIsPublished` | menu and service of one host, three providers (one broken, one of a newer schema), two local changes, one fault |
| `hub_schema` | `UsableIsThere`, `SuccessIsComplete`, `FailsOnlyAfterFault`, `UpgradesInOrder`, `LockIsReleased` | an old, a new and an odd client, four migrations of each shape the repository has, two interruptions |
| `disk_names` | `NamesAreGenuine`, `NewerNameStays`, `HostsAgree`, `PlacesAreFound` | two hosts whose clocks disagree, a menu and a service on each, one disk, two renames, one move, one fault; its row does not exist at the beginning |
| `disk_rename` | finding 2 | all clocks agree, nothing fails |
| `settings_package` | `TypeOK`, `ManagedIsCentral`, `IdentityIsKept`, `MarkersMoveForward`, `PackageArrives` | one host, two Hub values, one name, two packages, three acts, one fault |
| `self_update` | `MenuRunsInstalled`, `AvailableIsTrue`, `SuccessIsComplete`, `UpdateArrives` | three releases: the second needs a new JBLibs and brings a private optional plugin, the third drops the required public one from the catalog; two acts (switching, tokens, uninstalling, editing a tree), two faults |
| `node_red` | `RemovedIsArchived`, `ServiceComesBack`, `InstalledPortIsFree`, `NodeIsNotLost` | two users and two ports (symmetric), instances and archives in any combination at the start, seven states of Node.js and its repository, two jobs, one fault, one change of the flows, any number of restarts by the owners and of moves between the screens |
| `node_removal` | finding 3 | as above, one job |
| `sftp` | `EveryoneResolves`, `NewPointsAreClosed`, `FileIsServed`, `DeletedOnesGo` | two users, labels, paths, templates, points and keys (one malformed); an empty machine and one where a template serves a user; three edits, one fault, one kill |

**Why the bounds are enough.** An Apply meets others only through the two files, UFW and its own
unit: one foreign act at any step, one kill and any failing command produce every pair of events.
Races of the Hub are between two processes that change one dataset, and the second change is what
a lost or reordered commit would hide. The order of upgrades is decided by what is recorded and
what is done when a client gets the lock: an interruption in each of two migrations, with clients
older and newer than the database, covers the cases of `_validate`. A disk's name needs two givers
to disagree and one move to be carried. Settings need two packages (older, newer, of one
revision) and three acts, which is what the longest violation of a mutant took. An update needs a
release to be made while one is being installed, hence three; two faults are a failing step and a
failure of the attempt to put it right. Node-RED needs two instances for a port to collide and
two jobs for a save, a restore or a switch to change what a later job relies on; instances, their archives (one
with another port) and Node.js are there in any combination at the start, and moves between the screens are not
counted, so an edit or a restore can change a port before an installation. More faults only repeat
an error path. `StopMayFail` is no
bound but a choice: with it finding 1 would have a second, simpler trace. In the SFTP manager two users share a template, and three edits assign it, change it and
take it away; where more history is needed, the second start already has it. A policy needs a rule
and the edit that changes what it is linked to, with an Apply, a day or a foreign line in between.
All bounds (`MaxEdits`, `MaxChanges`, `MaxFaults`, `MaxKills`, `MaxMoves`, `MaxExports`, `MaxActs`,
`MaxWork`, `MaxSaves`, `MaxTouches`, `MaxRules`, `MaxServers`, `LastDay`) are guards of actions
of the environment; none of them stops the program. That is also why the configurations say
`CHECK_DEADLOCK FALSE` where they do (`firewall_apply`, `firewall_race`, `firewall_policy`, `node_red`,
`node_removal`): when the environment has nothing left to do, an Apply that has returned stays
returned and a menu waits. Every other configuration checks deadlock.

**Fairness.** *FirewallApply*: systemd runs what it started, and a living run takes its next
step because every command has a timeout; nothing is assumed of the operator, at the menu or at the
prompt. *HubSync* and *DiskNames*: calls of the database time out (`database.py:74-95`), so a
run takes its next step, and an enabled timer starts its service again
(`OnCalendar=hourly`, `Persistent`); nothing is assumed of menus. *HubSchema*: an upgrade takes its next step or
is cut off, a statement the server executes ends. *SettingsPackage*: the program is started,
does its update, and is left again, each again and again; the operator need not do anything else.
All of this is weak fairness. *SelfUpdate*: commands of an update end, and the operator starts the
program, chooses "Update me" again and again, and runs setup.sh when the program does not start.
The choice needs strong fairness, because leaving the menu takes it away for a while. Nothing updates by itself in this
program, so what `UpdateArrives` says of the code is that asking again is enough. *FirewallPolicy*,
*NodeRed* and *Sftp* assume no fairness and claim no liveness: nothing there goes on without an
operator.

## 4. Findings

1. *A success that is undone* (`firewall_race`; `apply.py:285`). Confirming stops only the
   `.timer`. If it elapsed just before, its `.service` runs on: the candidate is still live
   when it is checked, the success is saved and reported, and then the service restores the old files.
   A `systemctl stop` that fails leads to the same, for its exit status is ignored; the run leaves it out
   to show that no failure is needed.
2. *A rename that is lost* (`disk_rename`; `disk_hlp.py:175`). A process saves the whole file
   from its own memory: a rename in the menu during a run of the service is overwritten with the older
   central name, contrary to "the newer name wins" of `docs/sysapps-hub.md:151`.
3. *A removal without its backup* (`node_removal`; `remove_instance.py:64`). The archive of the home
   may fail, its answer is ignored, and the home is deleted, although the question the operator
   confirmed promises the backup first. `RemovedIsArchived` says what does hold.

Other places where the code does less than its documents say were met while it was read. The models
behave as the code does, and the properties say what holds in spite of them:

* A killed undoing leaves the change: the undoing stops the timer first and restores the files
  afterwards (`apply.py:487,517`; `changelog.md:23`). `ChangeIsCovered` says that this is the only gap.
* A mode change may not be reported: the refresh after it does not wait for the lock of a
  running service that has already collected (`runtime.py:317`).
* A managed SMTP host or From address edited under `--local-settings` is taken for the host's identity
  by the next start-up, which skips the whole section (`settings_package.py:455`;
  `docs/central-settings.md:37`).
* `save_config` moves the file of the SFTP manager away before the new one is in its place
  (`sftp_manager_hlp.py:131`). A kill between the two renames leaves no configuration. So does a failure of the listing of
  the backups or of the second rename: nobody moves the file back, and the menu goes on, where "Discard
  unsaved changes" (`menu.py:271`) then loads a configuration without users. A `config.jsonc` that cannot be
  parsed counts as one without users, too, with a warning (`:100`). The first Apply from there
  uninstalls everybody it does not name. `DeletedOnesGo` names these cases and excludes every other.
* An owner who restarts his service while an update or a restore has stopped it makes the start at the
  end of the job do nothing: it runs the old files until somebody restarts it. `ServiceComesBack` says
  that this is the only way to a service that runs what was there before.
* A host that knows a disk only by name may replace a newer name in the registry, if the row has changed since its snapshot
  (`database.py:814`); `NewerNameStays` says that nothing else does, and `HostsAgree` that it passes.
* The rollback unit of an Apply that was killed stays armed when the menu is started again, and may undo a later
  Apply that was confirmed. Only `ChangeIsCovered` holds with it as it stands; `FailureRestores` excepts a run it
  disturbed, and of a success nothing is claimed (section 5).
* A linked isolation of a whole network is compiled for the first address of the network
  (`config.py:669`), and one whose destination is a network with the address of the server as if it
  named the server alone; `Narrowed` names both. A policy that bans and isolates one client, or whose
  linked rule has lost its source, cannot be compiled: Apply fails, not the edit.
  After the last rule of a server is deleted, or a server is renamed, its old block is
  "not represented" (`compiler.py:286`), and Apply is refused until somebody removes the block by
  hand.
* A plugin that was switched off is shown again when a later release drops its catalog entry
  (`plugin_manager.py:251`). `disk.json` is truncated before it is written (`disk_hlp.py:72`). The
  service template of Node-RED can be removed while one instance is left.

## 5. What is proved

Every theorem is of the form `Spec => []P` or `Spec => [][A]_vars`, for every value of the
constants that satisfies the named assumptions of the module (sets of any size, any number of hosts,
processes, disks, providers, migrations, packages, any bounds). The assumptions only say what kind of
value a constant is: a bound is a number, a lock's free holder is no process, a script is a non-empty
list. Those of FirewallPolicy say what `ip_network` guarantees (a network begins with an address of its
own and of its family, a host is the network of itself), what the menus let an operator fill in (`normalize_rule`,
`normalize_vpn_server`: a server has an IPv4 address and an interface), that a fresh id is found
(`uuid4`), and that the two addresses of a packet are of one family. Type correctness comes first in each module that has one to prove, and is used by everything else;
for DiskNames, HubSchema, SelfUpdate, NodeRed and Sftp it is proved and not part of a run.

* **FirewallProofs, the policy.** `PolicyInv` is the inductive invariant of FirewallPolicy: what is stored
  loads as a policy (of this version, or of version 1 and migrated to one), and until somebody
  touches a block the blocks of both files are those the policy of the last Apply compiled to on its
  day. `PolicyTypeOK` alone is not inductive: an edit starts from what `Load` makes of the file, so the
  links of migrated, imported and adopted rules must be known to lead somewhere. The four properties
  of the run follow from it. `PolicyIsWellFormed`: one lemma per kind of edit shows that what it saves are
  servers and rules. `OthersKeepTheirSide`: where nothing is executed between the first managed block
  and the last, the rules of others before any block are those before the first
  (`SidesKept`). `IsolationFollowsTheServer`: only `EditServer` changes the servers and keeps their number, and
  a server is known by its id. `FileTellsThePolicy`: the blocks of a server drop what bans
  and isolations ask (`ServersDrop`), for packets of IPv4 only (`ClientsAreOfIPv4`), the Hard Source block
  accepts what trusted sources ask (`TrustAccepts`), and what is left of the rules when these
  have been asked is exactly what the Standard block was compiled from (`RestIsStandard`), with its
  first hit in the actions of the first rule that asks (`StandardDecides`). All this is about the
  first element of a sequence that is in a set (`IsFirst`), and about sequences made of parts; the
  lemmas on those come first. Where one needs an induction, it is over a set: of all numbers the lemma
  fails for, there would be a least one (`LeastNumber`, from the well-foundedness of `<`), which needs
  no operator as a parameter.
* **FirewallProofs, the guarded Apply.** `ChangeCovered`: by `RollbackInv`, one formula per run: the unit is
  armed before the first write and is neither absent nor stopped before the prompt; a unit that
  failed has left the mark that a command failed; a run has an outcome exactly when it is done.
  `ChangeIsCovered` alone is not inductive: it does not say of an unchanged run that the
  unit will be there when it writes. `FailureRestored`: by `UndoInv`, for a run nobody has
  disturbed: its backup is what it read, and what the process or the unit has undone is undone,
  whichever of the two did it. A step of somebody else keeps the run and marks it wherever it changes
  a file, the loaded rules or UFW (`OthersKeep`), so only the run's own steps need a case each.
  `SourceBackedUp` and `SuccessLive` assume that no run meets the pending rollback of an earlier one
  (`[]NoOldRollback`; with one run, every behaviour): such a rollback brings back an older text, and can
  make a file equal to the one read, or to the candidate, again. `OneRun` draws the conclusion without
  that hypothesis where `Procs` has one element, as in the run. They rest on the numbers of
  the edits: a text an administrator writes is newer than all that was read (`StampInv`), so a file
  that equals what was read at the check had not been edited when it was backed up (`SourceInv`),
  and one that equals the candidate after the reload is the one that was loaded (`ProgressInv`).
* **HubSyncProofs.** `OneRunPerHost`: who is inside a run holds the flock of its host.
  `RowsMoveForward` and `SchemaFirst`: by `LagInv` (what a writer holds lies between what is
  published and what is local, and a run knows no version newer than the schema); this needs the
  lock, for only the exclusion of other writers of the host keeps the snapshot newer than the rows.
  `SourcesCorrect` follows from the same invariant of the transactions. `Refinement` shows that
  HubSync implements HubPublication: its initial states are initial there, and every step is a
  `Change`, an `Upgrade`, a `Publish` (`CommitPublishes`: a snapshot within its transaction lies between
  what is shown and what is local, and its tables are there) or a stutter.
* **HubSchemaProofs.** `Inv` has three parts: who is inside holds the named lock; what is recorded
  is executed and has no gap below it; a client works on the first migration that is not recorded.
  `RequiredHolds`, `UsableHolds` and `SuccessHolds` follow from it. `FaultsHold` needs in addition
  that without a fault a statement that is executed and not recorded was executed by the client that
  still works on its migration (`DoneByWorker`). `Refinement` shows that HubSchema implements HubUpgrade: the
  recorded versions are an interval (`NewestRecorded`, by the least number that is missing), and who
  executes a statement, the server after its client has gone included (`OrphanIsNext`), is at the
  version after it, so every step is a `Build`, a `Report` or a stutter.
* **SettingsPackageProofs.** `ManagedGenuine`: memory and disk of every host are `Sound` (the
  hash they remember is that of an issued package, and what their signature names has its values).
  Genuineness of the disk alone is not inductive, because it is memory that is saved.
  `MarkersForward` and `IdentityKept` use that a starting program has in memory what is on disk.
* **DiskNamesProofs.** The registry is written by transactions alone (`OnlyCommitsWrite`). `NewerStays` is about
  one of them: with `NamedHaveRows` (a disk has a row before it has a name) a newer name can only be replaced
  from a row of the snapshot that has changed since, by a host that does not have the disk. `NamesGenuine` is inductive as it
  stands, because it names every place a name can be in, the snapshot and the results of the transaction
  included.

* **SelfUpdateProofs.** `AvailableCorrect`: the remembered answer is never about a newer HEAD than
  there is (`CacheIsHonest`), and within an update the answer shown is true or a tree has changed
  (`StatusIsHonest`). `MenuCorrect`: an update that has changed nothing keeps what the menu has
  loaded (`LoadedIsInstalled`); the invariant must speak of the phases of an update, for a
  later failure goes back to the menu. It also needs `Progress`, because setup.sh checks JBLibs out again.
  `SuccessCorrect` is `Progress` at the last step: every plugin the update has come to is at its
  commit or warned about.

* **NodeRedProofs.** A job is well formed when its plan is one of the plans of its kind (`JobOK`,
  `PlansExist`), and then a command only meets the steps of that plan. `GoneIsArchived` follows the removal
  backwards: the home goes in its last step, the archive was made in the step before (`Kept`), and between
  the two only a service its owner restarted can write, and only flows. `WhatRanRunsAgain` does not assume the
  owner away: by `Fresh` the service of a job its owner left alone is down from the stop to the start, so the start
  starts what was written, and after a restart it runs until the end of the job; only where files are rewritten
  while it runs is it `old`, which takes an owner and an update or a restore. `NoNodeIsLost` follows the plans of
  a switch. `PortIsFreeThen` needs that the ports the list has read are those of
  the instances whenever the list is shown (`PortsKnown`).
* **SftpProofs.** A configuration is `Sound` when everybody resolves, access is stored only for points
  that are shown, who is no user has nothing, and only existing templates are assigned. One lemma for
  each kind of change (`LocalEdit`, `PointEdit`, `Narrower`, ...) shows that it stays sound, opens nothing and
  takes no user away, one lemma per action puts it into that form. `NobodyCollides` and
  `PointsStartClosed` follow. `SavedIsServed` needs what Apply has reached so far (`ApplyGotTo`), and
  `OnlyTheDeletedGo` that a saved user who is not in memory was deleted there, unless the memory was loaded
  after an Apply that ended between its renames, or from a file that could not be read (`GoneIsKnown`).

**Only model-checked**: all liveness (`ChangeIsSettled`, `EverythingIsPublished`, `HostsAgree`,
`PlacesAreFound`, `LockIsReleased`, `PackageArrives`, `UpdateArrives`), which is out of the prover's reach;
and the three violated properties, which are facts of one trace. Every invariant and every action
property of a passing run is a theorem.

## 6. What is left

The modules were written in this order: FirewallApply, HubSync, DiskNames, HubSchema,
SettingsPackage, SelfUpdate, NodeRed, Sftp, FirewallPolicy, HubPublication, HubUpgrade. The guarded Apply is what
can lock an administrator out, the Hub is what hosts share, settings and updates are what changes
every host, instances and users are what a host is for.

Not yet written, in the order of their worth:

1. **HubTables**: the writers of services, Node-RED, firewall rules and VPN servers as
   refinements of the "replace the rows of the host" step of HubSync, with duplicate unit and rule
   identifiers across hosts.
2. **HubSchedule**: `set_schedule` and `choose_sync_mode` with failing systemctl calls and a crash
   before the mode is saved, added to HubSync.

**Not modelled, and why.** Dialogs, tables, wording and translations have no state. SSH keys, swap,
UART, host services and mail are sequences around single external commands. Mounting, imaging and
partition repair act on devices only the kernel can describe. Of Node-RED: backups of the whole
host, titles, users and certificates inside a configuration, a Node.js that is not the global one,
and a configuration that is half written or edited by hand. Of the SFTP manager: mail addresses, the
mail with a key, and the command line tools. Of the firewall policy: `reconcile.py` and
`plan_legacy_openvpn`, which only read and which no menu calls, and the syntax of a line. The
contents of JBLibs are not in the repository; what the modelled code uses of it (menus, saving the
configuration, running commands, accounts of SFTP users) is marked external. Cryptography is assumed
to work.
