------------------------------- MODULE NodeRed -------------------------------
(***************************************************************************)
(* Node-RED instances (libs/app/menus/app_20_node_red, install_instance,   *)
(* update_instance, remove_instance, backup, c_cfg) and the global Node.js *)
(* they run on (instanceHelper).                                           *)
(*                                                                         *)
(* An instance is a Linux account whose home holds muj-node-config.js, the *)
(* application and the flows; it runs as an instance of one systemd        *)
(* template. One menu process changes them, by jobs of several commands:   *)
(* some failures end a job, some are ignored. Meanwhile running instances  *)
(* change their flows and owners may restart their own service.            *)
(*                                                                         *)
(* A job is the record of what the menu is doing: its steps, the one it is *)
(* at, and what was true when it began.                                    *)
(***************************************************************************)
EXTENDS Naturals, Sequences, FiniteSets

CONSTANTS Users, Ports, None,
          LTS,         \* LATEST_LTS_MAJOR
          Distro,      \* the major of Node.js the distribution itself offers
          Hosts,       \* the pairs <<node, repo>> a host may start with
          MaxActs,     \* bound: jobs and choices of the operator
          MaxFaults,   \* bound: failing commands and kills
          MaxWork      \* bound: changes of the flows

ASSUME MajorsAreNat ==
  LTS \in Nat /\ Distro \in 1..LTS /\ Hosts \subseteq (0..(LTS + 1)) \X (0..(LTS + 1))

ASSUME BoundsAreNat == MaxActs \in Nat /\ MaxFaults \in Nat /\ MaxWork \in Nat

VARIABLES
  inst,      \* per user: account, home, running, enabled
  archives,  \* per user: the homes in his .7z archives
  sudoers,   \* the users /etc/sudoers.d/node-red-instances lets restart
  template,  \* the file of the service template exists
  node,      \* major of the global Node.js, 0 without one
  repo,      \* major the NodeSource repository is set to, 0 without one
  menu,      \* the user whose instance is edited, None in the list
  cache,     \* the port in the cfg_data of the edit menu
  changed,   \* cfg_data.changed
  ports,     \* instanceHelper._ports
  job,
  acts, faults

system == <<inst, archives, template, node, repo>>
screen == <<menu, cache, changed, ports>>
vars == <<system, sudoers, screen, job, acts, faults>>

Majors == 0..(LTS + 1)

Homes == [conf : Ports \cup {None}, app : BOOLEAN, flows : 0..MaxWork]

ASSUME NoneIsNothing == None \notin Users \cup Ports \cup Homes

Bare == [conf |-> None, app |-> FALSE, flows |-> 0]

Instances == [account : BOOLEAN, home : Homes \cup {None}, running : BOOLEAN, enabled : BOOLEAN]

Steps == {"account", "app", "conf", "enable", "start", "stop", "disable", "backup", "delete",
          "npm", "clean", "extract", "chown", "write", "run",
          "make", "unmake", "purge", "repo", "update", "upgrade", "install"}

Ops == {"idle", "install", "remove", "ssh", "update", "restore", "save", "app",
        "service", "backup", "template", "node", "uninstall"}

Jobs == [op : Ops, user : Users \cup {None}, plan : Seq(Steps), at : 1..5,
         port : Ports \cup {None},         \* of the new instance
         from : Homes \cup {None},         \* the archive to restore
         goal : Majors,                    \* the major to switch to
         ran : BOOLEAN, had : Majors,      \* the service and Node.js at the start
         calm : BOOLEAN,                   \* no command failed
         alone : BOOLEAN,                  \* the owner did not restart the service meanwhile
         old : BOOLEAN]                    \* it runs what was there before the job changed it

Idle == [op |-> "idle", user |-> None, plan |-> <<>>, at |-> 1,
         port |-> None, from |-> None, goal |-> 0, ran |-> FALSE, had |-> 0,
         calm |-> TRUE, alone |-> TRUE, old |-> FALSE]

(* instanceCheck, c_service_node.exists, getSysUsers: muj-node-config.js.  *)
HasConf(r) == r.home # None /\ r.home.conf # None

(* The conditions of the unit, and what its command needs.                 *)
CanStart(r) == template /\ node > 0 /\ r.account /\ HasConf(r) /\ r.home.app

(* The ports of the instances, as the list of instances reads them.        *)
PortsOf(i) == {i[u].home.conf : u \in {v \in Users : HasConf(i[v])}}

Init ==
  /\ \E used \in SUBSET Users, port \in [Users -> Ports], up \in SUBSET Users :
       inst = [u \in Users |->
                 [account |-> u \in used,
                  home |-> IF u \in used THEN [conf |-> port[u], app |-> TRUE, flows |-> 0]
                                         ELSE None,
                  running |-> u \in used \cap up,
                  enabled |-> u \in used]]
  /\ \E was \in Ports :                   \* of now, and of when it had a port
       archives = [u \in Users |-> IF inst[u].home = None THEN {} ELSE
                     {inst[u].home, [inst[u].home EXCEPT !.conf = was]}]
  /\ sudoers \in {{}, Users}
  /\ template = TRUE
  /\ \E host \in Hosts : node = host[1] /\ repo = host[2]
  /\ (\E u \in Users : inst[u].running) => node > 0
  /\ menu = None /\ cache = None /\ changed = FALSE
  /\ ports = PortsOf(inst)
  /\ job = Idle
  /\ acts = 0 /\ faults = 0

----------------------------------------------------------------------------
(***************************************************************************)
(* The operator begins a job, or moves between the list of instances and   *)
(* the edit menu of one.                                                   *)
(***************************************************************************)
Act == job = Idle /\ acts < MaxActs /\ acts' = acts + 1 /\ UNCHANGED <<sudoers, faults>>

Job(op, u, plan) ==
  [Idle EXCEPT !.op = op, !.user = u, !.plan = plan, !.had = node,
               !.ran = u # None /\ inst[u].running]

Begin(j) == Act /\ job' = j /\ UNCHANGED <<system, screen>>

(* install_node_instance: the account is new and no listed instance has    *)
(* the port.                                                               *)
Install(u, p) ==
  /\ menu = None /\ template
  /\ ~inst[u].account /\ inst[u].home = None
  /\ p \notin ports
  /\ Begin([Job("install", u, <<"account", "app", "conf", "enable", "start">>) EXCEPT !.port = p])

(* Slip: the archive is made while the service still runs.                 *)
BackupFirst == <<"backup", "stop", "disable", "delete">>

Removal == <<"stop", "disable", "backup", "delete">>

(* remove_node_instance from the edit menu, and from the menu of SSH users *)
(* for any account (ignoreCheckInstance).                                  *)
Remove(u) ==
  /\ menu = u /\ HasConf(inst[u]) /\ template
  /\ Begin(Job("remove", u, Removal))

RemoveAccount(u) ==
  /\ menu = None /\ inst[u].account
  /\ Begin(Job("ssh", u, Removal))

Update(u) ==
  /\ menu = u /\ HasConf(inst[u]) /\ template
  /\ Begin(Job("update", u, <<"stop", "backup", "npm", "start">>))

(* selectBackup: the archives of the user.                                 *)
Offered(u) == archives[u]

Restore(u, h) ==
  /\ menu = u /\ h \in Offered(u)
  /\ Begin([Job("restore", u, <<"stop", "clean", "extract", "chown", "start">>) EXCEPT !.from = h])

Backup(u) == menu = u /\ inst[u].home # None /\ Begin(Job("backup", u, <<"backup">>))

(* Slip: the service is stopped for the writing, as an update stops it.    *)
SaveStopsFirst(u) == menu = u /\ Begin(Job("save", u, <<"stop", "write", "start">>))

(* Save and Leave with saving write only what changed; saveForce, and what *)
(* touches HTTPS, write anyway.                                            *)
Save(u) == menu = u /\ Begin(Job("save", u, <<"write", "stop", "start">>))

RunAsApp(u) ==
  /\ menu = u
  /\ Begin(Job("app", u, IF inst[u].running THEN <<"stop", "run", "start">> ELSE <<"run">>))

(* The service submenu: what it offers depends on the state.               *)
Service(u) ==
  /\ menu = u
  /\ \E plan \in {<<"stop">>, <<"stop", "start">>, <<"start">>, <<"enable">>, <<"disable">>} :
       /\ plan[1] = "stop" => inst[u].running
       /\ plan[1] = "start" => ~inst[u].running
       /\ plan[1] = "enable" => ~inst[u].enabled
       /\ plan[1] = "disable" => inst[u].enabled
       /\ Begin(Job("service", u, plan))

(* The template: it is removed only when no more than one instance is left,*)
(* and updated by removing and making it.                                  *)
MakeTemplate == ~template /\ Begin(Job("template", None, <<"make">>))

RemoveTemplate ==
  /\ template /\ Cardinality({u \in Users : HasConf(inst[u])}) <= 1
  /\ Begin(Job("template", None, <<"unmake">>))

UpdateTemplate == template /\ Begin(Job("template", None, <<"unmake", "make">>))

Template == menu = None /\ (MakeTemplate \/ RemoveTemplate \/ UpdateTemplate)

(* Slip: it only upgrades a package that was there, though purged since.   *)
OnlyUpgrade(target, current) ==
  LET last == IF current = target THEN "upgrade" ELSE "install"
  IN  IF repo = target THEN <<"update", last>>
      ELSE IF current = 0 THEN <<"repo", "update", last>>
      ELSE <<"purge", "repo", "update", last>>

(* _applyNodeSourceNodeMajor: what it decides before its first command. It *)
(* purges before it changes the repository, and only upgrades a package    *)
(* that stays.                                                             *)
Commands(target, current) ==
  IF repo = target
  THEN IF current = target THEN <<"update", "upgrade">> ELSE <<"update", "install">>
  ELSE IF current = 0 THEN <<"repo", "update", "install">>
  ELSE <<"purge", "repo", "update", "install">>

Switch(target) == Begin([Job("node", None, Commands(target, node)) EXCEPT !.goal = target])

(* isNodeSourceAptInstall: a NodeSource repository is set up.              *)
FromNodeSource == repo > 0

(* getTargetNodeMajor: one major up, or the LTS.                           *)
Target(toLTS) == IF toLTS THEN LTS ELSE node + 1

InstallLatest == node = 0 /\ Switch(LTS)

(* nodeJsUpdate: the menu offers it below the LTS, and one major up only   *)
(* where that is not the LTS yet.                                          *)
UpdateNodeJs(toLTS) ==
  /\ node > 0 /\ node < LTS /\ FromNodeSource
  /\ toLTS \/ node + 2 <= LTS
  /\ Switch(Target(toLTS))

(* nodeJsUpdateActualMajorMinor, from the LTS on.                          *)
UpdateMinor == node >= LTS /\ FromNodeSource /\ Switch(node)

DeleteNodeJs == node > 0 /\ Begin(Job("uninstall", None, <<"purge">>))

NodeJs ==
  /\ menu = None
  /\ \/ InstallLatest \/ UpdateMinor \/ DeleteNodeJs
     \/ \E toLTS \in BOOLEAN : UpdateNodeJs(toLTS)

----------------------------------------------------------------------------
(* Choices of one step. The moves between the screens are not counted.     *)
Look == job = Idle /\ UNCHANGED <<sudoers, acts, faults>>

Open(u) ==
  /\ Look /\ menu = None /\ HasConf(inst[u])
  /\ menu' = u /\ cache' = inst[u].home.conf /\ changed' = FALSE
  /\ UNCHANGED <<system, ports, job>>

(* change_port: nobody asks whether the port is free.                      *)
ChangePort(p) ==
  /\ Look /\ menu # None
  /\ cache' = p /\ changed' = TRUE
  /\ UNCHANGED <<system, menu, ports, job>>

(* Slip: the ports are read once.                                          *)
ListedBefore(i) == ports

(* The list is shown again, and reads the ports of the instances.          *)
Listed(i) == PortsOf(i)

Leave ==
  /\ Look /\ menu # None
  /\ menu' = None /\ cache' = None /\ changed' = FALSE /\ ports' = Listed(inst)
  /\ UNCHANGED <<system, job>>

DeleteBackup(u, h) ==
  /\ Act /\ menu = u /\ h \in Offered(u)
  /\ archives' = [archives EXCEPT ![u] = @ \ {h}]
  /\ UNCHANGED <<inst, template, node, repo, screen, job>>

UpdateSudoers ==
  /\ job = Idle /\ menu = None /\ acts < MaxActs /\ acts' = acts + 1
  /\ sudoers' = {u \in Users : HasConf(inst[u])}
  /\ UNCHANGED <<system, screen, job, faults>>

----------------------------------------------------------------------------
(***************************************************************************)
(* The steps of a job. Mine is the instance the job is about.              *)
(***************************************************************************)
At(step) == job # Idle /\ job.plan[job.at] = step

Mine == inst[job.user]

Becomes(r) ==
  /\ inst' = [inst EXCEPT ![job.user] = r]
  /\ UNCHANGED <<archives, template, node, repo>>

Account == At("account") /\ Becomes([Mine EXCEPT !.account = TRUE, !.home = Bare])

App == At("app") /\ Becomes([Mine EXCEPT !.home.app = TRUE])

Conf == At("conf") /\ Becomes([Mine EXCEPT !.home.conf = job.port])

Enable == At("enable") /\ Becomes([Mine EXCEPT !.enabled = TRUE])

Disable == At("disable") /\ Becomes([Mine EXCEPT !.enabled = FALSE])

Starts(r) == CanStart(r)

(* Where its conditions do not hold, systemd leaves the service as it is.  *)
Start == At("start") /\ Becomes([Mine EXCEPT !.running = @ \/ Starts(Mine)])

Stop == At("stop") /\ Becomes([Mine EXCEPT !.running = FALSE])

(* _create_backup: an archive of the whole home.                           *)
Archive ==
  /\ At("backup")
  /\ archives' = [archives EXCEPT ![job.user] = @ \cup ({Mine.home} \ {None})]
  /\ UNCHANGED <<inst, template, node, repo>>

(* userdel -r, then what is left of the home.                              *)
Delete == At("delete") /\ Becomes([Mine EXCEPT !.account = FALSE, !.home = None])

Clean == At("clean") /\ Becomes([Mine EXCEPT !.home = Bare])

Extract == At("extract") /\ Becomes([Mine EXCEPT !.home = job.from])

Write ==
  /\ At("write") /\ HasConf(Mine)
  /\ Becomes([Mine EXCEPT !.home.conf = cache])

(* npm update, chown, apt-get update, apt-get install --only-upgrade, and  *)
(* the instance run in the foreground: nothing of this model changes.      *)
Quiet == (\E s \in {"npm", "chown", "run", "update", "upgrade"} : At(s)) /\ UNCHANGED system

Make == At("make") /\ template' = TRUE /\ UNCHANGED <<inst, archives, node, repo>>

Unmake == At("unmake") /\ template' = FALSE /\ UNCHANGED <<inst, archives, node, repo>>

Purge == At("purge") /\ node' = 0 /\ UNCHANGED <<inst, archives, template, repo>>

SetRepo == At("repo") /\ repo' = job.goal /\ UNCHANGED <<inst, archives, template, node>>

(* apt-get install takes the newest version there is, and never goes back. *)
InstallNode ==
  /\ At("install")
  /\ LET offered == IF repo = 0 THEN Distro ELSE repo
     IN  node' = IF offered > node THEN offered ELSE node
  /\ UNCHANGED <<inst, archives, template, repo>>

Works ==
  \/ Account \/ App \/ Conf \/ Enable \/ Disable \/ Start \/ Stop \/ Archive \/ Delete
  \/ Clean \/ Extract \/ Write \/ Quiet \/ Make \/ Unmake \/ Purge \/ SetRepo \/ InstallNode

(* A job that ends: a removal leaves the edit menu, a save clears the flag,*)
(* and the list shows the ports again.                                     *)
End ==
  /\ job' = Idle
  /\ menu' = IF job.op = "remove" THEN None ELSE menu
  /\ cache' = IF job.op = "remove" THEN None ELSE cache
  /\ changed' = (changed /\ job.op \notin {"remove", "save"})
  /\ ports' = IF menu' = None THEN Listed(inst') ELSE ports

(* A process that runs while its files change goes on with the old ones,   *)
(* and starting what runs does nothing: only a stop ends it.               *)
Rewrites == {"npm", "clean", "extract", "write"}

RunsOld ==
  LET step == job.plan[job.at]
  IN  step # "stop" /\ (job.old \/ (step \in Rewrites /\ Mine.running))

Continue ==
  IF job.at = Len(job.plan) THEN End
  ELSE job' = [job EXCEPT !.at = @ + 1, !.old = RunsOld] /\ UNCHANGED screen

Step == Works /\ Continue /\ UNCHANGED <<sudoers, acts, faults>>

----------------------------------------------------------------------------
(***************************************************************************)
(* Failures. A command that fails ends the job, unless the code does not   *)
(* look at it; a service that is down needs no stop.                       *)
(***************************************************************************)
Ignored(op) ==
  CASE op = "remove" -> {"backup", "delete"}
    [] op = "ssh"    -> {"stop", "disable", "backup", "delete"}
    [] op = "update" -> {"backup"}
    [] op = "app"    -> {"stop", "run"}
    [] op = "node"   -> {"repo"}          \* curl ... | bash -
    [] OTHER         -> {}

(* What a failing step leaves: userdel may keep the account, but the home  *)
(* goes; the archive is copied part by part.                               *)
Leaves(step) ==
  CASE step = "delete"  -> {[Mine EXCEPT !.home = None]}
    [] step = "extract" -> {[Mine EXCEPT !.home = h] :
                              h \in {Bare, [Bare EXCEPT !.flows = job.from.flows],
                                     [job.from EXCEPT !.conf = None]}}
    [] OTHER            -> {Mine}

Fault == faults < MaxFaults /\ faults' = faults + 1 /\ UNCHANGED <<sudoers, acts>>

(* No file to write into: save raises, and its changes stay unsaved.       *)
Raises == At("write") /\ job' = Idle /\ UNCHANGED <<system, screen>>

Fails ==
  /\ job # Idle /\ Fault
  /\ At("stop") => Mine.running
  /\ At("disable") => Mine.enabled
  /\ \/ Raises
     \/ /\ job.user # None /\ ~At("write")
        /\ \E r \in Leaves(job.plan[job.at]) : Becomes(r)
     \/ job.user = None /\ UNCHANGED system
  /\ ~At("write") =>
       IF job.plan[job.at] \in Ignored(job.op) /\ job.at < Len(job.plan)
       THEN job' = [job EXCEPT !.at = @ + 1, !.calm = FALSE] /\ UNCHANGED screen
       ELSE End

NothingToWrite == Raises /\ ~HasConf(Mine) /\ UNCHANGED <<sudoers, acts, faults>>

(* The session is lost; a new menu begins in the list.                     *)
Kill ==
  /\ job # Idle /\ Fault
  /\ job' = Idle /\ menu' = None /\ cache' = None /\ changed' = FALSE
  /\ ports' = Listed(inst)
  /\ UNCHANGED system

(***************************************************************************)
(* What happens beside the menu.                                           *)
(***************************************************************************)
Work(u) ==
  /\ inst[u].running /\ inst[u].home # None /\ inst[u].home.flows < MaxWork
  /\ inst' = [inst EXCEPT ![u].home.flows = @ + 1]
  /\ UNCHANGED <<archives, template, node, repo, sudoers, screen, job, acts, faults>>

(* systemctl restart starts a service that is down, too, and with what is  *)
(* there now.                                                              *)
OwnerRestarts(u) ==
  /\ u \in sudoers /\ CanStart(inst[u])
  /\ inst' = [inst EXCEPT ![u].running = TRUE]
  /\ job' = IF job.user = u THEN [job EXCEPT !.alone = FALSE, !.old = FALSE] ELSE job
  /\ UNCHANGED <<archives, template, node, repo, sudoers, screen, acts, faults>>

Operator ==
  \/ \E u \in Users, p \in Ports : Install(u, p)
  \/ \E u \in Users :
       \/ Remove(u) \/ RemoveAccount(u) \/ Update(u) \/ Backup(u) \/ Save(u)
       \/ RunAsApp(u) \/ Service(u) \/ Open(u)
       \/ \E h \in Offered(u) : Restore(u, h) \/ DeleteBackup(u, h)
  \/ \E p \in Ports : ChangePort(p)
  \/ Leave \/ Template \/ NodeJs \/ UpdateSudoers

Next ==
  \/ Operator \/ Step \/ Fails \/ NothingToWrite \/ Kill
  \/ \E u \in Users : Work(u) \/ OwnerRestarts(u)

Spec == Init /\ [][Next]_vars

----------------------------------------------------------------------------
(* Every variable stays in its set.                                        *)
TypeOK ==
  /\ inst \in [Users -> Instances]
  /\ archives \in [Users -> SUBSET Homes]
  /\ sudoers \subseteq Users
  /\ template \in BOOLEAN
  /\ node \in Majors /\ repo \in Majors
  /\ menu \in Users \cup {None} /\ cache \in Ports \cup {None} /\ changed \in BOOLEAN
  /\ ports \subseteq Ports
  /\ job \in Jobs
  /\ acts \in 0..MaxActs /\ faults \in 0..MaxFaults

(* What an archive of a home that works may lack: the flows written since. *)
Older(h, home) == h.conf = home.conf /\ h.app = home.app /\ h.flows <= home.flows

(* A home that goes in a removal during which no command failed is in an   *)
(* archive, and as it was at the end: nothing is written between the       *)
(* archive and the deletion (remove_instance.py: stop, disable, back up,   *)
(* delete). Where the owner restarts the service during the removal, only  *)
(* flows written since then may be missing.                                *)
RemovedIsArchived ==
  [][\A u \in Users :
       inst[u].home # None /\ inst'[u].home = None /\ job.calm /\ faults' = faults
         => \E h \in archives[u] : Older(h, inst[u].home) /\ (job.alone => h = inst[u].home)]_vars

(* A service that ran when an update, a restore, a save or a run in the    *)
(* foreground began runs when it ends, whatever its owner restarted        *)
(* meanwhile, unless a command failed or the unit has lost what it needs   *)
(* to start. After a save it runs what was saved (written first, then      *)
(* stopped and started, c_cfg.py); only where the owner restarts it during *)
(* an update or a restore, which stop it first, may it run what was there  *)
(* before: starting it is then no news to systemd.                         *)
ServiceComesBack ==
  [][job.op \in {"update", "restore", "save", "app"} /\ job.ran /\ job.calm
     /\ faults' = faults /\ job' = Idle /\ CanStart(inst'[job.user])
       => /\ inst'[job.user].running
          /\ RunsOld => job.op \in {"update", "restore"} /\ ~job.alone]_vars

(* An installation begins with a port no instance is configured for: the   *)
(* menu reads the ports when it shows the list, and nothing changes one    *)
(* between that and the question (isPortUsed).                             *)
InstalledPortIsFree ==
  [][job = Idle /\ job'.op = "install" => job'.port \notin PortsOf(inst)]_vars

(* Switching Node.js, which may purge the package first, never ends with   *)
(* none at all, whatever command failed unseen on the way (the setup       *)
(* script in its pipe), and with an older major only where one did         *)
(* (_applyNodeSourceNodeMajor).                                            *)
NodeIsNotLost ==
  [][job.op = "node" /\ faults' = faults /\ job' = Idle
       => node' > 0 /\ (job.calm => node' >= job.had)]_vars

(* "The system user will be deleted along with their home directory,       *)
(* which will be backed up first" (lng/default.py): a home that goes from  *)
(* the menu of instances is in an archive.                                 *)
RemovalIsBackedUp ==
  [][\A u \in Users :
       inst[u].home # None /\ inst'[u].home = None /\ job.op = "remove"
         => inst[u].home \in archives[u]]_vars
=============================================================================
