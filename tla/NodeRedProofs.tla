---------------------------- MODULE NodeRedProofs ----------------------------
(***************************************************************************)
(* Proofs about Node-RED instances. The invariant says, for every job, its *)
(* plan, and what the steps behind it have achieved as long as the job is  *)
(* calm: a removal has stopped the service before it archives, a switch of *)
(* Node.js has the repository before it installs.                          *)
(***************************************************************************)
EXTENDS NodeRed, TLAPS

Alone == {"template", "node", "uninstall"}

(* The plan of every kind of job.                                          *)
Planned(op, p) ==
  /\ op = "install" => p = <<"account", "app", "conf", "enable", "start">>
  /\ op \in {"remove", "ssh"} => p = Removal
  /\ op = "update" => p = <<"stop", "backup", "npm", "start">>
  /\ op = "restore" => p = <<"stop", "clean", "extract", "chown", "start">>
  /\ op = "save" => p = <<"write", "stop", "start">>
  /\ op = "app" => p \in {<<"stop", "run", "start">>, <<"run">>}
  /\ op = "service" => p \in {<<"stop">>, <<"stop", "start">>, <<"start">>, <<"enable">>, <<"disable">>}
  /\ op = "backup" => p = <<"backup">>
  /\ op = "template" => p \in {<<"unmake", "make">>, <<"unmake">>, <<"make">>}
  /\ op = "node" =>
       p \in {<<"update", "upgrade">>, <<"update", "install">>, <<"repo", "update", "install">>,
              <<"purge", "repo", "update", "install">>}
  /\ op = "uninstall" => p = <<"purge">>

(* Who the job is about, and what it works with.                           *)
Subject(j) ==
  /\ j.op = "idle" <=> j = Idle
  /\ j.op # "idle" => j.at <= Len(j.plan) /\ j.at > 0
  /\ j.op \notin Alone \cup {"idle"} => j.user \in Users
  /\ j.op \in Alone => j.user = None
  /\ j.op = "restore" => j.from \in Homes
  /\ j.op = "app" /\ j.plan = <<"run">> => ~j.ran

(* An installation that has an account has a home.                         *)
Installing(j) == j.op = "install" /\ j.at > 1 => inst[j.user].home \in Homes

(* A home is in an archive, exactly if nobody was about meanwhile.         *)
Kept(a, home, alone) == \E h \in a : Older(h, home) /\ (alone => h = home)

Removing(j) ==
  j.op \in {"remove", "ssh"} /\ j.calm =>
    /\ j.at > 1 /\ j.alone => ~inst[j.user].running
    /\ j.at > 3 /\ inst[j.user].home # None => Kept(archives[j.user], inst[j.user].home, j.alone)

(* No process from before the change is left where the service was stopped *)
(* after it, or before it and nobody else starts it.                       *)
Fresh(j) ==
  /\ j.op = "app" => ~j.old
  /\ j.op = "save" /\ j.at > 2 => ~j.old
  /\ j.op \in {"update", "restore"} /\ j.calm /\ j.alone =>
       ~j.old /\ (j.at > 1 => ~inst[j.user].running)

Switching(j) ==
  j.op = "node" =>
    /\ j.goal >= j.had /\ j.goal > 0
    /\ j.calm /\ j.plan[j.at] \in {"update", "install", "upgrade"} => repo = j.goal
    /\ j.plan = <<"update", "upgrade">> => node = j.had /\ j.had > 0

JobOK(j) ==
  /\ Planned(j.op, j.plan)
  /\ Subject(j) /\ Installing(j) /\ Removing(j) /\ Fresh(j) /\ Switching(j)

(* The list shows the ports there are, and only the edit menu saves.       *)
PortsKnown ==
  /\ job = Idle /\ menu = None => ports = PortsOf(inst)
  /\ job.op = "save" => menu # None

Inv == TypeOK /\ JobOK(job) /\ PortsKnown

----------------------------------------------------------------------------
LEMMA Written == ASSUME NEW S, NEW n \in Nat, NEW p \in [1..n -> S] PROVE p \in Seq(S)
  OBVIOUS

LEMMA PlansExist ==
  ASSUME NEW op \in Ops, NEW p, Planned(op, p), op # "idle"
  PROVE  p \in Seq(Steps) /\ Len(p) \in 1..5
<1>0. SUFFICES (\E n \in 1..5 : p \in [1..n -> Steps]) /\ Len(p) \in 1..5
  BY Written
<1> USE DEF Planned, Steps, Removal
<1>1. CASE op = "install"
  BY <1>1
<1>2. CASE op \in {"remove", "ssh"}
  BY <1>2
<1>3. CASE op = "update"
  BY <1>3
<1>4. CASE op = "restore"
  BY <1>4
<1>5. CASE op = "save"
  BY <1>5
<1>6. CASE op = "app"
  BY <1>6
<1>7. CASE op = "service"
  BY <1>7
<1>8. CASE op \in {"template", "backup"}
  BY <1>8
<1>9. CASE op \in {"node", "uninstall"}
  BY <1>9
<1> QED BY <1>1, <1>2, <1>3, <1>4, <1>5, <1>6, <1>7, <1>8, <1>9 DEF Ops

----------------------------------------------------------------------------
(* One instance changes.                                                   *)
LEMMA BecomesTyped ==
  ASSUME inst \in [Users -> Instances], NEW r, Becomes(r), job.user \in Users => r \in Instances
  PROVE  /\ inst' \in [Users -> Instances]
         /\ job.user \in Users => inst'[job.user] = r
         /\ \A v \in Users \ {job.user} : inst'[v] = inst[v]
  BY DEF Becomes

LEMMA Became ==
  ASSUME inst \in [Users -> Instances], job.user \in Users, NEW r, Becomes(r)
  PROVE  inst'[job.user] = r
  BY DEF Becomes

LEMMA Next5 == ASSUME NEW a \in 1..5, NEW n \in 1..5, a < n PROVE a + 1 \in 1..5
  OBVIOUS

(* A step of a job is the step its plan has at this place.                 *)
LEMMA OneStep ==
  ASSUME Works
  PROVE  /\ job # Idle
         /\ job.plan[job.at] = "account" => Account
         /\ job.plan[job.at] = "app" => App
         /\ job.plan[job.at] = "conf" => Conf
         /\ job.plan[job.at] = "enable" => Enable
         /\ job.plan[job.at] = "disable" => Disable
         /\ job.plan[job.at] = "start" => Start
         /\ job.plan[job.at] = "stop" => Stop
         /\ job.plan[job.at] = "backup" => Archive
         /\ job.plan[job.at] = "delete" => Delete
         /\ job.plan[job.at] = "clean" => Clean
         /\ job.plan[job.at] = "extract" => Extract
         /\ job.plan[job.at] = "write" => Write
         /\ job.plan[job.at] \in {"npm", "chown", "run", "update", "upgrade"} => Quiet
         /\ job.plan[job.at] = "make" => Make
         /\ job.plan[job.at] = "unmake" => Unmake
         /\ job.plan[job.at] = "purge" => Purge
         /\ job.plan[job.at] = "repo" => SetRepo
         /\ job.plan[job.at] = "install" => InstallNode
<1>1. /\ Account => At("account")
      /\ App => At("app")
      /\ Conf => At("conf")
      /\ Enable => At("enable")
      /\ Disable => At("disable")
      /\ Start => At("start")
      /\ Stop => At("stop")
      /\ Archive => At("backup")
      /\ Delete => At("delete")
  BY DEF Account, App, Conf, Enable, Disable, Start, Stop, Archive, Delete
<1>2. /\ Clean => At("clean")
      /\ Extract => At("extract")
      /\ Write => At("write")
      /\ Quiet => \E s \in {"npm", "chown", "run", "update", "upgrade"} : At(s)
      /\ Make => At("make")
      /\ Unmake => At("unmake")
      /\ Purge => At("purge")
      /\ SetRepo => At("repo")
      /\ InstallNode => At("install")
  BY DEF Clean, Extract, Write, Quiet, Make, Unmake, Purge, SetRepo, InstallNode
<1> QED BY <1>1, <1>2 DEF Works, At

(* Which job has a step, and what the last step of a job is.               *)
LEMMA WhoDoes ==
  ASSUME NEW op \in Ops, NEW p, NEW k \in 1..Len(p), Planned(op, p), op # "idle"
  PROVE  /\ p[k] \in {"app", "conf"} => op = "install" /\ k > 1
         /\ p[k] = "extract" => op = "restore"
         /\ p[k] = "write" => op = "save"
         /\ p[k] = "delete" => op \in {"remove", "ssh"} /\ k = 4
         /\ k = Len(p) /\ op \in {"update", "restore", "save"} => p[k] = "start"
         /\ k = Len(p) /\ op = "app" /\ p # <<"run">> => p[k] = "start"
         /\ k = Len(p) /\ op = "node" => p[k] \in {"install", "upgrade"}
<1>1. CASE op = "install"
  <2>1. p = <<"account", "app", "conf", "enable", "start">>
    BY <1>1 DEF Planned, Removal
  <2>2. Len(p) = 5 /\ p[1] = "account" /\ p[2] = "app" /\ p[3] = "conf" /\ p[4] = "enable" /\ p[5] = "start"
    BY <2>1
  <2> QED BY <1>1, <2>2
<1>2. CASE op \in {"remove", "ssh"}
  <2>1. p = <<"stop", "disable", "backup", "delete">>
    BY <1>2 DEF Planned, Removal
  <2>2. Len(p) = 4 /\ p[1] = "stop" /\ p[2] = "disable" /\ p[3] = "backup" /\ p[4] = "delete"
    BY <2>1
  <2> QED BY <1>2, <2>2
<1>3. CASE op = "update"
  <2>1. p = <<"stop", "backup", "npm", "start">>
    BY <1>3 DEF Planned, Removal
  <2>2. Len(p) = 4 /\ p[1] = "stop" /\ p[2] = "backup" /\ p[3] = "npm" /\ p[4] = "start"
    BY <2>1
  <2> QED BY <1>3, <2>2
<1>4. CASE op = "restore"
  <2>1. p = <<"stop", "clean", "extract", "chown", "start">>
    BY <1>4 DEF Planned, Removal
  <2>2. Len(p) = 5 /\ p[1] = "stop" /\ p[2] = "clean" /\ p[3] = "extract" /\ p[4] = "chown" /\ p[5] = "start"
    BY <2>1
  <2> QED BY <1>4, <2>2
<1>5. CASE op = "save"
  <2>1. p = <<"write", "stop", "start">>
    BY <1>5 DEF Planned, Removal
  <2>2. Len(p) = 3 /\ p[1] = "write" /\ p[2] = "stop" /\ p[3] = "start"
    BY <2>1
  <2> QED BY <1>5, <2>2
<1>6. CASE op = "app"
  <2>1. p = <<"stop", "run", "start">> \/ p = <<"run">>
    BY <1>6 DEF Planned
  <2>2. CASE p = <<"stop", "run", "start">>
    <3>1. Len(p) = 3 /\ p[1] = "stop" /\ p[2] = "run" /\ p[3] = "start"
      BY <2>2
    <3> QED BY <1>6, <3>1
  <2>3. CASE p = <<"run">>
    <3>1. Len(p) = 1 /\ p[1] = "run"
      BY <2>3
    <3> QED BY <1>6, <2>3, <3>1
  <2> QED BY <2>1, <2>2, <2>3
<1>7. CASE op \in {"service", "backup", "template", "uninstall"}
  <2>1. p \in {<<"stop">>, <<"start">>, <<"enable">>, <<"disable">>, <<"backup">>, <<"make">>,
               <<"unmake">>, <<"purge">>, <<"stop", "start">>, <<"unmake", "make">>}
    BY <1>7 DEF Planned
  <2>2. p[k] \in {"stop", "start", "enable", "disable", "backup", "unmake", "make", "purge"}
    BY <2>1
  <2> QED BY <1>7, <2>2
<1>8. CASE op = "node"
  <2>1. p \in {<<"update", "upgrade">>, <<"update", "install">>, <<"repo", "update", "install">>,
               <<"purge", "repo", "update", "install">>}
    BY <1>8 DEF Planned
  <2>2. p[k] \in {"purge", "repo", "update", "upgrade", "install"}
    BY <2>1
  <2>3. p[Len(p)] \in {"install", "upgrade"}
    <3>1. CASE p = <<"update", "upgrade">>
      BY <3>1
    <3>2. CASE p = <<"update", "install">>
      BY <3>2
    <3>3. CASE p = <<"repo", "update", "install">>
      BY <3>3
    <3>4. CASE p = <<"purge", "repo", "update", "install">>
      BY <3>4
    <3> QED BY <2>1, <3>1, <3>2, <3>3, <3>4
  <2> QED BY <1>8, <2>2, <2>3
<1> QED BY <1>1, <1>2, <1>3, <1>4, <1>5, <1>6, <1>7, <1>8 DEF Ops

LEMMA BareIsHome == Bare \in Homes
<1>1. 0 \in 0..MaxWork
  BY BoundsAreNat
<1> QED BY <1>1 DEF Bare, Homes

LEMMA PortsTyped == ASSUME NEW i \in [Users -> Instances] PROVE PortsOf(i) \subseteq Ports
<1>1. \A u \in Users : HasConf(i[u]) => i[u].home.conf \in Ports
  BY DEF Instances, Homes, HasConf
<1> QED BY <1>1 DEF PortsOf

LEMMA PortsStay ==
  ASSUME NEW i \in [Users -> Instances], NEW k \in [Users -> Instances],
         \A u \in Users : /\ HasConf(k[u]) <=> HasConf(i[u])
                          /\ HasConf(i[u]) => k[u].home.conf = i[u].home.conf
  PROVE  PortsOf(k) = PortsOf(i)
  BY DEF PortsOf

LEMMA Typed ==
  ASSUME Inv, Works
  PROVE  /\ inst' \in [Users -> Instances] /\ archives' \in [Users -> SUBSET Homes]
         /\ template' \in BOOLEAN /\ node' \in Majors /\ repo' \in Majors
<1> USE DEF Inv, TypeOK
<1>0. job # Idle /\ job.at \in 1..Len(job.plan) /\ job.op \in Ops \ {"idle"} /\ job \in Jobs
  BY OneStep DEF JobOK, Subject, Jobs
<1>a. job.user \in Users => Mine \in Instances
  BY DEF Mine
<1>b. (At("app") \/ At("conf")) /\ job.user \in Users => Mine.home \in Homes
  BY <1>0, WhoDoes DEF At, JobOK, Installing, Mine
<1>1. CASE Account
  <2>1. job.user \in Users => [Mine EXCEPT !.account = TRUE, !.home = Bare] \in Instances
    BY <1>a, BareIsHome DEF Instances
  <2> QED BY <1>1, <2>1, BecomesTyped DEF Account, Becomes
<1>2. CASE App
  <2>1. job.user \in Users => [Mine EXCEPT !.home.app = TRUE] \in Instances
    BY <1>a, <1>b, <1>2 DEF Instances, Homes, App
  <2> QED BY <1>2, <2>1, BecomesTyped DEF App, Becomes
<1>3. CASE Conf
  <2>1. job.user \in Users => [Mine EXCEPT !.home.conf = job.port] \in Instances
    BY <1>0, <1>a, <1>b, <1>3 DEF Instances, Homes, Conf, Jobs
  <2> QED BY <1>3, <2>1, BecomesTyped DEF Conf, Becomes
<1>4. CASE Enable
  <2>1. job.user \in Users => [Mine EXCEPT !.enabled = TRUE] \in Instances
    BY <1>a DEF Instances
  <2> QED BY <1>4, <2>1, BecomesTyped DEF Enable, Becomes
<1>5. CASE Disable
  <2>1. job.user \in Users => [Mine EXCEPT !.enabled = FALSE] \in Instances
    BY <1>a DEF Instances
  <2> QED BY <1>5, <2>1, BecomesTyped DEF Disable, Becomes
<1>6. CASE Start
  <2>1. job.user \in Users => (Mine.running \/ Starts(Mine)) \in BOOLEAN
    BY <1>a DEF Instances, Starts, CanStart
  <2>2. job.user \in Users => [Mine EXCEPT !.running = @ \/ Starts(Mine)] \in Instances
    BY <1>a, <2>1 DEF Instances
  <2> QED BY <1>6, <2>2, BecomesTyped DEF Start, Becomes
<1>7. CASE Stop
  <2>1. job.user \in Users => [Mine EXCEPT !.running = FALSE] \in Instances
    BY <1>a DEF Instances
  <2> QED BY <1>7, <2>1, BecomesTyped DEF Stop, Becomes
<1>8. CASE Archive
  <2>1. job.user \in Users => archives[job.user] \cup ({Mine.home} \ {None}) \in SUBSET Homes
    BY <1>a DEF Instances
  <2> QED BY <1>8, <2>1 DEF Archive
<1>9. CASE Delete
  <2>1. job.user \in Users => [Mine EXCEPT !.account = FALSE, !.home = None] \in Instances
    BY <1>a DEF Instances
  <2> QED BY <1>9, <2>1, BecomesTyped DEF Delete, Becomes
<1>10. CASE Clean
  <2>1. job.user \in Users => [Mine EXCEPT !.home = Bare] \in Instances
    BY <1>a, BareIsHome DEF Instances
  <2> QED BY <1>10, <2>1, BecomesTyped DEF Clean, Becomes
<1>11. CASE Extract
  <2>1. job.user \in Users => [Mine EXCEPT !.home = job.from] \in Instances
    BY <1>0, <1>a DEF Instances, Jobs
  <2> QED BY <1>11, <2>1, BecomesTyped DEF Extract, Becomes
<1>12. CASE Write
  <2>0. job.user \in Users => Mine.home \in Homes
    BY <1>a, <1>12 DEF Write, HasConf, Instances
  <2>1. job.user \in Users => [Mine EXCEPT !.home.conf = cache] \in Instances
    BY <1>a, <2>0 DEF Instances, Homes
  <2> QED BY <1>12, <2>1, BecomesTyped DEF Write, Becomes
<1>13. CASE Quiet \/ Make \/ Unmake
  BY <1>13 DEF Quiet, Make, Unmake, system
<1>14. CASE Purge \/ SetRepo
  BY <1>14, <1>0, MajorsAreNat DEF Purge, SetRepo, Jobs, Majors
<1>15. CASE InstallNode
  BY <1>15, MajorsAreNat DEF InstallNode, Majors
<1> QED
  BY <1>1, <1>2, <1>3, <1>4, <1>5, <1>6, <1>7, <1>8, <1>9, <1>10, <1>11, <1>12, <1>13, <1>14, <1>15
     DEF Works

----------------------------------------------------------------------------
(* What a step of a removal, and of a switch of Node.js, does.             *)
LEMMA RemovalSteps ==
  ASSUME Inv, Works, job.op \in {"remove", "ssh"}
  PROVE  /\ job.user \in Users /\ Len(job.plan) = 4 /\ job.at \in 1..4
         /\ job.at = 1 => Stop
         /\ job.at = 2 => Disable
         /\ job.at = 3 => Archive
         /\ job.at = 4 => Delete
<1>1. job.plan = <<"stop", "disable", "backup", "delete">>
  BY DEF Inv, JobOK, Planned, Removal
<1>2. job.user \in Users /\ job.at \in 1..5 /\ job.at <= Len(job.plan)
  BY DEF Inv, TypeOK, Jobs, JobOK, Subject, Alone
<1> QED BY <1>1, <1>2, OneStep

LEMMA InstallSteps ==
  ASSUME Inv, Works, job.op = "install"
  PROVE  /\ job.user \in Users /\ Len(job.plan) = 5 /\ job.at \in 1..5
         /\ job.at = 1 => Account
         /\ job.at = 2 => App
         /\ job.at = 3 => Conf
         /\ job.at = 4 => Enable
         /\ job.at = 5 => Start
<1>1. job.plan = <<"account", "app", "conf", "enable", "start">>
  BY DEF Inv, JobOK, Planned
<1>2. job.user \in Users /\ job.at \in 1..5 /\ job.at <= Len(job.plan)
  BY DEF Inv, TypeOK, Jobs, JobOK, Subject, Alone
<1> QED BY <1>1, <1>2, OneStep

LEMMA SwitchSteps ==
  ASSUME Inv, Works, job.op = "node"
  PROVE  /\ job.plan[job.at] \in {"purge", "repo", "update", "upgrade", "install"}
         /\ job.plan[job.at] = "purge" => Purge /\ job.plan[job.at + 1] = "repo"
         /\ job.plan[job.at] = "repo" => SetRepo
         /\ job.plan[job.at] \in {"update", "upgrade"} => Quiet
         /\ job.plan[job.at] = "install" => InstallNode
         /\ job.plan[job.at] \in {"purge", "repo"} => job.plan # <<"update", "upgrade">>
         /\ job.plan[job.at] \in {"purge", "repo", "update"} => job.at < Len(job.plan)
         /\ job.plan[job.at] = "upgrade" => job.plan = <<"update", "upgrade">>
<1>1. job.plan \in {<<"update", "upgrade">>, <<"update", "install">>, <<"repo", "update", "install">>,
                    <<"purge", "repo", "update", "install">>}
  BY DEF Inv, JobOK, Planned
<1>2. job.at \in 1..Len(job.plan)
  BY DEF Inv, TypeOK, Jobs, JobOK, Subject, Alone
<1>3. /\ job.plan[job.at] \in {"purge", "repo", "update", "upgrade", "install"}
      /\ job.plan[job.at] = "purge" => job.plan[job.at + 1] = "repo"
      /\ job.plan[job.at] \in {"purge", "repo"} => job.plan # <<"update", "upgrade">>
      /\ job.plan[job.at] \in {"purge", "repo", "update"} => job.at < Len(job.plan)
      /\ job.plan[job.at] = "upgrade" => job.plan = <<"update", "upgrade">>
  <2>1. CASE job.plan = <<"update", "upgrade">>
    BY <1>2, <2>1
  <2>2. CASE job.plan = <<"update", "install">>
    BY <1>2, <2>2
  <2>3. CASE job.plan = <<"repo", "update", "install">>
    BY <1>2, <2>3
  <2>4. CASE job.plan = <<"purge", "repo", "update", "install">>
    BY <1>2, <2>4
  <2> QED BY <1>1, <2>1, <2>2, <2>3, <2>4
<1> QED BY <1>3, OneStep

(* The steps that may leave an old process, and those that end it.         *)
LEMMA FreshSteps ==
  ASSUME Inv, Works
  PROVE  /\ job.op = "app" => job.plan[job.at] \notin Rewrites
         /\ job.op = "save" /\ job.at = 2 => job.plan[job.at] = "stop"
         /\ job.op = "save" /\ job.at > 2 => job.plan[job.at] = "start"
         /\ job.op \in {"update", "restore"} =>
              /\ job.user \in Users
              /\ job.at = 1 => Stop /\ job.plan[job.at] = "stop"
              /\ job.at > 1 /\ job.at < Len(job.plan) => Archive \/ Quiet \/ Clean \/ Extract
<1>1. job.at \in 1..5 /\ job # Idle /\ (job.op # "idle" => job.at <= Len(job.plan))
  BY OneStep DEF Inv, TypeOK, Jobs, JobOK, Subject
<1>2. CASE job.op = "app"
  <2>1. job.plan \in {<<"stop", "run", "start">>, <<"run">>}
    BY <1>2 DEF Inv, JobOK, Planned
  <2>2. job.plan[job.at] \in {"stop", "run", "start"}
    BY <1>1, <1>2, <2>1
  <2> QED BY <1>2, <2>2 DEF Rewrites
<1>3. CASE job.op = "save"
  <2>1. job.plan = <<"write", "stop", "start">>
    BY <1>3 DEF Inv, JobOK, Planned
  <2> QED BY <1>1, <1>3, <2>1
<1>4. CASE job.op = "update"
  <2>1. job.plan = <<"stop", "backup", "npm", "start">> /\ job.user \in Users
    BY <1>4 DEF Inv, JobOK, Planned, Subject, Alone
  <2> QED BY <1>1, <1>4, <2>1, OneStep
<1>5. CASE job.op = "restore"
  <2>1. job.plan = <<"stop", "clean", "extract", "chown", "start">> /\ job.user \in Users
    BY <1>5 DEF Inv, JobOK, Planned, Subject, Alone
  <2> QED BY <1>1, <1>5, <2>1, OneStep
<1> QED BY <1>2, <1>3, <1>4, <1>5

----------------------------------------------------------------------------
LEMMA IdleIsJob == Idle \in Jobs
<1>1. <<>> \in Seq(Steps) /\ 0 \in Majors
  BY MajorsAreNat DEF Majors
<1> QED BY <1>1 DEF Idle, Jobs, Ops

LEMMA OldIsBoolean == RunsOld \in BOOLEAN
  BY DEF RunsOld

(* The job goes on to its next step, or ends.                              *)
LEMMA AfterEnd ==
  ASSUME TypeOK, job' = Idle, inst' \in [Users -> Instances]
  PROVE  JobOK(job)' /\ job' \in Jobs
<1>1. job'.op = "idle" /\ job'.plan = <<>> /\ job' = Idle
  BY DEF Idle
<1>2. Idle \in Jobs
  BY IdleIsJob
<1>3. Planned(job'.op, job'.plan)
  BY <1>1 DEF Planned
<1>4. Subject(job)'
  BY <1>1 DEF Subject, Alone
<1>5. Installing(job)' /\ Removing(job)' /\ Fresh(job)' /\ Switching(job)'
  BY <1>1 DEF Installing, Removing, Fresh, Switching
<1> QED BY <1>1, <1>2, <1>3, <1>4, <1>5 DEF JobOK

LEMMA AfterStep ==
  ASSUME Inv, Works, Continue, job.at # Len(job.plan)
  PROVE  JobOK(job)' /\ job' \in Jobs
<1> USE DEF Inv
<1>1. job' = [job EXCEPT !.at = @ + 1, !.old = RunsOld] /\ job \in Jobs
  BY DEF Continue, TypeOK
<1>0. /\ job # Idle /\ job.op \in Ops \ {"idle"} /\ job.at \in 1..5 /\ job.at < Len(job.plan)
      /\ Len(job.plan) \in 1..5
  <2>1. job # Idle /\ job.op # "idle" /\ job.at <= Len(job.plan) /\ job.op \in Ops /\ job.at \in 1..5
    BY OneStep, <1>1 DEF JobOK, Subject, Jobs
  <2>2. Len(job.plan) \in 1..5
    BY <2>1, PlansExist DEF JobOK
  <2> QED BY <2>1, <2>2
<1>2. /\ job'.op = job.op /\ job'.user = job.user /\ job'.plan = job.plan /\ job'.from = job.from
      /\ job'.ran = job.ran /\ job'.goal = job.goal /\ job'.had = job.had /\ job'.calm = job.calm
      /\ job'.alone = job.alone /\ job'.old = RunsOld
      /\ job'.at = job.at + 1 /\ job' # Idle /\ job' \in Jobs
  <2>1. job.at + 1 \in 1..5
    BY <1>0, Next5
  <2>2. job' \in Jobs
    BY <1>1, <2>1, OldIsBoolean DEF Jobs
  <2>3. /\ job'.op = job.op /\ job'.user = job.user /\ job'.plan = job.plan /\ job'.from = job.from
        /\ job'.ran = job.ran /\ job'.goal = job.goal /\ job'.had = job.had /\ job'.calm = job.calm
        /\ job'.alone = job.alone /\ job'.old = RunsOld
        /\ job'.at = job.at + 1
    BY <1>1 DEF Jobs
  <2>4. job' # Idle
    BY <1>0, <2>3 DEF Idle
  <2> QED BY <2>2, <2>3, <2>4
<1>3. Planned(job.op, job.plan)' /\ Subject(job)'
  <2>1. Planned(job.op, job.plan)'
    BY <1>2 DEF JobOK, Planned
  <2>2. job'.op # "idle" /\ job'.at <= Len(job'.plan) /\ job'.at > 0
    BY <1>0, <1>2
  <2>3. Subject(job)
    BY DEF JobOK
  <2> QED BY <1>2, <2>1, <2>2, <2>3 DEF Subject
<1>t. inst \in [Users -> Instances] /\ archives \in [Users -> SUBSET Homes]
  BY DEF TypeOK
<1>u. job.user \in Users => Mine \in Instances
  BY <1>t DEF Mine
<1>4. Installing(job)'
  <2>1. SUFFICES ASSUME job.op = "install" PROVE inst'[job.user].home \in Homes
    BY <1>2 DEF Installing
  <2>2. job.user \in Users /\ Len(job.plan) = 5
    BY <2>1, InstallSteps
  <2>3. CASE job.at = 1
    <3>1. [Mine EXCEPT !.account = TRUE, !.home = Bare].home = Bare
      BY <2>2, <1>u DEF Instances
    <3>2. Becomes([Mine EXCEPT !.account = TRUE, !.home = Bare])
      BY <2>1, <2>3, InstallSteps DEF Account
    <3> QED BY <2>2, <3>1, <3>2, <1>t, BareIsHome, Became
  <2>4. CASE job.at > 1
    <3>1. Mine.home \in Homes
      BY <2>1, <2>4 DEF JobOK, Installing, Mine
    <3>2. CASE job.at = 2
      <4>1. [Mine EXCEPT !.home.app = TRUE].home \in Homes
        BY <2>2, <3>1, <1>u DEF Instances, Homes
      <4>2. Becomes([Mine EXCEPT !.home.app = TRUE])
        BY <2>1, <3>2, InstallSteps DEF App
      <4> QED BY <2>2, <4>1, <4>2, <1>t, Became
    <3>3. CASE job.at = 3
      <4>1. job.port \in Ports \cup {None}
        BY <1>1 DEF Jobs
      <4>2. [Mine EXCEPT !.home.conf = job.port].home \in Homes
        BY <2>2, <3>1, <4>1, <1>u DEF Instances, Homes
      <4>3. Becomes([Mine EXCEPT !.home.conf = job.port])
        BY <2>1, <3>3, InstallSteps DEF Conf
      <4> QED BY <2>2, <4>2, <4>3, <1>t, Became
    <3>4. CASE job.at = 4
      <4>1. [Mine EXCEPT !.enabled = TRUE].home = Mine.home
        BY <2>2, <1>u DEF Instances
      <4>2. Becomes([Mine EXCEPT !.enabled = TRUE])
        BY <2>1, <3>4, InstallSteps DEF Enable
      <4> QED BY <2>2, <3>1, <4>1, <4>2, <1>t, Became
    <3> QED BY <1>0, <2>1, <2>2, <2>4, <3>2, <3>3, <3>4
  <2> QED BY <1>0, <2>3, <2>4
<1>5. Removing(job)'
  <2>1. SUFFICES ASSUME job.op \in {"remove", "ssh"}, job.calm
                 PROVE  /\ job.alone => ~inst'[job.user].running
                        /\ job.at + 1 > 3 /\ inst'[job.user].home # None =>
                             Kept(archives'[job.user], inst'[job.user].home, job.alone)
    BY <1>2 DEF Removing, Kept
  <2>2. job.user \in Users /\ Len(job.plan) = 4
    BY <2>1, RemovalSteps
  <2>3. CASE job.at = 1
    BY <2>1, <2>2, <2>3, <1>t, <1>u, RemovalSteps DEF Stop, Becomes, Instances
  <2>4. CASE job.at = 2
    <3>1. job.alone => ~Mine.running
      BY <2>1, <2>4 DEF JobOK, Removing, Mine
    <3> QED BY <2>1, <2>2, <2>4, <3>1, <1>t, <1>u, RemovalSteps DEF Disable, Becomes, Instances
  <2>5. CASE job.at = 3
    <3>1. job.alone => ~Mine.running
      BY <2>1, <2>5 DEF JobOK, Removing, Mine
    <3>2. inst' = inst /\ archives'[job.user] = archives[job.user] \cup ({Mine.home} \ {None})
      BY <2>1, <2>2, <2>5, <1>t, RemovalSteps DEF Archive
    <3>3. Mine.home # None => Mine.home \in Homes
      BY <2>2, <1>u DEF Instances
    <3>4. Mine.home # None => Kept(archives'[job.user], Mine.home, job.alone)
      BY <3>2, <3>3 DEF Kept, Older, Homes
    <3> QED BY <3>1, <3>2, <3>4 DEF Mine
  <2> QED BY <1>0, <2>2, <2>3, <2>4, <2>5
<1>7. Fresh(job)'
  <2>1. Fresh(job)
    BY DEF JobOK
  <2>2. job.op = "app" => ~RunsOld
    BY <2>1, FreshSteps DEF Fresh, RunsOld, Rewrites
  <2>3. job.op = "save" /\ job.at + 1 > 2 => ~RunsOld
    BY <1>0, <2>1, FreshSteps DEF Fresh, RunsOld, Rewrites
  <2>4. ASSUME job.op \in {"update", "restore"}, job.calm, job.alone
        PROVE  ~RunsOld /\ ~inst'[job.user].running
    <3>1. job.user \in Users /\ Mine \in Instances
      BY <2>4, FreshSteps, <1>u
    <3>2. CASE job.at = 1
      <4>1. Stop /\ job.plan[job.at] = "stop"
        BY <2>4, <3>2, FreshSteps
      <4> QED BY <3>1, <4>1, <1>t, Became DEF Stop, RunsOld, Instances
    <3>3. CASE job.at > 1
      <4>1. ~job.old /\ ~Mine.running
        BY <2>1, <2>4, <3>3 DEF Fresh, Mine
      <4>2. Archive \/ Quiet \/ Clean \/ Extract
        BY <1>0, <2>4, <3>3, FreshSteps
      <4>3. ~inst'[job.user].running
        <5>1. CASE Archive \/ Quiet
          BY <4>1, <5>1 DEF Archive, Quiet, system, Mine
        <5>2. CASE Clean
          BY <3>1, <4>1, <5>2, <1>t, Became DEF Clean, Instances
        <5>3. CASE Extract
          BY <3>1, <4>1, <5>3, <1>t, Became DEF Extract, Instances
        <5> QED BY <4>2, <5>1, <5>2, <5>3
      <4> QED BY <4>1, <4>3 DEF RunsOld
    <3> QED BY <1>0, <3>2, <3>3
  <2> QED BY <1>2, <2>2, <2>3, <2>4 DEF Fresh
<1>6. Switching(job)'
  <2>1. SUFFICES ASSUME job.op = "node" PROVE Switching(job)'
    BY <1>2 DEF Switching
  <2>2. /\ job.goal >= job.had /\ job.goal > 0
        /\ job.calm /\ job.plan[job.at] \in {"update", "install", "upgrade"} => repo = job.goal
        /\ job.plan = <<"update", "upgrade">> => node = job.had /\ job.had > 0
    BY <2>1 DEF JobOK, Switching
  <2>3. CASE job.plan[job.at] = "purge"
    BY <2>1, <2>2, <2>3, <1>2, SwitchSteps DEF Switching
  <2>4. CASE job.plan[job.at] = "repo"
    BY <2>1, <2>2, <2>4, <1>2, SwitchSteps DEF Switching, SetRepo
  <2>5. CASE job.plan[job.at] \in {"update", "upgrade"}
    BY <2>1, <2>2, <2>5, <1>2, SwitchSteps DEF Switching, Quiet, system
  <2>6. CASE job.plan[job.at] = "install"
    <3>1. repo' = repo /\ (job.plan = <<"update", "upgrade">> => FALSE)
      BY <2>1, <2>6, <1>0, SwitchSteps DEF InstallNode
    <3> QED BY <2>1, <2>2, <2>6, <3>1, <1>2 DEF Switching
  <2> QED BY <2>1, <2>3, <2>4, <2>5, <2>6, SwitchSteps
<1> QED BY <1>2, <1>3, <1>4, <1>5, <1>6, <1>7 DEF JobOK

LEMMA StepKeeps == ASSUME Inv, Step PROVE Inv'
<1> USE DEF Inv
<1>1. Works /\ Continue /\ UNCHANGED <<sudoers, acts, faults>>
  BY DEF Step
<1>2. /\ inst' \in [Users -> Instances] /\ archives' \in [Users -> SUBSET Homes]
      /\ template' \in BOOLEAN /\ node' \in Majors /\ repo' \in Majors
  BY <1>1, Typed
<1>3. CASE job.at = Len(job.plan)
  <2>1. End
    BY <1>1, <1>3 DEF Continue
  <2>2. JobOK(job)' /\ job' \in Jobs /\ job' = Idle /\ job'.op = "idle"
    BY <2>1, <1>2, AfterEnd DEF End, Idle
  <2>3. Listed(inst') \subseteq Ports
    BY <1>2, PortsTyped DEF Listed
  <2>4. menu' \in Users \cup {None} /\ cache' \in Ports \cup {None} /\ changed' \in BOOLEAN
    BY <2>1 DEF End, TypeOK
  <2>5. ports' \subseteq Ports /\ (menu' = None => ports' = PortsOf(inst'))
    BY <2>1, <2>3 DEF End, TypeOK, Listed
  <2>6. TypeOK'
    BY <1>1, <1>2, <2>2, <2>4, <2>5 DEF TypeOK
  <2> QED BY <2>2, <2>5, <2>6 DEF PortsKnown
<1>4. CASE job.at # Len(job.plan)
  <2>1. job' = [job EXCEPT !.at = @ + 1, !.old = RunsOld] /\ UNCHANGED screen
    BY <1>1, <1>4 DEF Continue
  <2>2. JobOK(job)' /\ job' \in Jobs
    BY <1>1, <1>4, AfterStep
  <2>3. TypeOK'
    BY <1>1, <1>2, <2>1, <2>2 DEF TypeOK, screen
  <2>4. job'.op = job.op /\ job'.op # "idle"
    BY <1>1, <2>1, OneStep DEF JobOK, Subject, TypeOK, Jobs
  <2>5. job' # Idle
    BY <2>4 DEF Idle
  <2> QED BY <2>1, <2>2, <2>3, <2>4, <2>5 DEF PortsKnown, screen
<1> QED BY <1>3, <1>4

(* A failing step.                                                         *)
LEMMA FailsKeeps == ASSUME Inv, Fails PROVE Inv'
<1> USE DEF Inv
<1>1. /\ job # Idle /\ faults < MaxFaults /\ faults' = faults + 1 /\ UNCHANGED <<sudoers, acts>>
  BY DEF Fails, Fault
<1>2. faults' \in 0..MaxFaults
  BY <1>1, BoundsAreNat DEF TypeOK
<1>3. /\ job \in Jobs /\ job.op \in Ops \ {"idle"} /\ job.at \in 1..5 /\ job.at <= Len(job.plan)
      /\ Len(job.plan) \in 1..5 /\ job.at \in 1..Len(job.plan)
  <2>1. job \in Jobs /\ job.op \in Ops \ {"idle"} /\ job.at \in 1..5 /\ job.at <= Len(job.plan)
    BY <1>1 DEF JobOK, Subject, TypeOK, Jobs
  <2>2. Len(job.plan) \in 1..5
    BY <2>1, PlansExist DEF JobOK
  <2> QED BY <2>1, <2>2
<1>4. CASE Raises
  <2>1. job' = Idle /\ UNCHANGED <<system, screen>> /\ job.plan[job.at] = "write"
    BY <1>4 DEF Raises, At
  <2>2. JobOK(job)' /\ job' \in Jobs
    BY <2>1, AfterEnd DEF TypeOK, system
  <2>3. menu' # None
    BY <1>3, <2>1, WhoDoes DEF JobOK, PortsKnown, screen
  <2>4. TypeOK'
    BY <1>1, <1>2, <2>1, <2>2 DEF TypeOK, system, screen
  <2> QED BY <2>2, <2>3, <2>4 DEF PortsKnown
<1>5. CASE ~At("write")
  <2>1. inst' \in [Users -> Instances] /\ UNCHANGED <<archives, template, node, repo>>
    <3>1. CASE job.user = None /\ UNCHANGED system
      BY <3>1 DEF TypeOK, system
    <3>2. ASSUME NEW r \in Leaves(job.plan[job.at]), job.user # None, Becomes(r)
          PROVE  inst' \in [Users -> Instances] /\ UNCHANGED <<archives, template, node, repo>>
      <4>1. job.user \in Users /\ Mine \in Instances
        BY <1>3, <3>2 DEF Jobs, TypeOK, Mine
      <4>2. CASE job.plan[job.at] = "delete"
        <5>1. r = [Mine EXCEPT !.home = None]
          BY <3>2, <4>2 DEF Leaves
        <5> QED BY <3>2, <4>1, <5>1, BecomesTyped DEF Instances, Becomes, TypeOK
      <4>3. CASE job.plan[job.at] = "extract"
        <5>1. job.from \in Homes
          BY <1>3, <4>3, WhoDoes DEF JobOK, Subject
        <5>2. PICK h : h \in {Bare, [Bare EXCEPT !.flows = job.from.flows], [job.from EXCEPT !.conf = None]}
                       /\ r = [Mine EXCEPT !.home = h]
          BY <3>2, <4>3 DEF Leaves
        <5>3. h \in Homes
          BY <5>1, <5>2, BareIsHome DEF Homes
        <5>4. r \in Instances
          BY <4>1, <5>2, <5>3 DEF Instances
        <5> QED BY <3>2, <5>4, BecomesTyped DEF Becomes, TypeOK
      <4>4. CASE job.plan[job.at] \notin {"delete", "extract"}
        <5>1. r = Mine
          BY <3>2, <4>4 DEF Leaves
        <5> QED BY <3>2, <4>1, <5>1, BecomesTyped DEF Becomes, TypeOK
      <4> QED BY <4>2, <4>3, <4>4
    <3> QED BY <1>5, <3>1, <3>2 DEF Fails, Raises
  <2>2. CASE job.plan[job.at] \in Ignored(job.op) /\ job.at < Len(job.plan)
    <3>1. job' = [job EXCEPT !.at = @ + 1, !.calm = FALSE] /\ UNCHANGED screen
      BY <1>5, <2>2 DEF Fails
    <3>2. job.at + 1 \in 1..5
      BY <1>3, <2>2, Next5
    <3>3. job' \in Jobs
      BY <1>3, <3>1, <3>2 DEF Jobs
    <3>4. /\ job'.op = job.op /\ job'.user = job.user /\ job'.plan = job.plan /\ job'.from = job.from
          /\ job'.ran = job.ran /\ job'.goal = job.goal /\ job'.had = job.had /\ job'.calm = FALSE
          /\ job'.old = job.old /\ job'.at = job.at + 1
      BY <1>3, <3>1 DEF Jobs
    <3>5. job' # Idle
      BY <1>3, <3>4 DEF Idle
    <3>6. job.op # "install"
      BY <2>2 DEF Ignored
    <3>7. Planned(job.op, job.plan)'
      BY <3>4 DEF JobOK, Planned
    <3>8. Subject(job)'
      <4>1. Subject(job) /\ job'.at <= Len(job'.plan) /\ job'.at > 0 /\ job'.op # "idle"
        BY <1>3, <2>2, <3>2, <3>4 DEF JobOK
      <4> QED BY <3>4, <3>5, <4>1 DEF Subject
    <3>9. Installing(job)' /\ Removing(job)' /\ Switching(job)'
      BY <2>1, <3>4, <3>6 DEF JobOK, Installing, Removing, Switching
    <3>11. Fresh(job)'
      <4>1. job.op # "save"
        BY <2>2 DEF Ignored
      <4> QED BY <3>4, <4>1 DEF JobOK, Fresh
    <3>10. TypeOK'
      BY <1>1, <1>2, <2>1, <3>1, <3>3 DEF TypeOK, screen
    <3> QED BY <3>1, <3>4, <3>5, <3>7, <3>8, <3>9, <3>10, <3>11 DEF JobOK, PortsKnown, screen
  <2>3. CASE ~(job.plan[job.at] \in Ignored(job.op) /\ job.at < Len(job.plan))
    <3>1. End
      BY <1>5, <2>3 DEF Fails
    <3>2. JobOK(job)' /\ job' \in Jobs /\ job' = Idle /\ job'.op = "idle"
      BY <2>1, <3>1, AfterEnd DEF End, Idle
    <3>3. Listed(inst') \subseteq Ports
      BY <2>1, PortsTyped DEF Listed
    <3>4. menu' \in Users \cup {None} /\ cache' \in Ports \cup {None} /\ changed' \in BOOLEAN
      BY <3>1 DEF End, TypeOK
    <3>5. ports' \subseteq Ports /\ (menu' = None => ports' = PortsOf(inst'))
      BY <3>1, <3>3 DEF End, TypeOK, Listed
    <3>6. TypeOK'
      BY <1>1, <1>2, <2>1, <3>2, <3>4, <3>5 DEF TypeOK
    <3> QED BY <3>2, <3>5, <3>6 DEF PortsKnown
  <2> QED BY <2>2, <2>3
<1>6. At("write") => Raises
  <2>1. At("write") => job.user # None
    BY <1>3, WhoDoes, NoneIsNothing DEF At, JobOK, Subject, Alone
  <2> QED BY <2>1 DEF Fails
<1> QED BY <1>4, <1>5, <1>6

LEMMA NothingToWriteKeeps == ASSUME Inv, NothingToWrite PROVE Inv'
<1> USE DEF Inv
<1>1. job' = Idle /\ UNCHANGED <<system, screen>> /\ job # Idle /\ job.plan[job.at] = "write"
      /\ UNCHANGED <<sudoers, acts, faults>>
  BY DEF NothingToWrite, Raises, At
<1>2. JobOK(job)' /\ job' \in Jobs
  BY <1>1, AfterEnd DEF TypeOK, system
<1>3. job.op \in Ops \ {"idle"} /\ job.at \in 1..Len(job.plan)
  BY <1>1 DEF JobOK, Subject, TypeOK, Jobs
<1>4. menu' # None
  BY <1>1, <1>3, WhoDoes DEF JobOK, PortsKnown, screen
<1>5. TypeOK'
  BY <1>1, <1>2 DEF TypeOK, system, screen
<1> QED BY <1>2, <1>4, <1>5 DEF PortsKnown

LEMMA KillKeeps == ASSUME Inv, Kill PROVE Inv'
<1> USE DEF Inv
<1>1. job' = Idle /\ UNCHANGED system /\ faults' \in 0..MaxFaults
  BY BoundsAreNat DEF Kill, Fault, TypeOK
<1>2. JobOK(job)' /\ job' \in Jobs /\ job'.op = "idle"
  BY <1>1, AfterEnd DEF TypeOK, system, Idle
<1>3. ports' = PortsOf(inst) /\ ports' \subseteq Ports
  BY PortsTyped DEF Kill, Listed, TypeOK
<1>4. TypeOK'
  BY <1>1, <1>2, <1>3 DEF TypeOK, system, Kill, Fault
<1> QED BY <1>1, <1>2, <1>3, <1>4 DEF PortsKnown, system

----------------------------------------------------------------------------
(* What happens beside the menu.                                           *)
LEMMA WorkKeeps == ASSUME Inv, NEW u \in Users, Work(u) PROVE Inv'
<1> USE DEF Inv
<1>1. /\ inst[u].running /\ inst[u].home # None /\ inst[u].home.flows < MaxWork
      /\ inst' = [inst EXCEPT ![u].home.flows = @ + 1]
      /\ UNCHANGED <<archives, template, node, repo, sudoers, screen, job, acts, faults>>
  BY DEF Work
<1>2. inst[u] \in Instances /\ inst[u].home \in Homes
  BY <1>1 DEF TypeOK, Instances
<1>3. inst[u].home.flows + 1 \in 0..MaxWork
  BY <1>1, <1>2, BoundsAreNat DEF Homes
<1>4. DEFINE h == [inst[u].home EXCEPT !.flows = @ + 1]
             r == [inst[u] EXCEPT !.home = h]
<1>5. h \in Homes /\ h.conf = inst[u].home.conf
  BY <1>2, <1>3 DEF Homes
<1>13. h.app = inst[u].home.app /\ h.flows = inst[u].home.flows + 1
  BY <1>2, <1>3 DEF Homes
<1>6. r \in Instances /\ r.home = h /\ h # None
  <2>1. r \in Instances /\ r.home = h
    BY <1>2, <1>5 DEF Instances
  <2> QED BY <1>5, <2>1, NoneIsNothing
<1>7. inst' = [inst EXCEPT ![u] = r]
  BY <1>1, <1>2 DEF TypeOK, Instances, Homes
<1> HIDE DEF h, r
<1>8. /\ inst' \in [Users -> Instances]
      /\ \A v \in Users : v # u => inst'[v] = inst[v]
      /\ inst'[u] = r
  BY <1>6, <1>7 DEF TypeOK
<1>9. PortsOf(inst') = PortsOf(inst)
  <2>1. inst[u].home # None
    BY <1>1
  <2>2. \A v \in Users : /\ HasConf(inst'[v]) <=> HasConf(inst[v])
                         /\ HasConf(inst[v]) => inst'[v].home.conf = inst[v].home.conf
    BY <1>5, <1>6, <1>8, <2>1 DEF HasConf
  <2>3. inst \in [Users -> Instances]
    BY DEF TypeOK
  <2> QED BY <1>8, <2>2, <2>3, PortsStay
<1>10. TypeOK'
  BY <1>1, <1>8 DEF TypeOK, screen
<1>11. Installing(job)'
  BY <1>1, <1>5, <1>6, <1>8 DEF JobOK, Installing, Subject, Alone
<1>12. Removing(job)'
  <2>1. SUFFICES ASSUME job.op \in {"remove", "ssh"}, job.calm, job.user = u
                 PROVE  Removing(job)'
    <3>1. job.op \in {"remove", "ssh"} /\ job.calm /\ job.user # u =>
            inst'[job.user] = inst[job.user]
      BY <1>8 DEF JobOK, Subject, Alone
    <3> QED BY <1>1, <2>1, <3>1 DEF JobOK, Removing
  <2>2. job.at > 1 => ~job.alone
    BY <1>1, <2>1 DEF JobOK, Removing
  <2>3. ASSUME job.at > 3 PROVE Kept(archives[u], h, job.alone)
    <3>1. job.at > 1
      BY <2>3 DEF TypeOK, Jobs
    <3>2. PICK k \in archives[u] : Older(k, inst[u].home)
      BY <1>1, <2>1, <2>3 DEF JobOK, Removing, Kept
    <3>3. k \in Homes
      BY DEF TypeOK
    <3>4. Older(k, h)
      BY <1>2, <1>5, <1>13, <3>2, <3>3 DEF Older, Homes
    <3> QED BY <2>2, <3>1, <3>4 DEF Kept
  <2> QED BY <1>1, <1>6, <1>8, <2>1, <2>2, <2>3 DEF Removing
<1>14. Fresh(job)'
  <2>1. SUFFICES ASSUME job.op \in {"update", "restore"}, job.calm, job.alone
                 PROVE  ~job.old /\ (job.at > 1 => ~inst'[job.user].running)
    BY <1>1 DEF JobOK, Fresh
  <2>2. job.user \in Users /\ ~job.old /\ (job.at > 1 => ~inst[job.user].running)
    BY <2>1 DEF JobOK, Fresh, Subject, Alone
  <2> QED BY <1>1, <1>8, <2>2
<1> QED
  BY <1>1, <1>9, <1>10, <1>11, <1>12, <1>14 DEF JobOK, PortsKnown, Planned, Subject, Switching, screen

LEMMA OwnerKeeps == ASSUME Inv, NEW u \in Users, OwnerRestarts(u) PROVE Inv'
<1> USE DEF Inv
<1>1. /\ inst' = [inst EXCEPT ![u].running = TRUE]
      /\ job' = IF job.user = u THEN [job EXCEPT !.alone = FALSE, !.old = FALSE] ELSE job
      /\ UNCHANGED <<archives, template, node, repo, sudoers, screen, acts, faults>>
  BY DEF OwnerRestarts
<1>2. /\ inst' \in [Users -> Instances]
      /\ \A v \in Users : v # u => inst'[v] = inst[v]
      /\ inst'[u].home = inst[u].home
  BY <1>1 DEF TypeOK, Instances
<1>3. PortsOf(inst') = PortsOf(inst)
  <2>1. \A v \in Users : /\ HasConf(inst'[v]) <=> HasConf(inst[v])
                         /\ HasConf(inst[v]) => inst'[v].home.conf = inst[v].home.conf
    BY <1>2 DEF HasConf
  <2>2. inst \in [Users -> Instances]
    BY DEF TypeOK
  <2> QED BY <1>2, <2>1, <2>2, PortsStay
<1>4. /\ job'.op = job.op /\ job'.user = job.user /\ job'.plan = job.plan /\ job'.from = job.from
      /\ job'.ran = job.ran /\ job'.goal = job.goal /\ job'.had = job.had /\ job'.at = job.at
      /\ job'.calm = job.calm
      /\ job.user = u => ~job'.alone /\ ~job'.old
      /\ job.user # u => job'.alone = job.alone /\ job'.old = job.old
      /\ job' \in Jobs
  BY <1>1 DEF TypeOK, Jobs
<1>5. TypeOK'
  BY <1>1, <1>2, <1>4 DEF TypeOK, screen
<1>6. job' = Idle <=> job = Idle
  <2>1. job = Idle => job.user # u
    BY NoneIsNothing DEF Idle
  <2>2. job' = Idle => job'.op = "idle"
    BY DEF Idle
  <2> QED BY <1>1, <1>4, <2>1, <2>2 DEF JobOK, Subject
<1>7. Planned(job.op, job.plan)'
  BY <1>4 DEF JobOK, Planned
<1>8. Subject(job)'
  BY <1>4, <1>6 DEF JobOK, Subject
<1>9. Installing(job)'
  BY <1>2, <1>4 DEF JobOK, Installing, Subject, Alone
<1>10. Removing(job)'
  <2>1. CASE job.user = u
    BY <1>1, <1>2, <1>4, <2>1 DEF JobOK, Removing, Kept
  <2>2. CASE job.user # u
    BY <1>1, <1>2, <1>4, <2>2 DEF JobOK, Removing, Subject, Alone
  <2> QED BY <2>1, <2>2
<1>12. Fresh(job)'
  <2>1. CASE job.user = u
    BY <1>4, <2>1 DEF Fresh
  <2>2. CASE job.user # u
    BY <1>1, <1>2, <1>4, <2>2 DEF JobOK, Fresh, Subject, Alone
  <2> QED BY <2>1, <2>2
<1>11. Switching(job)'
  BY <1>1, <1>4 DEF JobOK, Switching
<1> QED BY <1>1, <1>3, <1>4, <1>5, <1>6, <1>7, <1>8, <1>9, <1>10, <1>11, <1>12 DEF JobOK, PortsKnown, screen

----------------------------------------------------------------------------
(* The operator.                                                           *)
LEMMA IdleKeeps ==
  ASSUME Inv, job' = job, job = Idle, inst' = inst, archives' \in [Users -> SUBSET Homes],
         UNCHANGED <<template, node, repo>>, sudoers' \subseteq Users,
         menu' \in Users \cup {None}, cache' \in Ports \cup {None}, changed' \in BOOLEAN,
         ports' \subseteq Ports, acts' \in 0..MaxActs, UNCHANGED faults,
         menu' = None => ports' = PortsOf(inst)
  PROVE  Inv'
<1>1. JobOK(job)' /\ job' \in Jobs /\ job'.op = "idle"
  BY AfterEnd DEF Inv, TypeOK, Idle
<1>2. TypeOK'
  BY <1>1 DEF Inv, TypeOK
<1> QED BY <1>1, <1>2 DEF Inv, PortsKnown

LEMMA ChoicesKeep ==
  ASSUME Inv,
         \/ \E u \in Users : Open(u)
         \/ \E p \in Ports : ChangePort(p)
         \/ Leave
         \/ \E u \in Users : \E h \in Offered(u) : DeleteBackup(u, h)
         \/ UpdateSudoers
  PROVE  Inv'
<1>1. /\ job = Idle /\ job' = job /\ inst' = inst /\ UNCHANGED <<template, node, repo>>
      /\ acts' = acts \/ (acts' = acts + 1 /\ acts < MaxActs)
      /\ UNCHANGED faults /\ sudoers' \subseteq Users
  BY DEF Inv, TypeOK, Open, ChangePort, Leave, DeleteBackup, UpdateSudoers, Act, Look, system
<1>2. acts' \in 0..MaxActs
  BY <1>1, BoundsAreNat DEF Inv, TypeOK
<1>3. PortsOf(inst) \subseteq Ports
  BY PortsTyped DEF Inv, TypeOK
<1>4. ASSUME NEW u \in Users, Open(u) PROVE Inv'
  <2>1. inst[u].home.conf \in Ports
    BY <1>4 DEF Open, HasConf, Inv, TypeOK, Instances, Homes
  <2>2. menu' = u /\ cache' \in Ports /\ changed' = FALSE /\ ports' = ports /\ archives' = archives
    BY <1>4, <2>1 DEF Open, system
  <2> QED BY <1>1, <1>2, <2>2, NoneIsNothing, IdleKeeps DEF Inv, TypeOK
<1>5. ASSUME NEW p \in Ports, ChangePort(p) PROVE Inv'
  <2>1. menu' # None /\ menu' = menu /\ cache' = p /\ changed' = TRUE /\ ports' = ports /\ archives' = archives
    BY <1>5 DEF ChangePort, system
  <2> QED BY <1>1, <1>2, <2>1, IdleKeeps DEF Inv, TypeOK
<1>6. CASE Leave
  <2>1. menu' = None /\ cache' = None /\ changed' = FALSE /\ ports' = PortsOf(inst) /\ archives' = archives
    BY <1>6 DEF Leave, Listed, system
  <2> QED BY <1>1, <1>2, <1>3, <2>1, IdleKeeps DEF Inv, TypeOK
<1>7. ASSUME NEW u \in Users, NEW h \in Offered(u), DeleteBackup(u, h) PROVE Inv'
  <2>1. menu' # None /\ UNCHANGED screen /\ archives' = [archives EXCEPT ![u] = @ \ {h}]
    BY <1>7, NoneIsNothing DEF DeleteBackup, screen
  <2>2. archives' \in [Users -> SUBSET Homes]
    BY <2>1 DEF Inv, TypeOK
  <2> QED BY <1>1, <1>2, <2>1, <2>2, IdleKeeps DEF Inv, TypeOK, screen
<1>8. CASE UpdateSudoers
  <2>1. menu = None /\ UNCHANGED screen /\ archives' = archives
    BY <1>8 DEF UpdateSudoers, system
  <2>2. ports = PortsOf(inst)
    BY <1>1, <2>1 DEF Inv, PortsKnown
  <2> QED BY <1>1, <1>2, <2>1, <2>2, IdleKeeps DEF Inv, TypeOK, screen
<1> QED BY <1>4, <1>5, <1>6, <1>7, <1>8

(* A job as it is begun.                                                   *)
LEMMA Prepared ==
  ASSUME TypeOK, NEW op \in Ops, NEW u \in Users \cup {None}, NEW plan, plan \in Seq(Steps)
  PROVE  LET j == Job(op, u, plan)
         IN  /\ j \in Jobs
             /\ j.op = op /\ j.user = u /\ j.plan = plan /\ j.at = 1 /\ j.had = node /\ ~j.old
             /\ j.ran = (u # None /\ inst[u].running)
<1>1. (u # None /\ inst[u].running) \in BOOLEAN
  OBVIOUS
<1>2. Idle \in Jobs /\ Idle.at = 1 /\ ~Idle.old
  BY IdleIsJob DEF Idle
<1>3. node \in Majors
  BY DEF TypeOK
<1> QED BY <1>1, <1>2, <1>3 DEF Job, Jobs

LEMMA FirstStep == \A a, n : a = 1 /\ n \in 1..5 => a <= n /\ a > 0
  OBVIOUS

LEMMA BeginKeeps ==
  ASSUME Inv, NEW j, Begin(j), j \in Jobs, j.op # "idle", j.at = 1, ~j.old, Planned(j.op, j.plan),
         j.op \notin Alone => j.user \in Users,
         j.op \in Alone => j.user = None,
         j.op = "restore" => j.from \in Homes,
         j.op = "app" /\ j.plan = <<"run">> => ~j.ran,
         j.op = "save" => menu # None,
         j.op = "node" =>
           /\ j.goal >= j.had /\ j.goal > 0 /\ j.had = node
           /\ j.plan[1] \in {"update", "install", "upgrade"} => repo = j.goal
           /\ j.plan = <<"update", "upgrade">> => j.had > 0
  PROVE  Inv'
<1>1. job' = j /\ UNCHANGED <<system, screen, sudoers, faults>> /\ acts < MaxActs /\ acts' = acts + 1
  BY DEF Begin, Act
<1>2. acts' \in 0..MaxActs
  BY <1>1, BoundsAreNat DEF Inv, TypeOK
<1>3. TypeOK'
  BY <1>1, <1>2 DEF Inv, TypeOK, system, screen
<1>4. j # Idle
  BY DEF Idle
<1>5. Len(j.plan) \in 1..5
  BY PlansExist DEF Jobs
<1>6. Planned(j.op, j.plan)'
  BY DEF Planned
<1>7. Subject(job)'
  <2>1. j.at <= Len(j.plan) /\ j.at > 0
    BY <1>5, FirstStep, Zenon
  <2>2. Subject(j)
    BY <1>4, <2>1 DEF Subject
  <2> QED BY <1>1, <2>2 DEF Subject
<1>8. Installing(job)' /\ Removing(job)' /\ Fresh(job)'
  BY <1>1 DEF Installing, Removing, Fresh
<1>9. Switching(job)'
  BY <1>1 DEF Switching, system
<1> QED BY <1>1, <1>3, <1>4, <1>6, <1>7, <1>8, <1>9 DEF Inv, JobOK, PortsKnown, screen

LEMMA InstanceJobsKeep ==
  ASSUME Inv, NEW u \in Users,
         \/ \E p \in Ports : Install(u, p)
         \/ Remove(u) \/ RemoveAccount(u) \/ Update(u) \/ Backup(u) \/ Save(u)
         \/ RunAsApp(u) \/ Service(u)
         \/ \E h \in Offered(u) : Restore(u, h)
  PROVE  Inv'
<1> USE DEF Inv
<1>0. u # None
  BY NoneIsNothing
<1>1. ASSUME NEW op \in Ops \ (Alone \cup {"idle"}), NEW plan, Planned(op, plan)
      PROVE  LET j == Job(op, u, plan)
             IN  /\ j \in Jobs /\ plan \in Seq(Steps)
                 /\ j.op = op /\ j.user = u /\ j.plan = plan /\ j.at = 1 /\ ~j.old
                 /\ j.ran = inst[u].running
  <2>1. plan \in Seq(Steps)
    BY <1>1, PlansExist
  <2>2. inst[u].running \in BOOLEAN
    BY DEF TypeOK, Instances
  <2> QED BY <1>0, <1>1, <2>1, <2>2, Prepared
<1>2. ASSUME NEW op \in Ops \ (Alone \cup {"idle", "restore"}), NEW plan, Planned(op, plan),
             op = "app" /\ plan = <<"run">> => ~inst[u].running, op = "save" => menu # None,
             Begin(Job(op, u, plan))
      PROVE  Inv'
  <2> DEFINE j == Job(op, u, plan)
  <2>1. j \in Jobs /\ j.op = op /\ j.user = u /\ j.plan = plan /\ j.at = 1 /\ ~j.old /\ j.ran = inst[u].running
    BY <1>1, <1>2
  <2> HIDE DEF j
  <2>2. Begin(j)
    BY <1>2 DEF j
  <2> QED BY <1>2, <2>1, <2>2, BeginKeeps DEF Alone
<1>3. ASSUME NEW p \in Ports, Install(u, p) PROVE Inv'
  <2> DEFINE plan == <<"account", "app", "conf", "enable", "start">>
             i == Job("install", u, plan)
             j == [i EXCEPT !.port = p]
  <2>1. Planned("install", plan)
    BY DEF Planned
  <2>2. Begin(j)
    BY <1>3 DEF Install
  <2> HIDE DEF plan
  <2>3. i \in Jobs /\ i.op = "install" /\ i.user = u /\ i.plan = plan /\ i.at = 1 /\ ~i.old
    BY <1>1, <2>1 DEF Ops, Alone
  <2> HIDE DEF i
  <2>4. j \in Jobs /\ j.op = "install" /\ j.user = u /\ j.plan = plan /\ j.at = 1 /\ ~j.old
    BY <2>3 DEF Jobs
  <2> HIDE DEF j
  <2> QED BY <2>1, <2>2, <2>4, BeginKeeps DEF Alone
<1>4. CASE Remove(u)
  <2>1. Planned("remove", Removal) /\ "remove" \in Ops \ (Alone \cup {"idle", "restore"})
    BY DEF Planned, Ops, Alone
  <2> QED BY <1>2, <1>4, <2>1 DEF Remove
<1>5. CASE RemoveAccount(u)
  <2>1. Planned("ssh", Removal) /\ "ssh" \in Ops \ (Alone \cup {"idle", "restore"})
    BY DEF Planned, Ops, Alone
  <2> QED BY <1>2, <1>5, <2>1 DEF RemoveAccount
<1>6. CASE Update(u)
  <2>1. Planned("update", <<"stop", "backup", "npm", "start">>) /\ "update" \in Ops \ (Alone \cup {"idle", "restore"})
    BY DEF Planned, Ops, Alone
  <2> QED BY <1>2, <1>6, <2>1 DEF Update
<1>7. CASE Backup(u)
  <2>1. Planned("backup", <<"backup">>) /\ "backup" \in Ops \ (Alone \cup {"idle", "restore"})
    BY DEF Planned, Ops, Alone
  <2> QED BY <1>2, <1>7, <2>1 DEF Backup
<1>8. CASE Save(u)
  <2>1. Planned("save", <<"write", "stop", "start">>) /\ "save" \in Ops \ (Alone \cup {"idle", "restore"})
    BY DEF Planned, Ops, Alone
  <2> QED BY <1>0, <1>2, <1>8, <2>1 DEF Save
<1>9. CASE RunAsApp(u)
  <2>1. CASE inst[u].running
    <3>1. Planned("app", <<"stop", "run", "start">>) /\ "app" \in Ops \ (Alone \cup {"idle", "restore"})
      BY DEF Planned, Ops, Alone
    <3> QED BY <1>2, <1>9, <2>1, <3>1 DEF RunAsApp
  <2>2. CASE ~inst[u].running
    <3>1. Planned("app", <<"run">>) /\ "app" \in Ops \ (Alone \cup {"idle", "restore"})
      BY DEF Planned, Ops, Alone
    <3> QED BY <1>2, <1>9, <2>2, <3>1 DEF RunAsApp
  <2> QED BY <2>1, <2>2
<1>10. CASE Service(u)
  <2>1. PICK plan \in {<<"stop">>, <<"stop", "start">>, <<"start">>, <<"enable">>, <<"disable">>} :
              Begin(Job("service", u, plan))
    BY <1>10 DEF Service
  <2>2. Planned("service", plan) /\ "service" \in Ops \ (Alone \cup {"idle", "restore"})
    BY <2>1 DEF Planned, Ops, Alone
  <2> QED BY <1>2, <2>1, <2>2
<1>11. ASSUME NEW h \in Offered(u), Restore(u, h) PROVE Inv'
  <2> DEFINE plan == <<"stop", "clean", "extract", "chown", "start">>
             i == Job("restore", u, plan)
             j == [i EXCEPT !.from = h]
  <2>1. Planned("restore", plan)
    BY DEF Planned
  <2>2. Begin(j)
    BY <1>11 DEF Restore
  <2>3. h \in Homes
    BY DEF TypeOK, Offered
  <2> HIDE DEF plan
  <2>4. i \in Jobs /\ i.op = "restore" /\ i.user = u /\ i.plan = plan /\ i.at = 1 /\ ~i.old
    BY <1>1, <2>1 DEF Ops, Alone
  <2> HIDE DEF i
  <2>5. j \in Jobs /\ j.op = "restore" /\ j.user = u /\ j.plan = plan /\ j.at = 1 /\ ~j.old /\ j.from = h
    BY <2>3, <2>4 DEF Jobs
  <2> HIDE DEF j
  <2> QED BY <2>1, <2>2, <2>3, <2>5, BeginKeeps DEF Alone
<1> QED BY <1>3, <1>4, <1>5, <1>6, <1>7, <1>8, <1>9, <1>10, <1>11

LEMMA SwitchKeeps ==
  ASSUME Inv, NEW target \in Majors, target >= node, target > 0, Switch(target)
  PROVE  Inv'
<1> USE DEF Inv
<1> DEFINE plan == Commands(target, node)
           i == Job("node", None, plan)
           j == [i EXCEPT !.goal = target]
<1>1. Planned("node", plan)
  BY DEF Planned, Commands
<1>2. /\ plan[1] \in {"update", "install", "upgrade"} => repo = target
      /\ plan = <<"update", "upgrade">> => node > 0
  BY DEF Commands
<1>3. Begin(j)
  BY DEF Switch
<1> HIDE DEF plan
<1>4. plan \in Seq(Steps) /\ "node" \in Ops
  BY <1>1, PlansExist DEF Ops
<1>5. i \in Jobs /\ i.op = "node" /\ i.user = None /\ i.plan = plan /\ i.at = 1 /\ ~i.old /\ i.had = node
  BY <1>4, Prepared
<1> HIDE DEF i
<1>6. /\ j \in Jobs /\ j.op = "node" /\ j.user = None /\ j.plan = plan /\ j.at = 1 /\ ~j.old /\ j.had = node
      /\ j.goal = target
  BY <1>5 DEF Jobs
<1> HIDE DEF j
<1> QED BY <1>1, <1>2, <1>3, <1>6, BeginKeeps DEF Alone

LEMMA HostJobsKeep == ASSUME Inv, Template \/ NodeJs PROVE Inv'
<1> USE DEF Inv
<1>1. ASSUME NEW op \in {"template", "uninstall"}, NEW plan, Planned(op, plan), Begin(Job(op, None, plan))
      PROVE  Inv'
  <2> DEFINE j == Job(op, None, plan)
  <2>1. plan \in Seq(Steps) /\ op \in Ops
    BY <1>1, PlansExist DEF Ops
  <2>2. j \in Jobs /\ j.op = op /\ j.user = None /\ j.plan = plan /\ j.at = 1 /\ ~j.old
    BY <2>1, Prepared
  <2> HIDE DEF j
  <2>3. Begin(j)
    BY <1>1 DEF j
  <2> QED BY <1>1, <2>2, <2>3, BeginKeeps DEF Alone
<1>2. CASE Template
  <2>1. PICK plan \in {<<"unmake", "make">>, <<"unmake">>, <<"make">>} : Begin(Job("template", None, plan))
    BY <1>2 DEF Template, MakeTemplate, RemoveTemplate, UpdateTemplate
  <2>2. Planned("template", plan)
    BY <2>1 DEF Planned
  <2> QED BY <1>1, <2>1, <2>2
<1>3. CASE NodeJs
  <2>1. node \in Nat /\ LTS \in Nat /\ LTS > 0 /\ node <= LTS + 1
    BY MajorsAreNat DEF TypeOK, Majors
  <2>2. CASE \E target \in Majors : target >= node /\ target > 0 /\ Switch(target)
    BY <2>2, SwitchKeeps
  <2>3. CASE Begin(Job("uninstall", None, <<"purge">>))
    <3>1. Planned("uninstall", <<"purge">>)
      BY DEF Planned
    <3> QED BY <1>1, <2>3, <3>1
  <2>4. /\ node = 0 => LTS \in Majors /\ LTS >= node
        /\ node + 2 <= LTS => node + 1 \in Majors /\ node + 1 >= node /\ node + 1 > 0
        /\ node < LTS => LTS \in Majors /\ LTS >= node
        /\ node >= LTS => node \in Majors /\ node >= node /\ node > 0
    BY <2>1 DEF Majors
  <2> QED BY <1>3, <2>1, <2>2, <2>3, <2>4 DEF NodeJs, InstallLatest, UpdateNodeJs, UpdateMinor, DeleteNodeJs, Target
<1> QED BY <1>2, <1>3

----------------------------------------------------------------------------
LEMMA InitInv == ASSUME Init PROVE Inv
<1>1. inst \in [Users -> Instances]
  <2>1. PICK used \in SUBSET Users, port \in [Users -> Ports], up \in SUBSET Users :
          inst = [u \in Users |->
                    [account |-> u \in used,
                     home |-> IF u \in used THEN [conf |-> port[u], app |-> TRUE, flows |-> 0]
                                            ELSE None,
                     running |-> u \in used \cap up,
                     enabled |-> u \in used]]
    BY DEF Init
  <2>2. 0 \in 0..MaxWork
    BY BoundsAreNat
  <2>3. \A u \in Users : [conf |-> port[u], app |-> TRUE, flows |-> 0] \in Homes
    BY <2>2 DEF Homes
  <2> QED BY <2>1, <2>3 DEF Instances
<1>2. archives \in [Users -> SUBSET Homes]
  <2>1. PICK was \in Ports :
          archives = [u \in Users |-> IF inst[u].home = None THEN {} ELSE
                        {inst[u].home, [inst[u].home EXCEPT !.conf = was]}]
    BY DEF Init
  <2>2. ASSUME NEW u \in Users, inst[u].home # None
        PROVE  inst[u].home \in Homes /\ [inst[u].home EXCEPT !.conf = was] \in Homes
    <3>1. inst[u].home \in Homes
      BY <1>1, <2>2 DEF Instances
    <3> QED BY <3>1 DEF Homes
  <2> QED BY <2>1, <2>2
<1>3. ports = PortsOf(inst) /\ PortsOf(inst) \subseteq Ports
  BY <1>1, PortsTyped DEF Init
<1>4. node \in Majors /\ repo \in Majors /\ job \in Jobs /\ 0 \in 0..MaxActs /\ 0 \in 0..MaxFaults
  BY MajorsAreNat, BoundsAreNat, IdleIsJob DEF Init, Majors
<1>5. TypeOK
  BY <1>1, <1>2, <1>3, <1>4 DEF Init, TypeOK
<1>6. job.op = "idle" /\ job = Idle
  BY DEF Init, Idle
<1>7. JobOK(job)
  BY <1>6 DEF JobOK, Planned, Subject, Installing, Removing, Fresh, Switching, Alone
<1> QED BY <1>3, <1>5, <1>6, <1>7 DEF Inv, PortsKnown

LEMMA StutterKeeps == ASSUME Inv, UNCHANGED vars PROVE Inv'
  BY DEF Inv, vars, system, screen, TypeOK, JobOK, Planned, Subject, Installing, Removing, Fresh,
         Switching, PortsKnown, PortsOf

LEMMA NextKeeps == ASSUME Inv, [Next]_vars PROVE Inv'
<1>1. CASE Operator
  BY <1>1, InstanceJobsKeep, HostJobsKeep, ChoicesKeep DEF Operator
<1> QED
  BY <1>1, StepKeeps, FailsKeeps, NothingToWriteKeeps, KillKeeps, WorkKeeps, OwnerKeeps, StutterKeeps
     DEF Next

THEOREM Invariance == Spec => []Inv
  BY InitInv, NextKeeps, PTL DEF Spec

(* Every variable stays in its set.                                        *)
THEOREM Typing == Spec => []TypeOK
<1>1. Inv => TypeOK
  BY DEF Inv
<1> QED BY Invariance, <1>1, PTL

----------------------------------------------------------------------------
(* Without a fault, a job ends with its last step, or with nothing to      *)
(* write; the operator begins one, and touches no instance.                *)
LEMMA Ends ==
  ASSUME Inv, [Next]_vars, faults' = faults, job # Idle, job' = Idle
  PROVE  /\ job.at \in 1..Len(job.plan) /\ job.op \in Ops \ {"idle"} /\ job \in Jobs
         /\ \/ Works /\ job.at = Len(job.plan)
            \/ job.op = "save" /\ ~HasConf(Mine) /\ inst' = inst
<1>1. /\ job.at \in 1..Len(job.plan) /\ job.op \in Ops \ {"idle"} /\ job \in Jobs
      /\ faults \in Nat /\ job'.op = "idle"
  BY DEF Inv, TypeOK, JobOK, Subject, Jobs, Idle
<1>2. CASE Step
  <2>1. job.at # Len(job.plan) => job'.op = job.op
    BY <1>1, <1>2 DEF Step, Continue, Jobs
  <2> QED BY <1>1, <1>2, <2>1 DEF Step
<1>3. CASE NothingToWrite
  <2>1. job.op = "save"
    BY <1>1, <1>3, WhoDoes DEF NothingToWrite, Raises, At, Inv, JobOK
  <2> QED BY <1>1, <1>3, <2>1 DEF NothingToWrite, Raises, system
<1>4. CASE Fails \/ Kill
  BY <1>1, <1>4 DEF Fails, Kill, Fault
<1>5. CASE \E u \in Users : Work(u) \/ OwnerRestarts(u)
  <2>1. job'.op = job.op
    BY <1>1, <1>5 DEF Work, OwnerRestarts, Jobs
  <2> QED BY <1>1, <2>1
<1>6. CASE Operator
  BY <1>6 DEF Operator, Offered, Install, Remove, RemoveAccount, Update, Backup, Save, RunAsApp, Service, Open,
              Restore, DeleteBackup, ChangePort, Leave, Template, MakeTemplate, RemoveTemplate, UpdateTemplate, NodeJs, InstallLatest,
                UpdateNodeJs, UpdateMinor, DeleteNodeJs, Switch, UpdateSudoers, Begin, Act, Look
<1>7. CASE UNCHANGED vars
  BY <1>7 DEF vars
<1> QED BY <1>2, <1>3, <1>4, <1>5, <1>6, <1>7 DEF Next

(* Switching Node.js never ends with none, and with an older major only    *)
(* where a command failed unseen (_applyNodeSourceNodeMajor).              *)
THEOREM NoNodeIsLost == Spec => NodeIsNotLost
<1>1. ASSUME Inv, [Next]_vars, job.op = "node", faults' = faults, job' = Idle
      PROVE  node' > 0 /\ (job.calm => node' >= job.had)
  <2>1. job # Idle
    BY <1>1 DEF Idle
  <2>2. Works /\ job.at = Len(job.plan) /\ job.at \in 1..Len(job.plan)
    BY <1>1, <2>1, Ends
  <2>3. job.plan[job.at] \in {"install", "upgrade"}
    BY <1>1, <2>1, <2>2, Ends, WhoDoes DEF Inv, JobOK
  <2>4. /\ job.goal >= job.had /\ job.goal > 0 /\ (job.calm => repo = job.goal)
        /\ job.plan = <<"update", "upgrade">> => node = job.had /\ job.had > 0
        /\ job.goal \in Nat /\ job.had \in Nat /\ node \in Nat /\ repo \in Nat
    BY <1>1, <2>3, MajorsAreNat DEF Inv, JobOK, Switching, TypeOK, Jobs, Majors
  <2>5. CASE job.plan[job.at] = "install"
    <3> DEFINE offered == IF repo = 0 THEN Distro ELSE repo
    <3>1. InstallNode
      BY <1>1, <2>2, <2>5, SwitchSteps
    <3>2. node' = IF offered > node THEN offered ELSE node
      BY <3>1 DEF InstallNode
    <3>3. offered \in Nat /\ offered > 0 /\ (job.calm => offered >= job.had)
      BY <2>4, MajorsAreNat
    <3> HIDE DEF offered
    <3> QED BY <2>4, <3>2, <3>3
  <2>6. CASE job.plan[job.at] = "upgrade"
    <3>1. Quiet /\ node = job.had /\ job.had > 0
      BY <1>1, <2>2, <2>4, <2>6, SwitchSteps
    <3> QED BY <2>4, <3>1 DEF Quiet, system
  <2> QED BY <2>3, <2>5, <2>6
<1>2. Inv /\ [Next]_vars =>
        [job.op = "node" /\ faults' = faults /\ job' = Idle
           => node' > 0 /\ (job.calm => node' >= job.had)]_vars
  BY <1>1
<1> QED BY <1>2, Invariance, PTL DEF Spec, NodeIsNotLost

(* What ran when an update, a restore, a save or a run in the foreground   *)
(* began runs when it ends without a failing command, whatever its owner   *)
(* restarted, and except where he restarted it during an update or a       *)
(* restore it runs what the job left.                                      *)
THEOREM WhatRanRunsAgain == Spec => ServiceComesBack
<1>1. ASSUME Inv, [Next]_vars, job.op \in {"update", "restore", "save", "app"}, job.ran, job.calm,
             faults' = faults, job' = Idle, CanStart(inst'[job.user])
      PROVE  /\ inst'[job.user].running
             /\ RunsOld => job.op \in {"update", "restore"} /\ ~job.alone
  <2>1. job # Idle
    BY <1>1 DEF Idle
  <2>2. job.user \in Users
    BY <1>1 DEF Inv, JobOK, Subject, Alone
  <2>3. Works /\ job.at = Len(job.plan) /\ job.at \in 1..Len(job.plan)
    BY <1>1, <2>1, Ends DEF CanStart, Mine
  <2>4. job.plan[job.at] = "start" /\ (job.op = "save" => job.at > 2)
    <3>1. job.op = "app" => job.plan # <<"run">>
      BY <1>1 DEF Inv, JobOK, Subject
    <3>2. Planned(job.op, job.plan) /\ job.op \in Ops \ {"idle"}
      BY <1>1, <2>1, Ends DEF Inv, JobOK
    <3>3. job.op = "save" => Len(job.plan) = 3
      BY <3>2 DEF Planned
    <3> QED BY <1>1, <2>3, <3>1, <3>2, <3>3, WhoDoes
  <2>5. Start
    BY <2>3, <2>4, OneStep
  <2>6. Mine \in Instances /\ inst'[job.user] = [Mine EXCEPT !.running = @ \/ Starts(Mine)]
    BY <1>1, <2>2, <2>5 DEF Start, Becomes, Inv, TypeOK, Mine
  <2>7. inst'[job.user].home = Mine.home /\ inst'[job.user].account = Mine.account
        /\ inst'[job.user].running = (Mine.running \/ Starts(Mine))
    <3> DEFINE up == Mine.running \/ Starts(Mine)
    <3>1. inst'[job.user] = [Mine EXCEPT !.running = up]
      BY <2>6
    <3> HIDE DEF up
    <3>2. inst'[job.user].home = Mine.home /\ inst'[job.user].account = Mine.account
          /\ inst'[job.user].running = up
      BY <2>6, <3>1 DEF Instances
    <3> QED BY <3>2 DEF up
  <2>8. RunsOld => job.op \in {"update", "restore"} /\ ~job.alone
    <3>1. RunsOld => job.old
      BY <2>4 DEF RunsOld, Rewrites
    <3> QED BY <1>1, <2>4, <3>1 DEF Inv, JobOK, Fresh
  <2> QED BY <1>1, <2>7, <2>8 DEF Starts, CanStart, HasConf
<1>2. Inv /\ [Next]_vars =>
        [job.op \in {"update", "restore", "save", "app"} /\ job.ran /\ job.calm
         /\ faults' = faults /\ job' = Idle /\ CanStart(inst'[job.user])
           => /\ inst'[job.user].running
              /\ RunsOld => job.op \in {"update", "restore"} /\ ~job.alone]_vars
  BY <1>1
<1> QED BY <1>2, Invariance, PTL DEF Spec, ServiceComesBack

(* A home that goes in a calm removal is archived, as it was at the end or *)
(* but for the flows of a service its owner restarted.                     *)
THEOREM GoneIsArchived == Spec => RemovedIsArchived
<1>1. ASSUME Inv, [Next]_vars, NEW u \in Users, inst[u].home # None, inst'[u].home = None,
             job.calm, faults' = faults
      PROVE  Kept(archives[u], inst[u].home, job.alone)
  <2>1. faults \in Nat /\ inst \in [Users -> Instances] /\ job \in Jobs
    BY <1>1 DEF Inv, TypeOK
  <2>2. CASE Step
    <3>1. Works /\ job.op \in Ops \ {"idle"} /\ job.at \in 1..Len(job.plan) /\ job # Idle
      BY <1>1, <2>1, <2>2, OneStep DEF Step, Inv, JobOK, Subject, Jobs
    <3>2. job.plan[job.at] = "extract" => job.from \in Homes
      BY <1>1, <3>1, WhoDoes DEF Inv, JobOK, Subject
    <3>3. CASE Delete
      <4>1. job.op \in {"remove", "ssh"} /\ job.at = 4
        BY <1>1, <3>1, <3>3, WhoDoes DEF Delete, At, Inv, JobOK
      <4>2. u = job.user
        BY <1>1, <2>1, <3>3 DEF Delete, Becomes
      <4> QED BY <1>1, <4>1, <4>2 DEF Inv, JobOK, Removing
    <3>4. CASE ~Delete
      <4>1. ASSUME NEW r, Becomes(r), job.user \in Users => r.home # None \/ r.home = Mine.home PROVE FALSE
        BY <1>1, <2>1, <4>1 DEF Becomes, Mine
      <4>2. job.user \in Users => Mine \in Instances
        BY <2>1 DEF Mine
      <4>3. CASE Account
        <5>1. job.user \in Users => [Mine EXCEPT !.account = TRUE, !.home = Bare].home # None
          BY <4>2, BareIsHome, NoneIsNothing DEF Instances
        <5> QED BY <4>1, <4>3, <5>1 DEF Account
      <4>4. CASE App \/ Conf \/ Write
        <5>1. ASSUME job.user \in Users PROVE Mine.home \in Homes
          <6>1. CASE Write
            BY <4>2, <5>1, <6>1 DEF Write, HasConf, Instances
          <6>2. CASE App \/ Conf
            <7>1. job.op = "install" /\ job.at > 1
              BY <1>1, <3>1, <6>2, WhoDoes DEF App, Conf, At, Inv, JobOK
            <7> QED BY <1>1, <7>1 DEF Inv, JobOK, Installing, Mine
          <6> QED BY <4>4, <6>1, <6>2
        <5>2. job.user \in Users =>
                /\ [Mine EXCEPT !.home.app = TRUE].home = [Mine.home EXCEPT !.app = TRUE]
                /\ [Mine EXCEPT !.home.conf = job.port].home = [Mine.home EXCEPT !.conf = job.port]
                /\ [Mine EXCEPT !.home.conf = cache].home = [Mine.home EXCEPT !.conf = cache]
          BY <4>2 DEF Instances
        <5>3. job.user \in Users =>
                /\ [Mine.home EXCEPT !.app = TRUE] \in Homes
                /\ [Mine.home EXCEPT !.conf = job.port] \in Homes
                /\ [Mine.home EXCEPT !.conf = cache] \in Homes
          BY <1>1, <2>1, <5>1 DEF Homes, Jobs, Inv, TypeOK
        <5> QED BY <4>1, <4>4, <5>2, <5>3, NoneIsNothing DEF App, Conf, Write
      <4>5. CASE Enable \/ Disable \/ Stop
        <5>1. job.user \in Users => /\ [Mine EXCEPT !.enabled = TRUE].home = Mine.home
                                    /\ [Mine EXCEPT !.enabled = FALSE].home = Mine.home
                                    /\ [Mine EXCEPT !.running = FALSE].home = Mine.home
          BY <4>2 DEF Instances
        <5> QED BY <4>1, <4>5, <5>1 DEF Enable, Disable, Stop
      <4>6. CASE Start
        <5> DEFINE up == Mine.running \/ Starts(Mine)
        <5>1. Becomes([Mine EXCEPT !.running = up])
          BY <4>6 DEF Start
        <5> HIDE DEF up
        <5>2. job.user \in Users => [Mine EXCEPT !.running = up].home = Mine.home
          BY <4>2 DEF Instances
        <5> QED BY <4>1, <5>1, <5>2
      <4>7. CASE Clean \/ Extract
        <5>1. Extract => job.from \in Homes
          BY <3>2 DEF Extract, At
        <5>2. job.user \in Users => /\ [Mine EXCEPT !.home = Bare].home = Bare
                                    /\ [Mine EXCEPT !.home = job.from].home = job.from
          BY <4>2 DEF Instances
        <5> QED BY <4>1, <4>7, <5>1, <5>2, BareIsHome, NoneIsNothing DEF Clean, Extract
      <4>8. CASE Archive \/ Quiet \/ Make \/ Unmake \/ Purge \/ SetRepo \/ InstallNode
        BY <1>1, <4>8 DEF Archive, Quiet, Make, Unmake, Purge, SetRepo, InstallNode, system
      <4> QED BY <3>1, <3>4, <4>3, <4>4, <4>5, <4>6, <4>7, <4>8 DEF Works
    <3> QED BY <3>3, <3>4
  <2>3. CASE Fails \/ Kill
    BY <1>1, <2>1, <2>3 DEF Fails, Kill, Fault
  <2>4. ASSUME NEW v \in Users, Work(v) PROVE FALSE
    <3>1. inst[v].home \in Homes /\ inst[v] \in Instances
      BY <2>1, <2>4 DEF Work, Instances
    <3>2. inst[v].home.flows + 1 \in 0..MaxWork
      BY <2>4, <3>1, BoundsAreNat DEF Work, Homes
    <3>3. [inst[v].home EXCEPT !.flows = @ + 1] \in Homes
      BY <3>1, <3>2 DEF Homes
    <3>4. inst'[v].home = [inst[v].home EXCEPT !.flows = @ + 1] /\ \A w \in Users \ {v} : inst'[w] = inst[w]
      BY <2>1, <2>4, <3>1 DEF Work, Instances
    <3> QED BY <1>1, <3>3, <3>4, NoneIsNothing
  <2>5. ASSUME NEW v \in Users, OwnerRestarts(v) PROVE FALSE
    <3>1. inst'[u].home = inst[u].home
      BY <2>1, <2>5 DEF OwnerRestarts, Instances
    <3> QED BY <1>1, <3>1
  <2>6. CASE Operator
    BY <1>1, <2>6 DEF Operator, Offered, Install, Remove, RemoveAccount, Update, Backup, Save, RunAsApp, Service, Open,
                Restore, DeleteBackup, ChangePort, Leave, Template, MakeTemplate, RemoveTemplate, UpdateTemplate, NodeJs, InstallLatest,
                UpdateNodeJs, UpdateMinor, DeleteNodeJs, Switch, UpdateSudoers, Begin, Act, Look, system
  <2>7. CASE NothingToWrite \/ UNCHANGED vars
    BY <1>1, <2>7 DEF NothingToWrite, Raises, vars, system
  <2> QED BY <1>1, <2>2, <2>3, <2>4, <2>5, <2>6, <2>7 DEF Next
<1>2. Inv /\ [Next]_vars =>
        [\A u \in Users :
           inst[u].home # None /\ inst'[u].home = None /\ job.calm /\ faults' = faults
             => \E h \in archives[u] : Older(h, inst[u].home) /\ (job.alone => h = inst[u].home)]_vars
  BY <1>1 DEF Kept
<1> QED BY <1>2, Invariance, PTL DEF Spec, RemovedIsArchived

(* An installation begins with a port no instance is configured for.       *)
THEOREM PortIsFreeThen == Spec => InstalledPortIsFree
<1>1. ASSUME Inv, [Next]_vars, job = Idle, job'.op = "install"
      PROVE  job'.port \notin PortsOf(inst)
  <2>1. job'# job
    BY <1>1 DEF Idle
  <2>2. ASSUME NEW u \in Users, NEW p \in Ports, Install(u, p) PROVE job'.port \notin PortsOf(inst)
    <3>1. job'.port = p
      BY <2>2 DEF Install, Begin, Job, Idle
    <3>2. p \notin ports /\ menu = None
      BY <2>2 DEF Install
    <3> QED BY <1>1, <3>1, <3>2 DEF Inv, PortsKnown
  <2>3. ASSUME NEW op, NEW u, NEW plan, Begin(Job(op, u, plan)) PROVE op = "install"
    BY <1>1, <2>3 DEF Begin, Job, Idle
  <2>4. CASE \E u \in Users : \/ Remove(u) \/ RemoveAccount(u) \/ Update(u) \/ Backup(u) \/ Save(u)
                             \/ RunAsApp(u) \/ Service(u)
    BY <2>3, <2>4 DEF Remove, RemoveAccount, Update, Backup, Save, RunAsApp, Service
  <2>5. CASE \E u \in Users : \E h \in Offered(u) : Restore(u, h)
    BY <1>1, <2>5 DEF Restore, Begin, Job, Idle
  <2>6. CASE Template \/ NodeJs
    BY <1>1, <2>6 DEF Template, MakeTemplate, RemoveTemplate, UpdateTemplate, NodeJs, InstallLatest,
                UpdateNodeJs, UpdateMinor, DeleteNodeJs, Switch, Begin, Job, Idle
  <2>7. CASE \/ \E u \in Users : Open(u) \/ \E h \in Offered(u) : DeleteBackup(u, h)
             \/ \E p \in Ports : ChangePort(p)
             \/ Leave \/ UpdateSudoers
    BY <2>1, <2>7 DEF Open, DeleteBackup, ChangePort, Leave, UpdateSudoers
  <2>8. CASE Operator
    BY <2>2, <2>4, <2>5, <2>6, <2>7, <2>8 DEF Operator
  <2>9. CASE Step \/ Fails \/ Kill \/ NothingToWrite
    BY <1>1, <2>9 DEF Step, Works, Fails, Kill, NothingToWrite, Raises, At, Account, App, Conf, Enable, Disable,
         Start, Stop, Archive, Delete, Clean, Extract, Write, Quiet, Make, Unmake, Purge, SetRepo, InstallNode
  <2>10. CASE \E u \in Users : Work(u) \/ OwnerRestarts(u)
    BY <1>1, <2>1, <2>10, NoneIsNothing DEF Work, OwnerRestarts, Idle
  <2> QED BY <1>1, <2>1, <2>8, <2>9, <2>10 DEF Next, vars
<1>2. Inv /\ [Next]_vars =>
        [job = Idle /\ job'.op = "install" => job'.port \notin PortsOf(inst)]_vars
  BY <1>1
<1> QED BY <1>2, Invariance, PTL DEF Spec, InstalledPortIsFree
=============================================================================
