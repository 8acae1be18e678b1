-------------------------------- MODULE Sftp --------------------------------
(***************************************************************************)
(* The SFTP manager (libs/app/menus/app_33_sftpmanagr): users restricted   *)
(* to SFTP, the mountpoints they see and the keys they log in with.        *)
(*                                                                         *)
(* The menu loads one JSON configuration, its submenus edit it in memory,  *)
(* and Apply makes the system match it: accounts, mounts and keys first,   *)
(* accounts nobody wants last, and only then the file is replaced. A       *)
(* mountpoint is local to a user or comes from a template that may be      *)
(* assigned to several users; a user grants access to a template's points  *)
(* one by one, by their ids.                                               *)
(*                                                                         *)
(* The library under the menu (JBLibs: resolution of mountpoints, accounts,*)
(* Samba batch) is not in the repository: it is modelled from its calls    *)
(* and from tests/test_sftp_mountpoint_templates.py.                       *)
(***************************************************************************)
EXTENDS Naturals, FiniteSets

CONSTANTS Users, Labels, Paths, Templates,
          Ids,         \* of the points of the templates
          Pubs,        \* public keys
          Malformed,   \* those that no parser accepts
          Starts,      \* the configurations a machine may start with
          None,        \* absent: an entry, a file, an account
          MaxEdits,    \* bound: edits in the menus
          MaxFaults,   \* bound: failing commands and reads
          MaxKills     \* bound: the process is killed

VARIABLES
  cfg,       \* the configuration in the memory of the menu
  changed,   \* it has unsaved changes
  file,      \* config.jsonc, or None
  system,    \* per user: what the account is served, None without an account
  phase,     \* where Apply is
  saved,     \* history: the users of the last configuration that was saved
  deleted,   \* history: the users deleted in this menu since it was loaded
  broken,    \* history: an Apply ended between its two renames
  blind,     \* history: cfg was loaded from no file after that, or from none to be read
  edits, faults, kills

vars == <<cfg, changed, file, system, phase, saved, deleted, broken, blind, edits, faults, kills>>

Points == [path : Paths, on : BOOLEAN, rw : BOOLEAN]

Mounts == [tpl : Templates, label : Labels, path : Paths]

Access == [on : BOOLEAN, rw : BOOLEAN]

(* A key as it is stored: the public part, and the private part belonging  *)
(* to some public key, if any.                                             *)
Keys == [pub : Pubs, priv : Pubs \cup {None}]

Configs ==
  [users     : SUBSET Users,
   local     : [Users -> [Labels -> Points \cup {None}]],      \* sftpmounts, pointsSet
   keys      : [Users -> SUBSET Keys],                         \* sftpcerts
   assigned  : [Users -> SUBSET Templates],                    \* mountTemplates
   over      : [Users -> [Ids -> Access \cup {None}]],         \* templatePoints
   templates : SUBSET Templates,
   mounts    : [Ids -> Mounts \cup {None}]]

Empty ==
  [users     |-> {},
   local     |-> [u \in Users |-> [l \in Labels |-> None]],
   keys      |-> [u \in Users |-> {}],
   assigned  |-> [u \in Users |-> {}],
   over      |-> [u \in Users |-> [i \in Ids |-> None]],
   templates |-> {},
   mounts    |-> [i \in Ids |-> None]]

----------------------------------------------------------------------------
(* The points a template or a user has.                                    *)
In(c, t) == {i \in Ids : c.mounts[i] # None /\ c.mounts[i].tpl = t}

Shown(c, u) == {i \in Ids : c.mounts[i] # None /\ c.mounts[i].tpl \in c.assigned[u]}

Locals(c, u) == {l \in Labels : c.local[u][l] # None}

(* A point of a template is off and read-only until the user's override    *)
(* says otherwise.                                                         *)
Granted(c, u, i) == IF c.over[u][i] = None THEN [on |-> FALSE, rw |-> FALSE] ELSE c.over[u][i]

(* resolve_mountpoint_records: two records under one label are an error.   *)
Resolves(c, u) ==
  /\ \A i, j \in Shown(c, u) : c.mounts[i].label = c.mounts[j].label => i = j
  /\ \A i \in Shown(c, u) : c.local[u][c.mounts[i].label] = None

LabelTaken(c, u, l) == l \in Locals(c, u) \/ \E i \in Shown(c, u) : c.mounts[i].label = l

PathTaken(c, u, p, except) ==
  \/ \E l \in Locals(c, u) \ {except} : c.local[u][l].path = p
  \/ \E i \in Shown(c, u) : c.mounts[i].path = p

(* What the account of a user is served: its enabled points and its keys.  *)
Served(c, u) ==
  [points |->
     {[label |-> l, path |-> c.local[u][l].path, rw |-> c.local[u][l].rw] :
        l \in {m \in Locals(c, u) : c.local[u][m].on}}
     \cup
     {[label |-> c.mounts[i].label, path |-> c.mounts[i].path, rw |-> Granted(c, u, i).rw] :
        i \in {j \in Shown(c, u) : Granted(c, u, j).on}},
   keys |-> {k.pub : k \in c.keys[u]}]

Reconciled(c) ==
  \A u \in Users : system[u] = IF u \in c.users THEN Served(c, u) ELSE None

Init ==
  /\ cfg \in Starts
  /\ changed = FALSE
  /\ file = cfg
  /\ system = [u \in Users |-> IF u \in cfg.users THEN Served(cfg, u) ELSE None]
  /\ phase = "idle"
  /\ saved = cfg.users
  /\ deleted = {}
  /\ broken = FALSE /\ blind = FALSE
  /\ edits = 0 /\ faults = 0 /\ kills = 0

(***************************************************************************)
(* Editing. Nothing but the configuration in memory changes.               *)
(***************************************************************************)
Edit(c) ==
  /\ phase = "idle"
  /\ edits < MaxEdits
  /\ edits' = edits + 1
  /\ cfg' = c
  /\ changed' = TRUE
  /\ UNCHANGED <<file, system, phase, saved, broken, blind, faults, kills>>

Keep == UNCHANGED deleted

CreateUser(u) ==
  /\ u \notin cfg.users
  /\ Edit([cfg EXCEPT !.users = @ \cup {u}])
  /\ Keep

(* The entry goes with everything under it.                                *)
Without(c, u) ==
  [c EXCEPT !.users = @ \ {u},
            !.local[u] = Empty.local[u],
            !.keys[u] = {},
            !.assigned[u] = {},
            !.over[u] = Empty.over[u]]

DeleteUser(u) ==
  /\ u \in cfg.users
  /\ Edit(Without(cfg, u))
  /\ deleted' = deleted \cup {u}

(***************************************************************************)
(* Local mountpoints.                                                      *)
(***************************************************************************)
AddMountpoint(u, l, p, rw) ==
  /\ u \in cfg.users
  /\ ~LabelTaken(cfg, u, l)
  /\ ~PathTaken(cfg, u, p, None)
  /\ Edit([cfg EXCEPT !.local[u][l] = [path |-> p, on |-> TRUE, rw |-> rw]])
  /\ Keep

EnableMountpoint(u, l, on) ==
  /\ u \in cfg.users /\ l \in Locals(cfg, u)
  /\ cfg.local[u][l].on # on
  /\ Edit([cfg EXCEPT !.local[u][l].on = on])
  /\ Keep

SetReadOnly(u, l, rw) ==
  /\ u \in cfg.users /\ l \in Locals(cfg, u)
  /\ cfg.local[u][l].rw # rw
  /\ Edit([cfg EXCEPT !.local[u][l].rw = rw])
  /\ Keep

SetPath(u, l, p) ==
  /\ u \in cfg.users /\ l \in Locals(cfg, u)
  /\ ~PathTaken(cfg, u, p, l)
  /\ cfg.local[u][l].path # p
  /\ Edit([cfg EXCEPT !.local[u][l].path = p])
  /\ Keep

DeleteMountpoint(u, l) ==
  /\ u \in cfg.users /\ l \in Locals(cfg, u)
  /\ Edit([cfg EXCEPT !.local[u][l] = None])
  /\ Keep

(***************************************************************************)
(* Keys.                                                                   *)
(***************************************************************************)
(* check_ssh_pub_key: the public part is canonical, the private part, if   *)
(* there is one, belongs to it.                                            *)
Accepted(k) == k.pub \notin Malformed /\ k.priv \in {None, k.pub}

AddKey(u, k) ==
  /\ u \in cfg.users
  /\ Accepted(k)
  /\ k \notin cfg.keys[u]
  /\ Edit([cfg EXCEPT !.keys[u] = @ \cup {k}])
  /\ Keep

(* A generated pair is new: no entry of the configuration has its key.     *)
GeneratePair(u, pub) ==
  /\ \A v \in Users : \A k \in cfg.keys[v] : k.pub # pub
  /\ AddKey(u, [pub |-> pub, priv |-> pub])

DeleteKey(u, k) ==
  /\ u \in cfg.users /\ k \in cfg.keys[u]
  /\ Edit([cfg EXCEPT !.keys[u] = @ \ {k}])
  /\ Keep

(***************************************************************************)
(* Templates.                                                              *)
(***************************************************************************)
CreateTemplate(t) ==
  /\ t \notin cfg.templates
  /\ Edit([cfg EXCEPT !.templates = @ \cup {t}])
  /\ Keep

Unused(c) == {i \in Ids : c.mounts[i] = None}

(* Slip: the users a template is assigned to are not asked.                *)
NobodyAsked(c, t) == c.users = c.users

(* _assigned_users_resolve, after the change; it is taken back otherwise.  *)
AssignedUsersResolve(c, t) ==
  \A u \in c.users : t \in c.assigned[u] => Resolves(c, u)

(* A template with a point for every local mountpoint of a user.           *)
CreateFromUser(t, u) ==
  /\ u \in cfg.users /\ t \notin cfg.templates
  /\ Locals(cfg, u) # {}
  /\ \E id \in [Locals(cfg, u) -> Unused(cfg)] :
       /\ \A l, m \in Locals(cfg, u) : id[l] = id[m] => l = m
       /\ LET from(i) == CHOOSE l \in Locals(cfg, u) : id[l] = i
              made == {id[l] : l \in Locals(cfg, u)} IN
            Edit([cfg EXCEPT
                   !.templates = @ \cup {t},
                   !.mounts = [i \in Ids |->
                     IF i \in made
                       THEN [tpl |-> t, label |-> from(i), path |-> cfg.local[u][from(i)].path]
                       ELSE cfg.mounts[i]]])
  /\ Keep

AddTemplateMount(t, l, p, i) ==
  /\ t \in cfg.templates /\ i \in Unused(cfg)
  /\ \A j \in In(cfg, t) : cfg.mounts[j].label # l
  /\ LET c == [cfg EXCEPT !.mounts[i] = [tpl |-> t, label |-> l, path |-> p]] IN
       AssignedUsersResolve(c, t) /\ Edit(c)
  /\ Keep

SetTemplateLabel(i, l) ==
  /\ cfg.mounts[i] # None
  /\ \A j \in In(cfg, cfg.mounts[i].tpl) \ {i} : cfg.mounts[j].label # l
  /\ LET c == [cfg EXCEPT !.mounts[i].label = l] IN
       AssignedUsersResolve(c, cfg.mounts[i].tpl) /\ Edit(c)
  /\ Keep

SetTemplatePath(i, p) ==
  /\ cfg.mounts[i] # None
  /\ cfg.mounts[i].path # p
  /\ Edit([cfg EXCEPT !.mounts[i].path = p])
  /\ Keep

(* Slip: the overrides are left behind.                                    *)
NotPruned(c, us, is) == c.over

(* _prune_user_template_overrides, for some users and some points.         *)
Pruned(c, us, is) ==
  [u \in Users |-> [i \in Ids |-> IF u \in us /\ i \in is THEN None ELSE c.over[u][i]]]

DeleteTemplateMount(i) ==
  /\ cfg.mounts[i] # None
  /\ Edit([cfg EXCEPT !.mounts[i] = None, !.over = Pruned(cfg, Users, {i})])
  /\ Keep

DeleteTemplate(t) ==
  /\ t \in cfg.templates
  /\ Edit([cfg EXCEPT
            !.templates = @ \ {t},
            !.mounts = [i \in Ids |-> IF i \in In(cfg, t) THEN None ELSE cfg.mounts[i]],
            !.assigned = [u \in Users |-> cfg.assigned[u] \ {t}],
            !.over = Pruned(cfg, Users, In(cfg, t))])
  /\ Keep

AssignTemplate(u, t) ==
  /\ u \in cfg.users /\ t \in cfg.templates \ cfg.assigned[u]
  /\ LET c == [cfg EXCEPT !.assigned[u] = @ \cup {t}] IN
       Resolves(c, u) /\ Edit(c)
  /\ Keep

UnassignTemplate(u, t) ==
  /\ u \in cfg.users /\ t \in cfg.templates \cap cfg.assigned[u]
  /\ Edit([cfg EXCEPT !.assigned[u] = @ \ {t}, !.over = Pruned(cfg, {u}, In(cfg, t))])
  /\ Keep

EnablePoint(u, i, on) ==
  /\ u \in cfg.users /\ i \in Shown(cfg, u)
  /\ Granted(cfg, u, i).on # on
  /\ Edit([cfg EXCEPT !.over[u][i] = [on |-> on, rw |-> Granted(cfg, u, i).rw]])
  /\ Keep

SetPointReadOnly(u, i, rw) ==
  /\ u \in cfg.users /\ i \in Shown(cfg, u)
  /\ Granted(cfg, u, i).rw # rw
  /\ Edit([cfg EXCEPT !.over[u][i] = [on |-> Granted(cfg, u, i).on, rw |-> rw]])
  /\ Keep

(***************************************************************************)
(* The menu and its file.                                                  *)
(***************************************************************************)
(* load_config: without a file there are no users.                         *)
Loaded(f) == IF f = None THEN Empty ELSE f

(* Slip: the flag is reset, the configuration stays as it was edited.      *)
ForgetsToLoad ==
  /\ cfg' = cfg
  /\ changed' = FALSE
  /\ deleted' = {}
  /\ blind' = (file = None /\ broken')

Load ==
  /\ cfg' = Loaded(file)
  /\ changed' = FALSE
  /\ deleted' = {}
  /\ blind' = (file = None /\ broken')

(* Unsaved changes are discarded, or the menu is left and entered again.   *)
Reload ==
  /\ phase = "idle" /\ (changed \/ cfg # Loaded(file))
  /\ UNCHANGED <<file, system, phase, saved, broken, edits, faults, kills>>
  /\ Load

(* A file that cannot be read, or parsed: the menu warns and goes on with  *)
(* no users at all.                                                        *)
ReadFails ==
  /\ phase = "idle" /\ file # None
  /\ faults < MaxFaults /\ faults' = faults + 1
  /\ cfg' = Empty /\ changed' = FALSE /\ deleted' = {} /\ blind' = TRUE
  /\ UNCHANGED <<file, system, phase, saved, broken, edits, kills>>

(***************************************************************************)
(* Apply.                                                                  *)
(***************************************************************************)
Step(here, next) == phase = here /\ phase' = next

Still == UNCHANGED <<cfg, changed, deleted, blind, edits, kills>>

(* The configuration is validated, and mount.cifs has to be there.         *)
Start ==
  /\ Step("idle", "create")
  /\ \A u \in cfg.users : Resolves(cfg, u)
  /\ Still /\ UNCHANGED <<file, system, saved, broken, faults>>

(* What a failing command leaves: some of the work done.                   *)
Partly(done, c) ==
  system' = [u \in Users |-> IF u \in done THEN (IF u \in c.users THEN Served(c, u) ELSE None)
                                           ELSE system[u]]

(* createUserFromJson in a Samba batch. With no user at all Apply fails.   *)
Create ==
  /\ Step("create", IF cfg.users = {} THEN "idle" ELSE "clean")
  /\ Partly(cfg.users, cfg)
  /\ Still /\ UNCHANGED <<file, saved, broken, faults>>

(* Slip: the errors of single users are only reported.                     *)
CreateGoesOn ==
  /\ Step("create", "clean")
  /\ faults < MaxFaults /\ faults' = faults + 1
  /\ \E done \in SUBSET cfg.users : Partly(done, cfg)
  /\ Still /\ UNCHANGED <<file, saved, broken>>

(* Some users fail, or the batch does.                                     *)
CreateFails ==
  /\ Step("create", "idle")
  /\ faults < MaxFaults /\ faults' = faults + 1
  /\ \E done \in SUBSET cfg.users : Partly(done, cfg)
  /\ Still /\ UNCHANGED <<file, saved, broken>>

Unwanted == {u \in Users \ cfg.users : system[u] # None}

(* uninstallUnwantedUsers: each home is archived, then the account goes.   *)
Clean ==
  /\ Step("clean", "sshd")
  /\ Partly(Unwanted, cfg)
  /\ Still /\ UNCHANGED <<file, saved, broken, faults>>

CleanFails ==
  /\ Step("clean", "idle")
  /\ faults < MaxFaults /\ faults' = faults + 1
  /\ \E done \in SUBSET Unwanted : Partly(done, cfg)
  /\ Still /\ UNCHANGED <<file, saved, broken>>

RestartSshd ==
  /\ Step("sshd", "write")
  /\ Still /\ UNCHANGED <<file, system, saved, broken, faults>>

(* sshd does not start, or the new file cannot be written beside the old.  *)
LateFailure ==
  /\ phase \in {"sshd", "write"} /\ phase' = "idle"
  /\ faults < MaxFaults /\ faults' = faults + 1
  /\ Still /\ UNCHANGED <<file, system, saved, broken>>

(* save_config: the old file is renamed to a backup...                     *)
SetAside ==
  /\ Step("write", "replace")
  /\ file' = None
  /\ Still /\ UNCHANGED <<system, saved, broken, faults>>

(* ... and the new one to its name; the menu loads it again.               *)
Replace ==
  /\ Step("replace", "idle")
  /\ file' = cfg
  /\ saved' = cfg.users
  /\ changed' = FALSE
  /\ deleted' = {}
  /\ blind' = FALSE
  /\ UNCHANGED <<cfg, system, broken, edits, faults, kills>>

(* The backups cannot be listed, or the new file cannot be renamed: it is  *)
(* unlinked, the old one stays a backup, and the menu goes on.             *)
ReplaceFails ==
  /\ Step("replace", "idle")
  /\ faults < MaxFaults /\ faults' = faults + 1
  /\ broken' = TRUE
  /\ Still /\ UNCHANGED <<file, system, saved>>

(* The terminal closes, the machine goes down; the menu is started again.  *)
Kill ==
  /\ phase # "idle"
  /\ kills < MaxKills /\ kills' = kills + 1
  /\ phase' = "idle"
  /\ broken' = (broken \/ phase = "replace")
  /\ Load
  /\ UNCHANGED <<file, system, saved, edits, faults>>

(* All accounts go, the configuration stays.                               *)
UninstallAll ==
  /\ phase = "idle" /\ edits < MaxEdits /\ edits' = edits + 1
  /\ \E u \in Users : system[u] # None
  /\ system' = [u \in Users |-> None]
  /\ UNCHANGED <<cfg, changed, file, phase, saved, deleted, broken, blind, faults, kills>>

EditUser(u) ==
  \/ CreateUser(u) \/ DeleteUser(u)
  \/ \E l \in Labels, p \in Paths, rw \in BOOLEAN : AddMountpoint(u, l, p, rw)
  \/ \E l \in Labels, b \in BOOLEAN : EnableMountpoint(u, l, b) \/ SetReadOnly(u, l, b)
  \/ \E l \in Labels, p \in Paths : SetPath(u, l, p)
  \/ \E l \in Labels : DeleteMountpoint(u, l)
  \/ \E k \in Keys : AddKey(u, k) \/ DeleteKey(u, k)
  \/ \E pub \in Pubs : GeneratePair(u, pub)
  \/ \E t \in Templates : AssignTemplate(u, t) \/ UnassignTemplate(u, t)
  \/ \E i \in Ids, b \in BOOLEAN : EnablePoint(u, i, b) \/ SetPointReadOnly(u, i, b)

EditTemplate(t) ==
  \/ CreateTemplate(t) \/ DeleteTemplate(t)
  \/ \E u \in Users : CreateFromUser(t, u)
  \/ \E l \in Labels, p \in Paths, i \in Ids : AddTemplateMount(t, l, p, i)

EditPoint(i) ==
  \/ DeleteTemplateMount(i)
  \/ \E l \in Labels : SetTemplateLabel(i, l)
  \/ \E p \in Paths : SetTemplatePath(i, p)

Apply ==
  \/ Start \/ Create \/ CreateFails \/ Clean \/ CleanFails
  \/ RestartSshd \/ LateFailure \/ SetAside \/ Replace \/ ReplaceFails

Next ==
  \/ \E u \in Users : EditUser(u)
  \/ \E t \in Templates : EditTemplate(t)
  \/ \E i \in Ids : EditPoint(i)
  \/ Reload \/ ReadFails \/ Apply \/ Kill \/ UninstallAll

Spec == Init /\ [][Next]_vars

----------------------------------------------------------------------------
(* A stored key logs its owner in: the public part is well formed, and the *)
(* private part that is mailed with it belongs to it.                      *)
LogsIn(k) == k.pub \notin Malformed /\ (k.priv # None => k.priv = k.pub)

(* The configurations, the places and the history are well formed; the     *)
(* keys of the configuration are usable (check_ssh_pub_key, add_key).      *)
TypeOK ==
  /\ cfg \in Configs
  /\ \A u \in Users : \A k \in cfg.keys[u] : LogsIn(k)
  /\ changed \in BOOLEAN
  /\ file \in Configs \cup {None}
  /\ DOMAIN system = Users
  /\ phase \in {"idle", "create", "clean", "sshd", "write", "replace"}
  /\ saved \subseteq Users
  /\ deleted \subseteq Users
  /\ broken \in BOOLEAN /\ blind \in BOOLEAN
  /\ edits \in 0 .. MaxEdits
  /\ faults \in 0 .. MaxFaults
  /\ kills \in 0 .. MaxKills

(* The parts of a configuration that the menus leave consistent.           *)
OverridesAreShown(c) == \A u \in Users, i \in Ids : c.over[u][i] # None => i \in Shown(c, u)

OthersAreBlank(c) ==
  \A u \in Users \ c.users :
    /\ \A l \in Labels : c.local[u][l] = None
    /\ c.keys[u] = {} /\ c.assigned[u] = {}

AssignedExist(c) ==
  /\ \A u \in Users : c.assigned[u] \subseteq c.templates
  /\ \A i \in Ids : c.mounts[i] # None => c.mounts[i].tpl \in c.templates

Sound(c) ==
  /\ c \in Configs
  /\ \A u \in Users : Resolves(c, u)
  /\ \A u \in Users : \A k \in c.keys[u] : LogsIn(k)
  /\ OverridesAreShown(c)
  /\ OthersAreBlank(c)
  /\ AssignedExist(c)

ASSUME StartsAreSound == \A c \in Starts : Sound(c)
ASSUME BoundsAreNat == MaxEdits \in Nat /\ MaxFaults \in Nat /\ MaxKills \in Nat
ASSUME NoneIsNothing ==
  /\ None \notin Configs \cup Points \cup Mounts \cup Access \cup Pubs \cup Labels

(***************************************************************************)
(* Properties.                                                             *)
(***************************************************************************)

(* No edit makes a user see two mountpoints under one name: not in the     *)
(* configuration of the menu, nor in the one it would load. A template is  *)
(* edited for people who are not on the screen.                            *)
EveryoneResolves ==
  \A u \in Users : Resolves(cfg, u) /\ (file # None => Resolves(file, u))

(* A point of a template that an edit brings to a user is closed, whatever *)
(* access the user had to this point, or to one of its name, before.       *)
NewPointsAreClosed ==
  [][edits' # edits =>
       \A u \in Users : \A i \in Shown(cfg', u) \ Shown(cfg, u) :
         Granted(cfg', u, i) = [on |-> FALSE, rw |-> FALSE]]_vars

(* The file changes to what the system already serves: an Apply that fails *)
(* on its way leaves the last configuration that worked.                   *)
FileIsServed ==
  [][file' # file /\ file' # None => file' = cfg /\ Reconciled(cfg)]_vars

Removed(u) == phase = "clean" /\ system[u] # None /\ system'[u] = None

(* Apply takes an account away only from a user who was deleted since the  *)
(* menu was loaded, or whom no saved configuration knows. Excepted is a    *)
(* menu that was loaded without the file: since an Apply that was killed   *)
(* or failed between its two renames (sftp_manager_hlp.py:131-145) and no  *)
(* Apply after it, or from a file that could not be read.                  *)
DeletedOnesGo ==
  [][\A u \in Users : Removed(u) => u \in deleted \/ u \notin saved \/ blind]_vars
=============================================================================
