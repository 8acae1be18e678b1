----------------------------- MODULE SelfUpdate -----------------------------
(***************************************************************************)
(* The self-updater and the plugins (libs/app/self_updater.py,             *)
(* plugin_manager.py, plugin_settings.py, menuBoss.py, setup.sh,           *)
(* venv_install_step.py).                                                  *)
(*                                                                         *)
(* An update pulls the main repository, installs the JBLibs commit and the *)
(* plugin commits the new HEAD names, one working tree after the other,    *)
(* and then the packages it needs. It may stop or be killed between any    *)
(* two, and the program that is started next is what lies on the disk by   *)
(* then. A running menu keeps the code it has loaded.                      *)
(***************************************************************************)
EXTENDS Naturals, FiniteSets

CONSTANTS Last,       \* bound: the last release
          Plugins,
          Lib,        \* the mandatory submodule libs/JBLibs
          Core,       \* the main repository as a working tree
          Pin,        \* per release: the commit it names for each submodule
          Catalog,    \* per release: the plugins in its pluginy.jsonc
          Runs,       \* per release: the commits of JBLibs it starts with
          Required,   \* plugins with optional: false
          Private,    \* plugins that need a token
          Manual,     \* plugins with auto_update: false
          DefaultOn,  \* plugins with enabled_by_default: true
          MaxEdits,   \* bound: acts of the operator, edits in the trees
          MaxFaults   \* bound: failed commands, killed updates

Releases == 1 .. Last
Modules == Plugins \cup {Lib}       \* the submodules
Trees == Modules \cup {Core}        \* all working trees

ASSUME LastIsRelease == Last \in Nat \ {0}
ASSUME TreesAreDistinct == Lib \notin Plugins /\ Core \notin Modules
ASSUME PinsAreCommits == Pin \in [Releases -> [Modules -> Nat \ {0}]]
ASSUME CatalogsArePlugins == Catalog \in [Releases -> SUBSET Plugins]
ASSUME RunsAreGiven == Runs \in [Releases -> SUBSET Nat]
ASSUME BoundsAreNat == MaxEdits \in Nat /\ MaxFaults \in Nat

VARIABLES
  remote,   \* the release at origin/main
  head,     \* the release the main repository is at
  tree,     \* per submodule: its commit, 0 when it is not installed
  dirty,    \* the working trees with tracked local changes
  deps,     \* the release whose packages are installed, 0: a part of them
  enabled,  \* plugins.jsonc: "on", "off" or "unset" per plugin
  token,    \* plugins whose assets/tokens/<id>.cd is there
  phase,    \* of the program
  loaded,   \* what the running program has loaded: release and submodules
  shown,    \* the plugins in its menu
  status,   \* what it says at "Update me"
  cache,    \* the last answer about remote main and the HEAD it is about
  todo,     \* the plugins this update has not come to
  changed,  \* this update has changed a working tree
  warned,   \* what it has a warning about: a plugin, Core for the catalog
  edits, faults

diskVars   == <<head, tree, deps>>
pluginVars == <<enabled, token>>
menuVars   == <<loaded, shown, status, cache>>
updateVars == <<todo, changed, warned>>
vars == <<remote, diskVars, dirty, pluginVars, phase, menuVars, updateVars, edits, faults>>

At(ph) == phase = ph

Goto(next) == phase' = next

Fault == faults < MaxFaults /\ faults' = faults + 1

Act == edits < MaxEdits /\ edits' = edits + 1

Installed(k) == tree[k] # 0

(* The local state goes before the default of the catalog.                 *)
On(k) == IF enabled[k] = "unset" THEN k \in DefaultOn ELSE enabled[k] = "on"

Init ==
  /\ remote = 1 /\ head = 1 /\ deps = 1
  /\ tree = [m \in Modules |-> IF m = Lib THEN Pin[1][Lib] ELSE 0]
  /\ dirty = {}
  /\ enabled = [k \in Plugins |-> "unset"]
  /\ token = {}
  /\ phase = "off"
  /\ loaded = [head |-> 0, tree |-> [m \in Modules |-> 0]]
  /\ shown = {}
  /\ status = "unknown"
  /\ cache = [state |-> "unknown", head |-> 0]
  /\ todo = {} /\ changed = FALSE /\ warned = {}
  /\ edits = 0 /\ faults = 0

(***************************************************************************)
(* Start.                                                                  *)
(***************************************************************************)
(* Without the functions of JBLibs it needs the program does not start.    *)
CanStart == tree[Lib] \in Runs[head]

(* is_app_directory_enabled: a directory without a catalog entry is shown. *)
Loadable(k) == Installed(k) /\ (k \in Catalog[head] => On(k))

(* Slip: the answer is taken whatever HEAD it is about.                    *)
CachedAnyHead(answer) == answer = cache.state

Cached(answer) == cache.head = head /\ answer = cache.state

(* What ls-remote tells about the HEAD of now.                             *)
Asked(lost) ==
  IF lost THEN "unknown" ELSE IF remote = head THEN "current" ELSE "available"

(* The menu is built, of all plugins when their state cannot be read, then *)
(* remote main is asked, or the answer of the last minutes is used.        *)
Start ==
  /\ At("off")
  /\ CanStart
  /\ Goto("menu")
  /\ loaded' = [head |-> head, tree |-> tree]
  /\ \E lost, unread \in BOOLEAN :
       /\ IF lost \/ unread THEN Fault ELSE UNCHANGED faults
       /\ shown' = {k \in Plugins : IF unread THEN Installed(k) ELSE Loadable(k)}
       /\ \/ ~lost /\ Cached(status') /\ UNCHANGED cache
          \/ status' = Asked(lost) /\ cache' = [state |-> status', head |-> head]
  /\ UNCHANGED <<remote, diskVars, dirty, pluginVars, updateVars, edits>>

Quit ==
  /\ At("menu")
  /\ Goto("off")
  /\ UNCHANGED <<remote, diskVars, dirty, pluginVars, menuVars, updateVars, edits, faults>>

(***************************************************************************)
(* An update.                                                              *)
(***************************************************************************)
(* After an error or a success: the program ends if the update has changed *)
(* a working tree, otherwise it goes on.                                   *)
End(answer) ==
  /\ Goto(IF changed' THEN "off" ELSE "menu")
  /\ status' = answer
  /\ UNCHANGED <<loaded, shown, cache>>

Stop == End(status)

(* A command fails: the update has an error and ends.                      *)
StepFails ==
  /\ Fault
  /\ UNCHANGED <<diskVars, updateVars>>
  /\ Stop

(* What an update never changes.                                           *)
Aside == UNCHANGED <<remote, dirty, pluginVars, edits>>

(* Slip: local changes in a plugin refuse the update, too.                 *)
CleanEverywhere == dirty = {}

(* Local changes in the main repository or JBLibs refuse the update.       *)
Clean == dirty \cap {Core, Lib} = {}

Preflight ==
  /\ At("menu")
  /\ changed' = FALSE /\ warned' = {} /\ todo' = {}
  /\ \/ Clean /\ Goto("pull") /\ UNCHANGED faults
     \/ ~Clean /\ Goto("menu") /\ UNCHANGED faults
     \/ Fault /\ Goto("menu")
  /\ UNCHANGED <<diskVars, menuVars>>
  /\ Aside

(* Git refuses to write over local changes, those made after Preflight; it *)
(* keeps them where they are in other files.                               *)
Refuses(t, moves) ==
  /\ t \in dirty /\ moves
  /\ UNCHANGED <<diskVars, updateVars, faults>>
  /\ Stop

Pull ==
  /\ At("pull")
  /\ \/ /\ head' = remote
        /\ changed' = (remote # head)
        /\ Goto("lib")
        /\ UNCHANGED <<tree, deps, menuVars, todo, warned, faults>>
     \/ StepFails
     \/ Refuses(Core, remote # head)
  /\ Aside

(* Slip: what was installed is read after the installation.                *)
NoticedLate(m) == changed

Noticed(m) == changed \/ tree'[m] # tree[m]

(* `git submodule update --checkout` and the check of the commit. The      *)
(* commands are taken to leave the commit alone when they fail.            *)
Checkout(m) ==
  /\ tree' = [tree EXCEPT ![m] = Pin[head][m]]
  /\ changed' = Noticed(m)

(* A catalog that cannot be read is a warning, and no plugin is updated.   *)
InstallLib ==
  /\ At("lib")
  /\ \/ /\ Checkout(Lib)
        /\ \/ todo' = Catalog[head] /\ UNCHANGED <<warned, faults>>
           \/ Fault /\ todo' = {} /\ warned' = {Core}
        /\ Goto("plugins")
        /\ UNCHANGED <<head, deps, menuVars>>
     \/ StepFails
     \/ Refuses(Lib, tree[Lib] # Pin[head][Lib])
  /\ Aside

(* Skipped on purpose: switched off here, or never updated automatically.  *)
Skipped(k) == ~On(k) \/ k \in Manual

(* Refused before anything is done: no token, or local changes.            *)
Refused(k) == k \in Private \ token \/ (Installed(k) /\ k \in dirty)

Remaining(k) == todo' = todo \ {k}

SkipPlugin(k) ==
  /\ Skipped(k)
  /\ Remaining(k)
  /\ warned' = warned \cup {k}
  /\ UNCHANGED <<diskVars, phase, menuVars, changed, faults>>

InstallPlugin(k) ==
  /\ ~Skipped(k) /\ ~Refused(k)
  /\ Checkout(k)
  /\ Remaining(k)
  /\ UNCHANGED <<head, deps, phase, menuVars, warned, faults>>

(* Slip: the failure of an optional plugin is nowhere said.                *)
FailureUnsaid(k) ==
  IF k \in Required
    THEN UNCHANGED updateVars /\ Stop
    ELSE Remaining(k) /\ UNCHANGED <<phase, menuVars, changed, warned>>

(* A required plugin stops the update, an optional one is a warning.       *)
PluginFailure(k) ==
  IF k \in Required
    THEN UNCHANGED updateVars /\ Stop
    ELSE /\ Remaining(k)
         /\ warned' = warned \cup {k}
         /\ UNCHANGED <<phase, menuVars, changed>>

PluginFails(k) ==
  /\ \/ ~Skipped(k) /\ Refused(k) /\ UNCHANGED faults
     \/ Fault
  /\ PluginFailure(k)
  /\ UNCHANGED diskVars

(* The catalog has an order; here the plugins come in any.                 *)
UpdatePlugin(k) ==
  /\ At("plugins")
  /\ k \in todo
  /\ SkipPlugin(k) \/ InstallPlugin(k) \/ PluginFails(k)
  /\ Aside

PluginsDone ==
  /\ At("plugins")
  /\ todo = {}
  /\ Goto("setup")
  /\ UNCHANGED <<diskVars, menuVars, updateVars, faults>>
  /\ Aside

(* setup.sh checks JBLibs out once more, then installs the packages.       *)
Setup ==
  /\ tree' = [tree EXCEPT ![Lib] = Pin[head][Lib]]
  /\ deps' = head
  /\ UNCHANGED head

RunSetup ==
  /\ At("setup")
  /\ \/ /\ Setup
        /\ UNCHANGED <<updateVars, faults>>
        /\ End(IF changed THEN status ELSE "current")
     \/ /\ deps' \in {deps, 0}
        /\ Fault
        /\ UNCHANGED <<head, tree, updateVars>>
        /\ Stop
  /\ Aside

(* The tree a command of this phase is checking out.                       *)
Touching ==
  CASE phase = "pull" -> {Core}
    [] phase = "lib" -> {Lib}
    [] phase = "plugins" -> {k \in todo : ~Skipped(k) /\ ~Refused(k)}
    [] OTHER -> {}

(* Interrupted: a tree that was just being checked out may be left half    *)
(* done, which shows as local changes, the packages half installed.        *)
HalfDone(t) ==
  /\ dirty' = dirty \cup {t}
  /\ tree' = IF t # Core /\ tree[t] = 0 THEN [tree EXCEPT ![t] = Pin[head][t]] ELSE tree

Killed ==
  /\ ~At("off") /\ ~At("menu")
  /\ Fault
  /\ Goto("off")
  /\ \/ UNCHANGED <<dirty, tree>>
     \/ \E t \in Touching : HalfDone(t)
  /\ deps' \in IF At("setup") THEN {deps, 0} ELSE {deps}
  /\ UNCHANGED <<remote, head, pluginVars, menuVars, updateVars, edits>>

UpdateStep ==
  Pull \/ InstallLib \/ (\E k \in Plugins : UpdatePlugin(k)) \/ PluginsDone \/ RunSetup

(***************************************************************************)
(* The operator, and what happens around the program.                      *)
(***************************************************************************)
(* setup.sh by hand, the way to a program that starts again.               *)
SetupByHand ==
  /\ At("off")
  /\ ~CanStart \/ deps # head
  /\ Lib \notin dirty
  /\ Setup
  /\ UNCHANGED <<remote, dirty, pluginVars, phase, menuVars, updateVars, edits, faults>>

SetEnabled(k, state) ==
  /\ At("menu")
  /\ k \in Catalog[head]
  /\ state # (IF On(k) THEN "on" ELSE "off")
  /\ Act
  /\ enabled' = [enabled EXCEPT ![k] = state]
  /\ UNCHANGED <<remote, diskVars, dirty, token, phase, menuVars, updateVars, faults>>

(* Switched off first; `git submodule deinit -f` then takes local changes  *)
(* with it, or fails.                                                      *)
Uninstall(k) ==
  /\ At("menu")
  /\ k \in Catalog[head] /\ Installed(k)
  /\ Act
  /\ enabled' = [enabled EXCEPT ![k] = "off"]
  /\ \/ /\ tree' = [tree EXCEPT ![k] = 0]
        /\ dirty' = dirty \ {k}
        /\ UNCHANGED faults
     \/ Fault /\ UNCHANGED <<tree, dirty>>
  /\ UNCHANGED <<remote, head, deps, token, phase, menuVars, updateVars>>

SetToken(k) ==
  /\ At("menu")
  /\ k \in Private \cap Catalog[head]
  /\ Act
  /\ \/ token' = token \cup {k}
     \/ token' = token \ {k}
  /\ UNCHANGED <<remote, diskVars, dirty, enabled, phase, menuVars, updateVars, faults>>

Release ==
  /\ remote < Last
  /\ remote' = remote + 1
  /\ UNCHANGED <<diskVars, dirty, pluginVars, phase, menuVars, updateVars, edits, faults>>

EditTree(t) ==
  /\ t \in Plugins => Installed(t)
  /\ Act
  /\ dirty' = dirty \cup {t}
  /\ UNCHANGED <<remote, diskVars, pluginVars, phase, menuVars, updateVars, faults>>

Revert(t) ==
  /\ t \in dirty
  /\ dirty' = dirty \ {t}
  /\ UNCHANGED <<remote, diskVars, pluginVars, phase, menuVars, updateVars, edits, faults>>

Operator ==
  \/ SetupByHand
  \/ \E k \in Plugins :
       \/ \E state \in {"on", "off"} : SetEnabled(k, state)
       \/ Uninstall(k) \/ SetToken(k)
  \/ \E t \in Trees : EditTree(t) \/ Revert(t)

Next == Start \/ Quit \/ Preflight \/ UpdateStep \/ Killed \/ Operator \/ Release

(* The operator starts the program and asks for an update again and again, *)
(* and runs setup.sh when it does not start. Commands end.                 *)
Fairness ==
  /\ WF_vars(Start) /\ SF_vars(Preflight) /\ WF_vars(UpdateStep)
  /\ WF_vars(SetupByHand /\ ~CanStart)

Spec == Init /\ [][Next]_vars
FairSpec == Spec /\ Fairness

----------------------------------------------------------------------------
(* Well formed.                                                            *)
TypeOK ==
  /\ remote \in Releases /\ head \in 1 .. remote /\ deps \in 0 .. head
  /\ tree \in [Modules -> Nat]
  /\ dirty \subseteq Trees
  /\ enabled \in [Plugins -> {"unset", "on", "off"}]
  /\ token \subseteq Plugins
  /\ phase \in {"off", "menu", "pull", "lib", "plugins", "setup"}
  /\ loaded \in [head : 0 .. Last, tree : [Modules -> Nat]]
  /\ shown \subseteq Plugins
  /\ status \in {"current", "available", "unknown"}
  /\ cache \in [state : {"current", "available", "unknown"}, head : 0 .. Last]
  /\ todo \subseteq Plugins /\ changed \in BOOLEAN /\ warned \subseteq Plugins \cup {Core}
  /\ edits \in 0 .. MaxEdits
  /\ faults \in 0 .. MaxFaults

(* A menu that is used runs the code that is installed: an update that has *)
(* changed the main repository, JBLibs or a plugin ends the program, also  *)
(* when a later step of it fails. An uninstalled plugin stays in memory.   *)
MenuRunsInstalled ==
  At("menu") =>
    /\ loaded.head = head
    /\ loaded.tree[Lib] = tree[Lib]
    /\ \A k \in shown : tree[k] \in {0, loaded.tree[k]}

(* What a success claims: JBLibs and the packages are those of the release *)
(* that was pulled, and every plugin has the commit it names or a warning, *)
(* which a required one only has where it was skipped on purpose, unless   *)
(* the warning is that the catalog itself cannot be read.                  *)
Complete ==
  /\ tree'[Lib] = Pin[head'][Lib] /\ deps' = head'
  /\ \A k \in Catalog[head'] :
       \/ tree'[k] = Pin[head'][k]
       \/ k \in warned' /\ (k \in Required => Skipped(k))
       \/ Core \in warned'

SuccessIsComplete ==
  [][At("setup") /\ ~At("setup")' /\ faults' = faults => Complete]_vars

(* "update available" is never said of a program that is up to date,       *)
(* however old the remembered answer is.                                   *)
AvailableIsTrue == At("menu") /\ status = "available" => head < remote

(* Whatever failed or was killed: when the main repository and JBLibs have *)
(* no local changes left, the installation comes to the newest release,    *)
(* with its JBLibs, its packages and every plugin that is not itself held  *)
(* back by local changes or a missing token. An optional plugin that can   *)
(* never be updated does not stand in the way, a required one does.        *)
Held(k) == k \in dirty \/ k \in Private \ token

Updatable ==
  /\ {Core, Lib} \cap dirty = {}
  /\ \A k \in Required : ~Held(k)

Newest ==
  /\ head = remote /\ tree[Lib] = Pin[head][Lib] /\ deps = head
  /\ \A k \in Catalog[head] : Skipped(k) \/ Held(k) \/ tree[k] = Pin[head][k]

UpdateArrives == <>[]Updatable => <>[]Newest
=============================================================================
