-------------------------- MODULE SelfUpdateProofs --------------------------
(* Proofs about SelfUpdate.                                                *)
EXTENDS SelfUpdate, TLAPS

(* A release the main repository can be at has a catalog and commits.      *)
LEMMA ReleaseFacts ==
  ASSUME TypeOK
  PROVE  /\ head \in Releases /\ remote \in Releases
         /\ Catalog[head] \subseteq Plugins
         /\ \A m \in Modules : Pin[head][m] \in Nat \ {0}
<1>1. head \in Releases /\ remote \in Releases
  BY LastIsRelease DEF TypeOK, Releases
<1> QED
  BY <1>1, CatalogsArePlugins, PinsAreCommits

(* Working trees are the main repository, JBLibs and the plugins.          *)
LEMMA TreesFacts ==
  Lib \in Modules /\ Plugins \subseteq Modules /\ Modules \subseteq Trees /\ Core \in Trees
BY DEF Modules, Trees

(* What is checked out is a tree.                                          *)
LEMMA TouchingTrees ==
  ASSUME TypeOK
  PROVE  Touching \subseteq Trees
BY TreesFacts DEF Touching, TypeOK

(* The end of an update leaves the menu or the program.                    *)
LEMMA EndTypes ==
  ASSUME NEW answer \in {"current", "available", "unknown"}, End(answer), TypeOK
  PROVE  /\ phase' \in {"off", "menu"}
         /\ status' \in {"current", "available", "unknown"}
         /\ loaded' = loaded /\ shown' = shown /\ cache' = cache
BY DEF End, Goto, TypeOK

(* A checkout of a submodule leaves commits.                               *)
LEMMA CheckoutTypes ==
  ASSUME TypeOK, NEW m \in Modules, Checkout(m)
  PROVE  tree' \in [Modules -> Nat] /\ changed' \in BOOLEAN
<1>1. Pin[head][m] \in Nat
  BY ReleaseFacts
<1>2. tree' \in [Modules -> Nat]
  BY <1>1 DEF Checkout, TypeOK
<1>3. changed' \in BOOLEAN
  BY DEF Checkout, Noticed, TypeOK
<1> QED
  BY <1>2, <1>3

(* Every variable keeps its type.                                          *)
LEMMA TypeStep == TypeOK /\ [Next]_vars => TypeOK'
<1> SUFFICES ASSUME TypeOK, [Next]_vars PROVE TypeOK'
  OBVIOUS
<1> USE ReleaseFacts, TreesFacts
<1>0. ASSUME Fault PROVE faults' \in 0 .. MaxFaults
  BY <1>0, BoundsAreNat DEF Fault, TypeOK
<1>a. ASSUME Act PROVE edits' \in 0 .. MaxEdits
  BY <1>a, BoundsAreNat DEF Act, TypeOK
<1>b. ASSUME Stop PROVE /\ phase' \in {"off", "menu"} /\ status' = status
                        /\ loaded' = loaded /\ shown' = shown /\ cache' = cache
  BY <1>b DEF Stop, End, Goto
<1>1. CASE Start
  <2>1. loaded' \in [head : 0 .. Last, tree : [Modules -> Nat]]
    BY <1>1 DEF Start, TypeOK, Releases
  <2>2. /\ status' \in {"current", "available", "unknown"}
        /\ cache' \in [state : {"current", "available", "unknown"}, head : 0 .. Last]
    BY <1>1 DEF Start, TypeOK, Releases, Asked, Cached
  <2>3. shown' \subseteq Plugins /\ faults' \in 0 .. MaxFaults
    BY <1>1, <1>0 DEF Start, TypeOK
  <2> QED
    BY <1>1, <2>1, <2>2, <2>3 DEF Start, TypeOK, Goto, diskVars, pluginVars, updateVars
<1>2. CASE Quit
  BY <1>2 DEF Quit, TypeOK, Goto, diskVars, pluginVars, menuVars, updateVars
<1>3. CASE Preflight
  <2>1. faults' \in 0 .. MaxFaults
    BY <1>3, <1>0 DEF Preflight, TypeOK
  <2> QED
    BY <1>3, <2>1 DEF Preflight, TypeOK, Goto, diskVars, pluginVars, menuVars, Aside
<1>4. CASE Pull
  <2>1. CASE StepFails
    BY <1>4, <2>1, <1>0, <1>b DEF Pull, StepFails, TypeOK, diskVars, pluginVars, updateVars, Aside
  <2>2. CASE Refuses(Core, remote # head)
    BY <1>4, <2>2, <1>b DEF Pull, Refuses, TypeOK, diskVars, pluginVars, updateVars, Aside
  <2>3. CASE ~StepFails /\ ~Refuses(Core, remote # head)
    <3>1. /\ head' = remote /\ changed' = (remote # head) /\ phase' = "lib"
          /\ UNCHANGED <<tree, deps, menuVars, todo, warned, faults>> /\ Aside
      BY <1>4, <2>3 DEF Pull, Goto
    <3>2. head' \in 1 .. remote /\ deps' \in 0 .. head' /\ changed' \in BOOLEAN
      BY <3>1, LastIsRelease DEF TypeOK, Releases
    <3> QED
      BY <3>1, <3>2 DEF TypeOK, menuVars, pluginVars, Aside
  <2> QED
    BY <2>1, <2>2, <2>3
<1>5. CASE InstallLib
  <2>1. CASE StepFails
    BY <1>5, <2>1, <1>0, <1>b DEF InstallLib, StepFails, TypeOK, diskVars, pluginVars, updateVars, Aside
  <2>2. CASE Refuses(Lib, tree[Lib] # Pin[head][Lib])
    BY <1>5, <2>2, <1>b DEF InstallLib, Refuses, TypeOK, diskVars, pluginVars, updateVars, Aside
  <2>3. CASE ~StepFails /\ ~Refuses(Lib, tree[Lib] # Pin[head][Lib])
    <3>1. tree' \in [Modules -> Nat] /\ changed' \in BOOLEAN
      BY <1>5, <2>3, CheckoutTypes DEF InstallLib
    <3>2. todo' \subseteq Plugins /\ warned' \subseteq Plugins \cup {Core} /\ faults' \in 0 .. MaxFaults
      BY <1>5, <2>3, <1>0 DEF InstallLib, TypeOK
    <3> QED
      BY <1>5, <2>3, <3>1, <3>2 DEF InstallLib, TypeOK, Goto, menuVars, pluginVars, Aside
  <2> QED
    BY <2>1, <2>2, <2>3
<1>6. ASSUME NEW k \in Plugins, UpdatePlugin(k) PROVE TypeOK'
  <2>1. CASE SkipPlugin(k)
    BY <1>6, <2>1 DEF UpdatePlugin, SkipPlugin, Remaining, TypeOK, diskVars, menuVars, pluginVars, Aside
  <2>2. CASE InstallPlugin(k)
    <3>1. tree' \in [Modules -> Nat] /\ changed' \in BOOLEAN
      BY <2>2, CheckoutTypes DEF InstallPlugin
    <3> QED
      BY <1>6, <2>2, <3>1 DEF UpdatePlugin, InstallPlugin, Remaining, TypeOK, menuVars, pluginVars, Aside
  <2>3. CASE PluginFails(k)
    <3>1. faults' \in 0 .. MaxFaults
      BY <2>3, <1>0 DEF PluginFails, TypeOK
    <3>2. CASE k \in Required
      BY <1>6, <2>3, <3>1, <3>2, <1>b
      DEF UpdatePlugin, PluginFails, PluginFailure, TypeOK, diskVars, updateVars, pluginVars, Aside
    <3>3. CASE k \notin Required
      BY <1>6, <2>3, <3>1, <3>3
      DEF UpdatePlugin, PluginFails, PluginFailure, Remaining, TypeOK, diskVars, menuVars, pluginVars, Aside
    <3> QED
      BY <3>2, <3>3
  <2> QED
    BY <1>6, <2>1, <2>2, <2>3 DEF UpdatePlugin
<1>7. CASE PluginsDone
  BY <1>7 DEF PluginsDone, TypeOK, Goto, diskVars, pluginVars, menuVars, updateVars, Aside
<1>8. CASE RunSetup
  <2>1. CASE Fault /\ Stop
    <3>1. deps' \in 0 .. head /\ head' = head /\ tree' = tree
      BY <1>8, <2>1 DEF RunSetup, Setup, TypeOK, Fault
    <3> QED
      BY <1>8, <2>1, <1>0, <1>b, <3>1 DEF RunSetup, TypeOK, pluginVars, updateVars, Aside
  <2>2. CASE ~(Fault /\ Stop)
    <3>1. End(IF changed THEN status ELSE "current") /\ Setup
      BY <1>8, <2>2 DEF RunSetup
    <3>2. /\ phase' \in {"off", "menu"}
          /\ status' \in {"current", "available", "unknown"}
          /\ loaded' = loaded /\ shown' = shown /\ cache' = cache
      BY <3>1, EndTypes DEF TypeOK
    <3>3. tree' \in [Modules -> Nat] /\ deps' \in 0 .. head /\ head' = head
      BY <3>1 DEF Setup, TypeOK
    <3> QED
      BY <1>8, <2>2, <3>2, <3>3 DEF RunSetup, TypeOK, pluginVars, updateVars, Aside
  <2> QED
    BY <2>1, <2>2
<1>9. CASE Killed
  <2>1. tree' \in [Modules -> Nat] /\ dirty' \subseteq Trees
    <3>1. CASE UNCHANGED <<dirty, tree>>
      BY <3>1 DEF TypeOK
    <3>2. ASSUME NEW t \in Touching, HalfDone(t) PROVE tree' \in [Modules -> Nat] /\ dirty' \subseteq Trees
      BY <3>2, TouchingTrees DEF HalfDone, TypeOK, Trees
    <3> QED
      BY <1>9, <3>1, <3>2 DEF Killed
  <2>2. deps' \in 0 .. head /\ faults' \in 0 .. MaxFaults
    BY <1>9, <1>0 DEF Killed, TypeOK
  <2> QED
    BY <1>9, <2>1, <2>2 DEF Killed, TypeOK, Goto, pluginVars, menuVars, updateVars
<1>10. CASE SetupByHand
  BY <1>10 DEF SetupByHand, Setup, TypeOK, pluginVars, menuVars, updateVars
<1>11. ASSUME NEW k \in Plugins, NEW state \in {"on", "off"}, SetEnabled(k, state) PROVE TypeOK'
  BY <1>11, <1>a DEF SetEnabled, TypeOK, diskVars, menuVars, updateVars
<1>12. ASSUME NEW k \in Plugins, Uninstall(k) PROVE TypeOK'
  <2>1. tree' \in [Modules -> Nat] /\ dirty' \subseteq Trees /\ faults' \in 0 .. MaxFaults
    BY <1>12, <1>0 DEF Uninstall, TypeOK
  <2> QED
    BY <1>12, <1>a, <2>1 DEF Uninstall, TypeOK, menuVars, updateVars
<1>13. ASSUME NEW k \in Plugins, SetToken(k) PROVE TypeOK'
  BY <1>13, <1>a DEF SetToken, TypeOK, diskVars, menuVars, updateVars
<1>14. ASSUME NEW t \in Trees, EditTree(t) PROVE TypeOK'
  BY <1>14, <1>a DEF EditTree, TypeOK, diskVars, pluginVars, menuVars, updateVars
<1>15. ASSUME NEW t \in Trees, Revert(t) PROVE TypeOK'
  BY <1>15 DEF Revert, TypeOK, diskVars, pluginVars, menuVars, updateVars
<1>16. CASE Release
  <2>1. remote \in Nat /\ head \in 1 .. remote
    BY LastIsRelease DEF TypeOK, Releases
  <2>2. remote' \in Releases /\ head' \in 1 .. remote'
    BY <1>16, <2>1, LastIsRelease DEF Release, Releases, diskVars
  <2> QED
    BY <1>16, <2>2 DEF Release, TypeOK, diskVars, pluginVars, menuVars, updateVars
<1>17. CASE UNCHANGED vars
  BY <1>17 DEF vars, TypeOK, diskVars, pluginVars, menuVars, updateVars
<1>18. CASE Operator
  BY <1>10, <1>11, <1>12, <1>13, <1>14, <1>15, <1>18 DEF Operator
<1>19. CASE UpdateStep
  BY <1>4, <1>5, <1>6, <1>7, <1>8, <1>19 DEF UpdateStep
<1> QED
  BY <1>1, <1>2, <1>3, <1>9, <1>16, <1>17, <1>18, <1>19 DEF Next

(* The first state has its types.                                          *)
LEMMA TypeInit == Init => TypeOK
<1> SUFFICES ASSUME Init PROVE TypeOK
  OBVIOUS
<1>1. 1 \in Releases /\ Last \in Nat
  BY LastIsRelease DEF Releases
<1>2. Pin[1][Lib] \in Nat
  BY <1>1, PinsAreCommits, TreesFacts
<1>3. tree \in [Modules -> Nat] /\ loaded \in [head : 0 .. Last, tree : [Modules -> Nat]]
  BY <1>1, <1>2 DEF Init
<1> QED
  <2>1. remote \in Releases /\ head \in 1 .. remote /\ deps \in 0 .. head
    BY <1>1 DEF Init
  <2>2. edits \in 0 .. MaxEdits /\ faults \in 0 .. MaxFaults
    BY BoundsAreNat DEF Init
  <2>3. cache \in [state : {"current", "available", "unknown"}, head : 0 .. Last]
    BY <1>1 DEF Init
  <2> QED
    BY <1>3, <2>1, <2>2, <2>3 DEF Init, TypeOK

(* Every variable of every behaviour has its type.                         *)
THEOREM TypeCorrect == Spec => []TypeOK
BY TypeInit, TypeStep, PTL DEF Spec

----------------------------------------------------------------------------
(* "update available" is true: what is remembered is about a HEAD that is  *)
(* not newer than the one there is, and a release is never taken back.     *)
CacheIsHonest ==
  cache.head <= head /\ (cache.state = "available" => cache.head < remote)

StatusIsHonest ==
  /\ ~At("off") /\ status = "available" => head < remote \/ (changed /\ ~At("menu"))
  /\ At("pull") => changed = FALSE

(* Only a pull moves the main repository, and only forwards, to origin.    *)
LEMMA HeadMoves ==
  ASSUME TypeOK, [Next]_vars
  PROVE  /\ head \in Nat /\ remote \in Nat /\ head' \in Nat /\ remote' \in Nat
         /\ head <= head' /\ remote <= remote' /\ head <= remote /\ head' <= remote'
         /\ head' = head \/ (Pull /\ head' = remote /\ changed')
<1>1. head \in Nat /\ remote \in Nat /\ head' \in Nat /\ remote' \in Nat
      /\ head <= remote /\ head' <= remote'
  BY TypeStep, LastIsRelease DEF TypeOK, Releases
<1>2. CASE Pull
  <2>1. remote' = remote
    BY <1>2 DEF Pull, Aside
  <2>2. CASE StepFails \/ Refuses(Core, remote # head)
    BY <1>1, <2>1, <2>2 DEF StepFails, Refuses, diskVars
  <2>3. CASE ~StepFails /\ ~Refuses(Core, remote # head)
    <3>1. head' = remote
      BY <1>2, <2>3 DEF Pull
    <3>2. changed' = (remote # head)
      BY <1>2, <2>3 DEF Pull
    <3>3. head' # head => changed'
      BY <3>1, <3>2
    <3> QED
      BY <1>1, <1>2, <2>1, <3>1, <3>3
  <2> QED
    BY <2>2, <2>3
<1>3. CASE InstallLib
  BY <1>1, <1>3 DEF InstallLib, StepFails, Refuses, diskVars, Aside
<1>4. ASSUME NEW k \in Plugins, UpdatePlugin(k) PROVE head' = head /\ remote' = remote
  BY <1>4 DEF UpdatePlugin, SkipPlugin, InstallPlugin, PluginFails, diskVars, Aside
<1>5. CASE RunSetup
  BY <1>1, <1>5 DEF RunSetup, Setup, Aside
<1>6. CASE PluginsDone
  BY <1>1, <1>6 DEF PluginsDone, diskVars, Aside
<1>7. CASE Operator
  BY <1>1, <1>7 DEF Operator, SetupByHand, Setup, SetEnabled, Uninstall, SetToken, EditTree, Revert, diskVars
<1>8. CASE Start \/ Quit \/ Preflight \/ Killed
  BY <1>1, <1>8 DEF Start, Quit, Preflight, Killed, diskVars, Aside
<1>9. CASE Release
  BY <1>1, <1>9 DEF Release, diskVars
<1>10. CASE UNCHANGED vars
  BY <1>1, <1>10 DEF vars, diskVars
<1> QED
  BY <1>1, <1>2, <1>3, <1>4, <1>5, <1>6, <1>7, <1>8, <1>9, <1>10 DEF Next, UpdateStep

(* Only a start writes the remembered answer.                              *)
LEMMA CacheMoves ==
  ASSUME TypeOK, [Next]_vars
  PROVE  cache' = cache \/ Start
<1> USE DEF menuVars
<1>1. ASSUME NEW answer, End(answer) PROVE cache' = cache
  BY <1>1 DEF End
<1>2. CASE Pull
  BY <1>1, <1>2 DEF Pull, StepFails, Refuses, Stop
<1>3. CASE InstallLib
  BY <1>1, <1>3 DEF InstallLib, StepFails, Refuses, Stop
<1>4. ASSUME NEW k \in Plugins, UpdatePlugin(k) PROVE cache' = cache
  BY <1>1, <1>4 DEF UpdatePlugin, SkipPlugin, InstallPlugin, PluginFails, PluginFailure, Stop
<1>5. CASE RunSetup
  BY <1>1, <1>5 DEF RunSetup, Stop
<1>6. CASE PluginsDone
  BY <1>6 DEF PluginsDone
<1>7. CASE Operator
  BY <1>7 DEF Operator, SetupByHand, SetEnabled, Uninstall, SetToken, EditTree, Revert
<1>8. CASE Quit \/ Preflight \/ Killed \/ Release
  BY <1>8 DEF Quit, Preflight, Killed, Release
<1>9. CASE UNCHANGED vars
  BY <1>9 DEF vars
<1> QED
  BY <1>2, <1>3, <1>4, <1>5, <1>6, <1>7, <1>8, <1>9 DEF Next, UpdateStep

LEMMA CacheStep ==
  TypeOK /\ CacheIsHonest /\ [Next]_vars => CacheIsHonest'
<1> SUFFICES ASSUME TypeOK, CacheIsHonest, [Next]_vars PROVE CacheIsHonest'
  OBVIOUS
<1>0. cache.head \in 0 .. Last
  BY DEF TypeOK
<1>1. CASE cache' = cache
  BY <1>0, <1>1, HeadMoves, LastIsRelease DEF CacheIsHonest
<1>2. CASE Start /\ cache' # cache
  <2>1. PICK lost \in BOOLEAN : cache' = [state |-> Asked(lost), head |-> head]
    BY <1>2 DEF Start
  <2>2. head' = head /\ remote' = remote
    BY <1>2 DEF Start, diskVars
  <2>3. Asked(lost) = "available" => remote # head
    BY DEF Asked
  <2> QED
    BY <2>1, <2>2, <2>3, HeadMoves DEF CacheIsHonest
<1> QED
  BY <1>1, <1>2, CacheMoves

(* The menu goes on saying "available" only of a HEAD that did not move.   *)
LEMMA StatusStep ==
  TypeOK /\ CacheIsHonest /\ StatusIsHonest /\ [Next]_vars => StatusIsHonest'
<1> SUFFICES ASSUME TypeOK, CacheIsHonest, StatusIsHonest, [Next]_vars PROVE StatusIsHonest'
  OBVIOUS
<1> USE HeadMoves DEF StatusIsHonest
<1>0. changed \in BOOLEAN /\ changed' \in BOOLEAN
  BY TypeStep DEF TypeOK
<1>e. ASSUME NEW answer \in {status, "current"}, End(answer), head' = head, remote' = remote,
             changed' = changed, ~At("menu"), ~At("off")
      PROVE  StatusIsHonest'
  <2>1. CASE changed
    BY <1>e, <2>1 DEF End, Goto, At
  <2>2. CASE ~changed
    BY <1>e, <2>2 DEF End, Goto, At
  <2> QED
    BY <2>1, <2>2
<1>f. ASSUME Stop, head' = head, remote' = remote, changed' = changed, ~At("menu"), ~At("off")
      PROVE  StatusIsHonest'
  BY <1>e, <1>f DEF Stop
<1>1. CASE Start
  <2>1. /\ head' = head /\ remote' = remote /\ phase' = "menu" /\ status' = cache'.state
        /\ cache'.head = head
    BY <1>1 DEF Start, Goto, diskVars, Cached
  <2>2. CacheIsHonest'
    BY CacheStep
  <2> QED
    BY <2>1, <2>2 DEF CacheIsHonest, At
<1>2. CASE Quit \/ Killed
  BY <1>2 DEF Quit, Killed, Goto, At
<1>3. CASE Preflight
  BY <1>3 DEF Preflight, Goto, At, diskVars, menuVars, Aside
<1>4. CASE Pull
  <2>1. CASE StepFails \/ Refuses(Core, remote # head)
    BY <1>4, <1>f, <2>1 DEF Pull, StepFails, Refuses, diskVars, updateVars, Aside, At
  <2>2. CASE ~StepFails /\ ~Refuses(Core, remote # head)
    <3>1. phase' = "lib" /\ status' = status /\ remote' = remote
      BY <1>4, <2>2 DEF Pull, Goto, menuVars, Aside
    <3>2. ~changed
      BY <1>4 DEF Pull
    <3>3. head' = head \/ changed'
      OBVIOUS
    <3> QED
      BY <1>4, <3>1, <3>2, <3>3 DEF Pull, At
  <2> QED
    BY <2>1, <2>2
<1>5. CASE InstallLib
  <2>1. CASE StepFails \/ Refuses(Lib, tree[Lib] # Pin[head][Lib])
    BY <1>5, <1>f, <2>1 DEF InstallLib, StepFails, Refuses, diskVars, updateVars, Aside, At
  <2>2. CASE ~StepFails /\ ~Refuses(Lib, tree[Lib] # Pin[head][Lib])
    <3>1. /\ phase' = "plugins" /\ status' = status /\ remote' = remote /\ head' = head
          /\ changed => changed'
      BY <1>5, <2>2 DEF InstallLib, Goto, menuVars, Aside, Checkout, Noticed
    <3> QED
      BY <1>5, <3>1 DEF InstallLib, At
  <2> QED
    BY <2>1, <2>2
<1>6. ASSUME NEW k \in Plugins, UpdatePlugin(k) PROVE StatusIsHonest'
  <2>0. At("plugins") /\ remote' = remote
    BY <1>6 DEF UpdatePlugin, Aside
  <2>1. CASE SkipPlugin(k)
    BY <2>0, <2>1 DEF SkipPlugin, diskVars, menuVars, At
  <2>2. CASE InstallPlugin(k)
    <3>1. phase' = phase /\ status' = status /\ head' = head /\ (changed => changed')
      BY <2>2 DEF InstallPlugin, menuVars, Checkout, Noticed
    <3> QED
      BY <2>0, <3>1 DEF At
  <2>3. CASE PluginFails(k)
    <3>1. CASE k \in Required
      BY <1>f, <2>0, <2>3, <3>1 DEF PluginFails, PluginFailure, diskVars, updateVars, At
    <3>2. CASE k \notin Required
      BY <2>0, <2>3, <3>2 DEF PluginFails, PluginFailure, diskVars, menuVars, At
    <3> QED
      BY <3>1, <3>2
  <2> QED
    BY <1>6, <2>1, <2>2, <2>3 DEF UpdatePlugin
<1>7. CASE PluginsDone
  BY <1>7 DEF PluginsDone, Goto, At, diskVars, menuVars, updateVars, Aside
<1>8. CASE RunSetup
  <2>0. /\ At("setup") /\ remote' = remote /\ head' = head /\ changed' = changed
    BY <1>8 DEF RunSetup, Setup, updateVars, Aside
  <2>1. CASE Stop
    BY <1>f, <2>0, <2>1 DEF At
  <2>2. CASE ~Stop
    <3>1. End(IF changed THEN status ELSE "current")
      BY <1>8, <2>2 DEF RunSetup
    <3> QED
      BY <1>e, <2>0, <3>1 DEF At
  <2> QED
    BY <2>1, <2>2
<1>9. CASE Operator
  <2>1. phase' = phase /\ status' = status /\ changed' = changed /\ head' = head /\ remote' = remote
    BY <1>9 DEF Operator, SetupByHand, Setup, SetEnabled, Uninstall, SetToken, EditTree, Revert,
       diskVars, menuVars, updateVars
  <2> QED
    BY <2>1 DEF At
<1>10. CASE Release
  <2>1. phase' = phase /\ status' = status /\ changed' = changed /\ head' = head
    BY <1>10 DEF Release, diskVars, menuVars, updateVars
  <2> QED
    BY <2>1 DEF At
<1>11. CASE UNCHANGED vars
  BY <1>11 DEF vars, diskVars, menuVars, updateVars, At
<1> QED
  BY <1>1, <1>2, <1>3, <1>4, <1>5, <1>6, <1>7, <1>8, <1>9, <1>10, <1>11 DEF Next, UpdateStep

(* The menu never offers an update that is not there.                      *)
THEOREM AvailableCorrect == Spec => []AvailableIsTrue
<1>1. Init => CacheIsHonest /\ StatusIsHonest
  BY DEF Init, CacheIsHonest, StatusIsHonest, At
<1>2. CacheIsHonest /\ StatusIsHonest => AvailableIsTrue
  BY DEF StatusIsHonest, AvailableIsTrue, At
<1> QED
  BY <1>1, <1>2, TypeInit, TypeStep, CacheStep, StatusStep, PTL DEF Spec

----------------------------------------------------------------------------
(* Past JBLibs an update has its commit, and of every plugin it has come   *)
(* to either the commit or a warning.                                      *)
Settled(k) ==
  \/ tree[k] = Pin[head][k]
  \/ k \in warned /\ (k \in Required => Skipped(k))
  \/ Core \in warned

Progress ==
  /\ At("plugins") \/ At("setup") =>
       /\ tree[Lib] = Pin[head][Lib]
       /\ \A k \in Catalog[head] \ todo : Settled(k)
  /\ At("setup") => todo = {}

(* What the menu runs is installed; an update that has changed nothing     *)
(* keeps it so.                                                            *)
LoadedIsInstalled ==
  ~At("off") /\ (At("menu") \/ ~changed) =>
    /\ loaded.head = head
    /\ loaded.tree[Lib] = tree[Lib]
    /\ \A k \in shown : tree[k] \in {0, loaded.tree[k]}

(* An installed submodule is at its commit, the others are where they were. *)
LEMMA CheckoutFacts ==
  ASSUME TypeOK, NEW m \in Modules, Checkout(m)
  PROVE  /\ tree'[m] = Pin[head][m]
         /\ \A o \in Modules \ {m} : tree'[o] = tree[o]
         /\ ~changed' => ~changed /\ tree' = tree
<1>1. tree' = [tree EXCEPT ![m] = Pin[head][m]] /\ tree \in [Modules -> Nat]
  BY DEF Checkout, TypeOK
<1>2. tree'[m] = Pin[head][m] /\ \A o \in Modules \ {m} : tree'[o] = tree[o]
  BY <1>1
<1>3. ASSUME ~changed' PROVE ~changed /\ tree'[m] = tree[m]
  BY <1>3 DEF Checkout, Noticed
<1>4. ASSUME tree'[m] = tree[m] PROVE tree' = tree
  BY <1>1, <1>4
<1> QED
  BY <1>2, <1>3, <1>4

LEMMA ProgressStep ==
  TypeOK /\ Progress /\ [Next]_vars => Progress'
<1> SUFFICES ASSUME TypeOK, Progress, [Next]_vars PROVE Progress'
  OBVIOUS
<1> USE TreesFacts, TreesAreDistinct
<1>e. ASSUME phase' \in {"off", "menu", "pull", "lib"} PROVE Progress'
  BY <1>e DEF Progress, At
<1>f. ASSUME Stop PROVE Progress'
  BY <1>e, <1>f DEF Stop, End, Goto
<1>g. ASSUME NEW k, enabled' = enabled PROVE Skipped(k)' = Skipped(k)
  BY <1>g DEF Skipped, On
<1>1. CASE Start \/ Quit \/ Preflight \/ Killed
  BY <1>e, <1>1 DEF Start, Quit, Preflight, Killed, Goto
<1>2. CASE Pull
  BY <1>e, <1>f, <1>2 DEF Pull, StepFails, Refuses, Goto
<1>3. CASE InstallLib
  <2>1. CASE StepFails \/ Refuses(Lib, tree[Lib] # Pin[head][Lib])
    BY <1>f, <2>1 DEF StepFails, Refuses
  <2>2. CASE ~StepFails /\ ~Refuses(Lib, tree[Lib] # Pin[head][Lib])
    <3>1. /\ Checkout(Lib) /\ phase' = "plugins" /\ head' = head
          /\ todo' = Catalog[head] \/ warned' = {Core}
      BY <1>3, <2>2 DEF InstallLib, Goto
    <3> QED
      BY <3>1, CheckoutFacts DEF Progress, Settled, At
  <2> QED
    BY <2>1, <2>2
<1>4. ASSUME NEW k \in Plugins, UpdatePlugin(k) PROVE Progress'
  <2>0. At("plugins") /\ enabled' = enabled
    BY <1>4 DEF UpdatePlugin, Aside, pluginVars
  <2>1. CASE SkipPlugin(k)
    <3>1. /\ phase' = phase /\ head' = head /\ tree' = tree
          /\ todo' = todo \ {k} /\ warned' = warned \cup {k} /\ Skipped(k)
      BY <2>1 DEF SkipPlugin, Remaining, diskVars
    <3>2. \A p \in Catalog[head] \ todo' : Settled(p)'
      BY <1>g, <2>0, <3>1 DEF Progress, Settled
    <3> QED
      BY <2>0, <3>1, <3>2 DEF Progress, At
  <2>2. CASE InstallPlugin(k)
    <3>1. /\ phase' = phase /\ head' = head /\ Checkout(k)
          /\ todo' = todo \ {k} /\ warned' = warned
      BY <2>2 DEF InstallPlugin, Remaining
    <3>2. k \in Modules /\ k # Lib /\ Catalog[head] \subseteq Modules
      BY ReleaseFacts
    <3>3. /\ tree'[k] = Pin[head][k] /\ tree'[Lib] = tree[Lib]
          /\ \A p \in Catalog[head] \ {k} : tree'[p] = tree[p]
      BY <3>1, <3>2, CheckoutFacts
    <3>4. \A p \in Catalog[head] \ todo' : Settled(p)'
      BY <1>g, <2>0, <3>1, <3>3 DEF Progress, Settled
    <3> QED
      BY <2>0, <3>1, <3>3, <3>4 DEF Progress, At
  <2>3. CASE PluginFails(k)
    <3>1. CASE k \in Required
      BY <1>f, <2>3, <3>1 DEF PluginFails, PluginFailure
    <3>2. CASE k \notin Required
      <4>1. /\ phase' = phase /\ head' = head /\ tree' = tree
            /\ todo' = todo \ {k} /\ warned' = warned \cup {k}
        BY <2>3, <3>2 DEF PluginFails, PluginFailure, Remaining, diskVars
      <4>2. \A p \in Catalog[head] \ todo' : Settled(p)'
        BY <1>g, <2>0, <3>2, <4>1 DEF Progress, Settled
      <4> QED
        BY <2>0, <4>1, <4>2 DEF Progress, At
    <3> QED
      BY <3>1, <3>2
  <2> QED
    BY <1>4, <2>1, <2>2, <2>3 DEF UpdatePlugin
<1>5. CASE PluginsDone
  <2>1. /\ At("plugins") /\ todo = {} /\ phase' = "setup"
        /\ UNCHANGED <<head, tree, todo, warned, enabled>>
    BY <1>5 DEF PluginsDone, Goto, diskVars, updateVars, pluginVars, Aside
  <2>2. \A p : Settled(p)' = Settled(p)
    BY <1>g, <2>1 DEF Settled
  <2> QED
    BY <2>1, <2>2 DEF Progress, At
<1>6. CASE RunSetup
  BY <1>f, <1>e, <1>6 DEF RunSetup, End, Goto
<1>7. CASE SetupByHand
  BY <1>e, <1>7 DEF SetupByHand, At
<1>8. ASSUME At("menu"), phase' = phase PROVE Progress'
  BY <1>e, <1>8 DEF At
<1>9. CASE \E k \in Plugins : \/ \E state \in {"on", "off"} : SetEnabled(k, state)
                               \/ Uninstall(k) \/ SetToken(k)
  BY <1>8, <1>9 DEF SetEnabled, Uninstall, SetToken
<1>10. CASE (\E t \in Trees : EditTree(t) \/ Revert(t)) \/ Release \/ UNCHANGED vars
  <2>1. UNCHANGED <<phase, head, tree, todo, warned, enabled>>
    BY <1>10 DEF EditTree, Revert, Release, vars, diskVars, pluginVars, updateVars
  <2>2. \A p : Settled(p)' = Settled(p)
    BY <1>g, <2>1 DEF Settled
  <2> QED
    BY <2>1, <2>2 DEF Progress, At
<1> QED
  BY <1>1, <1>2, <1>3, <1>4, <1>5, <1>6, <1>7, <1>9, <1>10 DEF Next, UpdateStep, Operator

LEMMA LoadedStep ==
  TypeOK /\ StatusIsHonest /\ Progress /\ LoadedIsInstalled /\ [Next]_vars => LoadedIsInstalled'
<1> SUFFICES ASSUME TypeOK, StatusIsHonest, Progress, LoadedIsInstalled, [Next]_vars
             PROVE  LoadedIsInstalled'
  OBVIOUS
<1> USE TreesFacts, TreesAreDistinct
<1>e. ASSUME phase' = "off" PROVE LoadedIsInstalled'
  BY <1>e DEF LoadedIsInstalled, At
<1>f. ASSUME ~At("off"), UNCHANGED <<head, tree, loaded, shown>>,
             changed \/ At("menu") => changed' \/ phase' = "menu",
             phase' = "menu" => At("menu") \/ ~changed
      PROVE  LoadedIsInstalled'
  BY <1>f DEF LoadedIsInstalled, At
<1>g. ASSUME NEW answer, End(answer), ~At("off"), ~At("menu"), UNCHANGED <<head, tree, changed>>
      PROVE  LoadedIsInstalled'
  <2>1. CASE changed
    BY <1>e, <1>g, <2>1 DEF End, Goto
  <2>2. CASE ~changed
    BY <1>f, <1>g, <2>2 DEF End, Goto
  <2> QED
    BY <2>1, <2>2
<1>s. ASSUME Stop, ~At("off"), ~At("menu"), UNCHANGED <<head, tree, changed>> PROVE LoadedIsInstalled'
  BY <1>g, <1>s DEF Stop
<1>1. CASE Start
  <2>1. /\ loaded' = [head |-> head, tree |-> tree] /\ head' = head /\ tree' = tree
        /\ shown' \subseteq Plugins
    BY <1>1 DEF Start, diskVars
  <2> QED
    BY <2>1 DEF LoadedIsInstalled
<1>2. CASE Quit \/ Killed
  BY <1>e, <1>2 DEF Quit, Killed, Goto
<1>3. CASE Preflight
  BY <1>3 DEF Preflight, LoadedIsInstalled, diskVars, menuVars, At
<1>4. CASE Pull
  <2>1. CASE StepFails \/ Refuses(Core, remote # head)
    BY <1>s, <1>4, <2>1 DEF Pull, StepFails, Refuses, diskVars, updateVars, At
  <2>2. CASE ~StepFails /\ ~Refuses(Core, remote # head)
    <3>1. /\ head' = remote /\ changed' = (remote # head) /\ phase' = "lib" /\ ~At("off")
          /\ UNCHANGED <<tree, loaded, shown>>
      BY <1>4, <2>2 DEF Pull, Goto, menuVars, At
    <3>2. CASE remote = head
      <4>1. ~changed
        BY <1>4 DEF Pull, StatusIsHonest
      <4> QED
        BY <3>1, <3>2, <4>1 DEF LoadedIsInstalled, At
    <3>3. CASE remote # head
      <4>1. changed'
        BY <3>1, <3>3
      <4> QED
        BY <3>1, <4>1 DEF LoadedIsInstalled, At
    <3> QED
      BY <3>2, <3>3
  <2> QED
    BY <2>1, <2>2
<1>5. CASE InstallLib
  <2>1. CASE StepFails \/ Refuses(Lib, tree[Lib] # Pin[head][Lib])
    BY <1>s, <1>5, <2>1 DEF InstallLib, StepFails, Refuses, diskVars, updateVars, At
  <2>2. CASE ~StepFails /\ ~Refuses(Lib, tree[Lib] # Pin[head][Lib])
    <3>1. /\ Checkout(Lib) /\ phase' = "plugins" /\ At("lib")
          /\ UNCHANGED <<head, loaded, shown>>
      BY <1>5, <2>2 DEF InstallLib, Goto, menuVars
    <3>2. ~changed' => ~changed /\ tree' = tree
      BY <3>1, CheckoutFacts
    <3> QED
      BY <3>1, <3>2 DEF LoadedIsInstalled, At
  <2> QED
    BY <2>1, <2>2
<1>6. ASSUME NEW k \in Plugins, UpdatePlugin(k) PROVE LoadedIsInstalled'
  <2>0. At("plugins")
    BY <1>6 DEF UpdatePlugin
  <2>1. CASE SkipPlugin(k)
    BY <1>f, <2>0, <2>1 DEF SkipPlugin, diskVars, menuVars, At
  <2>2. CASE InstallPlugin(k)
    <3>1. Checkout(k) /\ UNCHANGED <<head, phase, loaded, shown>>
      BY <2>2 DEF InstallPlugin, menuVars
    <3> QED
      BY <2>0, <3>1, CheckoutFacts DEF LoadedIsInstalled, At
  <2>3. CASE PluginFails(k)
    <3>1. CASE k \in Required
      BY <1>s, <2>0, <2>3, <3>1 DEF PluginFails, PluginFailure, diskVars, updateVars, At
    <3>2. CASE k \notin Required
      BY <1>f, <2>0, <2>3, <3>2 DEF PluginFails, PluginFailure, diskVars, menuVars, At
    <3> QED
      BY <3>1, <3>2
  <2> QED
    BY <1>6, <2>1, <2>2, <2>3 DEF UpdatePlugin
<1>7. CASE PluginsDone
  BY <1>f, <1>7 DEF PluginsDone, Goto, At, diskVars, menuVars, updateVars
<1>8. CASE RunSetup
  <2>1. At("setup") /\ head' = head /\ changed' = changed
    BY <1>8 DEF RunSetup, Setup, updateVars
  <2>2. tree' = tree
    <3>1. tree[Lib] = Pin[head][Lib] /\ tree \in [Modules -> Nat]
      BY <2>1 DEF Progress, TypeOK
    <3> QED
      BY <1>8, <3>1 DEF RunSetup, Setup
  <2> QED
    BY <1>8, <1>g, <1>s, <2>1, <2>2 DEF RunSetup, At
<1>9. CASE SetupByHand
  BY <1>e, <1>9 DEF SetupByHand, At
<1>10. ASSUME NEW k \in Plugins, Uninstall(k) PROVE LoadedIsInstalled'
  <2>1. At("menu") /\ phase' = phase /\ UNCHANGED <<head, loaded, shown>>
    BY <1>10 DEF Uninstall, menuVars
  <2>2. tree' = tree \/ (tree' = [tree EXCEPT ![k] = 0] /\ k # Lib /\ tree \in [Modules -> Nat])
    BY <1>10 DEF Uninstall, TypeOK
  <2>3. shown \subseteq Modules
    BY DEF TypeOK
  <2> QED
    BY <2>1, <2>2, <2>3 DEF LoadedIsInstalled, At
<1>11. ASSUME UNCHANGED <<phase, head, tree, changed, loaded, shown>> PROVE LoadedIsInstalled'
  BY <1>11 DEF LoadedIsInstalled, At
<1>12. CASE (\E k \in Plugins : (\E state \in {"on", "off"} : SetEnabled(k, state)) \/ SetToken(k))
            \/ (\E t \in Trees : EditTree(t) \/ Revert(t)) \/ Release \/ UNCHANGED vars
  BY <1>11, <1>12 DEF SetEnabled, SetToken, EditTree, Revert, Release, vars, diskVars, menuVars, updateVars
<1> QED
  BY <1>1, <1>2, <1>3, <1>4, <1>5, <1>6, <1>7, <1>8, <1>9, <1>10, <1>12 DEF Next, UpdateStep, Operator

(* A menu in use runs the installed code, whatever updates failed before.  *)
THEOREM MenuCorrect == Spec => []MenuRunsInstalled
<1>1. Init => Progress /\ LoadedIsInstalled /\ CacheIsHonest /\ StatusIsHonest
  BY DEF Init, Progress, LoadedIsInstalled, CacheIsHonest, StatusIsHonest, At
<1>2. LoadedIsInstalled => MenuRunsInstalled
  BY DEF LoadedIsInstalled, MenuRunsInstalled, At
<1> QED
  BY <1>1, <1>2, TypeInit, TypeStep, CacheStep, StatusStep, ProgressStep, LoadedStep,
     PTL DEF Spec

(* A step that ends the set-up without a failure completes the update.     *)
LEMMA SuccessStep ==
  TypeOK /\ Progress /\ [Next]_vars =>
    (At("setup") /\ ~At("setup")' /\ faults' = faults => Complete)
<1> SUFFICES ASSUME TypeOK, Progress, [Next]_vars, At("setup"), ~At("setup")', faults' = faults
             PROVE  Complete
  OBVIOUS
<1>1. ~Fault
  BY DEF Fault, TypeOK
<1>2. RunSetup
  BY <1>1 DEF Next, UpdateStep, Operator, Start, Quit, Preflight, Pull, InstallLib, UpdatePlugin,
     PluginsDone, Killed, SetupByHand, SetEnabled, Uninstall, SetToken, EditTree, Revert, Release,
     vars, At
<1>3. Setup /\ UNCHANGED <<todo, changed, warned>> /\ enabled' = enabled
  BY <1>1, <1>2 DEF RunSetup, updateVars, Aside, pluginVars
<1>4. /\ tree[Lib] = Pin[head][Lib] /\ tree \in [Modules -> Nat]
      /\ \A k \in Catalog[head] : Settled(k)
  BY DEF Progress, TypeOK, At
<1>5. tree' = tree /\ head' = head /\ deps' = head
  BY <1>3, <1>4 DEF Setup
<1> QED
  BY <1>3, <1>4, <1>5 DEF Complete, Settled

(* A success leaves the release that was pulled complete.                  *)
THEOREM SuccessCorrect == Spec => SuccessIsComplete
<1>1. Init => Progress
  BY DEF Init, Progress, At
<1>2. TypeOK /\ Progress /\ [Next]_vars =>
        [At("setup") /\ ~At("setup")' /\ faults' = faults => Complete]_vars
  BY SuccessStep
<1> QED
  BY <1>1, <1>2, TypeInit, TypeStep, ProgressStep, PTL DEF Spec, SuccessIsComplete
=============================================================================
