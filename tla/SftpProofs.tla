----------------------------- MODULE SftpProofs -----------------------------
(***************************************************************************)
(* Proofs about Sftp for any users, templates, points, keys and bounds:    *)
(* every edit keeps the configuration sound, Apply saves what it serves    *)
(* and takes away what was deleted.                                        *)
(***************************************************************************)
EXTENDS Sftp, TLAPS

----------------------------------------------------------------------------
(* What an edit does to one configuration.                                 *)

(* The fields of a configuration.                                          *)
LEMMA Fields ==
  ASSUME NEW c \in Configs
  PROVE  /\ c.users \subseteq Users /\ c.templates \subseteq Templates
         /\ c.local \in [Users -> [Labels -> Points \cup {None}]]
         /\ c.keys \in [Users -> SUBSET Keys]
         /\ c.assigned \in [Users -> SUBSET Templates]
         /\ c.over \in [Users -> [Ids -> Access \cup {None}]]
         /\ c.mounts \in [Ids -> Mounts \cup {None}]
BY DEF Configs

(* A mount that is there is a record.                                      *)
LEMMA MountIsRecord ==
  ASSUME NEW c \in Configs, NEW i \in Ids, c.mounts[i] # None
  PROVE  c.mounts[i] \in Mounts
BY Fields

(* An edit opens no point a user did not see before.                       *)
OpensNothing(c, d) ==
  \A u \in Users, i \in Ids : d.over[u][i] # None => c.over[u][i] # None \/ i \in Shown(c, u)

(* ... and takes no user away.                                            *)
KeepsUsers(c, d) == c.users \subseteq d.users

LEMMA SameOverrides ==
  ASSUME NEW c, NEW d, d.over = c.over PROVE OpensNothing(c, d)
BY DEF OpensNothing

(* A user who sees the same resolves alike.                                *)
LEMMA SameView ==
  ASSUME NEW c, NEW d, NEW u, Shown(d, u) = Shown(c, u), d.mounts = c.mounts,
         d.local = c.local, Resolves(c, u)
  PROVE  Resolves(d, u)
BY DEF Resolves

(* The empty configuration is sound.                                       *)
LEMMA EmptyIsSound == Sound(Empty)
<1>1. Empty \in Configs
  BY DEF Empty, Configs
<1>2. QED
  BY <1>1 DEF Empty, Sound, Resolves, Shown, OverridesAreShown, OthersAreBlank,
              AssignedExist

(* A new user has nothing yet.                                             *)
LEMMA UsersEdit ==
  ASSUME NEW c, Sound(c), NEW u \in Users,
         NEW d, d = [c EXCEPT !.users = @ \cup {u}]
  PROVE  Sound(d) /\ OpensNothing(c, d) /\ KeepsUsers(c, d)
<1>1. c \in Configs
  BY DEF Sound
<1>2. d \in Configs
  <2>1. c.users \cup {u} \in SUBSET Users
    BY <1>1, Fields
  <2>2. QED
    BY <1>1, <2>1, Fields DEF Configs
<1>3. /\ d.users = c.users \cup {u} /\ d.templates = c.templates /\ d.local = c.local
      /\ d.keys = c.keys /\ d.assigned = c.assigned /\ d.over = c.over
      /\ d.mounts = c.mounts
  BY <1>1 DEF Configs
<1>4. \A w \in Users : Shown(d, w) = Shown(c, w)
  BY <1>3 DEF Shown
<1>5. ASSUME NEW w \in Users PROVE Resolves(d, w)
  <2>1. Resolves(c, w)
    BY DEF Sound
  <2>2. QED
    BY <1>3, <1>4, <2>1 DEF Resolves
<1>6. OverridesAreShown(d)
  BY <1>3, <1>4 DEF Sound, OverridesAreShown
<1>7. OthersAreBlank(d)
  BY <1>3 DEF Sound, OthersAreBlank
<1>8. AssignedExist(d)
  BY <1>3 DEF Sound, AssignedExist
<1>9. OpensNothing(c, d)
  BY <1>3, SameOverrides
<1>10. QED
  BY <1>2, <1>3, <1>5, <1>6, <1>7, <1>8, <1>9 DEF Sound, KeepsUsers

(* A user goes with everything that is his.                                *)
LEMMA WithoutEdit ==
  ASSUME NEW c, Sound(c), NEW u \in Users
  PROVE  Sound(Without(c, u)) /\ OpensNothing(c, Without(c, u))
<1> DEFINE d == Without(c, u)
<1>1. c \in Configs
  BY DEF Sound
<1>2. /\ d.users = c.users \ {u} /\ d.templates = c.templates /\ d.mounts = c.mounts
      /\ d.local = [c.local EXCEPT ![u] = [l \in Labels |-> None]]
      /\ d.keys = [c.keys EXCEPT ![u] = {}]
      /\ d.assigned = [c.assigned EXCEPT ![u] = {}]
      /\ d.over = [c.over EXCEPT ![u] = [i \in Ids |-> None]]
  BY <1>1 DEF Without, Empty, Configs
<1>3. d \in Configs
  BY <1>1 DEF Without, Empty, Configs
<1>4. ASSUME NEW v \in Users, v # u
      PROVE  /\ d.local[v] = c.local[v] /\ d.keys[v] = c.keys[v]
             /\ d.assigned[v] = c.assigned[v] /\ d.over[v] = c.over[v]
             /\ Shown(d, v) = Shown(c, v)
  <2>1. /\ d.local[v] = c.local[v] /\ d.keys[v] = c.keys[v]
        /\ d.assigned[v] = c.assigned[v] /\ d.over[v] = c.over[v]
    BY <1>1, <1>2, <1>4, Fields
  <2>2. QED
    BY <1>2, <2>1 DEF Shown
<1>5. /\ \A l \in Labels : d.local[u][l] = None
      /\ d.keys[u] = {} /\ d.assigned[u] = {}
      /\ \A i \in Ids : d.over[u][i] = None
      /\ Shown(d, u) = {}
  <2>1. /\ \A l \in Labels : d.local[u][l] = None
        /\ d.keys[u] = {} /\ d.assigned[u] = {}
        /\ \A i \in Ids : d.over[u][i] = None
    BY <1>1, <1>2, Fields
  <2>2. QED
    BY <2>1 DEF Shown
<1> HIDE DEF d
<1>6. \A v \in Users : Resolves(d, v)
  BY <1>2, <1>4, <1>5 DEF Sound, Resolves
<1>7. OverridesAreShown(d) /\ OpensNothing(c, d)
  BY <1>4, <1>5 DEF Sound, OverridesAreShown, OpensNothing
<1>8. OthersAreBlank(d)
  BY <1>2, <1>4, <1>5 DEF Sound, OthersAreBlank
<1>9. AssignedExist(d)
  BY <1>2, <1>4, <1>5 DEF Sound, AssignedExist
<1>10. \A v \in Users : \A k \in d.keys[v] : LogsIn(k)
  BY <1>4, <1>5 DEF Sound
<1>11. Sound(d)
  BY <1>3, <1>6, <1>7, <1>8, <1>9, <1>10 DEF Sound
<1>12. QED
  BY <1>7, <1>11 DEF d

(* One local mountpoint is made, changed or deleted.                       *)
LEMMA LocalEdit ==
  ASSUME NEW c, Sound(c), NEW u \in c.users, NEW l \in Labels,
         NEW v \in Points \cup {None},
         v # None => \A i \in Shown(c, u) : c.mounts[i].label # l,
         NEW d, d = [c EXCEPT !.local[u][l] = v]
  PROVE  Sound(d) /\ OpensNothing(c, d) /\ KeepsUsers(c, d)
<1>1. c \in Configs /\ u \in Users
  BY DEF Sound, Configs
<1>2. /\ d.users = c.users /\ d.templates = c.templates /\ d.keys = c.keys
      /\ d.assigned = c.assigned /\ d.over = c.over /\ d.mounts = c.mounts
      /\ d.local = [c.local EXCEPT ![u] = [c.local[u] EXCEPT ![l] = v]]
  BY <1>1 DEF Configs
<1>3. d \in Configs
  <2>1. [c.local[u] EXCEPT ![l] = v] \in [Labels -> Points \cup {None}]
    BY <1>1, Fields
  <2>2. [c.local EXCEPT ![u] = [c.local[u] EXCEPT ![l] = v]]
          \in [Users -> [Labels -> Points \cup {None}]]
    BY <1>1, <2>1, Fields
  <2>3. QED
    BY <1>1, <2>2 DEF Configs
<1>4. ASSUME NEW w \in Users, NEW m \in Labels
      PROVE  d.local[w][m] = IF w = u /\ m = l THEN v ELSE c.local[w][m]
  BY <1>1, <1>2, Fields
<1>5. ASSUME NEW w \in Users PROVE Shown(d, w) = Shown(c, w)
  BY <1>2 DEF Shown
<1>6. ASSUME NEW w \in Users PROVE Resolves(d, w)
  <2>1. \A i \in Shown(c, w) : i \in Ids /\ c.mounts[i].label \in Labels
    BY <1>1, MountIsRecord DEF Shown, Mounts
  <2>2. QED
    BY <1>2, <1>4, <1>5, <2>1 DEF Sound, Resolves
<1>7. OthersAreBlank(d)
  BY <1>2, <1>4 DEF Sound, OthersAreBlank
<1>8. OverridesAreShown(d) /\ AssignedExist(d) /\ OpensNothing(c, d)
  BY <1>2, <1>5, SameOverrides DEF Sound, OverridesAreShown, AssignedExist
<1>9. QED
  BY <1>2, <1>3, <1>6, <1>7, <1>8 DEF Sound, KeepsUsers

(* The keys of one user change to acceptable ones.                         *)
LEMMA KeysEdit ==
  ASSUME NEW c, Sound(c), NEW u \in c.users, NEW ks \in SUBSET Keys,
         \A k \in ks : LogsIn(k),
         NEW d, d = [c EXCEPT !.keys[u] = ks]
  PROVE  Sound(d) /\ OpensNothing(c, d) /\ KeepsUsers(c, d)
<1>1. c \in Configs /\ u \in Users
  BY DEF Sound, Configs
<1>2. /\ d.users = c.users /\ d.templates = c.templates /\ d.local = c.local
      /\ d.assigned = c.assigned /\ d.over = c.over /\ d.mounts = c.mounts
      /\ d.keys = [c.keys EXCEPT ![u] = ks]
  BY <1>1 DEF Configs
<1>3. d \in Configs
  <2>1. [c.keys EXCEPT ![u] = ks] \in [Users -> SUBSET Keys]
    BY <1>1, Fields
  <2>2. QED
    BY <1>1, <2>1 DEF Configs
<1>4. \A w \in Users : d.keys[w] = IF w = u THEN ks ELSE c.keys[w]
  BY <1>1, <1>2, Fields
<1>5. \A w \in Users : Resolves(d, w) /\ Shown(d, w) = Shown(c, w)
  BY <1>2 DEF Sound, Resolves, Shown
<1>6. OverridesAreShown(d)
  BY <1>2, <1>5 DEF Sound, OverridesAreShown
<1>7. AssignedExist(d)
  BY <1>2 DEF Sound, AssignedExist
<1>8. OthersAreBlank(d)
  BY <1>2, <1>4 DEF Sound, OthersAreBlank
<1>9. OpensNothing(c, d)
  BY <1>2, SameOverrides
<1>10. QED
  BY <1>3, <1>4, <1>5, <1>6, <1>7, <1>8, <1>9 DEF Sound, KeepsUsers

(* A user takes a template, if he still resolves.                          *)
LEMMA AssignEdit ==
  ASSUME NEW c, Sound(c), NEW u \in c.users, NEW t \in c.templates,
         NEW d, d = [c EXCEPT !.assigned[u] = @ \cup {t}], Resolves(d, u)
  PROVE  Sound(d) /\ OpensNothing(c, d) /\ KeepsUsers(c, d)
<1>1. c \in Configs /\ u \in Users /\ t \in Templates
  BY DEF Sound, Configs
<1>2. /\ d.users = c.users /\ d.templates = c.templates /\ d.local = c.local
      /\ d.keys = c.keys /\ d.over = c.over /\ d.mounts = c.mounts
      /\ d.assigned = [c.assigned EXCEPT ![u] = @ \cup {t}]
  BY <1>1 DEF Configs
<1>3. d \in Configs
  <2>1. c.assigned[u] \cup {t} \in SUBSET Templates
    BY <1>1, Fields
  <2>2. [c.assigned EXCEPT ![u] = @ \cup {t}] \in [Users -> SUBSET Templates]
    BY <1>1, <2>1, Fields
  <2>3. QED
    BY <1>1, <2>2 DEF Configs
<1>4. ASSUME NEW w \in Users
      PROVE  d.assigned[w] = IF w = u THEN c.assigned[u] \cup {t} ELSE c.assigned[w]
  BY <1>1, <1>2, Fields
<1>5. ASSUME NEW w \in Users
      PROVE  /\ Shown(c, w) \subseteq Shown(d, w)
             /\ w # u => Shown(d, w) = Shown(c, w)
  BY <1>2, <1>4 DEF Shown
<1>6. ASSUME NEW w \in Users PROVE Resolves(d, w)
  <2>1. CASE w # u
    <3>1. Resolves(c, w)
      BY DEF Sound
    <3>2. Shown(d, w) = Shown(c, w)
      BY <1>5, <2>1
    <3>3. d.mounts = c.mounts /\ d.local = c.local
      BY <1>2
    <3>4. QED
      BY <3>1, <3>2, <3>3, SameView
  <2>2. QED
    BY <2>1
<1>7. OverridesAreShown(d)
  BY <1>2, <1>5 DEF Sound, OverridesAreShown
<1>8. AssignedExist(d)
  BY <1>2, <1>4 DEF Sound, AssignedExist
<1>9. OthersAreBlank(d)
  BY <1>2, <1>4 DEF Sound, OthersAreBlank
<1>10. OpensNothing(c, d)
  BY <1>2, SameOverrides
<1>11. QED
  BY <1>2, <1>3, <1>6, <1>7, <1>8, <1>9, <1>10 DEF Sound, KeepsUsers

(* A user opens or closes a point he sees.                                 *)
LEMMA OverEdit ==
  ASSUME NEW c, Sound(c), NEW u \in c.users, NEW i \in Shown(c, u), NEW v \in Access,
         NEW d, d = [c EXCEPT !.over[u][i] = v]
  PROVE  Sound(d) /\ OpensNothing(c, d) /\ KeepsUsers(c, d)
<1>1. c \in Configs /\ u \in Users /\ i \in Ids
  BY DEF Sound, Configs, Shown
<1>2. /\ d.users = c.users /\ d.templates = c.templates /\ d.local = c.local
      /\ d.keys = c.keys /\ d.assigned = c.assigned /\ d.mounts = c.mounts
      /\ d.over = [c.over EXCEPT ![u] = [c.over[u] EXCEPT ![i] = v]]
  BY <1>1 DEF Configs
<1>3. d \in Configs
  <2>1. [c.over[u] EXCEPT ![i] = v] \in [Ids -> Access \cup {None}]
    BY <1>1, Fields
  <2>2. [c.over EXCEPT ![u] = [c.over[u] EXCEPT ![i] = v]]
          \in [Users -> [Ids -> Access \cup {None}]]
    BY <1>1, <2>1, Fields
  <2>3. QED
    BY <1>1, <2>2 DEF Configs
<1>4. ASSUME NEW w \in Users, NEW j \in Ids
      PROVE  d.over[w][j] = IF w = u /\ j = i THEN v ELSE c.over[w][j]
  BY <1>1, <1>2, Fields
<1>5. ASSUME NEW w \in Users PROVE Shown(d, w) = Shown(c, w)
  BY <1>2 DEF Shown
<1>6. ASSUME NEW w \in Users PROVE Resolves(d, w)
  <2>1. Resolves(c, w)
    BY DEF Sound
  <2>2. QED
    BY <1>2, <1>5, <2>1 DEF Resolves
<1>7. OverridesAreShown(d) /\ OpensNothing(c, d)
  BY <1>4, <1>5 DEF Sound, OverridesAreShown, OpensNothing
<1>8. AssignedExist(d)
  BY <1>2 DEF Sound, AssignedExist
<1>9. OthersAreBlank(d)
  BY <1>2 DEF Sound, OthersAreBlank
<1>10. QED
  BY <1>2, <1>3, <1>6, <1>7, <1>8, <1>9 DEF Sound, KeepsUsers

(* One point of a template is made or changed, and everybody who has the   *)
(* template still resolves.                                                *)
LEMMA PointEdit ==
  ASSUME NEW c, Sound(c), NEW i \in Ids, NEW m \in Mounts, m.tpl \in c.templates,
         c.mounts[i] # None => c.mounts[i].tpl = m.tpl,
         NEW d, d = [c EXCEPT !.mounts[i] = m], AssignedUsersResolve(d, m.tpl)
  PROVE  Sound(d) /\ OpensNothing(c, d) /\ KeepsUsers(c, d)
<1>1. c \in Configs
  BY DEF Sound
<1>2. /\ d.users = c.users /\ d.templates = c.templates /\ d.local = c.local
      /\ d.keys = c.keys /\ d.assigned = c.assigned /\ d.over = c.over
      /\ d.mounts = [c.mounts EXCEPT ![i] = m]
  BY <1>1 DEF Configs
<1>3. d \in Configs
  <2>1. [c.mounts EXCEPT ![i] = m] \in [Ids -> Mounts \cup {None}]
    BY <1>1, Fields
  <2>2. QED
    BY <1>1, <2>1 DEF Configs
<1>4. ASSUME NEW j \in Ids PROVE d.mounts[j] = IF j = i THEN m ELSE c.mounts[j]
  BY <1>1, <1>2, Fields
<1>5. m # None
  BY NoneIsNothing
<1>6. ASSUME NEW w \in Users PROVE Shown(c, w) \subseteq Shown(d, w)
  BY <1>2, <1>4, <1>5 DEF Shown
<1>7. ASSUME NEW w \in Users PROVE Resolves(d, w)
  <2>1. CASE m.tpl \in d.assigned[w]
    <3>1. w \in d.users
      BY <1>2, <2>1 DEF Sound, OthersAreBlank
    <3>2. QED
      BY <2>1, <3>1 DEF AssignedUsersResolve
  <2>2. CASE m.tpl \notin d.assigned[w]
    <3>1. Resolves(c, w)
      BY DEF Sound
    <3>2. i \notin Shown(d, w) /\ Shown(d, w) = Shown(c, w)
      BY <1>2, <1>4, <1>6, <2>2 DEF Shown
    <3>3. \A j \in Shown(d, w) : j \in Ids /\ d.mounts[j] = c.mounts[j]
      BY <1>4, <3>2 DEF Shown
    <3>4. QED
      BY <1>2, <3>1, <3>2, <3>3 DEF Resolves
  <2>3. QED
    BY <2>1, <2>2
<1>8. OverridesAreShown(d)
  BY <1>2, <1>6 DEF Sound, OverridesAreShown
<1>9. AssignedExist(d)
  BY <1>2, <1>4 DEF Sound, AssignedExist
<1>10. OthersAreBlank(d)
  BY <1>2 DEF Sound, OthersAreBlank
<1>11. OpensNothing(c, d)
  BY <1>2, SameOverrides
<1>12. QED
  BY <1>2, <1>3, <1>7, <1>8, <1>9, <1>10, <1>11 DEF Sound, KeepsUsers

(* A new template, with or without points: nobody has it.                  *)
LEMMA TemplateEdit ==
  ASSUME NEW c, Sound(c), NEW t \in Templates, t \notin c.templates,
         NEW m \in [Ids -> Mounts \cup {None}],
         \A i \in Ids : m[i] = c.mounts[i] \/ (c.mounts[i] = None /\ m[i].tpl = t),
         NEW d, d = [c EXCEPT !.templates = @ \cup {t}, !.mounts = m]
  PROVE  Sound(d) /\ OpensNothing(c, d) /\ KeepsUsers(c, d)
<1>1. c \in Configs
  BY DEF Sound
<1>2. /\ d.users = c.users /\ d.templates = c.templates \cup {t} /\ d.local = c.local
      /\ d.keys = c.keys /\ d.assigned = c.assigned /\ d.over = c.over /\ d.mounts = m
  BY <1>1 DEF Configs
<1>3. d \in Configs
  <2>1. c.templates \cup {t} \in SUBSET Templates
    BY <1>1, Fields
  <2>2. QED
    BY <1>1, <2>1 DEF Configs
<1>4. ASSUME NEW w \in Users
      PROVE  /\ Shown(d, w) = Shown(c, w)
             /\ \A i \in Shown(d, w) : d.mounts[i] = c.mounts[i]
  <2>1. t \notin c.assigned[w]
    BY DEF Sound, AssignedExist
  <2>2. QED
    BY <1>2, <2>1 DEF Shown
<1>5. ASSUME NEW w \in Users PROVE Resolves(d, w)
  <2>1. Resolves(c, w)
    BY DEF Sound
  <2>2. QED
    BY <1>2, <1>4, <2>1 DEF Resolves
<1>6. OverridesAreShown(d)
  BY <1>2, <1>4 DEF Sound, OverridesAreShown
<1>7. AssignedExist(d)
  BY <1>2 DEF Sound, AssignedExist
<1>8. OthersAreBlank(d)
  BY <1>2 DEF Sound, OthersAreBlank
<1>9. OpensNothing(c, d)
  BY <1>2, SameOverrides
<1>10. QED
  BY <1>2, <1>3, <1>5, <1>6, <1>7, <1>8, <1>9 DEF Sound, KeepsUsers

(* Templates, points or assignments go, and with them their overrides.     *)
LEMMA Narrower ==
  ASSUME NEW c, Sound(c), NEW d \in Configs,
         d.users = c.users, d.local = c.local, d.keys = c.keys,
         \A w \in Users : d.assigned[w] \subseteq c.assigned[w],
         \A w \in Users : \A i \in Shown(d, w) :
           i \in Shown(c, w) /\ d.mounts[i] = c.mounts[i],
         \A w \in Users, i \in Ids :
           d.over[w][i] # None => c.over[w][i] # None /\ i \in Shown(d, w),
         AssignedExist(d)
  PROVE  Sound(d) /\ OpensNothing(c, d) /\ KeepsUsers(c, d)
<1>1. ASSUME NEW w \in Users PROVE Resolves(d, w)
  <2>1. Resolves(c, w)
    BY DEF Sound
  <2>2. QED
    BY <2>1 DEF Resolves
<1>2. OverridesAreShown(d)
  BY DEF OverridesAreShown
<1>3. OthersAreBlank(d)
  BY DEF Sound, OthersAreBlank
<1>4. OpensNothing(c, d)
  BY DEF OpensNothing
<1>5. QED
  BY <1>1, <1>2, <1>3, <1>4 DEF Sound, KeepsUsers

----------------------------------------------------------------------------
(* What the menus do to the configuration they hold.                       *)

(* The configuration stays sound, no point opens and no user goes.         *)
GoodEdit == Sound(cfg') /\ OpensNothing(cfg, cfg') /\ KeepsUsers(cfg, cfg')

(* A local mountpoint that is there is a record, and no point of the       *)
(* user's templates has its label.                                         *)
LEMMA LocalIsRecord ==
  ASSUME Sound(cfg), NEW u \in cfg.users, NEW l \in Locals(cfg, u)
  PROVE  /\ u \in Users /\ l \in Labels /\ cfg.local[u][l] \in Points
         /\ \A i \in Shown(cfg, u) : cfg.mounts[i].label # l
<1>1. cfg \in Configs
  BY DEF Sound
<1>2. u \in Users /\ l \in Labels /\ cfg.local[u][l] # None
  BY <1>1, Fields DEF Locals
<1>3. Resolves(cfg, u)
  BY <1>2 DEF Sound
<1>4. cfg.local[u][l] \in Points
  BY <1>1, <1>2, Fields
<1>5. QED
  BY <1>2, <1>3, <1>4 DEF Resolves

LEMMA CreateUserGood ==
  ASSUME Sound(cfg), NEW u \in Users, CreateUser(u)
  PROVE  GoodEdit
<1>1. cfg' = [cfg EXCEPT !.users = @ \cup {u}]
  BY DEF CreateUser, Edit
<1>2. QED
  BY <1>1, UsersEdit DEF GoodEdit

LEMMA AddMountpointGood ==
  ASSUME Sound(cfg), NEW u \in Users, NEW l \in Labels, NEW p \in Paths,
         NEW rw \in BOOLEAN, AddMountpoint(u, l, p, rw)
  PROVE  GoodEdit
<1> DEFINE v == [path |-> p, on |-> TRUE, rw |-> rw]
<1>1. u \in cfg.users /\ cfg' = [cfg EXCEPT !.local[u][l] = v]
  BY DEF AddMountpoint, Edit
<1>2. v \in Points
  BY DEF Points
<1>3. \A i \in Shown(cfg, u) : cfg.mounts[i].label # l
  BY DEF AddMountpoint, LabelTaken
<1> HIDE DEF v
<1>4. QED
  BY <1>1, <1>2, <1>3, LocalEdit DEF GoodEdit

LEMMA EnableMountpointGood ==
  ASSUME Sound(cfg), NEW u \in Users, NEW l \in Labels, NEW on \in BOOLEAN,
         EnableMountpoint(u, l, on)
  PROVE  GoodEdit
<1> DEFINE v == [cfg.local[u][l] EXCEPT !.on = on]
<1>1. u \in cfg.users /\ l \in Locals(cfg, u) /\ cfg' = [cfg EXCEPT !.local[u][l] = v]
  BY DEF EnableMountpoint, Edit
<1>2. v \in Points /\ \A i \in Shown(cfg, u) : cfg.mounts[i].label # l
  BY <1>1, LocalIsRecord DEF Points
<1> HIDE DEF v
<1>3. QED
  BY <1>1, <1>2, LocalEdit DEF GoodEdit

LEMMA SetReadOnlyGood ==
  ASSUME Sound(cfg), NEW u \in Users, NEW l \in Labels, NEW rw \in BOOLEAN,
         SetReadOnly(u, l, rw)
  PROVE  GoodEdit
<1> DEFINE v == [cfg.local[u][l] EXCEPT !.rw = rw]
<1>1. u \in cfg.users /\ l \in Locals(cfg, u) /\ cfg' = [cfg EXCEPT !.local[u][l] = v]
  BY DEF SetReadOnly, Edit
<1>2. v \in Points /\ \A i \in Shown(cfg, u) : cfg.mounts[i].label # l
  BY <1>1, LocalIsRecord DEF Points
<1> HIDE DEF v
<1>3. QED
  BY <1>1, <1>2, LocalEdit DEF GoodEdit

LEMMA SetPathGood ==
  ASSUME Sound(cfg), NEW u \in Users, NEW l \in Labels, NEW p \in Paths,
         SetPath(u, l, p)
  PROVE  GoodEdit
<1> DEFINE v == [cfg.local[u][l] EXCEPT !.path = p]
<1>1. u \in cfg.users /\ l \in Locals(cfg, u) /\ cfg' = [cfg EXCEPT !.local[u][l] = v]
  BY DEF SetPath, Edit
<1>2. v \in Points /\ \A i \in Shown(cfg, u) : cfg.mounts[i].label # l
  BY <1>1, LocalIsRecord DEF Points
<1> HIDE DEF v
<1>3. QED
  BY <1>1, <1>2, LocalEdit DEF GoodEdit

LEMMA DeleteMountpointGood ==
  ASSUME Sound(cfg), NEW u \in Users, NEW l \in Labels, DeleteMountpoint(u, l)
  PROVE  GoodEdit
<1>1. u \in cfg.users /\ cfg' = [cfg EXCEPT !.local[u][l] = None]
  BY DEF DeleteMountpoint, Edit
<1>2. QED
  BY <1>1, LocalEdit DEF GoodEdit

LEMMA AddKeyGood ==
  ASSUME Sound(cfg), NEW u \in Users, NEW k \in Keys, AddKey(u, k)
  PROVE  GoodEdit
<1> DEFINE ks == cfg.keys[u] \cup {k}
<1>1. u \in cfg.users /\ cfg' = [cfg EXCEPT !.keys[u] = ks] /\ LogsIn(k)
  BY DEF AddKey, Edit, Accepted, LogsIn
<1>2. ks \in SUBSET Keys
  BY Fields DEF Sound
<1>3. \A j \in ks : LogsIn(j)
  BY <1>1 DEF Sound
<1> HIDE DEF ks
<1>4. QED
  BY <1>1, <1>2, <1>3, KeysEdit DEF GoodEdit

LEMMA DeleteKeyGood ==
  ASSUME Sound(cfg), NEW u \in Users, NEW k \in Keys, DeleteKey(u, k)
  PROVE  GoodEdit
<1> DEFINE ks == cfg.keys[u] \ {k}
<1>1. u \in cfg.users /\ cfg' = [cfg EXCEPT !.keys[u] = ks]
  BY DEF DeleteKey, Edit
<1>2. ks \in SUBSET Keys
  BY Fields DEF Sound
<1>3. \A j \in ks : LogsIn(j)
  BY DEF Sound
<1> HIDE DEF ks
<1>4. QED
  BY <1>1, <1>2, <1>3, KeysEdit DEF GoodEdit

LEMMA AssignTemplateGood ==
  ASSUME Sound(cfg), NEW u \in Users, NEW t \in Templates, AssignTemplate(u, t)
  PROVE  GoodEdit
<1>1. /\ u \in cfg.users /\ t \in cfg.templates
      /\ cfg' = [cfg EXCEPT !.assigned[u] = @ \cup {t}] /\ Resolves(cfg', u)
  BY DEF AssignTemplate, Edit
<1>2. QED
  BY <1>1, AssignEdit DEF GoodEdit

(* The access a user has to a point is a record.                           *)
LEMMA GrantedIsAccess ==
  ASSUME Sound(cfg), NEW u \in Users, NEW i \in Ids
  PROVE  Granted(cfg, u, i) \in Access
<1>1. cfg.over[u][i] \in Access \cup {None}
  BY Fields DEF Sound
<1>2. QED
  BY <1>1 DEF Granted, Access

LEMMA EnablePointGood ==
  ASSUME Sound(cfg), NEW u \in Users, NEW i \in Ids, NEW on \in BOOLEAN,
         EnablePoint(u, i, on)
  PROVE  GoodEdit
<1> DEFINE v == [on |-> on, rw |-> Granted(cfg, u, i).rw]
<1>1. u \in cfg.users /\ i \in Shown(cfg, u) /\ cfg' = [cfg EXCEPT !.over[u][i] = v]
  BY DEF EnablePoint, Edit
<1>2. v \in Access
  BY GrantedIsAccess DEF Access
<1> HIDE DEF v
<1>3. QED
  BY <1>1, <1>2, OverEdit DEF GoodEdit

LEMMA SetPointReadOnlyGood ==
  ASSUME Sound(cfg), NEW u \in Users, NEW i \in Ids, NEW rw \in BOOLEAN,
         SetPointReadOnly(u, i, rw)
  PROVE  GoodEdit
<1> DEFINE v == [on |-> Granted(cfg, u, i).on, rw |-> rw]
<1>1. u \in cfg.users /\ i \in Shown(cfg, u) /\ cfg' = [cfg EXCEPT !.over[u][i] = v]
  BY DEF SetPointReadOnly, Edit
<1>2. v \in Access
  BY GrantedIsAccess DEF Access
<1> HIDE DEF v
<1>3. QED
  BY <1>1, <1>2, OverEdit DEF GoodEdit

LEMMA CreateTemplateGood ==
  ASSUME Sound(cfg), NEW t \in Templates, CreateTemplate(t)
  PROVE  GoodEdit
<1>1. cfg \in Configs /\ t \notin cfg.templates
  BY DEF Sound, CreateTemplate
<1>2. cfg' = [cfg EXCEPT !.templates = @ \cup {t}]
  BY DEF CreateTemplate, Edit
<1> DEFINE m == cfg.mounts
<1>3. cfg' = [cfg EXCEPT !.templates = @ \cup {t}, !.mounts = m]
  BY <1>1, <1>2 DEF Configs
<1>4. m \in [Ids -> Mounts \cup {None}]
  BY <1>1, Fields
<1>5. \A i \in Ids : m[i] = cfg.mounts[i] \/ (cfg.mounts[i] = None /\ m[i].tpl = t)
  OBVIOUS
<1> HIDE DEF m
<1>6. Sound(cfg') /\ OpensNothing(cfg, cfg') /\ KeepsUsers(cfg, cfg')
  BY <1>1, <1>3, <1>4, <1>5, TemplateEdit
<1>7. QED
  BY <1>6 DEF GoodEdit

LEMMA CreateFromUserGood ==
  ASSUME Sound(cfg), NEW t \in Templates, NEW u \in Users, CreateFromUser(t, u)
  PROVE  GoodEdit
<1>1. cfg \in Configs /\ t \notin cfg.templates /\ u \in cfg.users
  BY DEF Sound, CreateFromUser
<1>2. PICK id \in [Locals(cfg, u) -> Unused(cfg)] :
        LET from(i) == CHOOSE l \in Locals(cfg, u) : id[l] = i
            made == {id[l] : l \in Locals(cfg, u)} IN
          Edit([cfg EXCEPT
                 !.templates = @ \cup {t},
                 !.mounts = [i \in Ids |->
                   IF i \in made
                     THEN [tpl |-> t, label |-> from(i), path |-> cfg.local[u][from(i)].path]
                     ELSE cfg.mounts[i]]])
  BY DEF CreateFromUser
<1> DEFINE from(i) == CHOOSE l \in Locals(cfg, u) : id[l] = i
           made == {id[l] : l \in Locals(cfg, u)}
           m == [i \in Ids |->
                  IF i \in made
                    THEN [tpl |-> t, label |-> from(i), path |-> cfg.local[u][from(i)].path]
                    ELSE cfg.mounts[i]]
<1>3. cfg' = [cfg EXCEPT !.templates = @ \cup {t}, !.mounts = m]
  BY <1>2 DEF Edit
<1>4. ASSUME NEW i \in made
      PROVE  from(i) \in Labels /\ cfg.local[u][from(i)] \in Points /\ cfg.mounts[i] = None
  <2>1. from(i) \in Locals(cfg, u)
    OBVIOUS
  <2>2. cfg.mounts[i] = None
    BY DEF Unused
  <2>3. QED
    BY <1>1, <2>1, <2>2, LocalIsRecord
<1>5. ASSUME NEW i \in made
      PROVE  [tpl |-> t, label |-> from(i), path |-> cfg.local[u][from(i)].path] \in Mounts
  <2>1. cfg.local[u][from(i)].path \in Paths
    BY <1>4 DEF Points
  <2>2. QED
    BY <1>4, <2>1 DEF Mounts
<1>6. ASSUME NEW i \in Ids
      PROVE  /\ m[i] \in Mounts \cup {None}
             /\ m[i] = cfg.mounts[i] \/ (cfg.mounts[i] = None /\ m[i].tpl = t)
  <2>1. CASE i \in made
    <3>1. m[i] = [tpl |-> t, label |-> from(i), path |-> cfg.local[u][from(i)].path]
      BY <2>1
    <3>2. m[i].tpl = t
      BY <3>1
    <3> HIDE DEF m, from
    <3>3. QED
      BY <1>4, <1>5, <2>1, <3>1, <3>2
  <2>2. CASE i \notin made
    <3>1. m[i] = cfg.mounts[i]
      BY <2>2
    <3>2. cfg.mounts[i] \in Mounts \cup {None}
      BY <1>1, Fields
    <3> HIDE DEF m
    <3>3. QED
      BY <3>1, <3>2
  <2>3. QED
    BY <2>1, <2>2
<1>7. m \in [Ids -> Mounts \cup {None}]
  <2>1. m = [i \in Ids |-> m[i]]
    OBVIOUS
  <2> HIDE DEF m
  <2>2. QED
    BY <1>6, <2>1
<1> HIDE DEF m
<1>8. \A i \in Ids : m[i] = cfg.mounts[i] \/ (cfg.mounts[i] = None /\ m[i].tpl = t)
  BY <1>6
<1>9. Sound(cfg') /\ OpensNothing(cfg, cfg') /\ KeepsUsers(cfg, cfg')
  BY <1>1, <1>3, <1>7, <1>8, TemplateEdit
<1>10. QED
  BY <1>9 DEF GoodEdit

LEMMA AddTemplateMountGood ==
  ASSUME Sound(cfg), NEW t \in Templates, NEW l \in Labels, NEW p \in Paths,
         NEW i \in Ids, AddTemplateMount(t, l, p, i)
  PROVE  GoodEdit
<1> DEFINE m == [tpl |-> t, label |-> l, path |-> p]
<1>1. /\ t \in cfg.templates /\ cfg.mounts[i] = None
      /\ cfg' = [cfg EXCEPT !.mounts[i] = m] /\ AssignedUsersResolve(cfg', t)
  BY DEF AddTemplateMount, Edit, Unused
<1>2. m \in Mounts /\ m.tpl = t
  BY DEF Mounts
<1> HIDE DEF m
<1>3. QED
  BY <1>1, <1>2, PointEdit DEF GoodEdit

LEMMA SetTemplateLabelGood ==
  ASSUME Sound(cfg), NEW i \in Ids, NEW l \in Labels, SetTemplateLabel(i, l)
  PROVE  GoodEdit
<1> DEFINE m == [cfg.mounts[i] EXCEPT !.label = l]
<1>1. /\ cfg.mounts[i] # None /\ cfg' = [cfg EXCEPT !.mounts[i] = m]
      /\ AssignedUsersResolve(cfg', cfg.mounts[i].tpl)
  BY DEF SetTemplateLabel, Edit
<1>2. cfg.mounts[i] \in Mounts
  BY <1>1, MountIsRecord DEF Sound
<1>3. m \in Mounts /\ m.tpl = cfg.mounts[i].tpl
  BY <1>2 DEF Mounts
<1>4. cfg.mounts[i].tpl \in cfg.templates
  BY <1>1 DEF Sound, AssignedExist
<1> HIDE DEF m
<1>5. QED
  BY <1>1, <1>3, <1>4, PointEdit DEF GoodEdit

LEMMA SetTemplatePathGood ==
  ASSUME Sound(cfg), NEW i \in Ids, NEW p \in Paths, SetTemplatePath(i, p)
  PROVE  GoodEdit
<1> DEFINE m == [cfg.mounts[i] EXCEPT !.path = p]
<1>1. /\ cfg \in Configs /\ cfg.mounts[i] # None
      /\ cfg' = [cfg EXCEPT !.mounts[i] = m]
  BY DEF Sound, SetTemplatePath, Edit
<1>2. cfg.mounts[i] \in Mounts
  BY <1>1, MountIsRecord
<1>3. m \in Mounts /\ m.tpl = cfg.mounts[i].tpl /\ m.label = cfg.mounts[i].label
  BY <1>2 DEF Mounts
<1>4. cfg.mounts[i].tpl \in cfg.templates
  BY <1>1 DEF Sound, AssignedExist
<1>5. m # None
  BY <1>3, NoneIsNothing
<1> HIDE DEF m
<1>6. /\ cfg'.local = cfg.local /\ cfg'.assigned = cfg.assigned
      /\ \A j \in Ids : cfg'.mounts[j] = IF j = i THEN m ELSE cfg.mounts[j]
  <2>1. /\ cfg'.local = cfg.local /\ cfg'.assigned = cfg.assigned
        /\ cfg'.mounts = [cfg.mounts EXCEPT ![i] = m]
    BY <1>1 DEF Configs
  <2>2. QED
    BY <1>1, <2>1, Fields
<1>7. ASSUME NEW u \in Users PROVE Resolves(cfg', u)
  <2>1. Resolves(cfg, u)
    BY DEF Sound
  <2>2. Shown(cfg', u) = Shown(cfg, u)
    BY <1>1, <1>3, <1>5, <1>6 DEF Shown
  <2>3. \A j \in Shown(cfg, u) : cfg'.mounts[j].label = cfg.mounts[j].label
    BY <1>3, <1>6 DEF Shown
  <2>4. QED
    BY <1>6, <2>1, <2>2, <2>3 DEF Resolves
<1>8. AssignedUsersResolve(cfg', m.tpl)
  <2>1. cfg'.users \subseteq Users
    <3>1. cfg'.users = cfg.users
      BY <1>1 DEF Configs
    <3>2. QED
      BY <1>1, <3>1, Fields
  <2>2. QED
    BY <1>7, <2>1 DEF AssignedUsersResolve
<1>9. QED
  BY <1>1, <1>3, <1>4, <1>8, PointEdit DEF GoodEdit

(* What is left of the overrides.                                          *)
LEMMA PrunedOnes ==
  ASSUME NEW c \in Configs, NEW us, NEW is
  PROVE  /\ Pruned(c, us, is) \in [Users -> [Ids -> Access \cup {None}]]
         /\ \A u \in Users, i \in Ids :
              Pruned(c, us, is)[u][i] = IF u \in us /\ i \in is THEN None ELSE c.over[u][i]
<1>1. c.over \in [Users -> [Ids -> Access \cup {None}]]
  BY Fields
<1>2. QED
  BY <1>1 DEF Pruned

LEMMA DeleteTemplateMountGood ==
  ASSUME Sound(cfg), NEW i \in Ids, DeleteTemplateMount(i)
  PROVE  GoodEdit
<1>1. cfg \in Configs
  BY DEF Sound
<1>2. cfg' = [cfg EXCEPT !.mounts[i] = None, !.over = Pruned(cfg, Users, {i})]
  BY DEF DeleteTemplateMount, Edit
<1>3. /\ cfg'.users = cfg.users /\ cfg'.templates = cfg.templates
      /\ cfg'.local = cfg.local /\ cfg'.keys = cfg.keys /\ cfg'.assigned = cfg.assigned
      /\ cfg'.mounts = [cfg.mounts EXCEPT ![i] = None]
      /\ cfg'.over = Pruned(cfg, Users, {i})
  BY <1>1, <1>2 DEF Configs
<1>4. \A j \in Ids : cfg'.mounts[j] = IF j = i THEN None ELSE cfg.mounts[j]
  BY <1>1, <1>3, Fields
<1>5. cfg' \in Configs
  <2>1. [cfg.mounts EXCEPT ![i] = None] \in [Ids -> Mounts \cup {None}]
    BY <1>1, Fields
  <2>2. Pruned(cfg, Users, {i}) \in [Users -> [Ids -> Access \cup {None}]]
    BY <1>1, PrunedOnes
  <2>3. QED
    BY <1>1, <1>2, <2>1, <2>2 DEF Configs
<1>6. \A w \in Users : /\ Shown(cfg', w) = Shown(cfg, w) \ {i}
                       /\ \A j \in Shown(cfg', w) : cfg'.mounts[j] = cfg.mounts[j]
  BY <1>3, <1>4 DEF Shown
<1>7. ASSUME NEW w \in Users, NEW j \in Ids, cfg'.over[w][j] # None
      PROVE  cfg.over[w][j] # None /\ j \in Shown(cfg', w)
  <2>1. j # i /\ cfg.over[w][j] # None
    BY <1>1, <1>3, <1>7, PrunedOnes
  <2>2. j \in Shown(cfg, w)
    BY <2>1 DEF Sound, OverridesAreShown
  <2>3. QED
    BY <1>6, <2>1, <2>2
<1>8. AssignedExist(cfg')
  BY <1>3, <1>4 DEF Sound, AssignedExist
<1>9. \A w \in Users : /\ cfg'.assigned[w] \subseteq cfg.assigned[w]
                       /\ \A j \in Shown(cfg', w) : j \in Shown(cfg, w)
                                                   /\ cfg'.mounts[j] = cfg.mounts[j]
  BY <1>3, <1>6
<1>10. QED
  BY <1>3, <1>5, <1>7, <1>8, <1>9, Narrower DEF GoodEdit

LEMMA DeleteTemplateGood ==
  ASSUME Sound(cfg), NEW t \in Templates, DeleteTemplate(t)
  PROVE  GoodEdit
<1> DEFINE m == [i \in Ids |-> IF i \in In(cfg, t) THEN None ELSE cfg.mounts[i]]
           a == [u \in Users |-> cfg.assigned[u] \ {t}]
           o == Pruned(cfg, Users, In(cfg, t))
<1>1. cfg \in Configs
  BY DEF Sound
<1>2. cfg' = [cfg EXCEPT !.templates = @ \ {t}, !.mounts = m, !.assigned = a, !.over = o]
  BY DEF DeleteTemplate, Edit
<1>3. m \in [Ids -> Mounts \cup {None}] /\ a \in [Users -> SUBSET Templates]
  <2>1. \A u \in Users : cfg.assigned[u] \ {t} \in SUBSET Templates
    BY <1>1, Fields
  <2>2. QED
    BY <1>1, <2>1, Fields
<1>4. o \in [Users -> [Ids -> Access \cup {None}]]
  BY <1>1, PrunedOnes
<1>5. /\ \A i \in Ids : m[i] = IF i \in In(cfg, t) THEN None ELSE cfg.mounts[i]
      /\ \A u \in Users : a[u] = cfg.assigned[u] \ {t}
      /\ \A u \in Users, i \in Ids : o[u][i] = IF i \in In(cfg, t) THEN None ELSE cfg.over[u][i]
  BY <1>1, PrunedOnes
<1> HIDE DEF m, a, o
<1>6. /\ cfg'.users = cfg.users /\ cfg'.templates = cfg.templates \ {t}
      /\ cfg'.local = cfg.local /\ cfg'.keys = cfg.keys
      /\ cfg'.assigned = a /\ cfg'.mounts = m /\ cfg'.over = o
  BY <1>1, <1>2 DEF Configs
<1>7. cfg' \in Configs
  <2>1. cfg.templates \ {t} \in SUBSET Templates
    BY <1>1, Fields
  <2>2. QED
    BY <1>1, <1>2, <1>3, <1>4, <2>1 DEF Configs
<1>8. \A w \in Users : /\ Shown(cfg', w) = Shown(cfg, w) \ In(cfg, t)
                       /\ \A j \in Shown(cfg', w) : cfg'.mounts[j] = cfg.mounts[j]
  BY <1>5, <1>6 DEF Shown, In
<1>9. ASSUME NEW w \in Users, NEW j \in Ids, cfg'.over[w][j] # None
      PROVE  cfg.over[w][j] # None /\ j \in Shown(cfg', w)
  <2>1. j \notin In(cfg, t) /\ cfg.over[w][j] # None
    BY <1>5, <1>6, <1>9
  <2>2. j \in Shown(cfg, w)
    BY <2>1 DEF Sound, OverridesAreShown
  <2>3. QED
    BY <1>8, <2>1, <2>2
<1>10. AssignedExist(cfg')
  <2>1. \A u \in Users : cfg'.assigned[u] \subseteq cfg'.templates
    BY <1>5, <1>6 DEF Sound, AssignedExist
  <2>2. ASSUME NEW i \in Ids, cfg'.mounts[i] # None
        PROVE  cfg'.mounts[i].tpl \in cfg'.templates
    <3>1. i \notin In(cfg, t) /\ cfg'.mounts[i] = cfg.mounts[i]
      BY <1>5, <1>6, <2>2
    <3>2. cfg.mounts[i].tpl \in cfg.templates /\ cfg.mounts[i].tpl # t
      BY <2>2, <3>1 DEF Sound, AssignedExist, In
    <3>3. QED
      BY <1>6, <3>1, <3>2
  <2>3. QED
    BY <2>1, <2>2 DEF AssignedExist
<1>11. \A w \in Users : cfg'.assigned[w] \subseteq cfg.assigned[w]
  BY <1>5, <1>6
<1>12. QED
  BY <1>6, <1>7, <1>8, <1>9, <1>10, <1>11, Narrower DEF GoodEdit

LEMMA UnassignTemplateGood ==
  ASSUME Sound(cfg), NEW u \in Users, NEW t \in Templates, UnassignTemplate(u, t)
  PROVE  GoodEdit
<1> DEFINE o == Pruned(cfg, {u}, In(cfg, t))
           a == [cfg.assigned EXCEPT ![u] = cfg.assigned[u] \ {t}]
<1>1. cfg \in Configs
  BY DEF Sound
<1>2. cfg' = [cfg EXCEPT !.assigned = a, !.over = o]
  BY DEF UnassignTemplate, Edit
<1>3. /\ o \in [Users -> [Ids -> Access \cup {None}]]
      /\ \A w \in Users, i \in Ids :
           o[w][i] = IF w = u /\ i \in In(cfg, t) THEN None ELSE cfg.over[w][i]
  BY <1>1, PrunedOnes
<1>4. /\ a \in [Users -> SUBSET Templates]
      /\ \A w \in Users : a[w] = IF w = u THEN cfg.assigned[u] \ {t} ELSE cfg.assigned[w]
  <2>1. cfg.assigned[u] \ {t} \in SUBSET Templates
    BY <1>1, Fields
  <2>2. QED
    BY <1>1, <2>1, Fields
<1> HIDE DEF o, a
<1>5. /\ cfg'.users = cfg.users /\ cfg'.templates = cfg.templates
      /\ cfg'.local = cfg.local /\ cfg'.keys = cfg.keys /\ cfg'.mounts = cfg.mounts
      /\ cfg'.assigned = a /\ cfg'.over = o
  BY <1>1, <1>2 DEF Configs
<1>6. cfg' \in Configs
  BY <1>1, <1>2, <1>3, <1>4 DEF Configs
<1>7. \A w \in Users : Shown(cfg', w) = IF w = u THEN Shown(cfg, w) \ In(cfg, t)
                                                ELSE Shown(cfg, w)
  BY <1>4, <1>5 DEF Shown, In
<1>8. ASSUME NEW w \in Users, NEW j \in Ids, cfg'.over[w][j] # None
      PROVE  cfg.over[w][j] # None /\ j \in Shown(cfg', w)
  <2>1. cfg.over[w][j] # None /\ ~(w = u /\ j \in In(cfg, t))
    BY <1>3, <1>5, <1>8
  <2>2. j \in Shown(cfg, w)
    BY <2>1 DEF Sound, OverridesAreShown
  <2>3. QED
    BY <1>7, <2>1, <2>2
<1>9. AssignedExist(cfg')
  BY <1>4, <1>5 DEF Sound, AssignedExist
<1>10. \A w \in Users : /\ cfg'.assigned[w] \subseteq cfg.assigned[w]
                        /\ \A i \in Shown(cfg', w) : i \in Shown(cfg, w)
                                                    /\ cfg'.mounts[i] = cfg.mounts[i]
  BY <1>4, <1>5, <1>7
<1>11. QED
  BY <1>5, <1>6, <1>8, <1>9, <1>10, Narrower DEF GoodEdit

----------------------------------------------------------------------------
(* What an edit does to the rest.                                          *)
Edited ==
  /\ Sound(cfg') /\ OpensNothing(cfg, cfg')
  /\ phase = "idle" /\ edits < MaxEdits /\ edits' = edits + 1 /\ changed' = TRUE
  /\ UNCHANGED <<file, system, phase, saved, broken, blind, faults, kills>>
  /\ deleted \subseteq deleted' /\ deleted' \subseteq deleted \cup Users
  /\ \A u \in cfg.users : u \in cfg'.users \/ u \in deleted'

LEMMA GoodIsEdited ==
  ASSUME NEW c, GoodEdit, Edit(c), Keep PROVE Edited
BY DEF GoodEdit, Edit, Keep, Edited, KeepsUsers

LEMMA DeleteUserEdited ==
  ASSUME Sound(cfg), NEW u \in Users, DeleteUser(u) PROVE Edited
<1>1. cfg' = Without(cfg, u)
  BY DEF DeleteUser, Edit
<1>2. Sound(cfg') /\ OpensNothing(cfg, cfg')
  BY <1>1, WithoutEdit
<1>3. cfg'.users = cfg.users \ {u}
  BY <1>1 DEF Without, Sound, Configs
<1>4. QED
  BY <1>2, <1>3 DEF DeleteUser, Edit, Edited

LEMMA EditUserEdited ==
  ASSUME Sound(cfg), NEW u \in Users, EditUser(u) PROVE Edited
<1>1. CASE CreateUser(u)
  BY <1>1, CreateUserGood, GoodIsEdited DEF CreateUser
<1>2. CASE DeleteUser(u)
  BY <1>2, DeleteUserEdited
<1>3. ASSUME NEW l \in Labels, NEW p \in Paths, NEW rw \in BOOLEAN, AddMountpoint(u, l, p, rw)
      PROVE  Edited
  BY <1>3, AddMountpointGood, GoodIsEdited DEF AddMountpoint
<1>4. ASSUME NEW l \in Labels, NEW b \in BOOLEAN, EnableMountpoint(u, l, b) PROVE Edited
  BY <1>4, EnableMountpointGood, GoodIsEdited DEF EnableMountpoint
<1>5. ASSUME NEW l \in Labels, NEW b \in BOOLEAN, SetReadOnly(u, l, b) PROVE Edited
  BY <1>5, SetReadOnlyGood, GoodIsEdited DEF SetReadOnly
<1>6. ASSUME NEW l \in Labels, NEW p \in Paths, SetPath(u, l, p) PROVE Edited
  BY <1>6, SetPathGood, GoodIsEdited DEF SetPath
<1>7. ASSUME NEW l \in Labels, DeleteMountpoint(u, l) PROVE Edited
  BY <1>7, DeleteMountpointGood, GoodIsEdited DEF DeleteMountpoint
<1>8. ASSUME NEW k \in Keys, AddKey(u, k) PROVE Edited
  BY <1>8, AddKeyGood, GoodIsEdited DEF AddKey
<1>9. ASSUME NEW k \in Keys, DeleteKey(u, k) PROVE Edited
  BY <1>9, DeleteKeyGood, GoodIsEdited DEF DeleteKey
<1>10. ASSUME NEW pub \in Pubs, GeneratePair(u, pub) PROVE Edited
  <2>1. [pub |-> pub, priv |-> pub] \in Keys
    BY DEF Keys
  <2>2. QED
    BY <1>8, <1>10, <2>1 DEF GeneratePair
<1>11. ASSUME NEW t \in Templates, AssignTemplate(u, t) PROVE Edited
  BY <1>11, AssignTemplateGood, GoodIsEdited DEF AssignTemplate
<1>12. ASSUME NEW t \in Templates, UnassignTemplate(u, t) PROVE Edited
  BY <1>12, UnassignTemplateGood, GoodIsEdited DEF UnassignTemplate
<1>13. ASSUME NEW i \in Ids, NEW b \in BOOLEAN, EnablePoint(u, i, b) PROVE Edited
  BY <1>13, EnablePointGood, GoodIsEdited DEF EnablePoint
<1>14. ASSUME NEW i \in Ids, NEW b \in BOOLEAN, SetPointReadOnly(u, i, b) PROVE Edited
  BY <1>14, SetPointReadOnlyGood, GoodIsEdited DEF SetPointReadOnly
<1>15. QED
  BY <1>1, <1>2, <1>3, <1>4, <1>5, <1>6, <1>7, <1>8, <1>9, <1>10, <1>11, <1>12, <1>13,
     <1>14 DEF EditUser

LEMMA EditTemplateEdited ==
  ASSUME Sound(cfg), NEW t \in Templates, EditTemplate(t) PROVE Edited
<1>1. CASE CreateTemplate(t)
  BY <1>1, CreateTemplateGood, GoodIsEdited DEF CreateTemplate
<1>2. CASE DeleteTemplate(t)
  BY <1>2, DeleteTemplateGood, GoodIsEdited DEF DeleteTemplate
<1>3. ASSUME NEW u \in Users, CreateFromUser(t, u) PROVE Edited
  BY <1>3, CreateFromUserGood, GoodIsEdited DEF CreateFromUser
<1>4. ASSUME NEW l \in Labels, NEW p \in Paths, NEW i \in Ids, AddTemplateMount(t, l, p, i)
      PROVE  Edited
  BY <1>4, AddTemplateMountGood, GoodIsEdited DEF AddTemplateMount
<1>5. QED
  BY <1>1, <1>2, <1>3, <1>4 DEF EditTemplate

LEMMA EditPointEdited ==
  ASSUME Sound(cfg), NEW i \in Ids, EditPoint(i) PROVE Edited
<1>1. CASE DeleteTemplateMount(i)
  BY <1>1, DeleteTemplateMountGood, GoodIsEdited DEF DeleteTemplateMount
<1>2. ASSUME NEW l \in Labels, SetTemplateLabel(i, l) PROVE Edited
  BY <1>2, SetTemplateLabelGood, GoodIsEdited DEF SetTemplateLabel
<1>3. ASSUME NEW p \in Paths, SetTemplatePath(i, p) PROVE Edited
  BY <1>3, SetTemplatePathGood, GoodIsEdited DEF SetTemplatePath
<1>4. QED
  BY <1>1, <1>2, <1>3 DEF EditPoint

----------------------------------------------------------------------------
(* The inductive invariant.                                                *)

(* The file is a sound configuration and the last that was saved; it is    *)
(* missing only between the two renames, or after an Apply that ended      *)
(* there.                                                                  *)
FileIsSaved ==
  /\ file # None => Sound(file) /\ file.users = saved
  /\ file = None => phase = "replace" \/ broken

(* A user who was saved and is not in memory was deleted there, unless the *)
(* memory was loaded without the file.                                     *)
GoneIsKnown == \A u \in saved : u \in cfg.users \/ u \in deleted \/ blind

(* What Apply has reached so far.                                          *)
ApplyGotTo ==
  /\ phase = "clean" => \A u \in cfg.users : system[u] = Served(cfg, u)
  /\ phase \in {"sshd", "write", "replace"} => Reconciled(cfg)

Counted ==
  /\ changed \in BOOLEAN
  /\ DOMAIN system = Users
  /\ phase \in {"idle", "create", "clean", "sshd", "write", "replace"}
  /\ saved \subseteq Users
  /\ deleted \subseteq Users
  /\ broken \in BOOLEAN /\ blind \in BOOLEAN
  /\ edits \in 0 .. MaxEdits
  /\ faults \in 0 .. MaxFaults
  /\ kills \in 0 .. MaxKills

Inv == Sound(cfg) /\ FileIsSaved /\ GoneIsKnown /\ ApplyGotTo /\ Counted

LEMMA Initially == Init => Inv
<1> SUFFICES ASSUME Init PROVE Inv
  OBVIOUS
<1>1. Sound(cfg)
  BY StartsAreSound DEF Init
<1>2. file # None
  BY <1>1, NoneIsNothing DEF Init, Sound
<1>3. Counted
  <2>1. cfg.users \subseteq Users
    BY <1>1, Fields DEF Sound
  <2>2. DOMAIN system = Users
    BY DEF Init
  <2>3. edits \in 0 .. MaxEdits /\ faults \in 0 .. MaxFaults /\ kills \in 0 .. MaxKills
    BY BoundsAreNat DEF Init
  <2>4. QED
    BY <2>1, <2>2, <2>3 DEF Init, Counted
<1>4. QED
  BY <1>1, <1>2, <1>3 DEF Init, Inv, FileIsSaved, GoneIsKnown, ApplyGotTo

(* What is loaded is sound, and knows every saved user unless there was no *)
(* file.                                                                   *)
LEMMA LoadedIsKnown ==
  ASSUME Sound(cfg), FileIsSaved, Load, phase = "replace" \/ broken => broken'
  PROVE  /\ Sound(cfg')
         /\ \A u \in saved : u \in cfg'.users \/ blind'
<1>1. CASE file = None
  BY <1>1, EmptyIsSound DEF Load, Loaded, FileIsSaved
<1>2. CASE file # None
  BY <1>2 DEF Load, Loaded, FileIsSaved
<1>3. QED
  BY <1>1, <1>2

LEMMA EditedKeeps == ASSUME Inv, Edited PROVE Inv'
<1>1. Sound(cfg') /\ GoneIsKnown'
  BY DEF Inv, Edited, GoneIsKnown
<1>2. FileIsSaved'
  BY DEF Inv, Edited, FileIsSaved
<1>3. ApplyGotTo'
  BY DEF Edited, ApplyGotTo
<1>4. Counted'
  BY BoundsAreNat DEF Inv, Edited, Counted
<1>5. QED
  BY <1>1, <1>2, <1>3, <1>4 DEF Inv

LEMMA ReloadKeeps == ASSUME Inv, Reload PROVE Inv'
<1>1. Sound(cfg') /\ \A u \in saved : u \in cfg'.users \/ blind'
  BY LoadedIsKnown DEF Inv, Reload
<1>2. GoneIsKnown'
  BY <1>1 DEF Reload, GoneIsKnown
<1>3. FileIsSaved' /\ ApplyGotTo'
  BY DEF Inv, Reload, FileIsSaved, ApplyGotTo
<1>4. Counted'
  BY DEF Inv, Reload, Load, Counted
<1>5. QED
  BY <1>1, <1>2, <1>3, <1>4 DEF Inv

LEMMA ReadFailsKeeps == ASSUME Inv, ReadFails PROVE Inv'
<1>1. Sound(cfg') /\ GoneIsKnown'
  BY EmptyIsSound DEF ReadFails, GoneIsKnown
<1>2. FileIsSaved' /\ ApplyGotTo'
  BY DEF Inv, ReadFails, FileIsSaved, ApplyGotTo
<1>3. Counted'
  <2>1. faults' \in 0 .. MaxFaults
    BY BoundsAreNat DEF Inv, ReadFails, Counted
  <2>2. deleted' \subseteq Users
    BY DEF ReadFails
  <2>3. QED
    BY <2>1, <2>2 DEF Inv, ReadFails, Counted
<1>4. QED
  BY <1>1, <1>2, <1>3 DEF Inv

LEMMA KillKeeps == ASSUME Inv, Kill PROVE Inv'
<1>1. Sound(cfg') /\ \A u \in saved : u \in cfg'.users \/ blind'
  BY LoadedIsKnown DEF Inv, Kill
<1>2. GoneIsKnown'
  BY <1>1 DEF Kill, GoneIsKnown
<1>3. FileIsSaved' /\ ApplyGotTo'
  BY DEF Inv, Kill, FileIsSaved, ApplyGotTo
<1>4. Counted'
  <2>1. kills' \in 0 .. MaxKills
    BY BoundsAreNat DEF Inv, Kill, Counted
  <2>2. broken' \in BOOLEAN /\ blind' \in BOOLEAN
    BY DEF Inv, Kill, Load, Counted
  <2>3. deleted' \subseteq Users /\ changed' \in BOOLEAN
    BY DEF Kill, Load
  <2>4. QED
    BY <2>1, <2>2, <2>3 DEF Inv, Kill, Counted
<1>5. QED
  BY <1>1, <1>2, <1>3, <1>4 DEF Inv

LEMMA UninstallKeeps == ASSUME Inv, UninstallAll PROVE Inv'
<1>1. Counted'
  BY BoundsAreNat DEF Inv, UninstallAll, Counted
<1>2. QED
  BY <1>1 DEF Inv, UninstallAll, FileIsSaved, GoneIsKnown, ApplyGotTo

LEMMA ApplyKeeps == ASSUME Inv, Apply PROVE Inv'
<1>1. Sound(cfg') /\ cfg' = cfg
  BY DEF Inv, Apply, Start, Create, CreateFails, Clean, CleanFails, RestartSshd,
         LateFailure, SetAside, Replace, ReplaceFails, Still
<1>2. Counted'
  <2>1. cfg.users \subseteq Users
    BY Fields DEF Inv, Sound
  <2>2. ASSUME NEW done, NEW c, Partly(done, c) PROVE DOMAIN system' = Users
    BY <2>2 DEF Partly
  <2>3. DOMAIN system' = Users
    BY <2>2 DEF Inv, Counted, Apply, Start, Create, CreateFails, Clean, CleanFails,
                RestartSshd, LateFailure, SetAside, Replace, ReplaceFails
  <2>4. faults' \in 0 .. MaxFaults
    BY BoundsAreNat DEF Inv, Counted, Apply, Start, Create, CreateFails, Clean, CleanFails,
                        RestartSshd, LateFailure, SetAside, Replace, ReplaceFails
  <2>5. QED
    BY <2>1, <2>3, <2>4 DEF Inv, Counted, Apply, Start, Create, CreateFails, Clean,
       CleanFails, RestartSshd, LateFailure, SetAside, Replace, ReplaceFails, Step, Still
<1>3. FileIsSaved'
  <2>1. cfg # None
    BY NoneIsNothing DEF Inv, Sound
  <2>2. CASE Replace
    BY <1>1, <2>1, <2>2 DEF Replace, FileIsSaved
  <2>3. CASE SetAside
    BY <2>3 DEF SetAside, Step, FileIsSaved
  <2>4. CASE ~Replace /\ ~SetAside
    BY <2>4 DEF Inv, FileIsSaved, Apply, Start, Create, CreateFails, Clean, CleanFails,
                RestartSshd, LateFailure, ReplaceFails, Step
  <2>5. QED
    BY <2>2, <2>3, <2>4
<1>4. GoneIsKnown'
  BY <1>1 DEF Inv, GoneIsKnown, Apply, Start, Create, CreateFails, Clean, CleanFails,
              RestartSshd, LateFailure, SetAside, Replace, ReplaceFails, Still
<1>5. ApplyGotTo'
  <2>1. CASE Create
    <3>1. ASSUME NEW u \in cfg.users PROVE system'[u] = Served(cfg, u)
      <4>1. u \in Users
        BY Fields DEF Inv, Sound
      <4>2. QED
        BY <2>1, <4>1 DEF Create, Partly
    <3>2. QED
      BY <1>1, <2>1, <3>1 DEF Create, Step, ApplyGotTo
  <2>2. CASE Clean
    <3>1. ASSUME NEW u \in Users
          PROVE  system'[u] = IF u \in cfg.users THEN Served(cfg, u) ELSE None
      BY <2>2 DEF Clean, Partly, Unwanted, Inv, ApplyGotTo, Step
    <3>2. Reconciled(cfg)'
      BY <1>1, <3>1 DEF Reconciled
    <3>3. QED
      BY <2>2, <3>2 DEF Clean, Step, ApplyGotTo
  <2>3. CASE RestartSshd \/ SetAside
    <3>1. Reconciled(cfg)'
      BY <1>1, <2>3 DEF RestartSshd, SetAside, Step, Inv, ApplyGotTo, Reconciled
    <3>2. QED
      BY <2>3, <3>1 DEF RestartSshd, SetAside, Step, ApplyGotTo
  <2>4. CASE Start \/ CreateFails \/ CleanFails \/ LateFailure \/ Replace \/ ReplaceFails
    BY <2>4 DEF Start, CreateFails, CleanFails, LateFailure, Replace, ReplaceFails, Step, ApplyGotTo
  <2>5. QED
    BY <2>1, <2>2, <2>3, <2>4 DEF Apply
<1>6. QED
  BY <1>1, <1>2, <1>3, <1>4, <1>5 DEF Inv

LEMMA Stepwise == Inv /\ [Next]_vars => Inv'
<1> SUFFICES ASSUME Inv, [Next]_vars PROVE Inv'
  OBVIOUS
<1>1. ASSUME NEW u \in Users, EditUser(u) PROVE Inv'
  BY <1>1, EditUserEdited, EditedKeeps DEF Inv
<1>2. ASSUME NEW t \in Templates, EditTemplate(t) PROVE Inv'
  BY <1>2, EditTemplateEdited, EditedKeeps DEF Inv
<1>3. ASSUME NEW i \in Ids, EditPoint(i) PROVE Inv'
  BY <1>3, EditPointEdited, EditedKeeps DEF Inv
<1>4. CASE Reload \/ ReadFails \/ Apply \/ Kill \/ UninstallAll
  BY <1>4, ReloadKeeps, ReadFailsKeeps, ApplyKeeps, KillKeeps, UninstallKeeps
<1>5. CASE UNCHANGED vars
  BY <1>5 DEF vars, Inv, Sound, FileIsSaved, GoneIsKnown, ApplyGotTo, Counted, Reconciled
<1>6. QED
  BY <1>1, <1>2, <1>3, <1>4, <1>5 DEF Next

LEMMA Invariance == Spec => []Inv
BY Initially, Stepwise, PTL DEF Spec

----------------------------------------------------------------------------
(* The configurations, the history and the keys stay well formed.          *)
THEOREM Typing == Spec => []TypeOK
<1>1. Inv => TypeOK
  BY DEF Inv, Sound, FileIsSaved, Counted, TypeOK
<1>2. QED
  BY <1>1, Invariance, PTL

(* No edit makes two mountpoints of a user collide, in the menu's          *)
(* configuration or in the saved one (_assigned_users_resolve).            *)
THEOREM NobodyCollides == Spec => []EveryoneResolves
<1>1. Inv => EveryoneResolves
  BY DEF Inv, Sound, FileIsSaved, EveryoneResolves
<1>2. QED
  BY <1>1, Invariance, PTL

(* A point that an edit brings to a user is closed                         *)
(* (_prune_user_template_overrides).                                       *)
THEOREM PointsStartClosed == Spec => NewPointsAreClosed
<1>1. ASSUME Inv, [Next]_vars, edits' # edits, NEW u \in Users,
             NEW i \in Shown(cfg', u) \ Shown(cfg, u)
      PROVE  Granted(cfg', u, i) = [on |-> FALSE, rw |-> FALSE]
  <2>1. Edited \/ cfg' = cfg
    <3>1. ASSUME NEW w \in Users, EditUser(w) PROVE Edited
      BY <1>1, <3>1, EditUserEdited DEF Inv
    <3>2. ASSUME NEW t \in Templates, EditTemplate(t) PROVE Edited
      BY <1>1, <3>2, EditTemplateEdited DEF Inv
    <3>3. ASSUME NEW j \in Ids, EditPoint(j) PROVE Edited
      BY <1>1, <3>3, EditPointEdited DEF Inv
    <3>4. CASE Reload \/ ReadFails \/ Apply \/ Kill
      BY <1>1, <3>4 DEF Reload, ReadFails, Kill, Apply, Start, Create, CreateFails, Clean, CleanFails,
                        RestartSshd, LateFailure, SetAside, Replace, ReplaceFails, Still
    <3>5. CASE UninstallAll \/ UNCHANGED vars
      BY <3>5 DEF UninstallAll, vars
    <3>6. QED
      BY <1>1, <3>1, <3>2, <3>3, <3>4, <3>5 DEF Next
  <2>2. i \in Ids
    BY DEF Shown
  <2>3. cfg.over[u][i] = None
    BY <1>1, <2>2 DEF Inv, Sound, OverridesAreShown
  <2>4. cfg'.over[u][i] = None
    BY <1>1, <2>1, <2>2, <2>3 DEF Edited, OpensNothing
  <2>5. QED
    BY <2>4 DEF Granted
<1>2. Inv /\ [Next]_vars =>
        [edits' # edits =>
           \A u \in Users : \A i \in Shown(cfg', u) \ Shown(cfg, u) :
             Granted(cfg', u, i) = [on |-> FALSE, rw |-> FALSE]]_vars
  BY <1>1
<1>3. QED
  BY <1>2, Invariance, PTL DEF Spec, NewPointsAreClosed

(* What is saved is what the system serves: the file is written last.      *)
THEOREM SavedIsServed == Spec => FileIsServed
<1>1. ASSUME Inv, [Next]_vars, file' # file, file' # None
      PROVE  file' = cfg /\ Reconciled(cfg)
  <2>1. Replace
    <3>1. ~Edited
      BY <1>1 DEF Edited
    <3>2. \A u \in Users : ~EditUser(u)
      BY <1>1, <3>1, EditUserEdited DEF Inv
    <3>3. \A t \in Templates : ~EditTemplate(t)
      BY <1>1, <3>1, EditTemplateEdited DEF Inv
    <3>4. \A i \in Ids : ~EditPoint(i)
      BY <1>1, <3>1, EditPointEdited DEF Inv
    <3>5. ~Reload /\ ~ReadFails /\ ~Kill /\ ~UninstallAll /\ ~UNCHANGED vars
      BY <1>1 DEF Reload, ReadFails, Kill, UninstallAll, vars
    <3>6. QED
      BY <1>1, <3>2, <3>3, <3>4, <3>5 DEF Next, Apply, Start, Create, CreateFails, Clean,
         CleanFails, RestartSshd, LateFailure, SetAside, ReplaceFails
  <2>2. QED
    BY <1>1, <2>1 DEF Replace, Step, Inv, ApplyGotTo
<1>2. Inv /\ [Next]_vars =>
        [file' # file /\ file' # None => file' = cfg /\ Reconciled(cfg)]_vars
  BY <1>1
<1>3. QED
  BY <1>2, Invariance, PTL DEF Spec, FileIsServed

(* Apply removes the account of nobody who is in the saved configuration   *)
(* and was not deleted in the menu, but for a menu loaded without the file:*)
(* after an Apply that was killed or failed between its renames, or from a *)
(* file that could not be read.                                            *)
THEOREM OnlyTheDeletedGo == Spec => DeletedOnesGo
<1>1. ASSUME Inv, [Next]_vars, NEW u \in Users, Removed(u)
      PROVE  u \in deleted \/ u \notin saved \/ blind
  <2>1. phase = "clean" /\ system[u] # None /\ system'[u] = None
    BY <1>1 DEF Removed
  <2>2. ~Edited
    BY <2>1 DEF Edited
  <2>3. \A w \in Users : ~EditUser(w)
    BY <1>1, <2>2, EditUserEdited DEF Inv
  <2>4. \A t \in Templates : ~EditTemplate(t)
    BY <1>1, <2>2, EditTemplateEdited DEF Inv
  <2>5. \A i \in Ids : ~EditPoint(i)
    BY <1>1, <2>2, EditPointEdited DEF Inv
  <2>6. ~Reload /\ ~ReadFails /\ ~Kill /\ ~UninstallAll /\ ~UNCHANGED vars
    BY <2>1 DEF Reload, ReadFails, Kill, UninstallAll, vars
  <2>7. Clean \/ CleanFails
    BY <1>1, <2>1, <2>3, <2>4, <2>5, <2>6 DEF Next, Apply, Start, Create, CreateFails,
       RestartSshd, LateFailure, SetAside, Replace, ReplaceFails, Step
  <2>8. PICK done \in SUBSET Unwanted : Partly(done, cfg)
    BY <2>7 DEF Clean, CleanFails
  <2>9. u \in Unwanted
    BY <2>1, <2>8 DEF Partly
  <2>10. QED
    BY <1>1, <2>9 DEF Unwanted, Inv, GoneIsKnown
<1>2. Inv /\ [Next]_vars =>
        [\A u \in Users :
           Removed(u) => u \in deleted \/ u \notin saved \/ blind]_vars
  BY <1>1
<1>3. QED
  BY <1>2, Invariance, PTL DEF Spec, DeletedOnesGo
=============================================================================
