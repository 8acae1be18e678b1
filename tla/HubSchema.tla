----------------------------- MODULE HubSchema -----------------------------
(***************************************************************************)
(* The migrations of the central database (libs/app/hub/schema.py).        *)
(*                                                                         *)
(* All hosts share one database and one table of applied migrations. Any   *)
(* client may be told to upgrade: it takes the server's named lock, checks *)
(* what is recorded, executes the statements of every migration that is    *)
(* missing and records it. The server commits each CREATE and ALTER by     *)
(* itself, so a client that is cut off leaves a migration half done; one   *)
(* that gives up waiting leaves its statement running, with the lock.      *)
(***************************************************************************)
EXTENDS Naturals, Sequences

CONSTANTS Clients,
          Latest,      \* the newest migration any client ships
          Known,       \* the newest migration each client ships
          Script,      \* the statements of each migration: "create" or "alter"
          Sum,         \* the checksum of each migration at each client
          NoSum,       \* a migration that is not recorded
          Optional,    \* migrations a synchronizing client can do without
          Nobody,      \* holder of a free lock
          MaxFaults    \* bound: lost connections, statements given up

Versions == 1 .. Latest

ASSUME LatestIsVersion == Latest \in Nat \ {0}
ASSUME KnownAreVersions == Known \in [Clients -> Versions]
ASSUME ScriptsAreGiven ==
  Script \in [Versions -> Seq({"create", "alter"}) \ {<<>>}]
ASSUME SumsAreSums == \A c \in Clients, v \in Versions : Sum[c][v] # NoSum
ASSUME NobodyIsNoClient == Nobody \notin Clients
ASSUME BoundIsNat == MaxFaults \in Nat

VARIABLES
  done,      \* the statements the server has executed, <<version, index>>
  recorded,  \* schema_migrations: the checksum of each version
  lock,      \* the session that holds the named lock
  phase,     \* per client: where its upgrade is
  applied,   \* per client: the versions it found recorded
  at,        \* per client: the migration it works on
  stmt,      \* per client: the statement it is at
  answer,    \* per client: how its last upgrade ended
  faults

serverVars == <<done, recorded>>
clientVars == <<phase, applied, at, stmt, answer>>
vars == <<serverVars, lock, clientVars, faults>>

Recorded == {v \in Versions : recorded[v] # NoSum}

(* The version that check reports.                                         *)
Newest == CHOOSE n \in Recorded \cup {0} : \A v \in Recorded : v <= n

Statements(v) == {<<v, i>> : i \in DOMAIN Script[v]}

At(c, ph) == phase[c] = ph

Goto(c, next) == phase' = [phase EXCEPT ![c] = next]

Fault == faults < MaxFaults /\ faults' = faults + 1

----------------------------------------------------------------------------
(* A new database, or one that some client has brought to some version.    *)
Init ==
  /\ \E n \in 0 .. Latest :
       /\ done = UNION {Statements(v) : v \in 1 .. n}
       /\ \/ n = 0 /\ recorded = [v \in Versions |-> NoSum]
          \/ \E c \in Clients :
               recorded = [v \in Versions |-> IF v <= n THEN Sum[c][v] ELSE NoSum]
  /\ lock = Nobody
  /\ phase = [c \in Clients |-> "idle"]
  /\ applied = [c \in Clients |-> {}]
  /\ at = [c \in Clients |-> 1]
  /\ stmt = [c \in Clients |-> 1]
  /\ answer = [c \in Clients |-> "none"]
  /\ faults = 0

(***************************************************************************)
(* What a client finds.                                                    *)
(***************************************************************************)
(* Unknown migrations and changed templates stop everything.               *)
Refused(c) == \E v \in Recorded : v > Known[c] \/ recorded[v] # Sum[c][v]

(* The client may write its inventory.                                     *)
Usable(c) ==
  /\ <<1, 1>> \in done
  /\ ~Refused(c)
  /\ 1 .. Known[c] \ Recorded \subseteq Optional

(* required_schema <= schema_version: what a provider asks before it       *)
(* writes. schema_version is the newest recorded one.                      *)
Offered(v) == \E w \in Recorded : v <= w

(***************************************************************************)
(* The upgrade.                                                            *)
(***************************************************************************)
Open(c) ==
  /\ At(c, "idle")
  /\ Goto(c, "lock")
  /\ answer' = [answer EXCEPT ![c] = "none"]
  /\ UNCHANGED <<serverVars, lock, applied, at, stmt, faults>>

(* Slip: the lock is given back at the end of the work, not in a finally,  *)
(* on a connection that is kept open.                                      *)
CloseInLine(c, ending) ==
  /\ lock' = IF ending = "ready" THEN Nobody ELSE lock
  /\ Goto(c, "idle")
  /\ answer' = [answer EXCEPT ![c] = ending]

(* The lock is released in a finally, and ends with the connection.        *)
Close(c, ending) ==
  /\ lock' = Nobody
  /\ Goto(c, "idle")
  /\ answer' = [answer EXCEPT ![c] = ending]

(* Slip: the answer of GET_LOCK is not looked at.                          *)
LockIgnored(c) ==
  /\ At(c, "lock")
  /\ lock' = c
  /\ Goto(c, "check")
  /\ UNCHANGED <<serverVars, applied, at, stmt, answer, faults>>

TakeLock(c) ==
  /\ At(c, "lock")
  /\ lock = Nobody
  /\ lock' = c
  /\ Goto(c, "check")
  /\ UNCHANGED <<serverVars, applied, at, stmt, answer, faults>>

LockTimesOut(c) ==
  /\ At(c, "lock")
  /\ lock # Nobody
  /\ Goto(c, "idle")
  /\ answer' = [answer EXCEPT ![c] = "error"]
  /\ UNCHANGED <<serverVars, lock, applied, at, stmt, faults>>

(* The next migration that is missing, from v on, or the end.              *)
Missing(c, v, known) == {w \in v .. Known[c] : w \notin known}

Continue(c, v, known) ==
  \/ /\ Missing(c, v, known) = {}
     /\ Close(c, "ready")
     /\ UNCHANGED <<at, stmt>>
  \/ \E w \in Missing(c, v, known) :
       /\ \A u \in Missing(c, v, known) : w <= u
       /\ at' = [at EXCEPT ![c] = w]
       /\ stmt' = [stmt EXCEPT ![c] = 1]
       /\ Goto(c, "run")
       /\ UNCHANGED <<lock, answer>>

Check(c) ==
  /\ At(c, "check")
  /\ applied' = [applied EXCEPT ![c] = Recorded]
  /\ IF Refused(c) THEN Close(c, "error") /\ UNCHANGED <<at, stmt>>
                   ELSE Continue(c, 1, Recorded)
  /\ UNCHANGED <<serverVars, faults>>

Here(c) == <<at[c], stmt[c]>>

(* CREATE TABLE IF NOT EXISTS can be repeated, ADD COLUMN cannot.          *)
Executable(c) == Script[at[c]][stmt[c]] = "create" \/ Here(c) \notin done

(* Slip: the migration is recorded with its first statement.               *)
RecordedEarly(c) ==
  /\ At(c, "run")
  /\ Executable(c)
  /\ done' = done \cup {Here(c)}
  /\ Goto(c, "record")
  /\ UNCHANGED <<recorded, lock, applied, at, stmt, answer, faults>>

Execute(c) ==
  /\ At(c, "run")
  /\ Executable(c)
  /\ done' = done \cup {Here(c)}
  /\ IF stmt[c] < Len(Script[at[c]])
       THEN stmt' = [stmt EXCEPT ![c] = @ + 1] /\ UNCHANGED phase
       ELSE Goto(c, "record") /\ UNCHANGED stmt
  /\ UNCHANGED <<recorded, lock, applied, at, answer, faults>>

Duplicate(c) ==
  /\ At(c, "run")
  /\ ~Executable(c)
  /\ Close(c, "duplicate")
  /\ UNCHANGED <<serverVars, applied, at, stmt, faults>>

(* Slip: the loop skips a migration.                                       *)
RecordSkips(c) ==
  /\ At(c, "record")
  /\ recorded' = [recorded EXCEPT ![at[c]] = Sum[c][at[c]]]
  /\ Continue(c, at[c] + 2, applied[c])
  /\ UNCHANGED <<done, applied, faults>>

Record(c) ==
  /\ At(c, "record")
  /\ recorded' = [recorded EXCEPT ![at[c]] = Sum[c][at[c]]]
  /\ Continue(c, at[c] + 1, applied[c])
  /\ UNCHANGED <<done, applied, faults>>

(* The connection is lost, or the client killed: the session ends.         *)
Lost(c) ==
  /\ phase[c] \in {"check", "run", "record"}
  /\ Close(c, "error")
  /\ Fault
  /\ UNCHANGED <<serverVars, applied, at, stmt>>

(* The client gives up on a slow statement, the server does not.           *)
GivesUp(c) ==
  /\ At(c, "run")
  /\ Executable(c)
  /\ Goto(c, "orphan")
  /\ answer' = [answer EXCEPT ![c] = "error"]
  /\ Fault
  /\ UNCHANGED <<serverVars, lock, applied, at, stmt>>

OrphanEnds(c) ==
  /\ At(c, "orphan")
  /\ done' = done \cup {Here(c)}
  /\ Close(c, answer[c])
  /\ UNCHANGED <<recorded, applied, at, stmt, faults>>

Run(c) ==
  \/ TakeLock(c) \/ LockTimesOut(c) \/ Check(c)
  \/ Execute(c) \/ Duplicate(c) \/ Record(c) \/ OrphanEnds(c)

Next == \E c \in Clients : Open(c) \/ Run(c) \/ Lost(c) \/ GivesUp(c)

(* Every call of a client and every statement of the server ends.          *)
Fairness == \A c \in Clients : WF_vars(Run(c))

Spec == Init /\ [][Next]_vars

FairSpec == Spec /\ Fairness

----------------------------------------------------------------------------
Sums == {Sum[c][v] : c \in Clients, v \in Versions}

TypeOK ==
  /\ done \subseteq UNION {Statements(v) : v \in Versions}
  /\ recorded \in [Versions -> Sums \cup {NoSum}]
  /\ lock \in Clients \cup {Nobody}
  /\ phase \in [Clients -> {"idle", "lock", "check", "run", "record", "orphan"}]
  /\ applied \in [Clients -> SUBSET Versions]
  /\ at \in [Clients -> Versions]
  /\ stmt \in [Clients -> Nat]
  /\ \A c \in Clients : stmt[c] \in DOMAIN Script[at[c]]
  /\ answer \in [Clients -> {"none", "ready", "error", "duplicate"}]
  /\ faults \in 0 .. MaxFaults

(***************************************************************************)
(* Properties.                                                             *)
(***************************************************************************)

(* A provider compares the version it needs with the newest one recorded   *)
(* (runtime.py:172): whatever was cut off before, every statement up to    *)
(* that version has been executed.                                         *)
RequiredIsThere ==
  \A v \in Versions : Offered(v) => Statements(v) \subseteq done

(* A client that may write its inventory finds every table and column it   *)
(* needs, also between the statements of somebody's upgrade.               *)
UsableIsThere ==
  \A c \in Clients : Usable(c) =>
    \A v \in 1 .. Known[c] \ Optional : Statements(v) \subseteq done

(* An upgrade that ends well has brought all migrations of its client.     *)
SuccessIsComplete ==
  \A c \in Clients : answer[c] = "ready" => 1 .. Known[c] \subseteq Recorded

(* Without an interruption no statement is executed twice: concurrent      *)
(* upgrades do not run into each other's half-done migrations.             *)
FailsOnlyAfterFault == \A c \in Clients : answer[c] = "duplicate" => faults > 0

(* Whatever clients, locks, checksums and interruptions do, the database   *)
(* goes from one version to the next as HubUpgrade says: no migration is   *)
(* skipped or begun before the one below it is recorded, and none is       *)
(* reported before it is there. HubSync takes an upgrade for one step.     *)
Upgrade == INSTANCE HubUpgrade
             WITH Tables <- [v \in Versions |-> Statements(v)],
                  schema <- Newest, built <- done

UpgradesInOrder == Upgrade!Spec

(* The lock is given back after every ending of an upgrade.                *)
LockIsReleased == \A c \in Clients : lock = c ~> lock # c
=============================================================================
