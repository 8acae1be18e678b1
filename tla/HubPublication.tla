--------------------------- MODULE HubPublication ---------------------------
(***************************************************************************)
(* What the synchronization of libs/app/hub/runtime.py promises, without   *)
(* its processes, locks, probes, failures and retries: a dataset of a host *)
(* is replaced as a whole, by a state the host really had, by no older one *)
(* than the database shows, and not before the schema has its tables.      *)
(*                                                                         *)
(* HubSync implements it (HubSync!PublishesOnly).                          *)
(***************************************************************************)
EXTENDS Naturals

CONSTANTS Hosts,
          Keys,       \* the datasets: one of each on every host
          MinSchema,  \* the schema version each needs
          Latest      \* the newest schema version

VARIABLES
  local,   \* per host and dataset: the number of its last local change
  shown,   \* the change the database shows, 0 before the first publication
  schema   \* the schema version of the database

pubVars == <<local, shown, schema>>

Init ==
  /\ local = [h \in Hosts |-> [k \in Keys |-> 1]]
  /\ shown = [h \in Hosts |-> [k \in Keys |-> 0]]
  /\ schema \in 0 .. Latest

Change(h, k) ==
  /\ local' = [local EXCEPT ![h][k] = @ + 1]
  /\ UNCHANGED <<shown, schema>>

Publish(h, k) ==
  /\ MinSchema[k] <= schema
  /\ \E n \in shown[h][k] .. local[h][k] : shown' = [shown EXCEPT ![h][k] = n]
  /\ UNCHANGED <<local, schema>>

Upgrade ==
  /\ schema < Latest
  /\ schema' = schema + 1
  /\ UNCHANGED <<local, shown>>

Next ==
  \/ \E h \in Hosts, k \in Keys : Change(h, k) \/ Publish(h, k)
  \/ Upgrade

Spec == Init /\ [][Next]_pubVars
=============================================================================
