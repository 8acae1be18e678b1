---------------------------- MODULE HubUpgrade ----------------------------
(***************************************************************************)
(* What the migrations of libs/app/hub/schema.py promise, without clients, *)
(* locks, checksums and interruptions: the tables of one version at a time *)
(* are built, statement by statement, and a version is only reported when  *)
(* all of its tables are there. It is the Upgrade of HubPublication with   *)
(* the work that precedes it.                                              *)
(*                                                                         *)
(* HubSchema implements it (HubSchema!UpgradesInOrder).                    *)
(***************************************************************************)
EXTENDS Naturals

CONSTANTS Latest,
          Tables     \* per version: the statements that build it

VARIABLES
  schema,  \* the version that is reported
  built    \* the statements that have been executed

upgradeVars == <<schema, built>>

Init ==
  /\ schema \in 0 .. Latest
  /\ built = UNION {Tables[v] : v \in 1 .. schema}

Build ==
  /\ schema < Latest
  /\ \E t \in Tables[schema + 1] : built' = built \cup {t}
  /\ schema' = schema

Report ==
  /\ schema < Latest
  /\ Tables[schema + 1] \subseteq built
  /\ schema' = schema + 1
  /\ built' = built

Next == Build \/ Report

Spec == Init /\ [][Next]_upgradeVars
===========================================================================
