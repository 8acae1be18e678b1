-------------------------- MODULE HubSchemaProofs --------------------------
(***************************************************************************)
(* Proofs about HubSchema for any migrations, clients, checksums and       *)
(* interruptions.                                                          *)
(***************************************************************************)
EXTENDS HubSchema, WellFoundedInduction, TLAPS

Working == {"run", "record"}

Inside == {"check", "run", "record", "orphan"}

(* Whoever is inside an upgrade holds the lock.                            *)
Locked == \A c \in Clients : phase[c] \in Inside => lock = c

(* A recorded migration is executed, and the ones before it are recorded.  *)
RecordedIsDone ==
  \A v \in Recorded : Statements(v) \subseteq done /\ 1 .. v \subseteq Recorded

(* An upgrade works on the first migration after the recorded ones, and    *)
(* what it has passed is done.                                             *)
WorkIsNext ==
  \A c \in Clients : phase[c] \in Working =>
    /\ 1 .. at[c] - 1 \subseteq Recorded
    /\ at[c] \notin Recorded
    /\ applied[c] \subseteq Recorded
    /\ Recorded \subseteq applied[c] \cup 1 .. at[c] - 1
    /\ \A i \in DOMAIN Script[at[c]] :
         phase[c] = "record" \/ i < stmt[c] => <<at[c], i>> \in done

Inv == Locked /\ RecordedIsDone /\ WorkIsNext

(* The scripts are non-empty lists.                                        *)
LEMMA Scripts ==
  ASSUME NEW v \in Versions
  PROVE  /\ Len(Script[v]) \in Nat
         /\ DOMAIN Script[v] = 1 .. Len(Script[v])
         /\ 1 \in DOMAIN Script[v]
BY ScriptsAreGiven

(* The first version is a version.                                         *)
LEMMA FirstVersion == 1 \in Versions
BY LatestIsVersion DEF Versions

(* Closing keeps the state of the clients well formed (schema.py:217-224). *)
LEMMA CloseTypes ==
  ASSUME NEW c \in Clients, TypeOK,
         NEW ending \in {"none", "ready", "error", "duplicate"}, Close(c, ending)
  PROVE  /\ lock' \in Clients \cup {Nobody}
         /\ phase' \in [Clients -> {"idle", "lock", "check", "run", "record", "orphan"}]
         /\ answer' \in [Clients -> {"none", "ready", "error", "duplicate"}]
         /\ phase' = [phase EXCEPT ![c] = "idle"]
BY DEF Close, Goto, TypeOK

(* Continuing goes to a known migration (schema.py:198-201).               *)
LEMMA ContinueTypes ==
  ASSUME NEW c \in Clients, NEW v \in Nat \ {0}, NEW known, TypeOK, Continue(c, v, known)
  PROVE  /\ lock' \in Clients \cup {Nobody}
         /\ phase' \in [Clients -> {"idle", "lock", "check", "run", "record", "orphan"}]
         /\ answer' \in [Clients -> {"none", "ready", "error", "duplicate"}]
         /\ at' \in [Clients -> Versions]
         /\ stmt' \in [Clients -> Nat]
         /\ \A d \in Clients : stmt'[d] \in DOMAIN Script[at'[d]]
<1>1. CASE Missing(c, v, known) = {} /\ Close(c, "ready") /\ UNCHANGED <<at, stmt>>
  BY <1>1, CloseTypes DEF TypeOK, At
<1>2. ASSUME NEW w \in Missing(c, v, known),
             at' = [at EXCEPT ![c] = w], stmt' = [stmt EXCEPT ![c] = 1],
             Goto(c, "run"), UNCHANGED <<lock, answer>>
      PROVE  /\ lock' \in Clients \cup {Nobody}
             /\ phase' \in [Clients ->
                              {"idle", "lock", "check", "run", "record", "orphan"}]
             /\ answer' \in [Clients -> {"none", "ready", "error", "duplicate"}]
             /\ at' \in [Clients -> Versions]
             /\ stmt' \in [Clients -> Nat]
             /\ \A d \in Clients : stmt'[d] \in DOMAIN Script[at'[d]]
  <2>1. w \in Versions
    BY KnownAreVersions, LatestIsVersion DEF Missing, Versions
  <2>2. 1 \in DOMAIN Script[w]
    BY <2>1, Scripts
  <2>3. QED
    BY <1>2, <2>1, <2>2 DEF Goto, TypeOK, At
<1>3. QED
  BY <1>1, <1>2 DEF Continue

----------------------------------------------------------------------------
(* Every reachable state is well formed (schema.py:179-224).               *)
THEOREM TypeCorrect == Spec => []TypeOK
<1>1. Init => TypeOK
  <2>1. SUFFICES ASSUME Init PROVE TypeOK
    OBVIOUS
  <2>2. PICK n \in 0 .. Latest :
          /\ done = UNION {Statements(v) : v \in 1 .. n}
          /\ \/ n = 0 /\ recorded = [v \in Versions |-> NoSum]
             \/ \E c \in Clients :
                  recorded = [v \in Versions |-> IF v <= n THEN Sum[c][v] ELSE NoSum]
    BY <2>1 DEF Init
  <2>3. 1 .. n \subseteq Versions
    BY LatestIsVersion DEF Versions
  <2>4. done \subseteq UNION {Statements(v) : v \in Versions}
    BY <2>2, <2>3
  <2>5. recorded \in [Versions -> Sums \cup {NoSum}]
    BY <2>2 DEF Sums
  <2>6. /\ at \in [Clients -> Versions] /\ stmt \in [Clients -> Nat]
        /\ \A c \in Clients : stmt[c] \in DOMAIN Script[at[c]]
    BY <2>1, FirstVersion, Scripts DEF Init
  <2>7. faults \in 0 .. MaxFaults
    BY <2>1, BoundIsNat DEF Init
  <2>8. QED
    BY <2>1, <2>4, <2>5, <2>6, <2>7 DEF Init, TypeOK
<1>2. TypeOK /\ [Next]_vars => TypeOK'
  <2>1. SUFFICES ASSUME TypeOK, [Next]_vars PROVE TypeOK'
    OBVIOUS
  <2>2. ASSUME NEW c \in Clients, Open(c) PROVE TypeOK'
    BY <2>1, <2>2 DEF Open, Goto, At, TypeOK, serverVars
  <2>3. ASSUME NEW c \in Clients, TakeLock(c) PROVE TypeOK'
    BY <2>1, <2>3 DEF TakeLock, Goto, At, TypeOK, serverVars
  <2>4. ASSUME NEW c \in Clients, LockTimesOut(c) PROVE TypeOK'
    BY <2>1, <2>4 DEF LockTimesOut, Goto, At, TypeOK, serverVars
  <2>5. ASSUME NEW c \in Clients, Check(c) PROVE TypeOK'
    <3>1. applied' \in [Clients -> SUBSET Versions]
      BY <2>1, <2>5 DEF Check, Recorded, TypeOK
    <3>2. CASE Refused(c)
      BY <2>1, <2>5, <3>1, <3>2, CloseTypes DEF Check, TypeOK, At, serverVars
    <3>3. CASE ~Refused(c)
      <4>1. Continue(c, 1, Recorded)
        BY <2>5, <3>3 DEF Check
      <4>2. UNCHANGED <<done, recorded, faults>>
        BY <2>5 DEF Check, serverVars
      <4>3. QED
        BY <2>1, <3>1, <4>1, <4>2, ContinueTypes DEF TypeOK, At
    <3>4. QED
      BY <3>2, <3>3
  <2>6. ASSUME NEW c \in Clients, Execute(c) PROVE TypeOK'
    <3>1. at[c] \in Versions /\ stmt[c] \in DOMAIN Script[at[c]] /\ stmt[c] \in Nat
      BY <2>1, <2>6 DEF Execute, TypeOK
    <3>2. done' \subseteq UNION {Statements(v) : v \in Versions}
      <4>1. Here(c) \in Statements(at[c])
        BY <3>1 DEF Here, Statements
      <4>2. QED
        BY <2>1, <2>6, <3>1, <4>1 DEF Execute, TypeOK
    <3>3. CASE stmt[c] < Len(Script[at[c]])
      <4>1. stmt[c] + 1 \in DOMAIN Script[at[c]]
        BY <3>1, <3>3, Scripts
      <4>2. stmt' = [stmt EXCEPT ![c] = stmt[c] + 1] /\ UNCHANGED phase
        BY <2>6, <3>3 DEF Execute
      <4>3. stmt' \in [Clients -> Nat]
        BY <2>1, <3>1, <4>2 DEF TypeOK
      <4>4. \A d \in Clients : stmt'[d] \in DOMAIN Script[at'[d]]
        BY <2>1, <2>6, <4>1, <4>2 DEF Execute, TypeOK, At
      <4>5. QED
        BY <2>1, <2>6, <3>2, <4>2, <4>3, <4>4 DEF Execute, TypeOK
    <3>4. CASE ~(stmt[c] < Len(Script[at[c]]))
      BY <2>1, <2>6, <3>2, <3>4 DEF Execute, Goto, At, TypeOK
    <3>5. QED
      BY <3>3, <3>4
  <2>7. ASSUME NEW c \in Clients, Duplicate(c) PROVE TypeOK'
    BY <2>1, <2>7, CloseTypes DEF Duplicate, TypeOK, At, serverVars
  <2>8. ASSUME NEW c \in Clients, Record(c) PROVE TypeOK'
    <3>1. at[c] \in Versions /\ at[c] + 1 \in Nat \ {0}
      BY <2>1, LatestIsVersion DEF TypeOK, Versions
    <3>2. recorded' \in [Versions -> Sums \cup {NoSum}]
      BY <2>1, <2>8, <3>1 DEF Record, TypeOK, Sums
    <3>3. Continue(c, at[c] + 1, applied[c])
      BY <2>8 DEF Record
    <3>4. UNCHANGED <<done, applied, faults>>
      BY <2>8 DEF Record
    <3>5. QED
      BY <2>1, <3>1, <3>2, <3>3, <3>4, ContinueTypes DEF TypeOK, At
  <2>9. ASSUME NEW c \in Clients, Lost(c) PROVE TypeOK'
    <3>1. faults' \in 0 .. MaxFaults
      BY <2>1, <2>9, BoundIsNat DEF Lost, Fault, TypeOK
    <3>2. QED
      BY <2>1, <2>9, <3>1, CloseTypes DEF Lost, TypeOK, At, serverVars
  <2>10. ASSUME NEW c \in Clients, GivesUp(c) PROVE TypeOK'
    <3>1. faults' \in 0 .. MaxFaults
      BY <2>1, <2>10, BoundIsNat DEF GivesUp, Fault, TypeOK
    <3>2. QED
      BY <2>1, <2>10, <3>1 DEF GivesUp, Goto, TypeOK, At, serverVars
  <2>11. ASSUME NEW c \in Clients, OrphanEnds(c) PROVE TypeOK'
    <3>1. Close(c, answer[c]) /\ answer[c] \in {"none", "ready", "error", "duplicate"}
      BY <2>1, <2>11 DEF OrphanEnds, TypeOK
    <3>2. Here(c) \in Statements(at[c]) /\ at[c] \in Versions
      BY <2>1 DEF Here, Statements, TypeOK
    <3>3. done' \subseteq UNION {Statements(v) : v \in Versions}
      BY <2>1, <2>11, <3>2 DEF OrphanEnds, TypeOK
    <3>4. QED
      BY <2>1, <2>11, <3>1, <3>3, CloseTypes DEF OrphanEnds, TypeOK
  <2>12. CASE UNCHANGED vars
    BY <2>1, <2>12 DEF TypeOK, At, vars, serverVars, clientVars
  <2>13. QED
    BY <2>1, <2>2, <2>3, <2>4, <2>5, <2>6, <2>7, <2>8, <2>9, <2>10, <2>11, <2>12
    DEF Next, Run
<1>3. QED
  BY <1>1, <1>2, PTL DEF Spec
----------------------------------------------------------------------------
(* Where a loop over the migrations goes on, when R are the recorded ones  *)
(* and known those the client has found or passed (schema.py:198-216).     *)
Continued(c, known, R) ==
  \/ /\ phase' = [phase EXCEPT ![c] = "idle"]
     /\ answer' = [answer EXCEPT ![c] = "ready"]
     /\ lock' = Nobody
     /\ 1 .. Known[c] \subseteq R
     /\ UNCHANGED <<at, stmt>>
  \/ /\ phase' = [phase EXCEPT ![c] = "run"]
     /\ stmt' = [stmt EXCEPT ![c] = 1]
     /\ \E w \in Versions :
          /\ at' = [at EXCEPT ![c] = w]
          /\ 1 .. w - 1 \subseteq R
          /\ w \notin R
          /\ R \subseteq known \cup 1 .. w - 1
     /\ UNCHANGED <<lock, answer>>

(* The loop goes to the first migration that is not recorded, or ends.     *)
LEMMA ContinueWork ==
  ASSUME NEW c \in Clients, NEW v \in Nat \ {0}, NEW known, NEW R, TypeOK,
         Continue(c, v, known), R \subseteq Versions,
         1 .. v - 1 \subseteq R, known \subseteq R, R \subseteq known \cup 1 .. v - 1
  PROVE  Continued(c, known, R)
<1>1. CASE Missing(c, v, known) = {} /\ Close(c, "ready") /\ UNCHANGED <<at, stmt>>
  <2>1. ASSUME NEW u \in 1 .. Known[c] PROVE u \in R
    <3>1. u \in 1 .. v - 1 \/ u \in v .. Known[c]
      BY KnownAreVersions DEF Versions
    <3>2. u \in v .. Known[c] => u \in known
      BY <1>1 DEF Missing
    <3>3. QED
      BY <3>1, <3>2
  <2>2. QED
    BY <1>1, <2>1 DEF Close, Goto, Continued
<1>2. ASSUME NEW w \in Missing(c, v, known),
             \A u \in Missing(c, v, known) : w <= u,
             at' = [at EXCEPT ![c] = w], stmt' = [stmt EXCEPT ![c] = 1],
             Goto(c, "run"), UNCHANGED <<lock, answer>>
      PROVE  /\ phase' = [phase EXCEPT ![c] = "run"]
             /\ w \in Versions
             /\ 1 .. w - 1 \subseteq R
             /\ w \notin R
             /\ R \subseteq known \cup 1 .. w - 1
  <2>1. w \in v .. Known[c] /\ w \notin known /\ Known[c] \in Versions
    BY KnownAreVersions DEF Missing
  <2>2. w \in Versions /\ w \in Nat /\ v <= w
    BY <2>1, LatestIsVersion DEF Versions
  <2>3. ASSUME NEW u \in 1 .. w - 1 PROVE u \in R
    <3>1. CASE u < v
      BY <3>1, <2>2
    <3>2. CASE u >= v
      <4>1. u \in v .. Known[c]
        BY <2>1, <2>2, <3>2, LatestIsVersion DEF Versions
      <4>2. u \notin Missing(c, v, known)
        BY <1>2, <2>2
      <4>3. u \in known
        BY <4>1, <4>2 DEF Missing
      <4>4. QED
        BY <4>3
    <3>3. QED
      BY <2>2, <3>1, <3>2
  <2>4. w \notin 1 .. v - 1
    BY <2>2
  <2>5. 1 .. v - 1 \subseteq 1 .. w - 1
    BY <2>2
  <2>6. QED
    BY <1>2, <2>1, <2>2, <2>3, <2>4, <2>5 DEF Goto
<1>3. QED
  BY <1>1, <1>2 DEF Continue, Continued

(* A step that leaves server and other clients alone and takes its client  *)
(* out of the migrations keeps the invariant.                              *)
LEMMA InvIdle ==
  ASSUME NEW c \in Clients, NEW ph \in {"idle", "lock", "check", "orphan"}, TypeOK, Inv,
         phase' = [phase EXCEPT ![c] = ph],
         UNCHANGED <<done, recorded, applied, at, stmt>>,
         \/ UNCHANGED lock /\ (ph \in Inside => lock = c)
         \/ lock' = c /\ lock = Nobody
         \/ lock' = Nobody /\ lock = c /\ ph = "idle"
  PROVE  Inv'
<1>1. Recorded' = Recorded
  BY DEF Recorded
<1>2. Locked'
  BY NobodyIsNoClient DEF Inv, Locked, Inside, TypeOK
<1>3. RecordedIsDone'
  BY <1>1 DEF Inv, RecordedIsDone, Statements
<1>4. WorkIsNext'
  <2>1. SUFFICES ASSUME NEW d \in Clients, phase'[d] \in Working
                 PROVE  phase[d] \in Working /\ phase'[d] = phase[d]
    BY <1>1 DEF Inv, WorkIsNext
  <2>2. d # c
    BY <2>1 DEF Working, TypeOK
  <2>3. QED
    BY <2>1, <2>2 DEF TypeOK
<1>5. QED
  BY <1>2, <1>3, <1>4 DEF Inv

(* A version is recorded when all before it are and it is done itself.     *)
LEMMA RecordedGrows ==
  ASSUME NEW c \in Clients, TypeOK, Inv, Record(c)
  PROVE  /\ Recorded' = Recorded \cup {at[c]}
         /\ RecordedIsDone'
<1>1. at[c] \in Versions /\ phase[c] = "record" /\ done' = done
  BY DEF Record, At, TypeOK
<1>2. recorded' = [recorded EXCEPT ![at[c]] = Sum[c][at[c]]]
  BY DEF Record
<1>3. Sum[c][at[c]] # NoSum
  BY <1>1, SumsAreSums
<1>4. Recorded' = Recorded \cup {at[c]}
  BY <1>1, <1>2, <1>3 DEF Recorded, TypeOK
<1>5. Statements(at[c]) \subseteq done /\ 1 .. at[c] - 1 \subseteq Recorded
  BY <1>1 DEF Inv, WorkIsNext, Working, Statements
<1>6. 1 .. at[c] \subseteq Recorded'
  <2>1. \A u \in 1 .. at[c] : u = at[c] \/ u \in 1 .. at[c] - 1
    BY <1>1, LatestIsVersion DEF Versions
  <2>2. QED
    BY <1>4, <1>5, <2>1
<1>7. ASSUME NEW v \in Recorded'
      PROVE  Statements(v) \subseteq done' /\ 1 .. v \subseteq Recorded'
  <2>1. CASE v = at[c]
    BY <1>1, <1>5, <1>6, <2>1
  <2>2. CASE v \in Recorded
    BY <1>1, <1>4, <2>2 DEF Inv, RecordedIsDone
  <2>3. QED
    BY <1>4, <2>1, <2>2
<1>8. QED
  BY <1>4, <1>7 DEF RecordedIsDone, Statements

(* What the upgrades rely on holds in every reachable state.               *)
LEMMA Inductive == Spec => []Inv
<1>1. Init => Inv
  <2>1. SUFFICES ASSUME Init PROVE Inv
    OBVIOUS
  <2>2. Locked /\ WorkIsNext
    BY <2>1 DEF Init, Locked, WorkIsNext, Inside, Working
  <2>3. PICK n \in 0 .. Latest :
          /\ done = UNION {Statements(v) : v \in 1 .. n}
          /\ \/ n = 0 /\ recorded = [v \in Versions |-> NoSum]
             \/ \E c \in Clients :
                  recorded = [v \in Versions |-> IF v <= n THEN Sum[c][v] ELSE NoSum]
    BY <2>1 DEF Init
  <2>4. 1 .. n \subseteq Versions /\ n \in Nat
    BY LatestIsVersion DEF Versions
  <2>5. CASE n = 0 /\ recorded = [v \in Versions |-> NoSum]
    BY <2>2, <2>5 DEF Recorded, RecordedIsDone, Inv
  <2>6. ASSUME NEW c \in Clients,
               recorded = [v \in Versions |-> IF v <= n THEN Sum[c][v] ELSE NoSum]
        PROVE  Inv
    <3>1. Recorded = 1 .. n
      BY <2>4, <2>6, SumsAreSums, LatestIsVersion DEF Recorded, Versions
    <3>2. \A v \in 1 .. n : 1 .. v \subseteq 1 .. n
      BY <2>4
    <3>3. QED
      BY <2>2, <2>3, <3>1, <3>2 DEF RecordedIsDone, Inv
  <2>7. QED
    BY <2>3, <2>5, <2>6
<1>2. TypeOK /\ Inv /\ [Next]_vars => Inv'
  <2>1. SUFFICES ASSUME TypeOK, Inv, [Next]_vars PROVE Inv'
    OBVIOUS
  <2>2. ASSUME NEW c \in Clients, Open(c) PROVE Inv'
    BY <2>1, <2>2, InvIdle DEF Open, Goto, Inside, serverVars
  <2>3. ASSUME NEW c \in Clients, TakeLock(c) PROVE Inv'
    BY <2>1, <2>3, InvIdle DEF TakeLock, Goto, serverVars
  <2>4. ASSUME NEW c \in Clients, LockTimesOut(c) PROVE Inv'
    BY <2>1, <2>4, InvIdle DEF LockTimesOut, Goto, Inside, serverVars
  <2>5. ASSUME NEW c \in Clients, Check(c), Refused(c) PROVE Inv'
    <3>1. phase[c] = "check" /\ lock = c
      BY <2>1, <2>5 DEF Check, At, Inv, Locked, Inside
    <3>2. Close(c, "error") /\ UNCHANGED <<done, recorded, at, stmt>>
      BY <2>5 DEF Check, serverVars
    <3>3. phase' = [phase EXCEPT ![c] = "idle"] /\ lock' = Nobody
      BY <3>2 DEF Close, Goto
    <3>4. Recorded' = Recorded
      BY <3>2 DEF Recorded
    <3>5. Locked'
      BY <2>1, <3>1, <3>3, NobodyIsNoClient DEF Inv, Locked, Inside, TypeOK
    <3>6. \A d \in Clients : phase'[d] \in Working =>
            d # c /\ phase'[d] = phase[d] /\ applied'[d] = applied[d]
      BY <2>1, <2>5, <3>3 DEF Check, Working, TypeOK
    <3>7. WorkIsNext'
      BY <2>1, <3>2, <3>4, <3>6 DEF Inv, WorkIsNext
    <3>8. RecordedIsDone'
      BY <2>1, <3>2, <3>4 DEF Inv, RecordedIsDone, Statements
    <3>9. QED
      BY <3>5, <3>7, <3>8 DEF Inv
  <2>6. ASSUME NEW c \in Clients, Check(c), ~Refused(c) PROVE Inv'
    <3>1. phase[c] = "check" /\ lock = c
      BY <2>1, <2>6 DEF Check, At, Inv, Locked, Inside
    <3>2. Continue(c, 1, Recorded) /\ UNCHANGED <<done, recorded>>
      BY <2>6 DEF Check, serverVars
    <3>3. Recorded' = Recorded /\ Recorded \subseteq Versions
      BY <3>2 DEF Recorded
    <3>4. applied' = [applied EXCEPT ![c] = Recorded]
      BY <2>6 DEF Check
    <3>5. 1 .. 1 - 1 = {} /\ 1 \in Nat \ {0}
      OBVIOUS
    <3>6. RecordedIsDone'
      BY <2>1, <3>2, <3>3 DEF Inv, RecordedIsDone, Statements
    <3>7. \/ /\ phase' = [phase EXCEPT ![c] = "idle"]
             /\ lock' = Nobody
             /\ UNCHANGED <<at, stmt>>
          \/ /\ phase' = [phase EXCEPT ![c] = "run"]
             /\ stmt' = [stmt EXCEPT ![c] = 1]
             /\ \E w \in Versions :
                  /\ at' = [at EXCEPT ![c] = w]
                  /\ 1 .. w - 1 \subseteq Recorded
                  /\ w \notin Recorded
                  /\ Recorded \subseteq Recorded \cup 1 .. w - 1
             /\ UNCHANGED lock
      <4>1. Continued(c, Recorded, Recorded)
        BY <2>1, <3>2, <3>3, <3>5, ContinueWork
      <4>2. QED
        BY <4>1 DEF Continued
    <3>8. Locked'
      BY <2>1, <3>1, <3>7, NobodyIsNoClient DEF Inv, Locked, Inside, TypeOK
    <3>9. WorkIsNext'
      <4>1. SUFFICES ASSUME NEW d \in Clients, phase'[d] \in Working
                     PROVE  /\ 1 .. at'[d] - 1 \subseteq Recorded
                            /\ at'[d] \notin Recorded
                            /\ applied'[d] \subseteq Recorded
                            /\ Recorded \subseteq applied'[d] \cup 1 .. at'[d] - 1
                            /\ \A i \in DOMAIN Script[at'[d]] :
                                 phase'[d] = "record" \/ i < stmt'[d]
                                   => <<at'[d], i>> \in done
        BY <3>2, <3>3 DEF WorkIsNext
      <4>2. CASE d = c
        <5>1. phase'[c] = "run" /\ stmt'[c] = 1 /\ applied'[c] = Recorded
          BY <2>1, <3>4, <3>7, <4>1, <4>2 DEF Working, TypeOK
        <5>2. PICK w \in Versions :
                 /\ at' = [at EXCEPT ![c] = w]
                 /\ 1 .. w - 1 \subseteq Recorded
                 /\ w \notin Recorded
          BY <2>1, <3>7, <5>1 DEF TypeOK
        <5>3. at'[c] = w
          BY <2>1, <5>2 DEF TypeOK
        <5>4. \A i \in DOMAIN Script[w] : ~(i < 1)
          BY <5>2, Scripts
        <5>5. QED
          BY <4>2, <5>1, <5>2, <5>3, <5>4
      <4>3. CASE d # c
        <5>1. /\ phase'[d] = phase[d] /\ at'[d] = at[d]
              /\ stmt'[d] = stmt[d] /\ applied'[d] = applied[d]
          BY <2>1, <3>4, <3>7, <4>3 DEF TypeOK
        <5>2. QED
          BY <2>1, <4>1, <5>1 DEF Inv, WorkIsNext
      <4>4. QED
        BY <4>2, <4>3
    <3>10. QED
      BY <3>6, <3>8, <3>9 DEF Inv
  <2>7. ASSUME NEW c \in Clients, Execute(c) PROVE Inv'
    <3>1. /\ phase[c] = "run" /\ done' = done \cup {Here(c)}
          /\ UNCHANGED <<recorded, lock, applied, at>>
      BY <2>7 DEF Execute, At
    <3>2. Recorded' = Recorded
      BY <3>1 DEF Recorded
    <3>3. RecordedIsDone'
      BY <2>1, <3>1, <3>2 DEF Inv, RecordedIsDone, Statements
    <3>4. /\ stmt[c] \in DOMAIN Script[at[c]] /\ stmt[c] \in Nat
          /\ at[c] \in Versions
      BY <2>1 DEF TypeOK
    <3>5. \/ /\ stmt[c] < Len(Script[at[c]])
             /\ stmt' = [stmt EXCEPT ![c] = stmt[c] + 1]
             /\ phase' = phase
          \/ /\ stmt[c] >= Len(Script[at[c]])
             /\ stmt' = stmt
             /\ phase' = [phase EXCEPT ![c] = "record"]
      BY <2>7, <3>4, Scripts DEF Execute, Goto
    <3>6. Locked'
      BY <2>1, <3>1, <3>5 DEF Inv, Locked, Inside, TypeOK
    <3>7. WorkIsNext'
      <4>1. SUFFICES ASSUME NEW d \in Clients, phase'[d] \in Working
                     PROVE  /\ 1 .. at[d] - 1 \subseteq Recorded
                            /\ at[d] \notin Recorded
                            /\ applied[d] \subseteq Recorded
                            /\ Recorded \subseteq applied[d] \cup 1 .. at[d] - 1
                            /\ \A i \in DOMAIN Script[at[d]] :
                                 phase'[d] = "record" \/ i < stmt'[d]
                                   => <<at[d], i>> \in done'
        BY <3>1, <3>2 DEF WorkIsNext
      <4>2. CASE d = c
        <5>1. /\ 1 .. at[c] - 1 \subseteq Recorded
              /\ at[c] \notin Recorded
              /\ applied[c] \subseteq Recorded
              /\ Recorded \subseteq applied[c] \cup 1 .. at[c] - 1
              /\ \A i \in DOMAIN Script[at[c]] : i < stmt[c] => <<at[c], i>> \in done
          BY <2>1, <3>1 DEF Inv, WorkIsNext, Working
        <5>2. ASSUME NEW i \in DOMAIN Script[at[c]],
                     phase'[c] = "record" \/ i < stmt'[c]
              PROVE  i <= stmt[c]
          <6>1. i \in 1 .. Len(Script[at[c]]) /\ Len(Script[at[c]]) \in Nat
            BY <3>4, Scripts
          <6>2. CASE stmt' = stmt /\ stmt[c] >= Len(Script[at[c]])
            BY <3>4, <6>1, <6>2
          <6>3. CASE stmt' = [stmt EXCEPT ![c] = stmt[c] + 1] /\ phase' = phase
            <7>1. stmt'[c] = stmt[c] + 1 /\ phase'[c] # "record"
              BY <2>1, <3>1, <6>3 DEF TypeOK
            <7>2. QED
              BY <3>4, <5>2, <6>1, <7>1
          <6>4. QED
            BY <3>5, <6>2, <6>3
        <5>3. ASSUME NEW i \in DOMAIN Script[at[c]], i <= stmt[c]
              PROVE  <<at[c], i>> \in done'
          <6>1. i \in Nat
            BY <3>4, Scripts
          <6>2. i < stmt[c] \/ i = stmt[c]
            BY <3>4, <5>3, <6>1
          <6>3. QED
            BY <3>1, <5>1, <6>2 DEF Here
        <5>4. QED
          BY <4>2, <5>1, <5>2, <5>3
      <4>3. CASE d # c
        <5>1. phase'[d] = phase[d] /\ stmt'[d] = stmt[d]
          BY <2>1, <3>5, <4>3 DEF TypeOK
        <5>2. QED
          BY <2>1, <3>1, <4>1, <5>1 DEF Inv, WorkIsNext
      <4>4. QED
        BY <4>2, <4>3
    <3>8. QED
      BY <3>3, <3>6, <3>7 DEF Inv
  <2>8. ASSUME NEW c \in Clients, Duplicate(c) PROVE Inv'
    <3>1. lock = c
      BY <2>1, <2>8 DEF Duplicate, At, Inv, Locked, Inside
    <3>2. QED
      BY <2>1, <2>8, <3>1, InvIdle DEF Duplicate, Close, Goto, serverVars
  <2>9. ASSUME NEW c \in Clients, Record(c) PROVE Inv'
    <3>1. phase[c] = "record" /\ lock = c /\ at[c] \in Versions
      BY <2>1, <2>9 DEF Record, At, Inv, Locked, Inside, TypeOK
    <3>2. /\ Continue(c, at[c] + 1, applied[c])
          /\ UNCHANGED <<done, applied>>
      BY <2>9 DEF Record
    <3>3. Recorded' = Recorded \cup {at[c]} /\ RecordedIsDone'
      BY <2>1, <2>9, RecordedGrows
    <3>4. /\ at[c] + 1 \in Nat \ {0}
          /\ 1 .. (at[c] + 1) - 1 = 1 .. at[c]
      BY <3>1, LatestIsVersion DEF Versions
    <3>5. Recorded' \subseteq Versions
      BY <3>1, <3>3 DEF Recorded
    <3>6. /\ applied[c] \subseteq Recorded
          /\ Recorded \subseteq applied[c] \cup 1 .. at[c] - 1
      BY <2>1, <3>1 DEF Inv, WorkIsNext, Working
    <3>7. 1 .. at[c] \subseteq Recorded'
      BY <3>3 DEF RecordedIsDone
    <3>8. Recorded' \subseteq applied[c] \cup 1 .. at[c]
      <4>1. 1 .. at[c] - 1 \subseteq 1 .. at[c] /\ at[c] \in 1 .. at[c]
        BY <3>1, LatestIsVersion DEF Versions
      <4>2. QED
        BY <3>3, <3>6, <4>1
    <3>9. \/ /\ phase' = [phase EXCEPT ![c] = "idle"]
             /\ lock' = Nobody
             /\ UNCHANGED <<at, stmt>>
          \/ /\ phase' = [phase EXCEPT ![c] = "run"]
             /\ stmt' = [stmt EXCEPT ![c] = 1]
             /\ \E w \in Versions :
                  /\ at' = [at EXCEPT ![c] = w]
                  /\ 1 .. w - 1 \subseteq Recorded'
                  /\ w \notin Recorded'
                  /\ Recorded' \subseteq applied[c] \cup 1 .. w - 1
             /\ UNCHANGED lock
      <4>1. /\ 1 .. (at[c] + 1) - 1 \subseteq Recorded'
            /\ applied[c] \subseteq Recorded'
            /\ Recorded' \subseteq applied[c] \cup 1 .. (at[c] + 1) - 1
        <5>1. applied[c] \subseteq Recorded'
          BY <3>3, <3>6
        <5>2. QED
          BY <3>4, <3>7, <3>8, <5>1, Zenon
      <4>2. Continued(c, applied[c], Recorded')
        BY <2>1, <3>2, <3>4, <3>5, <4>1, ContinueWork
      <4>3. QED
        BY <4>2 DEF Continued
    <3>10. Locked'
      BY <2>1, <3>1, <3>9, NobodyIsNoClient DEF Inv, Locked, Inside, TypeOK
    <3>11. WorkIsNext'
      <4>1. SUFFICES ASSUME NEW d \in Clients, phase'[d] \in Working
                     PROVE  /\ 1 .. at'[d] - 1 \subseteq Recorded'
                            /\ at'[d] \notin Recorded'
                            /\ applied[d] \subseteq Recorded'
                            /\ Recorded' \subseteq applied[d] \cup 1 .. at'[d] - 1
                            /\ \A i \in DOMAIN Script[at'[d]] :
                                 phase'[d] = "record" \/ i < stmt'[d]
                                   => <<at'[d], i>> \in done
        BY <3>2 DEF WorkIsNext
      <4>2. d = c
        <5>1. SUFFICES ASSUME d # c PROVE FALSE
          OBVIOUS
        <5>2. phase'[d] = phase[d]
          BY <2>1, <3>9, <5>1 DEF TypeOK
        <5>3. lock = d
          BY <2>1, <4>1, <5>2 DEF Inv, Locked, Working, Inside
        <5>4. QED
          BY <3>1, <5>1, <5>3
      <4>3. phase'[c] = "run" /\ stmt'[c] = 1
        BY <2>1, <3>9, <4>1, <4>2 DEF Working, TypeOK
      <4>4. PICK w \in Versions :
               /\ at' = [at EXCEPT ![c] = w]
               /\ 1 .. w - 1 \subseteq Recorded'
               /\ w \notin Recorded'
               /\ Recorded' \subseteq applied[c] \cup 1 .. w - 1
        BY <2>1, <3>9, <4>3 DEF TypeOK
      <4>5. at'[c] = w
        BY <2>1, <4>4 DEF TypeOK
      <4>6. \A i \in DOMAIN Script[w] : ~(i < 1)
        BY <4>4, Scripts
      <4>7. applied[c] \subseteq Recorded'
        BY <3>3, <3>6
      <4>8. QED
        BY <4>2, <4>3, <4>4, <4>5, <4>6, <4>7
    <3>12. QED
      BY <3>3, <3>10, <3>11 DEF Inv
  <2>10. ASSUME NEW c \in Clients, Lost(c) PROVE Inv'
    <3>1. lock = c
      BY <2>1, <2>10 DEF Lost, Inv, Locked, Inside
    <3>2. QED
      BY <2>1, <2>10, <3>1, InvIdle DEF Lost, Close, Goto, serverVars
  <2>11. ASSUME NEW c \in Clients, GivesUp(c) PROVE Inv'
    <3>1. lock = c
      BY <2>1, <2>11 DEF GivesUp, At, Inv, Locked, Inside
    <3>2. QED
      BY <2>1, <2>11, <3>1, InvIdle DEF GivesUp, Goto, serverVars
  <2>12. ASSUME NEW c \in Clients, OrphanEnds(c) PROVE Inv'
    <3>1. /\ phase[c] = "orphan" /\ lock = c
          /\ phase' = [phase EXCEPT ![c] = "idle"] /\ lock' = Nobody
          /\ done \subseteq done'
          /\ UNCHANGED <<recorded, applied, at, stmt>>
      BY <2>1, <2>12 DEF OrphanEnds, Close, Goto, At, Inv, Locked, Inside
    <3>2. Recorded' = Recorded
      BY <3>1 DEF Recorded
    <3>3. Locked'
      BY <2>1, <3>1, NobodyIsNoClient DEF Inv, Locked, Inside, TypeOK
    <3>4. RecordedIsDone'
      BY <2>1, <3>1, <3>2 DEF Inv, RecordedIsDone, Statements
    <3>5. \A d \in Clients : phase'[d] \in Working => phase'[d] = phase[d]
      BY <2>1, <3>1 DEF Working, TypeOK
    <3>6. WorkIsNext'
      BY <2>1, <3>1, <3>2, <3>5 DEF Inv, WorkIsNext
    <3>7. QED
      BY <3>3, <3>4, <3>6 DEF Inv
  <2>13. CASE UNCHANGED vars
    BY <2>1, <2>13
    DEF Inv, Locked, RecordedIsDone, WorkIsNext, Recorded, Statements, vars, serverVars,
        clientVars
  <2>14. QED
    BY <2>1, <2>2, <2>3, <2>4, <2>5, <2>6, <2>7, <2>8, <2>9, <2>10, <2>11, <2>12, <2>13
    DEF Next, Run
<1>3. QED
  BY <1>1, <1>2, TypeCorrect, PTL DEF Spec

----------------------------------------------------------------------------
(* Every statement up to a version that is offered to the providers has    *)
(* been executed (runtime.py:172, schema.py:198-216).                      *)
THEOREM RequiredHolds == Spec => []RequiredIsThere
<1>1. Inv => RequiredIsThere
  BY DEF Inv, RecordedIsDone, RequiredIsThere, Offered, Versions, Recorded
<1>2. QED
  BY <1>1, Inductive, PTL

(* What a client that may write its inventory needs has been executed      *)
(* (schema.py:130-177).                                                    *)
THEOREM UsableHolds == Spec => []UsableIsThere
<1>1. Inv => UsableIsThere
  BY DEF Inv, RecordedIsDone, UsableIsThere, Usable
<1>2. QED
  BY <1>1, Inductive, PTL

(* An upgrade that ends well has brought all migrations of its client      *)
(* (schema.py:216).                                                        *)
THEOREM SuccessHolds == Spec => []SuccessIsComplete
<1>1. Init => SuccessIsComplete
  BY DEF Init, SuccessIsComplete
<1>2. TypeOK /\ Inv /\ SuccessIsComplete /\ [Next]_vars => SuccessIsComplete'
  <2>1. SUFFICES ASSUME TypeOK, Inv, SuccessIsComplete, [Next]_vars
                 PROVE  SuccessIsComplete'
    OBVIOUS
  <2>3. ASSUME NEW c \in Clients,
               \/ Open(c) \/ TakeLock(c) \/ LockTimesOut(c) \/ Execute(c) \/ Duplicate(c)
               \/ Lost(c) \/ GivesUp(c) \/ OrphanEnds(c)
        PROVE  /\ Recorded' = Recorded
               /\ \A d \in Clients : answer'[d] = "ready" => answer[d] = "ready"
    BY <2>1, <2>3
    DEF Open, TakeLock, LockTimesOut, Execute, Duplicate, Lost, GivesUp, OrphanEnds, Close,
        Recorded, TypeOK, serverVars
  <2>4. ASSUME NEW c \in Clients, Check(c), Refused(c) PROVE SuccessIsComplete'
    BY <2>1, <2>4 DEF Check, Close, SuccessIsComplete, Recorded, TypeOK, serverVars
  <2>5. ASSUME NEW c \in Clients, Check(c), ~Refused(c) PROVE SuccessIsComplete'
    <3>1. Continue(c, 1, Recorded) /\ UNCHANGED recorded
      BY <2>5 DEF Check, serverVars
    <3>2. 1 .. 1 - 1 = {} /\ 1 \in Nat \ {0}
      OBVIOUS
    <3>3. Recorded' = Recorded /\ Recorded \subseteq Versions
      BY <3>1 DEF Recorded
    <3>4. \/ /\ answer' = [answer EXCEPT ![c] = "ready"]
             /\ 1 .. Known[c] \subseteq Recorded
          \/ UNCHANGED answer
      <4>1. Continued(c, Recorded, Recorded)
        BY <2>1, <3>1, <3>2, <3>3, ContinueWork
      <4>2. QED
        BY <4>1 DEF Continued
    <3>5. QED
      BY <2>1, <3>3, <3>4 DEF SuccessIsComplete, TypeOK
  <2>6. ASSUME NEW c \in Clients, Record(c) PROVE SuccessIsComplete'
    <3>1. /\ Continue(c, at[c] + 1, applied[c])
          /\ phase[c] = "record" /\ at[c] \in Versions
      BY <2>1, <2>6 DEF Record, At, TypeOK
    <3>2. Recorded' = Recorded \cup {at[c]} /\ RecordedIsDone'
      BY <2>1, <2>6, RecordedGrows
    <3>3. /\ at[c] + 1 \in Nat \ {0}
          /\ 1 .. (at[c] + 1) - 1 = 1 .. at[c]
          /\ 1 .. at[c] - 1 \subseteq 1 .. at[c] /\ at[c] \in 1 .. at[c]
      BY <3>1, LatestIsVersion DEF Versions
    <3>4. /\ applied[c] \subseteq Recorded
          /\ Recorded \subseteq applied[c] \cup 1 .. at[c] - 1
      BY <2>1, <3>1 DEF Inv, WorkIsNext, Working
    <3>5. /\ Recorded' \subseteq Versions
          /\ 1 .. (at[c] + 1) - 1 \subseteq Recorded'
          /\ applied[c] \subseteq Recorded'
          /\ Recorded' \subseteq applied[c] \cup 1 .. (at[c] + 1) - 1
      BY <3>1, <3>2, <3>3, <3>4 DEF RecordedIsDone, Recorded
    <3>6. \/ /\ answer' = [answer EXCEPT ![c] = "ready"]
             /\ 1 .. Known[c] \subseteq Recorded'
          \/ UNCHANGED answer
      <4>1. Continued(c, applied[c], Recorded')
        BY <2>1, <3>1, <3>3, <3>5, ContinueWork
      <4>2. QED
        BY <4>1 DEF Continued
    <3>7. QED
      BY <2>1, <3>2, <3>6 DEF SuccessIsComplete, TypeOK
  <2>7. CASE UNCHANGED vars
    BY <2>1, <2>7 DEF SuccessIsComplete, Recorded, vars, serverVars, clientVars
  <2>8. QED
    BY <2>1, <2>3, <2>4, <2>5, <2>6, <2>7 DEF Next, Run, SuccessIsComplete
<1>3. QED
  BY <1>1, <1>2, TypeCorrect, Inductive, PTL DEF Spec

----------------------------------------------------------------------------
(* Who has executed a statement that is not recorded is still about it.    *)
DoneByWorker ==
  \A v \in Versions : \A i \in DOMAIN Script[v] : <<v, i>> \in done =>
    \/ v \in Recorded
    \/ \E c \in Clients : /\ phase[c] \in Working /\ at[c] = v
                          /\ phase[c] = "record" \/ i < stmt[c]

Uninterrupted ==
  faults = 0 =>
    /\ \A c \in Clients : answer[c] # "duplicate" /\ phase[c] # "orphan"
    /\ DoneByWorker

(* What a client is about to execute, nobody has executed.                 *)
LEMMA NoDuplicate ==
  ASSUME TypeOK, Inv, DoneByWorker, NEW c \in Clients, phase[c] = "run"
  PROVE  Here(c) \notin done
<1>1. SUFFICES ASSUME Here(c) \in done PROVE FALSE
  OBVIOUS
<1>2. at[c] \in Versions /\ stmt[c] \in DOMAIN Script[at[c]] /\ stmt[c] \in Nat
  BY DEF TypeOK
<1>3. at[c] \notin Recorded /\ lock = c
  BY DEF Inv, WorkIsNext, Locked, Working, Inside
<1>4. PICK d \in Clients : /\ phase[d] \in Working
                           /\ phase[d] = "record" \/ stmt[c] < stmt[d]
  BY <1>1, <1>2, <1>3 DEF DoneByWorker, Here
<1>5. d = c
  BY <1>3, <1>4 DEF Inv, Locked, Working, Inside
<1>6. QED
  BY <1>2, <1>4, <1>5

(* Without an interruption no upgrade runs into a half-done migration,     *)
(* however many clients upgrade at once (schema.py:184-216).               *)
THEOREM FaultsHold == Spec => []FailsOnlyAfterFault
<1>1. Init => Uninterrupted
  <2>1. SUFFICES ASSUME Init PROVE Uninterrupted
    OBVIOUS
  <2>2. PICK n \in 0 .. Latest :
          /\ done = UNION {Statements(v) : v \in 1 .. n}
          /\ \/ n = 0 /\ recorded = [v \in Versions |-> NoSum]
             \/ \E c \in Clients :
                  recorded = [v \in Versions |-> IF v <= n THEN Sum[c][v] ELSE NoSum]
    BY <2>1 DEF Init
  <2>3. ASSUME NEW v \in Versions, NEW i \in DOMAIN Script[v], <<v, i>> \in done
        PROVE  v \in Recorded
    <3>1. v \in 1 .. n
      BY <2>2, <2>3 DEF Statements
    <3>2. n # 0 /\ v <= n
      BY <3>1, LatestIsVersion
    <3>3. QED
      BY <2>2, <3>2, SumsAreSums DEF Recorded
  <2>4. \A c \in Clients : answer[c] = "none" /\ phase[c] = "idle"
    BY <2>1 DEF Init
  <2>5. QED
    BY <2>3, <2>4 DEF Uninterrupted, DoneByWorker
<1>2. TypeOK /\ Inv /\ Uninterrupted /\ [Next]_vars => Uninterrupted'
  <2>1. SUFFICES ASSUME TypeOK, Inv, Uninterrupted, [Next]_vars, faults' = 0
                 PROVE  (\A c \in Clients : answer'[c] # "duplicate" /\ phase'[c] # "orphan")
                        /\ DoneByWorker'
    BY DEF Uninterrupted
  <2> DEFINE Calm == (\A c \in Clients : answer'[c] # "duplicate" /\ phase'[c] # "orphan")
                     /\ DoneByWorker'
  <2>2. CASE faults # 0
    <3>1. faults' # 0
      BY <2>1, <2>2
      DEF Next, Run, Open, TakeLock, LockTimesOut, Check, Execute, Duplicate, Record, Lost,
          GivesUp, OrphanEnds, Fault, TypeOK, vars, clientVars
    <3>2. QED
      BY <2>1, <3>1
  <2>3. CASE faults = 0
    <3>1. (\A c \in Clients : answer[c] # "duplicate" /\ phase[c] # "orphan") /\ DoneByWorker
      BY <2>1, <2>3 DEF Uninterrupted
    <3>2. ASSUME NEW c \in Clients, Open(c) \/ TakeLock(c) \/ LockTimesOut(c) PROVE Calm
      <4>1. /\ phase[c] \notin Working /\ \A d \in Clients \ {c} : phase'[d] = phase[d]
            /\ UNCHANGED <<recorded, done, at, stmt>>
            /\ \A d \in Clients : answer'[d] # "duplicate" /\ phase'[d] # "orphan"
        BY <2>1, <3>1, <3>2 DEF Open, TakeLock, LockTimesOut, At, Goto, Working, TypeOK, serverVars
      <4>2. DoneByWorker'
        BY <3>1, <4>1 DEF DoneByWorker, Recorded
      <4>3. QED
        BY <4>1, <4>2
    <3>3. ASSUME NEW c \in Clients, Check(c) PROVE Calm
      <4>1. phase[c] = "check" /\ lock = c /\ UNCHANGED <<recorded, done>>
        BY <2>1, <3>3 DEF Check, At, Inv, Locked, Inside, serverVars
      <4>2. \A d \in Clients : answer'[d] # "duplicate" /\ phase'[d] # "orphan"
        BY <2>1, <3>1, <3>3 DEF Check, Close, Continue, Goto, TypeOK
      <4>3. \A d \in Clients : phase[d] \notin Working
        BY <2>1, <4>1 DEF Inv, Locked, Inside, Working
      <4>4. DoneByWorker'
        BY <3>1, <4>1, <4>3 DEF DoneByWorker, Recorded
      <4>5. QED
        BY <4>2, <4>4
    <3>4. ASSUME NEW c \in Clients, Execute(c) PROVE Calm
      <4>1. /\ phase[c] = "run" /\ done' = done \cup {Here(c)} /\ lock = c
            /\ UNCHANGED <<recorded, at, answer>>
        BY <2>1, <3>4 DEF Execute, At, Inv, Locked, Inside
      <4>2. at[c] \in Versions /\ stmt[c] \in Nat /\ stmt[c] \in DOMAIN Script[at[c]]
        BY <2>1 DEF TypeOK
      <4>3. \/ phase'[c] = "run" /\ stmt'[c] = stmt[c] + 1
            \/ phase'[c] = "record" /\ stmt[c] >= Len(Script[at[c]])
        BY <2>1, <3>4, <4>1, <4>2, Scripts DEF Execute, Goto, TypeOK
      <4>4. \A d \in Clients : phase'[d] # "orphan"
        BY <2>1, <3>1, <3>4 DEF Execute, Goto, TypeOK
      <4>5. ASSUME NEW v \in Versions, NEW i \in DOMAIN Script[v], <<v, i>> \in done',
                   v \notin Recorded
            PROVE  phase'[c] \in Working /\ at'[c] = v /\ (phase'[c] = "record" \/ i < stmt'[c])
        <5>1. i \in Nat
          BY Scripts
        <5>2. at[c] = v /\ i <= stmt[c]
          <6>1. CASE <<v, i>> = Here(c)
            BY <4>2, <6>1 DEF Here
          <6>2. CASE <<v, i>> \in done
            <7>1. PICK d \in Clients : /\ phase[d] \in Working /\ at[d] = v
                                       /\ phase[d] = "record" \/ i < stmt[d]
              BY <3>1, <4>5, <6>2 DEF DoneByWorker
            <7>2. d = c
              BY <2>1, <4>1, <7>1 DEF Inv, Locked, Inside, Working
            <7>3. QED
              BY <4>1, <4>2, <5>1, <7>1, <7>2
          <6>3. QED
            BY <4>1, <4>5, <6>1, <6>2
        <5>3. QED
          BY <4>1, <4>2, <4>3, <5>1, <5>2 DEF Working
      <4>6. Recorded' = Recorded
        BY <4>1 DEF Recorded
      <4>7. DoneByWorker'
        BY <4>5, <4>6 DEF DoneByWorker
      <4>8. QED
        BY <3>1, <4>1, <4>4, <4>7
    <3>5. ASSUME NEW c \in Clients, Duplicate(c) PROVE FALSE
      BY <2>1, <3>1, <3>5, NoDuplicate DEF Duplicate, At, Executable
    <3>6. ASSUME NEW c \in Clients, Record(c) PROVE Calm
      <4>1. phase[c] = "record" /\ lock = c /\ UNCHANGED done
        BY <2>1, <3>6 DEF Record, At, Inv, Locked, Inside
      <4>2. \A d \in Clients : answer'[d] # "duplicate" /\ phase'[d] # "orphan"
        BY <2>1, <3>1, <3>6 DEF Record, Close, Continue, Goto, TypeOK
      <4>3. Recorded' = Recorded \cup {at[c]}
        BY <2>1, <3>6, RecordedGrows
      <4>4. \A d \in Clients : phase[d] \in Working => d = c
        BY <2>1, <4>1 DEF Inv, Locked, Inside, Working
      <4>5. DoneByWorker'
        BY <3>1, <4>1, <4>3, <4>4 DEF DoneByWorker
      <4>6. QED
        BY <4>2, <4>5
    <3>7. ASSUME NEW c \in Clients, Lost(c) \/ GivesUp(c) PROVE FALSE
      BY <2>1, <2>3, <3>7 DEF Lost, GivesUp, Fault
    <3>8. ASSUME NEW c \in Clients, OrphanEnds(c) PROVE FALSE
      BY <3>1, <3>8 DEF OrphanEnds, At
    <3>9. CASE UNCHANGED vars
      BY <3>1, <3>9 DEF DoneByWorker, Recorded, vars, serverVars, clientVars
    <3>10. QED
      BY <2>1, <3>2, <3>3, <3>4, <3>5, <3>6, <3>7, <3>8, <3>9 DEF Next, Run
  <2>4. QED
    BY <2>2, <2>3
<1>3. Uninterrupted /\ TypeOK => FailsOnlyAfterFault
  BY DEF Uninterrupted, FailsOnlyAfterFault, TypeOK
<1>4. QED
  BY <1>1, <1>2, <1>3, TypeCorrect, Inductive, PTL DEF Spec
----------------------------------------------------------------------------
(* What is recorded is an interval from the first version on.              *)
LEMMA NewestRecorded ==
  RecordedIsDone => Newest \in 0 .. Latest /\ Recorded = 1 .. Newest
<1> SUFFICES ASSUME RecordedIsDone
             PROVE  Newest \in 0 .. Latest /\ Recorded = 1 .. Newest
  OBVIOUS
<1> DEFINE Gaps == {n \in Nat : n \notin Recorded /\ n # 0}
<1>1. Latest \in Nat \ {0} /\ Recorded \subseteq 1 .. Latest
  BY LatestIsVersion DEF Recorded, Versions
<1>2. Latest + 1 \in Gaps
  BY <1>1
<1>3. PICK m \in Gaps : \A n \in Gaps : ~(<<n, m>> \in OpToRel(<, Nat))
  <2>1. Gaps \subseteq Nat /\ Gaps # {}
    BY <1>2
  <2> HIDE DEF Gaps
  <2>2. IsWellFoundedOn(OpToRel(<, Nat), Nat)
    BY NatLessThanWellFounded, Zenon
  <2>3. QED
    BY <2>1, <2>2, WFMin
<1>4. \A n \in Gaps : ~(n < m)
  <2>1. ASSUME NEW n \in Gaps, n < m PROVE <<n, m>> \in OpToRel(<, Nat)
    BY <2>1 DEF OpToRel
  <2>2. QED
    BY <1>3, <2>1
<1>5. m \in Nat /\ m # 0 /\ m \notin Recorded /\ m - 1 \in Nat /\ m <= Latest + 1
  BY <1>1, <1>2, <1>4
<1>6. 1 .. m - 1 \subseteq Recorded
  BY <1>4, <1>5
<1>7. ASSUME NEW v \in Recorded PROVE v \in 1 .. m - 1
  <2>1. v \in Nat /\ 1 <= v /\ 1 .. v \subseteq Recorded
    BY <1>1 DEF RecordedIsDone
  <2>2. ~(m <= v)
    BY <1>5, <2>1
  <2>3. QED
    BY <1>5, <2>1, <2>2
<1>8. Recorded = 1 .. m - 1
  BY <1>6, <1>7
<1>9. m - 1 \in Recorded \cup {0} /\ \A v \in Recorded : v <= m - 1
  BY <1>5, <1>8
<1>10. \A n \in Recorded \cup {0} : (\A v \in Recorded : v <= n) => n = m - 1
  BY <1>5, <1>8
<1>11. Newest = m - 1
  BY <1>9, <1>10 DEF Newest
<1>12. QED
  BY <1>1, <1>5, <1>8, <1>11

(* A statement that runs on without its client is one of the next          *)
(* migration too: the session keeps the lock.                              *)
OrphanIsNext ==
  \A c \in Clients : phase[c] = "orphan" =>
    1 .. at[c] - 1 \subseteq Recorded /\ at[c] \notin Recorded

LEMMA OrphanInductive == Spec => []OrphanIsNext
<1>1. Init => OrphanIsNext
  BY DEF Init, OrphanIsNext
<1>2. TypeOK /\ Inv /\ OrphanIsNext /\ [Next]_vars => OrphanIsNext'
  <2>1. SUFFICES ASSUME TypeOK, Inv, OrphanIsNext, [Next]_vars,
                        NEW d \in Clients, phase'[d] = "orphan"
                 PROVE  1 .. at'[d] - 1 \subseteq Recorded' /\ at'[d] \notin Recorded'
    BY DEF OrphanIsNext
  <2>2. CASE phase[d] = "orphan"
    <3>1. lock = d /\ 1 .. at[d] - 1 \subseteq Recorded /\ at[d] \notin Recorded
      BY <2>1, <2>2 DEF Inv, Locked, Inside, OrphanIsNext
    <3>2. \A c \in Clients \ {d} : phase[c] \notin Inside
      BY <2>1, <3>1 DEF Inv, Locked
    <3>3. recorded' = recorded /\ at'[d] = at[d]
      BY <2>1, <2>2, <3>2
      DEF Next, Run, Open, TakeLock, LockTimesOut, Check, Execute, Duplicate, Record, Lost,
          GivesUp, OrphanEnds, At, Inside, vars, clientVars, serverVars
    <3>4. QED
      BY <3>1, <3>3 DEF Recorded
  <2>3. CASE phase[d] # "orphan"
    <3>1. GivesUp(d)
      BY <2>1, <2>3
      DEF Next, Run, Open, TakeLock, LockTimesOut, Check, Continue, Execute, Duplicate,
          Record, Lost, GivesUp, OrphanEnds, Close, Goto, TypeOK, vars, clientVars
    <3>2. phase[d] = "run" /\ UNCHANGED <<recorded, at>>
      BY <3>1 DEF GivesUp, At, serverVars
    <3>3. QED
      BY <2>1, <3>2 DEF Inv, WorkIsNext, Working, Recorded
  <2>4. QED
    BY <2>2, <2>3
<1>3. QED
  BY <1>1, <1>2, TypeCorrect, Inductive, PTL DEF Spec

(* A database that some client has brought to a version begins there.      *)
LEMMA StartsInOrder ==
  ASSUME Init, RecordedIsDone
  PROVE  Upgrade!Init
<1>1. PICK n \in 0 .. Latest :
        /\ done = UNION {Statements(v) : v \in 1 .. n}
        /\ \/ n = 0 /\ recorded = [v \in Versions |-> NoSum]
           \/ \E c \in Clients :
                recorded = [v \in Versions |-> IF v <= n THEN Sum[c][v] ELSE NoSum]
  BY DEF Init
<1>2. Recorded = 1 .. n
  BY <1>1, SumsAreSums, LatestIsVersion DEF Recorded, Versions
<1>3. Newest \in 0 .. Latest /\ 1 .. Newest = 1 .. n
  BY <1>2, NewestRecorded
<1>4. 1 .. Newest \subseteq Versions
  BY <1>3, LatestIsVersion DEF Versions
<1>5. {[v \in Versions |-> Statements(v)][w] : w \in 1 .. Newest}
        = {Statements(v) : v \in 1 .. Newest}
  BY <1>4
<1>6. QED
  BY <1>1, <1>3, <1>5 DEF Upgrade!Init

(* Every step builds a part of the next version, reports it, or stutters.  *)
LEMMA StepUpgrades ==
  ASSUME TypeOK, Inv, Inv', OrphanIsNext, [Next]_vars
  PROVE  [Upgrade!Next]_(Upgrade!upgradeVars)
<1> DEFINE Tables == [v \in Versions |-> Statements(v)]
<1>1. Newest \in 0 .. Latest /\ Recorded = 1 .. Newest /\ Latest \in Nat
  BY NewestRecorded, LatestIsVersion DEF Inv
<1>2. Newest' \in 0 .. Latest /\ Recorded' = 1 .. Newest'
  <2>1. (RecordedIsDone => Newest \in 0 .. Latest /\ Recorded = 1 .. Newest)'
    BY NewestRecorded, PTL
  <2>2. QED
    BY <2>1 DEF Inv
<1>3. ASSUME NEW c \in Clients, phase[c] \in Working \cup {"orphan"}
      PROVE  /\ at[c] = Newest + 1 /\ Newest < Latest
             /\ Tables[Newest + 1] = Statements(at[c])
  <2>1. 1 .. at[c] - 1 \subseteq 1 .. Newest /\ at[c] \notin 1 .. Newest /\ at[c] \in Versions
    BY <1>1, <1>3 DEF Inv, WorkIsNext, OrphanIsNext, TypeOK
  <2>2. at[c] \in Nat /\ 1 <= at[c] /\ at[c] <= Latest
    BY <1>1, <2>1 DEF Versions
  <2>3. at[c] = 1 \/ at[c] - 1 \in 1 .. at[c] - 1
    BY <2>2
  <2>4. at[c] = Newest + 1
    BY <1>1, <2>1, <2>2, <2>3
  <2>5. QED
    BY <1>1, <2>1, <2>2, <2>4
<1>4. recorded' = recorded => Newest' = Newest
  BY DEF Newest, Recorded
<1>5. ASSUME NEW c \in Clients, Execute(c) \/ OrphanEnds(c)
      PROVE  Upgrade!Build
  <2>1. /\ phase[c] \in Working \cup {"orphan"}
        /\ recorded' = recorded /\ done' = done \cup {Here(c)}
    BY <1>5 DEF Execute, OrphanEnds, At, Working
  <2>2. Here(c) \in Statements(at[c])
    BY DEF Here, Statements, TypeOK
  <2>3. QED
    BY <1>3, <1>4, <2>1, <2>2 DEF Upgrade!Build
<1>6. ASSUME NEW c \in Clients, Record(c)
      PROVE  Upgrade!Report
  <2>1. phase[c] = "record" /\ done' = done
    BY <1>6 DEF Record, At
  <2>2. at[c] = Newest + 1 /\ Newest < Latest /\ Tables[Newest + 1] = Statements(at[c])
    BY <1>3, <2>1 DEF Working
  <2>3. Statements(at[c]) \subseteq done
    BY <2>1 DEF Inv, WorkIsNext, Working, Statements
  <2>4. 1 .. Newest' = (1 .. Newest) \cup {Newest + 1}
    BY <1>1, <1>2, <1>6, <2>2, RecordedGrows
  <2>5. Newest' = Newest + 1
    <3>1. Newest + 1 \in 1 .. Newest'
      BY <2>4
    <3>2. Newest \in Nat /\ Newest' \in Nat /\ Newest + 1 <= Newest'
      BY <1>1, <1>2, <3>1
    <3>3. Newest' \in 1 .. Newest'
      BY <3>2
    <3>4. Newest' \in 1 .. Newest \/ Newest' = Newest + 1
      BY <2>4, <3>3
    <3>5. QED
      BY <3>2, <3>4
  <2>6. QED
    BY <2>1, <2>2, <2>3, <2>5 DEF Upgrade!Report
<1>7. ASSUME NEW c \in Clients,
             \/ Open(c) \/ TakeLock(c) \/ LockTimesOut(c) \/ Check(c) \/ Duplicate(c)
             \/ Lost(c) \/ GivesUp(c)
      PROVE  UNCHANGED serverVars
  BY <1>7 DEF Open, TakeLock, LockTimesOut, Check, Duplicate, Lost, GivesUp
<1>8. UNCHANGED vars => UNCHANGED serverVars
  BY DEF vars
<1>9. UNCHANGED serverVars => UNCHANGED Upgrade!upgradeVars
  BY <1>4 DEF serverVars, Upgrade!upgradeVars
<1>10. QED
  BY <1>5, <1>6, <1>7, <1>8, <1>9 DEF Next, Run, Upgrade!Next

(* However many clients upgrade, are cut off, give up and try again, the   *)
(* database goes through its versions in order, each built before it is    *)
(* reported (schema.py:130-224).                                           *)
THEOREM Refinement == Spec => UpgradesInOrder
<1>1. Init /\ Inv => Upgrade!Init
  BY StartsInOrder DEF Inv
<1>2. TypeOK /\ Inv /\ Inv' /\ OrphanIsNext /\ [Next]_vars
        => [Upgrade!Next]_(Upgrade!upgradeVars)
  BY StepUpgrades
<1>3. QED
  BY <1>1, <1>2, TypeCorrect, Inductive, OrphanInductive, PTL
     DEF Spec, UpgradesInOrder, Upgrade!Spec
=============================================================================
