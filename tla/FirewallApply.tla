--------------------------- MODULE FirewallApply ---------------------------
(***************************************************************************)
(* The guarded Apply of the Firewall Manager (app_40_firewall/apply.py):   *)
(* compile the local policy into before.rules and before6.rules, back the  *)
(* two files up, arm a transient systemd timer that undoes the change,     *)
(* replace the files, reload or enable UFW, ask the operator, and either   *)
(* keep the change (stop the timer, record the state) or undo it.          *)
(*                                                                         *)
(* Every step that touches a file, UFW or systemd is an action of its own: *)
(* between two of them another administrator may edit a file or disable    *)
(* UFW, the timer may elapse, and the process may die. One menu runs at a  *)
(* time (the flock of venv_run.py), but the rollback of an earlier run can *)
(* outlive it and meet the next one.                                       *)
(***************************************************************************)
EXTENDS Naturals

CONSTANTS Procs,      \* the runs of apply_local_config
          Rules,      \* what the managed blocks of one file can hold
          Empty,      \* the blocks a policy without a rule compiles to
          Configs,    \* the policies: functions from Families to Rules
          NoFile,     \* before6.rules is missing
          StopMayFail,  \* systemctl may refuse to stop a timer
          MaxEdits    \* bound: how often others edit a file or disable UFW

Families == {"v4", "v6"}

(* A file is the text around the managed blocks, known by the edit that    *)
(* wrote it last, and what the managed blocks hold.                        *)
Contents == [own : 0 .. MaxEdits, rules : Rules]

ASSUME ConfigsAreCompiled == Configs \subseteq [Families -> Rules]
ASSUME EmptyIsRules == Empty \in Rules
ASSUME MaxEditsIsNat == MaxEdits \in Nat
ASSUME StopMayFailIsBoolean == StopMayFail \in BOOLEAN
ASSUME NoFileIsNoContents == NoFile \notin Contents

VARIABLES
  file,       \* /etc/ufw/before.rules and before6.rules
  ufw,        \* the status `ufw status` reports
  kernel,     \* what UFW loaded from the files last
  saved,      \* the policy in state.json, {} before the first one
  phase,      \* where each run of apply_local_config is
  fam,        \* the file its phase is at
  alive,      \* the process runs; FALSE once it was killed
  why,        \* what sent it to cancel and restore
  outcome,    \* the result it returned
  cfg,        \* the policy it applies
  wasActive,  \* UFW was active when it started
  before,     \* the files as it read them
  backup,     \* its backup directory
  mutated,    \* its mutation_started
  unit,       \* its rollback unit: timer and service
  edits,      \* what administrators did to the files and UFW, counted
  disturbed,  \* history: someone else changed a file or UFW since it began
  faulty      \* history: a command of its rollback failed

hostVars == <<file, ufw, kernel, saved, edits>>
planVars == <<cfg, wasActive, before, backup>>
runVars  == <<phase, fam, why, outcome>>
histVars == <<disturbed, faulty>>
vars == <<hostVars, planVars, runVars, histVars, alive, mutated, unit>>

Phases == {"idle", "read", "plan", "backup", "assert", "arm", "recheck", "write",
           "dryrun", "reload", "verify", "ack", "cancel", "check", "status", "save",
           "restore", "reset", "done"}

UnitStates == {"none", "armed", "stopped", "v4", "v6", "ufw", "fired", "failed"}

Running(p) == alive[p] /\ phase[p] \notin {"idle", "done"}

(* The rollback unit still has to act, or is acting.                       *)
Pending(p) == unit[p] \in {"armed", "v4", "v6", "ufw"}

(***************************************************************************)
(* The plan: what build_candidate makes of a file, and whether it differs. *)
(***************************************************************************)
(* Slip: the candidate is the managed blocks alone, other lines are lost.  *)
CandidateOnlyBlocks(p, f) == cfg[p][f]

Candidate(p, f) == [before[p][f] EXCEPT !.rules = cfg[p][f]]

Touched(p, f) == before[p][f] # NoFile /\ before[p][f].rules # cfg[p][f]

Changed(p) == \E f \in Families : Touched(p, f)

(* An IPv6 rule cannot be applied where before6.rules is missing.          *)
Plannable(p) == before[p]["v6"] = NoFile => cfg[p]["v6"] = Empty

(* Slip: nobody looks whether the file is still the one read.              *)
SourceNotCompared(p, f) == TRUE

SourceUnchanged(p, f) == before[p][f] # NoFile => file[f] = before[p][f]

(***************************************************************************)
(* Control flow: a phase over both files takes before.rules first.         *)
(***************************************************************************)
Goto(p, next) ==
  /\ phase' = [phase EXCEPT ![p] = next]
  /\ fam' = [fam EXCEPT ![p] = "v4"]

Advance(p, next) ==
  IF fam[p] = "v4"
    THEN phase' = phase /\ fam' = [fam EXCEPT ![p] = "v6"]
    ELSE Goto(p, next)

Return(p, result) ==
  /\ Goto(p, "done")
  /\ outcome' = [outcome EXCEPT ![p] = result]
  /\ UNCHANGED why

(* The exception handler and the two undoing branches begin with cancel.   *)
CancelBecause(p, reason) ==
  /\ Goto(p, "cancel")
  /\ why' = [why EXCEPT ![p] = reason]
  /\ UNCHANGED outcome

RestoreBecause(p, reason) ==
  /\ Goto(p, "restore")
  /\ why' = [why EXCEPT ![p] = reason]
  /\ UNCHANGED outcome

At(p, ph) == alive[p] /\ phase[p] = ph

(* The step only decides where the run goes on.                            *)
OnlyControl == UNCHANGED <<hostVars, planVars, histVars, alive, mutated, unit>>

(* Marks the runs that `others` can see changed under them: before their   *)
(* last check of the candidate ("early"), or from it on ("late").          *)
DisturbAmong(others) ==
  disturbed' = [q \in Procs |->
    IF q \notin others \/ phase[q] = "idle" THEN disturbed[q]
    ELSE disturbed[q] \cup {IF phase[q] \in {"check", "status", "save", "done"}
                              THEN "late" ELSE "early"}]

Disturb(p) == DisturbAmong(Procs \ {p})

Fault(p) == faulty' = [faulty EXCEPT ![p] = TRUE]

(* `ufw reload` does nothing while UFW is inactive.                        *)
UfwReload == /\ kernel' = IF ufw = "active" THEN file ELSE kernel
             /\ ufw' = ufw

UfwEnable == ufw' = "active" /\ kernel' = file

UfwDisable == ufw' = "inactive" /\ kernel' = kernel

(* Slip: undoing always reloads, also where UFW was inactive.              *)
ResetReloads(p) == UfwReload

ResetUfw(p) == IF wasActive[p] THEN UfwReload ELSE UfwDisable

----------------------------------------------------------------------------
Init ==
  /\ file \in [Families -> [own : {0}, rules : Rules] \cup {NoFile}]
  /\ file["v4"] # NoFile
  /\ ufw \in {"active", "inactive"}
  /\ kernel = file
  /\ saved = {}
  /\ phase = [p \in Procs |-> "idle"]
  /\ fam = [p \in Procs |-> "v4"]
  /\ alive = [p \in Procs |-> TRUE]
  /\ why = [p \in Procs |-> "none"]
  /\ outcome = [p \in Procs |-> "none"]
  /\ cfg = [p \in Procs |-> [f \in Families |-> Empty]]
  /\ wasActive = [p \in Procs |-> FALSE]
  /\ before = [p \in Procs |-> [f \in Families |-> NoFile]]
  /\ backup = [p \in Procs |-> [f \in Families |-> NoFile]]
  /\ mutated = [p \in Procs |-> FALSE]
  /\ unit = [p \in Procs |-> "none"]
  /\ edits = 0
  /\ disturbed = [p \in Procs |-> {}]
  /\ faulty = [p \in Procs |-> FALSE]

(***************************************************************************)
(* Before the rollback is armed: nothing to undo, an error just returns.   *)
(***************************************************************************)
Begin(p, c) ==
  /\ At(p, "idle")
  /\ \A q \in Procs : ~Running(q)
  /\ cfg' = [cfg EXCEPT ![p] = c]
  /\ wasActive' = [wasActive EXCEPT ![p] = (ufw = "active")]
  /\ Goto(p, "read")
  /\ UNCHANGED <<hostVars, histVars, before, backup, why, outcome, alive, mutated, unit>>

ReadRules(p) ==
  /\ At(p, "read")
  /\ file[fam[p]] = NoFile => fam[p] = "v6"
  /\ before' = [before EXCEPT ![p][fam[p]] = file[fam[p]]]
  /\ Advance(p, "plan")
  /\ UNCHANGED <<hostVars, histVars, cfg, wasActive, backup, why, outcome, alive,
                 mutated, unit>>

NoChange(p) ==
  /\ At(p, "plan")
  /\ Plannable(p)
  /\ wasActive[p] /\ ~Changed(p)
  /\ Return(p, "NO_CHANGE")
  /\ OnlyControl

Validate(p) ==
  /\ At(p, "plan")
  /\ Plannable(p)
  /\ ~wasActive[p] \/ Changed(p)
  /\ Goto(p, "backup")
  /\ OnlyControl /\ UNCHANGED <<why, outcome>>

Backup(p) ==
  /\ At(p, "backup")
  /\ backup' = [backup EXCEPT ![p][fam[p]] = file[fam[p]]]
  /\ Advance(p, "assert")
  /\ UNCHANGED <<hostVars, histVars, cfg, wasActive, before, why, outcome, alive,
                 mutated, unit>>

AssertSource(p) ==
  /\ At(p, "assert") \/ At(p, "recheck")
  /\ SourceUnchanged(p, fam[p])
  /\ Advance(p, IF phase[p] = "assert" THEN "arm" ELSE "write")
  /\ OnlyControl /\ UNCHANGED <<why, outcome>>

(* Slip: the unit is not there when the run goes on.                       *)
ArmSkipped(p) ==
  At(p, "arm") /\ Goto(p, "recheck") /\ OnlyControl /\ UNCHANGED <<why, outcome>>

ArmRollback(p) ==
  /\ At(p, "arm")
  /\ unit' = [unit EXCEPT ![p] = "armed"]
  /\ Goto(p, "recheck")
  /\ UNCHANGED <<hostVars, planVars, histVars, why, outcome, alive, mutated>>

(* A changed source, a refused policy, iptables-restore --test, the backup *)
(* or systemd-run fails; systemd-run may time out with the timer created.  *)
FailUnarmed(p) ==
  /\ alive[p] /\ phase[p] \in {"read", "plan", "backup", "assert", "arm"}
  /\ Return(p, "ERROR")
  /\ \/ unit' = unit
     \/ phase[p] = "arm" /\ unit' = [unit EXCEPT ![p] = "armed"]
  /\ UNCHANGED <<hostVars, planVars, histVars, alive, mutated>>

(***************************************************************************)
(* The change itself, under the armed rollback.                            *)
(***************************************************************************)
WriteRules(p) ==
  LET f == fam[p] IN
  /\ At(p, "write")
  /\ IF Touched(p, f)
       THEN /\ file' = [file EXCEPT ![f] = Candidate(p, f)]
            /\ mutated' = [mutated EXCEPT ![p] = TRUE]
            /\ Disturb(p)
       ELSE UNCHANGED <<file, mutated, disturbed>>
  /\ Advance(p, "dryrun")
  /\ UNCHANGED <<ufw, kernel, saved, edits, planVars, why, outcome, alive, unit, faulty>>

DryRun(p) ==
  /\ At(p, "dryrun")
  /\ Goto(p, "reload")
  /\ OnlyControl /\ UNCHANGED <<why, outcome>>

ReloadEffect(p) ==
  /\ mutated' = [mutated EXCEPT ![p] = TRUE]
  /\ IF wasActive[p] THEN UfwReload ELSE UfwEnable
  /\ Disturb(p)

Reload(p) ==
  /\ At(p, "reload")
  /\ ReloadEffect(p)
  /\ Goto(p, "verify")
  /\ UNCHANGED <<file, saved, edits, planVars, why, outcome, alive, unit, faulty>>

(* `ufw` fails, or times out with the change made.                         *)
ReloadFails(p) ==
  /\ At(p, "reload")
  /\ \/ ReloadEffect(p)
     \/ /\ mutated' = [mutated EXCEPT ![p] = TRUE]
        /\ UNCHANGED <<ufw, kernel, disturbed>>
  /\ CancelBecause(p, "error")
  /\ UNCHANGED <<file, saved, edits, planVars, alive, unit, faulty>>

Verify(p) ==
  /\ At(p, "verify")
  /\ ufw = "active"
  /\ Goto(p, "ack")
  /\ OnlyControl /\ UNCHANGED <<why, outcome>>

(* A changed source, a failed write, dry run, check or save: the handler   *)
(* of apply_local_config takes over. mutation_started precedes the write.  *)
FailArmed(p) ==
  /\ alive[p] /\ phase[p] \in {"recheck", "write", "dryrun", "verify", "ack",
                               "check", "status", "save"}
  /\ mutated' = [mutated EXCEPT ![p] = @ \/ (phase[p] = "write" /\ Touched(p, fam[p]))]
  /\ CancelBecause(p, "error")
  /\ UNCHANGED <<hostVars, planVars, histVars, alive, unit>>

Accept(p) ==
  /\ At(p, "ack")
  /\ CancelBecause(p, "none")
  /\ OnlyControl

Reject(p) ==
  /\ At(p, "ack")
  /\ CancelBecause(p, "reject")
  /\ OnlyControl

(***************************************************************************)
(* Cancel, check, restore. Stopping the timer does not stop a service that *)
(* has already started, and nobody looks whether the timer was stopped.    *)
(***************************************************************************)
StopTimer(p) ==
  unit' = [unit EXCEPT ![p] = IF @ = "armed" THEN "stopped" ELSE @]

CancelRollback(p) ==
  /\ At(p, "cancel")
  /\ StopTimer(p) \/ (StopMayFail /\ UNCHANGED unit)
  /\ \/ why[p] = "none" /\ Goto(p, "check") /\ UNCHANGED <<why, outcome>>
     \/ why[p] = "reject" /\ RestoreBecause(p, "reject")
     \/ why[p] = "error" /\ mutated[p] /\ RestoreBecause(p, "error")
     \/ why[p] = "error" /\ ~mutated[p] /\ Return(p, "ERROR")
  /\ UNCHANGED <<hostVars, planVars, histVars, alive, mutated>>

(* systemctl times out: in the body the handler cancels again, in the      *)
(* handler the error leaves the function and nothing is restored.          *)
CancelFails(p) ==
  /\ At(p, "cancel")
  /\ UNCHANGED unit \/ StopTimer(p)
  /\ IF why[p] = "error" THEN Return(p, "ERROR") ELSE CancelBecause(p, "error")
  /\ Fault(p)
  /\ UNCHANGED <<hostVars, planVars, disturbed, alive, mutated>>

(* Slip: the last check looks at the UFW status only.                      *)
FileNotHashed(p, f) == TRUE

(* _candidate_still_live: both files by hash, then the UFW status.         *)
FileIsLive(p, f) == before[p][f] # NoFile => file[f] = Candidate(p, f)

CheckCandidate(p) ==
  /\ At(p, "check")
  /\ IF FileIsLive(p, fam[p])
       THEN Advance(p, "status") /\ UNCHANGED <<why, outcome>>
       ELSE RestoreBecause(p, "mismatch")
  /\ OnlyControl

CheckStatus(p) ==
  /\ At(p, "status")
  /\ IF ufw = "active"
       THEN Goto(p, "save") /\ UNCHANGED <<why, outcome>>
       ELSE RestoreBecause(p, "mismatch")
  /\ OnlyControl

SaveState(p) ==
  /\ At(p, "save")
  /\ saved' = {cfg[p]}
  /\ Return(p, "APPLIED")
  /\ UNCHANGED <<file, ufw, kernel, edits, planVars, histVars, alive, mutated, unit>>

RestoreFile(p) ==
  LET f == fam[p] IN
  /\ At(p, "restore")
  /\ IF Touched(p, f)
       THEN file' = [file EXCEPT ![f] = backup[p][f]] /\ Disturb(p)
       ELSE UNCHANGED <<file, disturbed>>
  /\ Advance(p, "reset")
  /\ UNCHANGED <<ufw, kernel, saved, edits, planVars, why, outcome, alive, mutated, unit,
                 faulty>>

(* Where _restore_backup returns to: the reject branch, the raise after    *)
(* the failed check (which runs the handler), or the handler.              *)
AfterRestore(p) ==
  \/ why[p] = "reject" /\ Return(p, "ROLLED_BACK")
  \/ why[p] = "mismatch" /\ CancelBecause(p, "error")
  \/ why[p] = "error" /\ Return(p, "ERROR")

RestoreUfw(p) ==
  /\ At(p, "reset")
  /\ ResetUfw(p)
  /\ Disturb(p)
  /\ AfterRestore(p)
  /\ UNCHANGED <<file, saved, edits, planVars, alive, mutated, unit, faulty>>

(* A copy fails, or the last command does; its exit status is ignored.     *)
RestoreFails(p) ==
  /\ \/ /\ (At(p, "restore") /\ Touched(p, fam[p])) \/ At(p, "reset")
        /\ IF why[p] = "error" THEN Return(p, "ERROR") ELSE CancelBecause(p, "error")
     \/ At(p, "reset") /\ AfterRestore(p)
  /\ Fault(p)
  /\ UNCHANGED <<hostVars, planVars, disturbed, alive, mutated, unit>>

(* Killed, disconnected, powered off, or interrupted at the prompt.        *)
Die(p) ==
  /\ Running(p)
  /\ alive' = [alive EXCEPT ![p] = FALSE]
  /\ UNCHANGED <<hostVars, planVars, runVars, histVars, mutated, unit>>

(***************************************************************************)
(* The transient unit. The commands between arming and the prompt time out *)
(* within 70 seconds (30 + 30 + 5 + 5), the timer of 90 does not elapse    *)
(* before a living process has reached the prompt.                         *)
(***************************************************************************)
BeforePrompt == {"recheck", "write", "dryrun", "reload", "verify"}

(* Slip: the rollback waits for the process to end.                        *)
TimerAwaitsExit(p) ==
  /\ unit[p] = "armed"
  /\ ~Running(p)
  /\ unit' = [unit EXCEPT ![p] = "v4"]
  /\ UNCHANGED <<hostVars, planVars, runVars, histVars, alive, mutated>>

TimerElapses(p) ==
  /\ unit[p] = "armed"
  /\ ~(alive[p] /\ phase[p] \in BeforePrompt)
  /\ unit' = [unit EXCEPT ![p] = "v4"]
  /\ UNCHANGED <<hostVars, planVars, runVars, histVars, alive, mutated>>

UnitCopies(p, f) ==
  /\ unit[p] = f
  /\ IF Touched(p, f)
       THEN file' = [file EXCEPT ![f] = backup[p][f]] /\ Disturb(p)
       ELSE UNCHANGED <<file, disturbed>>
  /\ unit' = [unit EXCEPT ![p] = IF f = "v4" THEN "v6" ELSE "ufw"]
  /\ UNCHANGED <<ufw, kernel, saved, edits, planVars, runVars, alive, mutated, faulty>>

UnitResets(p) ==
  /\ unit[p] = "ufw"
  /\ ResetUfw(p)
  /\ Disturb(p)
  /\ unit' = [unit EXCEPT ![p] = "fired"]
  /\ UNCHANGED <<file, saved, edits, planVars, runVars, alive, mutated, faulty>>

(* `set -eu`: a failed command ends the script.                            *)
UnitFails(p) ==
  /\ unit[p] \in {"v4", "v6", "ufw"}
  /\ unit[p] \in Families => Touched(p, unit[p])
  /\ unit' = [unit EXCEPT ![p] = "failed"]
  /\ Fault(p)
  /\ UNCHANGED <<hostVars, planVars, runVars, disturbed, alive, mutated>>

(***************************************************************************)
(* Everyone else: editors of the files, and `ufw disable` from a shell or, *)
(* between two runs, from the menu.                                        *)
(***************************************************************************)
AdminEdits(f, r) ==
  /\ edits < MaxEdits
  /\ edits' = edits + 1
  /\ file' = [file EXCEPT ![f] = [own |-> edits + 1, rules |-> r]]
  /\ DisturbAmong(Procs)
  /\ UNCHANGED <<ufw, kernel, saved, planVars, runVars, alive, mutated, unit, faulty>>

DisableUfw ==
  /\ ufw = "active"
  /\ edits < MaxEdits
  /\ edits' = edits + 1
  /\ UfwDisable
  /\ DisturbAmong(Procs)
  /\ UNCHANGED <<file, saved, planVars, runVars, alive, mutated, unit, faulty>>

----------------------------------------------------------------------------
Apply(p) ==
  \/ \E c \in Configs : Begin(p, c)
  \/ ReadRules(p) \/ NoChange(p) \/ Validate(p) \/ Backup(p) \/ AssertSource(p)
  \/ ArmRollback(p) \/ FailUnarmed(p)
  \/ WriteRules(p) \/ DryRun(p) \/ Reload(p) \/ ReloadFails(p) \/ Verify(p)
  \/ FailArmed(p) \/ Accept(p) \/ Reject(p)
  \/ CancelRollback(p) \/ CancelFails(p) \/ CheckCandidate(p) \/ CheckStatus(p)
  \/ SaveState(p) \/ RestoreFile(p) \/ RestoreUfw(p) \/ RestoreFails(p)

Rollback(p) ==
  \/ TimerElapses(p)
  \/ \E f \in Families : UnitCopies(p, f)
  \/ UnitResets(p) \/ UnitFails(p)

Environment ==
  \/ \E p \in Procs : Die(p)
  \/ \E f \in Families, r \in Rules : AdminEdits(f, r)
  \/ DisableUfw

Next == (\E p \in Procs : Apply(p) \/ Rollback(p)) \/ Environment

(* systemd runs what it has started. A living process takes its next step  *)
(* (every command has a timeout) except that it may wait for its operator  *)
(* for ever, at the menu and at the prompt.                                *)
Fairness ==
  \A p \in Procs :
    /\ WF_vars(Rollback(p))
    /\ WF_vars(Apply(p) /\ phase[p] \notin {"idle", "ack"})

Spec == Init /\ [][Next]_vars

FairSpec == Spec /\ Fairness

----------------------------------------------------------------------------
TypeOK ==
  /\ file \in [Families -> Contents \cup {NoFile}]
  /\ ufw \in {"active", "inactive"}
  /\ kernel \in [Families -> Contents \cup {NoFile}]
  /\ saved \in SUBSET [Families -> Rules]
  /\ phase \in [Procs -> Phases]
  /\ fam \in [Procs -> Families]
  /\ alive \in [Procs -> BOOLEAN]
  /\ why \in [Procs -> {"none", "reject", "mismatch", "error"}]
  /\ outcome \in [Procs -> {"none", "NO_CHANGE", "APPLIED", "ROLLED_BACK", "ERROR"}]
  /\ cfg \in [Procs -> [Families -> Rules]]
  /\ wasActive \in [Procs -> BOOLEAN]
  /\ before \in [Procs -> [Families -> Contents \cup {NoFile}]]
  /\ backup \in [Procs -> [Families -> Contents \cup {NoFile}]]
  /\ mutated \in [Procs -> BOOLEAN]
  /\ unit \in [Procs -> UnitStates]
  /\ edits \in 0 .. MaxEdits
  /\ disturbed \in [Procs -> SUBSET {"early", "late"}]
  /\ faulty \in [Procs -> BOOLEAN]

Undoing == {"cancel", "restore", "reset"}

(* The operator has answered yes and nothing has sent the run back since.  *)
Confirmed(p) ==
  \/ phase[p] = "cancel" /\ why[p] = "none"
  \/ phase[p] \in {"check", "status", "save"}
  \/ outcome[p] = "APPLIED"

(* The files and UFW are as the run found them, and loaded if it has       *)
(* reloaded them.                                                          *)
Original(p) ==
  /\ \A f \in Families : Touched(p, f) => file[f] = before[p][f]
  /\ (ufw = "active") = wasActive[p]
  /\ wasActive[p] /\ mutated[p] =>
       \A f \in Families : Touched(p, f) => kernel[f] = before[p][f]

(* The files, the loaded rules and UFW are what the run put there.         *)
Live(p) ==
  /\ ufw = "active"
  /\ \A f \in Families : before[p][f] # NoFile =>
       file[f] = Candidate(p, f) /\ kernel[f] = Candidate(p, f)
(***************************************************************************)
(* Properties.                                                             *)
(***************************************************************************)

(* From its first write to the operator's yes, a change of the firewall is *)
(* never left alone: its rollback unit is pending or has run, or the       *)
(* process is alive and undoing it, or has undone it, or a command of the  *)
(* undoing failed. The one gap is a process killed between stopping the    *)
(* timer and the end of _restore_backup (apply.py:486-512, 516-530).       *)
ChangeIsCovered ==
  \A p \in Procs : mutated[p] =>
    \/ Pending(p) \/ unit[p] = "fired"
    \/ Confirmed(p)
    \/ phase[p] \in Undoing
    \/ outcome[p] \in {"ROLLED_BACK", "ERROR"}
    \/ faulty[p]

(* A run that returned without success, and a rollback unit that ran to    *)
(* its end with no success reported, have left the files, the loaded rules *)
(* and the UFW status as the run found them, unless somebody else changed  *)
(* them meanwhile or a command of the undoing failed.                      *)
FailureRestores ==
  \A p \in Procs :
    /\ disturbed[p] = {} /\ ~faulty[p] /\ ~Pending(p)
    /\ \/ outcome[p] \in {"ROLLED_BACK", "ERROR"}
       \/ unit[p] = "fired" /\ ~Running(p) /\ outcome[p] # "APPLIED"
    => Original(p)

(* Success is reported for a change whose timer was stopped only while the *)
(* candidate is in the files and loaded, and state.json records it, unless *)
(* somebody changed a file or UFW after the last check had begun.          *)
SuccessIsLive ==
  \A p \in Procs :
    outcome[p] = "APPLIED" /\ unit[p] = "stopped" /\ "late" \notin disturbed[p]
    => Live(p) /\ saved = {cfg[p]}

(* The backup that would undo a change is the very text the change was     *)
(* computed from: an administrator's edit made anywhere between the first  *)
(* read and the arming of the rollback stops the run before it writes.     *)
BackupIsSource ==
  \A p \in Procs : mutated[p] =>
    \A f \in Families : Touched(p, f) => backup[p][f] = before[p][f]

(* Every change ends confirmed or undone, also when the operator never     *)
(* answers or the process dies outside the gap of ChangeIsCovered.         *)
ChangeIsSettled ==
  \A p \in Procs :
    mutated[p] ~>
                 \/ outcome[p] = "APPLIED" \/ Original(p)
                 \/ disturbed[p] # {} \/ faulty[p]
                 \/ ~alive[p] /\ (phase[p] \in Undoing \/ Confirmed(p))

(* What the check before the success says (apply.py:500-512): a success is *)
(* not undone by the run's own rollback. (Violated, also where no command  *)
(* fails: see the README.)                                                 *)
SuccessIsKept ==
  \A p \in Procs : outcome[p] = "APPLIED" /\ disturbed[p] = {} => Live(p)
=============================================================================
