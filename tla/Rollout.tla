------------------------------- MODULE Rollout -------------------------------
(* The replacement of the manager by a helper container                     *)
(* (cxzupdate/manager_linux.go): the transaction it leaves on the state     *)
(* volume, the two containers, and the admission of the manager and of the  *)
(* projects it closes for that time.                                        *)
(*                                                                          *)
(* The helper may die between any two durable steps; Docker starts it again *)
(* a bounded number of times (--restart on-failure:3).  One release.        *)
(*                                                                          *)
(* Fault_... is a plausible bug in the definition that follows it and no    *)
(* part of the specification.                                               *)
EXTENDS Naturals, FiniteSets

CONSTANTS
    Project,  \* the projects whose containers run
    MaxRuns,  \* bound on the runs of a project's session
    Restarts, \* how often Docker starts a failed helper again: 3
    Crashes,  \* bound on the deaths of the helper
    Docker,   \* what may go wrong beside it: "command", "stop", "session"
    Forces    \* whether the operator may, or always does, force

ASSUME ProjectAssumption == IsFiniteSet(Project)
ASSUME BoundAssumption ==
    MaxRuns \in Nat \ {0} /\ Restarts \in Nat /\ Crashes \in Nat
ASSUME DockerAssumption ==
    Docker \subseteq {"command", "stop", "session"} /\ Forces \subseteq BOOLEAN

VARIABLES
    tx,      \* manager-update.json
    old,     \* the container of the old manager: running, under its name
    new,     \* the container of the replacement
    lease,   \* run/update-lease.json of the manager's state volume
    proj,    \* what each project's session and gate are at
    helper,  \* the helper's run: where it is and what it holds in memory
    left,    \* how often Docker will start it again
    crashes  \* deaths of the helper so far

vars == <<tx, old, new, lease, proj, helper, left, crashes>>

NoBase  == [p \in Project |-> 0]
Settled == {"none", "healthy", "rolled_back"}
Off     == [at |-> "off", touched |-> FALSE, new |-> FALSE, done |-> {},
            fresh |-> FALSE, ok |-> FALSE]

TypeOK ==
    /\ tx \in [state : Settled \cup {"staged", "prepared", "starting",
                                     "rolling_back"},
               new : BOOLEAN, force : BOOLEAN, base : [Project -> 0 .. MaxRuns]]
    /\ old \in [up : BOOLEAN, named : BOOLEAN]
    /\ new \in {"absent", "created", "up"}
    /\ lease \in {"none", "held", "expired"}
    /\ proj \in [Project -> [run : 1 .. MaxRuns, busy : BOOLEAN,
                             lease : {"none", "held", "expired"}]]
    /\ helper \in [at : {"off", "begin", "admit", "freeze", "stop", "rename",
                         "mark", "clone", "record", "start", "wait",
                         "publish", "check", "remove", "renameBack",
                         "startOld", "waitOld", "publishOld", "ending"},
                   touched : BOOLEAN, new : BOOLEAN,
                   done : SUBSET Project, fresh : BOOLEAN, ok : BOOLEAN]
    /\ left \in 0 .. Restarts
    /\ crashes \in 0 .. Crashes

Init ==
    /\ tx = [state |-> "none", new |-> FALSE, force |-> FALSE, base |-> NoBase]
    /\ old = [up |-> TRUE, named |-> TRUE]
    /\ new = "absent"
    /\ lease = "none"
    /\ proj = [p \in Project |-> [run |-> 1, busy |-> FALSE, lease |-> "none"]]
    /\ helper = Off
    /\ left = 0
    /\ crashes = 0
-----------------------------------------------------------------------------
(* The projects.                                                            *)

(* A gate refuses what would start work while its lease is live.            *)
Work(p) ==
    /\ proj[p].lease # "held" /\ ~proj[p].busy
    /\ proj' = [proj EXCEPT ![p].busy = TRUE]
    /\ UNCHANGED <<tx, old, new, lease, helper, left, crashes>>

WorkEnds(p) ==
    /\ proj[p].busy
    /\ proj' = [proj EXCEPT ![p].busy = FALSE]
    /\ UNCHANGED <<tx, old, new, lease, helper, left, crashes>>

(* A session fails by itself, its admission closed or not.                  *)
SessionFails(p) ==
    /\ "session" \in Docker
    /\ proj[p].run < MaxRuns
    /\ proj' = [proj EXCEPT ![p].run = @ + 1, ![p].busy = FALSE]
    /\ UNCHANGED <<tx, old, new, lease, helper, left, crashes>>

(* A lease lasts ten minutes and an attempt of the helper five: none it     *)
(* took in this attempt runs out.                                           *)
ProjectLeaseExpires(p) ==
    /\ proj[p].lease = "held" /\ p \notin helper.done
    /\ proj' = [proj EXCEPT ![p].lease = "expired"]
    /\ UNCHANGED <<tx, old, new, lease, helper, left, crashes>>

LeaseExpires ==
    /\ lease = "held" /\ ~helper.fresh
    /\ lease' = "expired"
    /\ UNCHANGED <<tx, old, new, proj, helper, left, crashes>>
-----------------------------------------------------------------------------
(* ScheduleManager, from a pass of the old manager or from the command in   *)
(* its container.  Force on a staged transaction is patched in.             *)
Schedule(force) ==
    /\ old.up /\ old.named /\ helper.at = "off"
    /\ tx' = IF tx.state \in Settled
             THEN [state |-> "staged", new |-> FALSE, force |-> force,
                   base |-> NoBase]
             ELSE [tx EXCEPT !.force = @ \/ (force /\ tx.state = "staged")]
    /\ helper' = [Off EXCEPT !.at = "begin"]
    /\ left' = Restarts
    /\ UNCHANGED <<old, new, lease, proj, crashes>>
-----------------------------------------------------------------------------
(* ReplaceManager.                                                          *)
Goto(at) == helper' = [helper EXCEPT !.at = at]
Finish(ok) == helper' = [helper EXCEPT !.at = "ending", !.ok = ok]

(* A failed helper is started again while Docker has restarts left.         *)
StartedAgain ==
    /\ helper' = [Off EXCEPT !.at = IF left = 0 THEN "off" ELSE "begin"]
    /\ left' = IF left = 0 THEN 0 ELSE left - 1

(* A finished transaction is acknowledged, without the deferred release.    *)
Begin ==
    /\ helper.at = "begin"
    /\ helper' = IF tx.state \in Settled THEN Off
                 ELSE [helper EXCEPT
                         !.at = "admit", !.new = tx.new,
                         !.touched = tx.state \in {"starting", "rolling_back"}
                                     \/ ~old.up]
    /\ UNCHANGED <<tx, old, new, lease, proj, left, crashes>>

(* A running old manager closes its admission again on every attempt; with  *)
(* none, the lease on the volume must still cover the gap.                  *)
Admit ==
    /\ helper.at = "admit"
    /\ \/ /\ old.up
          /\ lease' = "held"
          /\ helper' = [helper EXCEPT !.at = "freeze", !.fresh = TRUE]
       \/ /\ old.up /\ ~tx.force
          /\ lease' = "none"
          /\ Finish(FALSE)
       \/ /\ ~old.up
          /\ IF lease = "held" THEN Goto("freeze") ELSE Finish(FALSE)
          /\ UNCHANGED lease
    /\ UNCHANGED <<tx, old, new, proj, left, crashes>>

(* freezeProjects: every project is asked again on every attempt.  One that *)
(* refuses has given its own lease back; one whose sessions are not those   *)
(* of an earlier attempt keeps it.                                          *)
Fault_TrustPrefix(p) == tx.base[p] = 0
MustAsk(p) == TRUE
Freeze(p) ==
    /\ helper.at = "freeze" /\ p \notin helper.done
    /\ LET quiet == tx.force \/ ~proj[p].busy
           same  == tx.base[p] \in {0, proj[p].run}
       IN  IF ~MustAsk(p)
           THEN /\ helper' = [helper EXCEPT !.done = @ \cup {p}]
                /\ UNCHANGED <<tx, proj>>
           ELSE /\ proj' = [proj EXCEPT ![p].lease = IF quiet THEN "held"
                                                     ELSE "none"]
                /\ IF quiet /\ same
                   THEN /\ tx' = [tx EXCEPT !.base[p] = proj[p].run]
                        /\ helper' = [helper EXCEPT !.done = @ \cup {p}]
                   ELSE Finish(FALSE) /\ UNCHANGED tx
    /\ UNCHANGED <<old, new, lease, left, crashes>>

(* The freeze is done.  A replacement found under the manager's name is the *)
(* one an attempt that died had created.                                    *)
Known == helper.new \/ (new # "absent" /\ ~old.named)
Prepare ==
    /\ helper.at = "freeze" /\ helper.done = Project
    /\ tx' = [tx EXCEPT !.state = IF @ = "staged" THEN "prepared" ELSE @]
    /\ helper' = [helper EXCEPT
                    !.new = Known,
                    !.at = IF tx.state = "rolling_back" THEN "check"
                           ELSE IF old.up THEN "stop" ELSE "rename"]
    /\ UNCHANGED <<old, new, lease, proj, left, crashes>>

(* Any failure from here on is rolled back.                                 *)
RollBack ==
    /\ tx' = [tx EXCEPT !.state = "rolling_back", !.new = helper.new]
    /\ helper' = [helper EXCEPT !.at = "check", !.touched = TRUE]

(* What docker says of a stop is verified by looking at the container.      *)
Fault_Believed(up) == TRUE
Stopped(up) == ~up
Stop ==
    /\ helper.at = "stop"
    /\ \E up \in IF "stop" \in Docker THEN BOOLEAN ELSE {FALSE} :
         /\ old' = [old EXCEPT !.up = up]
         /\ IF Stopped(up)
            THEN /\ helper' = [helper EXCEPT !.at = "rename", !.touched = TRUE]
                 /\ UNCHANGED tx
            ELSE RollBack
    /\ UNCHANGED <<new, lease, proj, left, crashes>>

Rename ==
    /\ helper.at = "rename"
    /\ old' = [old EXCEPT !.named = FALSE]
    /\ Goto("mark")
    /\ UNCHANGED <<tx, new, lease, proj, left, crashes>>

Mark ==
    /\ helper.at = "mark"
    /\ tx' = [tx EXCEPT !.state = "starting", !.new = helper.new]
    /\ Goto(IF helper.new THEN "record" ELSE "clone")
    /\ UNCHANGED <<old, new, lease, proj, left, crashes>>

(* Container names are unique: a name that is taken is refused.             *)
Clone ==
    /\ helper.at = "clone"
    /\ IF new = "absent"
       THEN /\ new' = "created"
            /\ helper' = [helper EXCEPT !.at = "record", !.new = TRUE]
            /\ UNCHANGED tx
       ELSE RollBack /\ UNCHANGED new
    /\ UNCHANGED <<old, lease, proj, left, crashes>>

Record ==
    /\ helper.at = "record"
    /\ tx' = [tx EXCEPT !.state = "starting", !.new = helper.new]
    /\ Goto("start")
    /\ UNCHANGED <<old, new, lease, proj, left, crashes>>

Start ==
    /\ helper.at = "start"
    /\ new' = "up"
    /\ Goto("wait")
    /\ UNCHANGED <<tx, old, lease, proj, left, crashes>>

(* The replacement answers with its revision and every project has the      *)
(* sessions it was frozen with; or forty-five seconds pass.                 *)
SameSessions == \A p \in Project : tx.base[p] = proj[p].run
Answers ==
    /\ helper.at = "wait" /\ SameSessions
    /\ Goto("publish")
    /\ UNCHANGED <<tx, old, new, lease, proj, left, crashes>>
WaitTimesOut ==
    /\ helper.at = "wait"
    /\ RollBack
    /\ UNCHANGED <<old, new, lease, proj, left, crashes>>

Healthy ==
    /\ helper.at = "publish"
    /\ tx' = [tx EXCEPT !.state = "healthy", !.new = helper.new]
    /\ Finish(TRUE)
    /\ UNCHANGED <<old, new, lease, proj, left, crashes>>

(* The rollback: nothing is terminated once the lease has run out.          *)
Check ==
    /\ helper.at = "check"
    /\ IF lease = "held" THEN Goto("remove") ELSE Finish(FALSE)
    /\ UNCHANGED <<tx, old, new, lease, proj, left, crashes>>

(* A recorded replacement that is not there was removed by an attempt that  *)
(* died, as long as no container has the manager's name.                    *)
Remove ==
    /\ helper.at = "remove"
    /\ IF helper.new /\ new = "absent" /\ old.named
       THEN Finish(FALSE) /\ UNCHANGED new
       ELSE /\ new' = IF helper.new THEN "absent" ELSE new
            /\ Goto("renameBack")
    /\ UNCHANGED <<tx, old, lease, proj, left, crashes>>

Fault_KeepName == old.named
Renamed == TRUE
RenameBack ==
    /\ helper.at = "renameBack"
    /\ IF new # "absent" /\ ~old.named
       THEN Finish(FALSE) /\ UNCHANGED old
       ELSE Goto("startOld") /\ old' = [old EXCEPT !.named = Renamed]
    /\ UNCHANGED <<tx, new, lease, proj, left, crashes>>

StartOld ==
    /\ helper.at = "startOld"
    /\ old' = [old EXCEPT !.up = TRUE]
    /\ Goto("waitOld")
    /\ UNCHANGED <<tx, new, lease, proj, left, crashes>>

(* The old manager serves again under the lease, within forty-five seconds. *)
WaitOld ==
    /\ helper.at = "waitOld"
    /\ \/ lease = "held" /\ Goto("publishOld")
       \/ Finish(FALSE)
    /\ UNCHANGED <<tx, old, new, lease, proj, left, crashes>>

RolledBack ==
    /\ helper.at = "publishOld"
    /\ tx' = [tx EXCEPT !.state = "rolled_back", !.new = helper.new]
    /\ Finish(TRUE)
    /\ UNCHANGED <<old, new, lease, proj, left, crashes>>

(* A docker command fails: forward it is rolled back, backward it ends the  *)
(* attempt.                                                                 *)
CommandFails ==
    /\ "command" \in Docker
    /\ \/ /\ helper.at \in {"stop", "rename", "clone", "start", "publish"}
          /\ RollBack
       \/ /\ helper.at \in {"remove", "renameBack", "startOld", "publishOld"}
          /\ Finish(FALSE) /\ UNCHANGED tx
    /\ UNCHANGED <<old, new, lease, proj, left, crashes>>

(* The deferred end: admission opens unless the manager was touched and the *)
(* transaction is unfinished; an untouched one is staged again.             *)
Fault_OnlyFinished == tx.state \in Settled
Opens == ~helper.touched \/ tx.state \in Settled
Untouched     == "staged"
End ==
    /\ helper.at = "ending"
    /\ lease' = IF Opens THEN "none" ELSE lease
    /\ proj' = [p \in Project |->
                  IF Opens /\ tx.base[p] # 0
                  THEN [proj[p] EXCEPT !.lease = "none"] ELSE proj[p]]
    /\ tx' = IF ~helper.ok /\ ~helper.touched
             THEN [tx EXCEPT !.state = Untouched, !.base = NoBase] ELSE tx
    /\ IF helper.ok THEN helper' = Off /\ UNCHANGED left ELSE StartedAgain
    /\ UNCHANGED <<old, new, crashes>>

(* The helper dies: nothing deferred runs.  A project may have closed just  *)
(* before it was written down.                                              *)
Dies ==
    /\ helper.at # "off" /\ crashes < Crashes
    /\ crashes' = crashes + 1
    /\ StartedAgain
    /\ \/ UNCHANGED proj
       \/ \E p \in Project \ helper.done :
            /\ helper.at = "freeze"
            /\ tx.force \/ ~proj[p].busy
            /\ proj' = [proj EXCEPT ![p].lease = "held"]
    /\ UNCHANGED <<tx, old, new, lease>>
-----------------------------------------------------------------------------
ProjectNext ==
    \E p \in Project :
        Work(p) \/ WorkEnds(p) \/ SessionFails(p) \/ ProjectLeaseExpires(p)

HelperNext ==
    \/ Begin \/ Admit \/ (\E p \in Project : Freeze(p)) \/ Prepare
    \/ Stop \/ Rename \/ Mark \/ Clone \/ Record \/ Start
    \/ Answers \/ WaitTimesOut \/ Healthy
    \/ Check \/ Remove \/ RenameBack \/ StartOld \/ WaitOld \/ RolledBack
    \/ CommandFails \/ End

Next ==
    \/ ProjectNext \/ LeaseExpires \/ HelperNext \/ Dies
    \/ \E force \in Forces : Schedule(force)

Spec == Init /\ [][Next]_vars
-----------------------------------------------------------------------------
(* The two managers never run together: they would share one state volume   *)
(* (manager_linux.go:340-345, 390-432).                                     *)
OneManager == ~(old.up /\ new = "up")

(* A rollout that is called finished left the manager it names running      *)
(* under the manager's name and the other one not, whatever died or failed  *)
(* on the way (manager_linux.go:373-378, 412-446).                          *)
FinishedServes ==
    /\ tx.state = "healthy" => new = "up" /\ ~old.up
    /\ tx.state = "rolled_back" => old = [up |-> TRUE, named |-> TRUE]
                                   /\ new = "absent"

(* The old manager is stopped only with every project closed and on record, *)
(* and quiet unless the operator forced it, also by an attempt that found   *)
(* the list of an earlier one (manager_linux.go:313-340).                   *)
HandsOverQuiet ==
    [][helper.at = "stop" /\ helper'.at # "stop" /\ ~old'.up /\ old.up
       => \A p \in Project : /\ proj[p].lease = "held" /\ tx.base[p] # 0
                             /\ tx.force \/ ~proj[p].busy]_vars

(* Nothing stays closed behind a rollout: a helper that ends by itself,     *)
(* after however many attempts, leaves no lease when it stopped nothing or  *)
(* finished (manager_linux.go:278-288).                                     *)
Reopens ==
    crashes = 0 /\ helper.at = "off" /\ tx.state \in Settled \cup {"staged"}
    => lease # "held" /\ \A p \in Project : proj[p].lease # "held"

(* "helper 자체가 실패한 경우 다음 실행에서 실제 Docker 상태와 프로세스    *)
(* 식별을 대조해 복구한다" (docs/plans/cxz-auto-update.md:92): one death of  *)
(* the helper, its lease still live, leaves an installation with a manager  *)
(* (manager_linux.go:392-409).                                              *)
ManagerComesBack ==
    helper.at = "off" /\ lease = "held" => old.up \/ new = "up"
=============================================================================
