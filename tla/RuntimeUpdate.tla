---------------------------- MODULE RuntimeUpdate ----------------------------
(* The replacement of one project runtime by a helper process               *)
(* (cxzupdate/runtime_linux.go), the gate that closes the runtime's         *)
(* admission for it (maintenance_linux.go) and the manager's retry budget   *)
(* (recovery.go).                                                           *)
(*                                                                          *)
(* One transaction, one session.  The helper, the launched children, the    *)
(* runtimes and the clients interleave between any two durable steps; the   *)
(* helper and every process may die at any moment, and the ten minutes of   *)
(* the lease may run out at any moment.                                     *)
(*                                                                          *)
(* Fault_... is a plausible bug in the definition that follows it and no    *)
(* part of the specification.                                               *)
EXTENDS Naturals, FiniteSets

CONSTANTS
    Proc,             \* process identities: a pid with its start time
    First,            \* the runtime that serves when the update begins
    None,             \* no process
    RecoveryAttempts, \* recovery.go:14, five in the code
    MaxRuns           \* bound on the runs of the session

ASSUME ProcAssumption ==
    /\ IsFiniteSet(Proc) /\ First \in Proc /\ None \notin Proc
ASSUME BoundAssumption ==
    RecoveryAttempts \in Nat \ {0} /\ MaxRuns \in Nat \ {0}

VARIABLES
    proc,     \* what each process is doing, and from which binary
    tx,       \* runtime-update.json
    lease,    \* run/update-lease.json and the copy a gate holds of it
    sess,     \* the session's run, whether it is up, whether a turn runs
    rpc,      \* the runtime that handles a mutating request, or None
    worked,   \* whether a request was accepted since tx.base was saved
    helper,   \* the helper: where it is, why it runs, the sessions it read
    recovery  \* the manager's runtime-recovery.json

vars == <<proc, tx, lease, sess, rpc, worked, helper, recovery>>

Alive   == {"spawned", "loading", "serving", "ending"}
Running == {"loading", "serving", "ending"}
Settled == {"none", "healthy", "rolled_back"}
Pending == tx.state \notin Settled

(* Serving is a runtime whose maintenance socket answers.                   *)
Serving   == {p \in Proc : proc[p].at = "serving"}
Available == Serving # {}

(* The sessions map of a readiness sweep: the run of a session that is up.  *)
Sessions == IF sess.up THEN sess.run ELSE 0

(* The helper's critical sections under runtime-start.lock.                 *)
HelperLocks == helper.at \in {"finish", "rbStopping", "rbSpawn", "rbUnlock"}

(* FinalizationKey: the serving runtime is the one the transaction          *)
(* recorded, under its lease, and only the acknowledgement is missing.      *)
Wanted == IF tx.state \in {"starting", "healthy"} THEN "new" ELSE "old"
FinalizationKey ==
    IF /\ tx.state \in {"starting", "healthy", "rolling_back", "rolled_back"}
       /\ lease = "held"
       /\ tx.new \in Serving
       /\ proc[tx.new].bin = Wanted
    THEN <<tx.state, tx.new>> ELSE <<>>

Keys == {"starting", "healthy", "rolling_back", "rolled_back"} \X Proc

(* Waiting, retrying, running and completed differ in the time of the next  *)
(* attempt alone, which is left open: they are one status here, "open".     *)
NoRecovery == [status |-> "none", attempts |-> 0, seen |-> <<>>,
               knows |-> FALSE]
Idle       == [at |-> "idle", mode |-> "update", old |-> None, base |-> 0,
               counted |-> FALSE]

TypeOK ==
    /\ proc \in [Proc -> [at : {"free"} \cup Alive, bin : {"old", "new"},
                          boot : BOOLEAN]]
    /\ tx \in [state : {"none", "prepared", "starting", "rolling_back",
                        "healthy", "rolled_back"},
               old : Proc \cup {None}, new : Proc \cup {None},
               base : 0 .. MaxRuns]
    /\ lease \in {"none", "held", "expired"}
    /\ sess \in [run : 1 .. MaxRuns, up : BOOLEAN, busy : BOOLEAN]
    /\ rpc \in Proc \cup {None}
    /\ worked \in BOOLEAN
    /\ helper \in [at : {"idle", "read", "hold", "check", "save", "stop",
                         "stopping", "spawn", "wait", "finish", "rollback",
                         "rbStopping", "rbSpawn", "rbUnlock", "rbWait",
                         "rbFinish", "release"},
                   mode : {"update", "recover", "finalize"},
                   old : Proc \cup {None},
                   base : 0 .. MaxRuns, counted : BOOLEAN]
    /\ recovery \in [status : {"none", "open", "stopped"},
                     attempts : 0 .. RecoveryAttempts,
                     seen : Keys \cup {<<>>},
                     knows : BOOLEAN]

Free == [at |-> "free", bin |-> "old", boot |-> FALSE]

Init ==
    /\ proc = [p \in Proc |->
                 IF p = First THEN [Free EXCEPT !.at = "serving"] ELSE Free]
    /\ tx = [state |-> "none", old |-> None, new |-> None, base |-> 0]
    /\ lease = "none"
    /\ sess = [run |-> 1, up |-> TRUE, busy |-> FALSE]
    /\ rpc = None
    /\ worked = FALSE
    /\ helper = Idle
    /\ recovery = NoRecovery
-----------------------------------------------------------------------------
(* Clients and the session.                                                 *)

(* Gate.Unary: a mutating request is refused while the lease is live, and   *)
(* the gate is held for reading until its handler returns.                  *)
BeginRequest(p) ==
    /\ p \in Serving /\ rpc = None
    /\ lease # "held"
    /\ rpc' = p
    /\ worked' = TRUE
    /\ UNCHANGED <<proc, tx, lease, sess, helper, recovery>>

(* The request starts a turn, or starts the session anew.                   *)
EndRequest ==
    /\ rpc # None
    /\ rpc' = None
    /\ \/ /\ sess.up
          /\ sess' = [sess EXCEPT !.busy = TRUE]
       \/ /\ sess.run < MaxRuns
          /\ sess' = [run |-> sess.run + 1, up |-> TRUE, busy |-> FALSE]
    /\ UNCHANGED <<proc, tx, lease, worked, helper, recovery>>

TurnEnds ==
    /\ sess.busy
    /\ sess' = [sess EXCEPT !.busy = FALSE]
    /\ UNCHANGED <<proc, tx, lease, rpc, worked, helper, recovery>>

(* The session fails by itself: a sweep leaves it out.                      *)
SessionFails ==
    /\ sess.up
    /\ sess' = [sess EXCEPT !.up = FALSE, !.busy = FALSE]
    /\ UNCHANGED <<proc, tx, lease, rpc, worked, helper, recovery>>

LeaseExpires ==
    /\ lease = "held"
    /\ lease' = "expired"
    /\ UNCHANGED <<proc, tx, sess, rpc, worked, helper, recovery>>
-----------------------------------------------------------------------------
(* Processes.                                                               *)

(* A process may exit at any moment; what it handled is cut.  The binary of *)
(* the recorded child stays on record.                                      *)
Exits(p) ==
    /\ proc[p].at # "free"
    /\ proc' = [proc EXCEPT ![p] =
                  IF p = tx.new THEN [@ EXCEPT !.at = "free"] ELSE Free]
    /\ rpc' = IF rpc = p THEN None ELSE rpc
    /\ UNCHANGED <<tx, lease, sess, worked, helper, recovery>>

(* A pid with its start time is never used again while it is on record.     *)
Launch(p, binary, boot) ==
    /\ proc[p].at = "free" /\ p \notin {tx.old, tx.new}
    /\ proc' = [proc EXCEPT ![p] =
                  [at |-> IF boot THEN "loading" ELSE "spawned",
                   bin |-> binary, boot |-> boot]]

(* RuntimeChild publishes its identity and becomes the runtime.  A refused  *)
(* child, also one that finds runtime-start.lock taken, Exits.              *)
Fault_SecondChild(p) ==
    /\ tx.state \in {"starting", "rolling_back"}
    /\ proc[p].bin = IF tx.state = "rolling_back" THEN "old" ELSE "new"
    /\ lease = "held"
Publishable(p) ==
    /\ tx.state \in {"starting", "rolling_back"} /\ tx.new = None
    /\ proc[p].bin = IF tx.state = "rolling_back" THEN "old" ELSE "new"
    /\ lease = "held"
RuntimeChild(p) ==
    /\ proc[p].at = "spawned" /\ ~HelperLocks
    /\ Publishable(p)
    /\ tx' = [tx EXCEPT !.new = p]
    /\ proc' = [proc EXCEPT ![p].at = "loading"]
    /\ UNCHANGED <<lease, sess, rpc, worked, helper, recovery>>

(* The runtime takes daemon.lock and serves; one that does not get it       *)
(* Exits.                                                                   *)
Serve(p) ==
    /\ proc[p].at = "loading"
    /\ \A q \in Proc : proc[q].at \notin {"serving", "ending"}
    /\ proc' = [proc EXCEPT ![p].at = "serving"]
    /\ UNCHANGED <<tx, lease, sess, rpc, worked, helper, recovery>>

(* The manager boots a project whose runtime does not answer, from the      *)
(* tools binary of the day, knowing nothing of the transaction.             *)
Boot(p) ==
    /\ ~Available
    /\ \A q \in Proc : ~(proc[q].boot /\ proc[q].at # "free")
    /\ \E binary \in {"old", "new"} : Launch(p, binary, TRUE)
    /\ UNCHANGED <<tx, lease, sess, rpc, worked, helper, recovery>>
-----------------------------------------------------------------------------
(* The manager: a pass of the rollout over this project.                    *)

(* A fresh update is begun only when a sweep found the project quiet.       *)
Update ==
    /\ helper.at = "idle" /\ tx.state = "none"
    /\ \E p \in Serving : proc[p].bin = "old"
    /\ lease # "held" /\ ~sess.busy
    /\ helper' = [Idle EXCEPT !.at = "hold"]
    /\ UNCHANGED <<proc, tx, lease, sess, rpc, worked, recovery>>

(* What RunRecovery gives up on before it runs a helper: the budget is      *)
(* spent, or the last known lease has no safe window left.                  *)
Exhausted(knows) ==
    \/ recovery.attempts = RecoveryAttempts
    \/ /\ knows /\ lease = "expired"
       /\ ~(tx.state = "prepared" /\ Available)

Due == helper.at = "idle" /\ (~Available \/ Pending \/ FinalizationKey # <<>>)
FreshKey == FinalizationKey # <<>> /\ FinalizationKey # recovery.seen
NotReady == tx.state = "prepared" /\ Available /\ sess.busy /\ lease # "held"

(* A completion-only attempt on a fresh key costs nothing.                  *)
Fault_NothingSpent == recovery.attempts
Spent == recovery.attempts + IF FreshKey THEN 0 ELSE 1

(* RunRecovery: the attempt is on record before the helper runs.  A serving *)
(* runtime of the recorded identity is only acknowledged, once even after   *)
(* the budget is spent.                                                     *)
Dispatch ==
    /\ Due
    /\ \/ FreshKey
       \/ recovery.status # "stopped" /\ ~NotReady /\ ~Exhausted(recovery.knows)
    /\ recovery' = [status   |-> "open",
                    attempts |-> Spent,
                    seen     |-> IF FreshKey THEN FinalizationKey
                                 ELSE recovery.seen,
                    knows    |-> recovery.knows \/ (Available /\ lease = "held")]
    /\ helper' = [Idle EXCEPT
                    !.at = "read", !.counted = ~FreshKey,
                    !.mode = IF FinalizationKey = <<>> THEN "recover"
                             ELSE "finalize"]
    /\ UNCHANGED <<proc, tx, lease, sess, rpc, worked>>

(* A session that is busy postpones recovery without costing an attempt;    *)
(* otherwise it may be out of attempts.                                     *)
GiveUp ==
    /\ Due /\ ~FreshKey /\ ~NotReady
    /\ recovery.status # "stopped" /\ Exhausted(recovery.knows)
    /\ recovery' = [recovery EXCEPT !.status = "stopped"]
    /\ UNCHANGED <<proc, tx, lease, sess, rpc, worked, helper>>

(* With nothing to recover the record is removed.                           *)
Forget ==
    /\ helper.at = "idle" /\ ~Due /\ recovery.status # "none"
    /\ recovery' = NoRecovery
    /\ UNCHANGED <<proc, tx, lease, sess, rpc, worked, helper>>

(* ResetRecovery: the operator asks for another round.                      *)
Retry ==
    /\ helper.at = "idle" /\ recovery.status = "stopped"
    /\ recovery' = [NoRecovery EXCEPT !.status = "open"]
    /\ UNCHANGED <<proc, tx, lease, sess, rpc, worked, helper>>
-----------------------------------------------------------------------------
(* The helper.  End: it exits with a result of this class, and RunRecovery  *)
(* books it.                                                                *)
Refunded == recovery.attempts - IF helper.counted THEN 1 ELSE 0
Booked(class) ==
    LET knows == lease # "none"
        stops == \/ class = "operator"
                 \/ class = "transient" /\ Exhausted(knows)
    IN  [recovery EXCEPT !.status = IF stops THEN "stopped" ELSE "open",
                         !.knows = knows,
                         !.attempts = IF class = "waiting" THEN Refunded
                                      ELSE @]
End(class) ==
    /\ helper' = Idle
    /\ recovery' = IF helper.mode = "update" THEN recovery ELSE Booked(class)
Goto(at) == helper' = [helper EXCEPT !.at = at] /\ UNCHANGED recovery

(* Where replaceRuntime resumes: a prepared update is prepared anew.        *)
Fault_TrustPrepared ==
    [prepared |-> "stop", starting |-> "wait", rolling_back |-> "rollback"]
Resumes ==
    [prepared |-> "hold", starting |-> "wait", rolling_back |-> "rollback"]

(* replaceRuntime and FinalizeRuntime read the transaction under            *)
(* runtime-update.lock.                                                     *)
Read ==
    /\ helper.at = "read"
    /\ UNCHANGED <<proc, tx, lease, sess, rpc, worked>>
    /\ IF helper.mode = "finalize"
       THEN Goto(IF tx.state \in {"starting", "healthy"} THEN "finish"
                 ELSE "rbFinish")
       ELSE IF tx.state \in DOMAIN Resumes THEN Goto(Resumes[tx.state])
       ELSE End("operator")

(* A launched child holds runtime-start.lock while it reads the             *)
(* transaction: the helper does not wait for it.                            *)
StartLocked ==
    /\ \/ helper.at = "read" /\ helper.mode = "finalize"
       \/ helper.at \in {"wait", "rollback"}
    /\ \E p \in Proc : proc[p].at = "spawned"
    /\ End(IF helper.mode = "finalize" THEN "waiting" ELSE "transient")
    /\ UNCHANGED <<proc, tx, lease, sess, rpc, worked>>

(* Gate.hold: the lease is written before anything is asked, and waits for  *)
(* the request in progress.                                                 *)
Fault_NoWait ==
    /\ helper.at = "hold" /\ Available
    /\ lease' = "held"
    /\ Goto("check")
    /\ UNCHANGED <<proc, tx, sess, rpc, worked>>
Hold ==
    /\ helper.at = "hold" /\ Available /\ rpc = None
    /\ lease' = "held"
    /\ Goto("check")
    /\ UNCHANGED <<proc, tx, sess, rpc, worked>>

(* No runtime answers "prepare".  Without a process the known version is    *)
(* restored, and no new one installed.                                      *)
OldGone == tx.state = "prepared" /\ proc[tx.old].at = "free"
HoldFails ==
    /\ helper.at = "hold" /\ ~Available
    /\ UNCHANGED <<proc, lease, sess, rpc, worked>>
    /\ CASE ~OldGone -> End("transient") /\ UNCHANGED tx
         [] OldGone /\ lease # "held" -> End("operator") /\ UNCHANGED tx
         [] OldGone /\ lease = "held" ->
              /\ tx' = [tx EXCEPT !.state = "rolling_back", !.new = None]
              /\ Goto("rollback")

(* The sweep, with admission closed.  A busy session or a runtime that is   *)
(* not the one on record gives the lease back.                              *)
Check ==
    /\ helper.at = "check"
    /\ UNCHANGED <<proc, tx, sess, rpc, worked>>
    /\ CASE ~Available -> End("transient") /\ UNCHANGED lease
         [] Available /\ sess.busy -> End("waiting") /\ lease' = "none"
         [] Available /\ ~sess.busy /\ tx.state = "prepared"
            /\ tx.old \notin Serving ->
              End("operator") /\ lease' = "none"
         [] OTHER ->
              /\ \E p \in Serving :
                   helper' = [helper EXCEPT !.at = "save", !.old = p,
                                            !.base = Sessions]
              /\ UNCHANGED <<lease, recovery>>

(* The baseline is saved; a transaction just prepared is prepared again.    *)
SaveBase ==
    /\ helper.at = "save"
    /\ tx' = [tx EXCEPT !.state = "prepared", !.old = helper.old,
                        !.base = helper.base]
    /\ worked' = IF lease = "held" THEN FALSE ELSE worked
    /\ helper' = [helper EXCEPT !.at = IF tx.state = "none" THEN "hold"
                                       ELSE "stop",
                                !.old = None, !.base = 0]
    /\ UNCHANGED recovery
    /\ UNCHANGED <<proc, lease, sess, rpc>>

(* SIGTERM cuts what the runtime handles.                                   *)
Terminate(p) ==
    /\ proc' = [proc EXCEPT ![p].at = IF @ = "free" THEN "free" ELSE "ending"]
    /\ rpc' = IF rpc = p THEN None ELSE rpc

StopOld ==
    /\ helper.at = "stop"
    /\ UNCHANGED <<tx, lease, sess, worked>>
    /\ IF lease = "held" THEN Terminate(tx.old) /\ Goto("stopping")
       ELSE End("operator") /\ UNCHANGED <<proc, rpc>>

(* stopRuntime waits for the exit, thirty seconds at most.                  *)
OldStopped ==
    /\ helper.at = "stopping"
    /\ proc[tx.old].at = "free"
    /\ tx' = [tx EXCEPT !.state = "starting"]
    /\ Goto("spawn")
    /\ UNCHANGED <<proc, lease, sess, rpc, worked>>

StopTimesOut ==
    /\ helper.at \in {"stopping", "rbStopping"}
    /\ \E p \in {tx.old, tx.new} \ {None} : proc[p].at = "ending"
    /\ End("transient")
    /\ UNCHANGED <<proc, tx, lease, sess, rpc, worked>>

SpawnNew ==
    /\ helper.at = "spawn"
    /\ \E p \in Proc : Launch(p, "new", FALSE)
    /\ Goto("wait")
    /\ UNCHANGED <<tx, lease, sess, rpc, worked>>

SpawnFails ==
    /\ helper.at = "spawn"
    /\ tx' = [tx EXCEPT !.state = "rolling_back", !.new = None]
    /\ Goto("rollback")
    /\ UNCHANGED <<proc, lease, sess, rpc, worked>>

(* The candidate answers with its revision, or thirty seconds pass.         *)
Answers ==
    /\ helper.at = "wait"
    /\ \E p \in Serving : proc[p].bin = "new"
    /\ Goto("finish")
    /\ UNCHANGED <<proc, tx, lease, sess, rpc, worked>>

WaitTimesOut ==
    /\ helper.at = "wait"
    /\ tx' = [tx EXCEPT !.state = "rolling_back"]
    /\ Goto("rollback")
    /\ UNCHANGED <<proc, lease, sess, rpc, worked>>

(* finishRuntime: the recorded child, the live lease and the same sessions. *)
Fault_AnyLease(p) == Serving = {p} /\ Sessions = tx.base
Proven(p) == Serving = {p} /\ lease = "held" /\ Sessions = tx.base
NewProven == tx.new # None /\ proc[tx.new].bin = "new" /\ Proven(tx.new)
FinishRuntime ==
    /\ helper.at = "finish" /\ NewProven
    /\ tx' = [tx EXCEPT !.state = "healthy"]
    /\ Goto("release")
    /\ UNCHANGED <<proc, lease, sess, rpc, worked>>

FinishFails ==
    /\ helper.at = "finish" /\ ~NewProven
    /\ UNCHANGED <<proc, lease, sess, rpc, worked>>
    /\ IF helper.mode = "finalize"
       THEN End(IF Available THEN "operator" ELSE "transient") /\ UNCHANGED tx
       ELSE tx' = [tx EXCEPT !.state = "rolling_back"] /\ Goto("rollback")

(* prepareRuntimeRollback, under runtime-start.lock.                        *)
Restoring == tx.new # None /\ proc[tx.new].bin = "old"
Foreign   == \E p \in Serving : proc[p].bin = "new" /\ p # tx.new
Rollback ==
    /\ helper.at = "rollback"
    /\ UNCHANGED <<lease, sess, worked>>
    /\ CASE lease # "held" \/ Foreign ->
              End("operator") /\ UNCHANGED <<proc, tx, rpc>>
         [] lease = "held" /\ ~Foreign
            /\ \E p \in Serving : proc[p].bin = "old" ->
              Goto("rbFinish") /\ UNCHANGED <<proc, tx, rpc>>
         [] lease = "held" /\ ~Available /\ Restoring
            /\ proc[tx.new].at # "free" ->
              Goto("rbWait") /\ UNCHANGED <<proc, tx, rpc>>
         [] OTHER ->
              IF tx.new # None /\ ~Restoring
              THEN Terminate(tx.new) /\ Goto("rbStopping") /\ UNCHANGED tx
              ELSE /\ tx' = [tx EXCEPT !.new = None]
                   /\ Goto("rbSpawn")
                   /\ UNCHANGED <<proc, rpc>>

CandidateStopped ==
    /\ helper.at = "rbStopping"
    /\ proc[tx.new].at = "free"
    /\ tx' = [tx EXCEPT !.new = None]
    /\ Goto("rbSpawn")
    /\ UNCHANGED <<proc, lease, sess, rpc, worked>>

SpawnOld ==
    /\ helper.at = "rbSpawn"
    /\ \E p \in Proc : Launch(p, "old", FALSE)
    /\ Goto("rbUnlock")
    /\ UNCHANGED <<tx, lease, sess, rpc, worked>>

(* The previous binary is gone or not accepted, or the launch fails.        *)
SpawnOldFails ==
    /\ helper.at = "rbSpawn"
    /\ \E class \in {"operator", "transient"} : End(class)
    /\ UNCHANGED <<proc, tx, lease, sess, rpc, worked>>

Unlock ==
    /\ helper.at = "rbUnlock"
    /\ Goto("rbWait")
    /\ UNCHANGED <<proc, tx, lease, sess, rpc, worked>>

OldAnswers ==
    /\ helper.at = "rbWait"
    /\ \E p \in Serving : proc[p].bin = "old"
    /\ Goto("rbFinish")
    /\ UNCHANGED <<proc, tx, lease, sess, rpc, worked>>

RollbackTimesOut ==
    /\ helper.at = "rbWait"
    /\ End("transient")
    /\ UNCHANGED <<proc, tx, lease, sess, rpc, worked>>

(* finishRuntimeRollback: the restored child, or the old runtime itself.    *)
OldProven == Proven(IF Restoring THEN tx.new ELSE tx.old)
FinishRollback ==
    /\ helper.at = "rbFinish"
    /\ UNCHANGED <<proc, lease, sess, rpc, worked>>
    /\ IF OldProven
       THEN tx' = [tx EXCEPT !.state = "rolled_back"] /\ Goto("release")
       ELSE /\ End(IF Available THEN "operator" ELSE "transient")
            /\ UNCHANGED tx

(* The answer to "release" opens admission again.                           *)
Release ==
    /\ helper.at = "release"
    /\ IF Available THEN lease' = "none" /\ End("completed")
       ELSE UNCHANGED lease /\ End("transient")
    /\ UNCHANGED <<proc, tx, sess, rpc, worked>>

(* The helper, or the manager that waits for it, dies at any moment.        *)
HelperDies ==
    /\ helper.at # "idle"
    /\ helper' = Idle
    /\ recovery' \in {recovery,
                      IF helper.mode = "update" THEN recovery
                      ELSE Booked("transient")}
    /\ UNCHANGED <<proc, tx, lease, sess, rpc, worked>>
-----------------------------------------------------------------------------
ClientNext ==
    \/ \E p \in Proc : BeginRequest(p)
    \/ EndRequest \/ TurnEnds \/ SessionFails

ProcessNext == \E p \in Proc : RuntimeChild(p) \/ Serve(p)

ManagerNext == Dispatch \/ GiveUp \/ Forget

HelperNext ==
    \/ Read \/ StartLocked \/ Hold \/ HoldFails \/ Check \/ SaveBase
    \/ StopOld \/ OldStopped \/ StopTimesOut \/ SpawnNew \/ SpawnFails
    \/ Answers \/ WaitTimesOut \/ FinishRuntime \/ FinishFails
    \/ Rollback \/ CandidateStopped \/ SpawnOld
    \/ SpawnOldFails \/ Unlock
    \/ OldAnswers \/ RollbackTimesOut \/ FinishRollback \/ Release

Next ==
    \/ ClientNext \/ ProcessNext \/ ManagerNext \/ HelperNext
    \/ \E p \in Proc : Exits(p) \/ Boot(p)
    \/ LeaseExpires \/ Update \/ Retry \/ HelperDies

Spec == Init /\ [][Next]_vars

(* The rollout passes every thirty seconds, every wait of the helper is     *)
(* bounded, a request ends, a process that was told to exit does, and a     *)
(* launched child publishes itself or is refused.                           *)
Fairness ==
    /\ WF_vars(ManagerNext) /\ WF_vars(HelperNext)
    /\ WF_vars(EndRequest)
    /\ \A p \in Proc :
         /\ WF_vars(proc[p].at = "ending" /\ Exits(p))
         /\ WF_vars(RuntimeChild(p) \/ (proc[p].at = "spawned" /\ Exits(p)))
FairSpec == Spec /\ Fairness
-----------------------------------------------------------------------------
(* Of the runtimes the transaction is about - the one it found and those it *)
(* launched - one runs at a time: a helper that dies between a launch and   *)
(* its acknowledgement, a launched child that comes late and two children   *)
(* of one rollback leave no second one (runtime_linux.go:39-68, 341-404).   *)
OfTransaction(p) == proc[p].at \in Running /\ (~proc[p].boot \/ p = tx.old)
OneRuntime ==
    \A p, q \in Proc : OfTransaction(p) /\ OfTransaction(q) => p = q

(* A runtime is only told to exit with its admission closed and nothing in  *)
(* its hands: no request a client has been told nothing about is cut, even  *)
(* when the lease ran out while no helper was there                         *)
(* (runtime_linux.go:262-267, maintenance_linux.go:106-113).                *)
NoRequestCut ==
    [][\A p \in Proc :
         proc[p].at # "ending" /\ proc'[p].at = "ending"
         => rpc # p /\ lease = "held"]_vars

(* "Active work always wins": the old runtime is taken for a new version    *)
(* only while no turn runs, however long ago the sweep was                  *)
(* (docs/updates.md:137, runtime_linux.go:219-267).                         *)
ActiveWorkWins ==
    [][helper.at = "stop" /\ helper'.at = "stopping" => ~sess.busy]_vars

(* A replacement that is called healthy was fenced from its baseline on: no *)
(* runtime accepted anything in between, across deaths of the helper and    *)
(* the end of a lease (runtime_linux.go:425-439).                           *)
HealthyMeansFenced ==
    [][tx.state # "healthy" /\ tx'.state = "healthy" => ~worked]_vars

(* A replacement or rollback that has begun ends: it is finished, or the    *)
(* manager has stopped and says so (recovery.go:113-221).                   *)
Settles ==
    tx.state \in {"starting", "rolling_back"}
        ~> (tx.state \in Settled \/ recovery.status = "stopped")
=============================================================================
