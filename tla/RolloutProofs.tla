---------------------------- MODULE RolloutProofs ----------------------------
(* Theorems of Rollout, for any set of projects, any number of restarts and *)
(* deaths of the helper and whatever goes wrong beside it.                  *)
EXTENDS Rollout, TLAPS

(* The ranges of TypeOK, named.                                             *)
Places ==
    {"off", "begin", "admit", "freeze", "stop", "rename", "mark", "clone",
     "record", "start", "wait", "publish", "check", "remove", "renameBack",
     "startOld", "waitOld", "publishOld", "ending"}
States == Settled \cup {"staged", "prepared", "starting", "rolling_back"}
TxType ==
    [state : States, new : BOOLEAN, force : BOOLEAN,
     base : [Project -> 0 .. MaxRuns]]
OldType  == [up : BOOLEAN, named : BOOLEAN]
Leases   == {"none", "held", "expired"}
ProjType == [Project -> [run : 1 .. MaxRuns, busy : BOOLEAN, lease : Leases]]
HelperType ==
    [at : Places, touched : BOOLEAN, new : BOOLEAN, done : SUBSET Project,
     fresh : BOOLEAN, ok : BOOLEAN]

Ranges ==
    /\ tx \in TxType /\ old \in OldType /\ new \in {"absent", "created", "up"}
    /\ lease \in Leases /\ proj \in ProjType /\ helper \in HelperType
    /\ left \in 0 .. Restarts /\ crashes \in 0 .. Crashes

(* Where the helper is says which containers run and which has the name.    *)
PlacesSound ==
    /\ OneManager
    /\ new # "absent" => ~old.named
    /\ helper.at = "stop" => old.up
    /\ helper.at \in {"rename", "mark", "clone", "record", "start", "wait",
                      "publish"} => ~old.up
    /\ helper.at \in {"mark", "clone", "record", "start", "wait", "publish"}
       => ~old.named
    /\ helper.at \in {"wait", "publish"} => new = "up"
    /\ helper.at \in {"startOld", "waitOld", "publishOld"}
       => new = "absent" /\ old.named
    /\ helper.at \in {"waitOld", "publishOld"} => old.up

(* Nothing is touched once the transaction is finished.                     *)
EndsSound ==
    /\ tx.state \in Settled => helper.at \in {"off", "begin", "ending"}
    /\ FinishedServes

(* What the helper holds for closed is closed, on record and quiet.         *)
QuietSound ==
    /\ helper.at = "stop" => helper.done = Project
    /\ \A p \in helper.done : /\ proj[p].lease = "held" /\ tx.base[p] # 0
                              /\ tx.force \/ ~proj[p].busy

(* The inductive invariant.                                                 *)
IInv == Ranges /\ PlacesSound /\ EndsSound /\ QuietSound

(* The old manager serves and no helper runs.                               *)
LEMMA InitHolds == Init => IInv
<1> SUFFICES ASSUME Init PROVE IInv
    OBVIOUS
<1> USE DEF Init, Off, NoBase
<1>1. Ranges
  <2>1. 1 \in 1 .. MaxRuns /\ 0 \in 0 .. MaxRuns
    BY BoundAssumption
  <2>2. tx \in TxType
    BY <2>1 DEF TxType, States, Settled
  <2>3. proj \in ProjType
    BY <2>1 DEF ProjType, Leases
  <2>4. old \in OldType /\ helper \in HelperType
    BY DEF OldType, HelperType, Places
  <2> QED BY <2>2, <2>3, <2>4, BoundAssumption DEF Ranges, Leases
<1>2. PlacesSound
  BY DEF PlacesSound, OneManager
<1>3. EndsSound
  BY DEF EndsSound, FinishedServes
<1>4. QuietSound
  BY DEF QuietSound
<1> QED BY <1>1, <1>2, <1>3, <1>4 DEF IInv
-----------------------------------------------------------------------------
(* What a step of the helper does to the transaction and to its memory.     *)
LEMMA GotoMoves ==
    ASSUME helper \in HelperType, NEW at \in Places, Goto(at)
    PROVE  helper' \in HelperType /\ helper'.at = at
           /\ helper'.done = helper.done
  BY DEF HelperType, Goto

(* An attempt ends.                                                         *)
LEMMA FinishMoves ==
    ASSUME helper \in HelperType, NEW ok \in BOOLEAN, Finish(ok)
    PROVE  helper' \in HelperType /\ helper'.at = "ending"
           /\ helper'.done = helper.done
  BY DEF HelperType, Finish, Places

(* The transaction is written.                                              *)
LEMMA WriteMoves ==
    ASSUME tx \in TxType, NEW state \in States, helper \in HelperType,
           tx' = [tx EXCEPT !.state = state, !.new = helper.new]
    PROVE  tx' \in TxType /\ tx'.state = state /\ tx'.base = tx.base
           /\ tx'.force = tx.force
  BY DEF TxType, HelperType

(* The rollback is entered.                                                 *)
LEMMA RollBackMoves ==
    ASSUME Ranges, RollBack
    PROVE  /\ tx' \in TxType /\ tx'.state = "rolling_back"
           /\ tx'.base = tx.base /\ tx'.force = tx.force
           /\ helper' \in HelperType /\ helper'.at = "check"
           /\ helper'.done = helper.done
<1>1. "rolling_back" \in States
  BY DEF States
<1>2. tx' = [tx EXCEPT !.state = "rolling_back", !.new = helper.new]
  BY DEF RollBack
<1>3. helper' \in HelperType /\ helper'.at = "check"
      /\ helper'.done = helper.done
  BY DEF RollBack, Ranges, HelperType, Places
<1> QED BY <1>1, <1>2, <1>3, WriteMoves DEF Ranges

(* Docker starts the helper again, or not.                                  *)
LEMMA AgainMoves ==
    ASSUME Ranges, StartedAgain
    PROVE  /\ helper' \in HelperType /\ helper'.at \in {"off", "begin"}
           /\ helper'.done = {} /\ left' \in 0 .. Restarts
<1>1. CASE left = 0
  BY <1>1 DEF Ranges, StartedAgain, Off, HelperType, Places
<1>2. CASE left # 0
  <2>1. left - 1 \in 0 .. Restarts
    BY <1>2, BoundAssumption DEF Ranges
  <2>2. left' = left - 1 /\ helper' = [Off EXCEPT !.at = "begin"]
    BY <1>2 DEF StartedAgain
  <2>3. helper' \in HelperType /\ helper'.at = "begin" /\ helper'.done = {}
    BY <2>2 DEF Off, HelperType, Places
  <2> QED BY <2>1, <2>2, <2>3
<1> QED BY <1>1, <1>2
-----------------------------------------------------------------------------
(* A project works, fails, or its lease runs out.                           *)
LEMMA ProjectStep ==
    ASSUME IInv, NEW p \in Project,
           Work(p) \/ WorkEnds(p) \/ SessionFails(p) \/
             ProjectLeaseExpires(p)
    PROVE  IInv'
<1> USE BoundAssumption DEF IInv
<1>1. CASE Work(p)
  <2>1. proj' \in ProjType
    BY <1>1 DEF Work, Ranges, ProjType, Leases
  <2>2. Ranges'
    BY <1>1, <2>1 DEF Work, Ranges, Places, States, Settled
  <2>3. PlacesSound'
    BY <1>1, <2>1 DEF Work, PlacesSound, OneManager, Ranges, Places, States,
       Settled
  <2>4. EndsSound'
    BY <1>1, <2>1 DEF Work, EndsSound, FinishedServes, PlacesSound, Ranges,
       Places, States, Settled
  <2>5. QuietSound'
    BY <1>1 DEF Work, QuietSound, Ranges, ProjType, HelperType
  <2> QED BY <2>2, <2>3, <2>4, <2>5
<1>2. CASE WorkEnds(p)
  <2>1. proj' \in ProjType
    BY <1>2 DEF WorkEnds, Ranges, ProjType, Leases
  <2>2. Ranges'
    BY <1>2, <2>1 DEF WorkEnds, Ranges, Places, States, Settled
  <2>3. PlacesSound'
    BY <1>2, <2>1 DEF WorkEnds, PlacesSound, OneManager, Ranges, Places,
       States, Settled
  <2>4. EndsSound'
    BY <1>2, <2>1 DEF WorkEnds, EndsSound, FinishedServes, PlacesSound,
       Ranges, Places, States, Settled
  <2>5. QuietSound'
    BY <1>2 DEF WorkEnds, QuietSound, Ranges, ProjType, HelperType
  <2> QED BY <2>2, <2>3, <2>4, <2>5
<1>3. CASE SessionFails(p)
  <2> DEFINE failed == [proj[p] EXCEPT !.run = proj[p].run + 1,
                                      !.busy = FALSE]
  <2>1. /\ failed \in [run : 1 .. MaxRuns, busy : BOOLEAN, lease : Leases]
        /\ failed.lease = proj[p].lease /\ ~failed.busy
    <3>1. proj[p].run + 1 \in 1 .. MaxRuns
      BY <1>3 DEF SessionFails, Ranges, ProjType
    <3>2. proj[p] \in [run : 1 .. MaxRuns, busy : BOOLEAN, lease : Leases]
      BY DEF Ranges, ProjType
    <3> QED BY <3>1, <3>2
  <2>2. proj' = [proj EXCEPT ![p] = failed]
    BY <1>3 DEF SessionFails
  <2> HIDE DEF failed
  <2>3. proj' \in ProjType
    BY <2>1, <2>2 DEF Ranges, ProjType
  <2>4. Ranges'
    BY <1>3, <2>1, <2>2, <2>3 DEF SessionFails, Ranges, Places, States,
       Settled
  <2>5. PlacesSound'
    BY <1>3, <2>1, <2>2, <2>3 DEF SessionFails, PlacesSound, OneManager,
       Ranges, Places, States, Settled
  <2>6. EndsSound'
    BY <1>3, <2>1, <2>2, <2>3 DEF SessionFails, EndsSound, FinishedServes,
       PlacesSound, Ranges, Places, States, Settled
  <2>7. QuietSound'
    <3>1. \A q \in Project : proj'[q].lease = proj[q].lease
                             /\ (proj'[q].busy => proj[q].busy)
      BY <2>1, <2>2 DEF Ranges, ProjType
    <3>2. helper.done \subseteq Project
      BY DEF Ranges, HelperType
    <3> QED BY <1>3, <3>1, <3>2 DEF SessionFails, QuietSound
  <2> QED BY <2>4, <2>5, <2>6, <2>7
<1>4. CASE ProjectLeaseExpires(p)
  <2>1. proj' \in ProjType
    BY <1>4 DEF ProjectLeaseExpires, Ranges, ProjType, Leases
  <2>2. Ranges'
    BY <1>4, <2>1 DEF ProjectLeaseExpires, Ranges, Places, States, Settled
  <2>3. PlacesSound'
    BY <1>4, <2>1 DEF ProjectLeaseExpires, PlacesSound, OneManager, Ranges,
       Places, States, Settled
  <2>4. EndsSound'
    BY <1>4, <2>1 DEF ProjectLeaseExpires, EndsSound, FinishedServes,
       PlacesSound, Ranges, Places, States, Settled
  <2>5. QuietSound'
    BY <1>4 DEF ProjectLeaseExpires, QuietSound, Ranges, ProjType, HelperType
  <2> QED BY <2>2, <2>3, <2>4, <2>5
<1> QED BY <1>1, <1>2, <1>3, <1>4

(* The helper is scheduled.                                                 *)
LEMMA ScheduleStep ==
    ASSUME IInv, NEW force \in Forces,
           Schedule(force)
    PROVE  IInv'
<1> USE BoundAssumption DEF IInv
<1>1. CASE Schedule(force)
  <2>1. tx' \in TxType /\ tx'.state \notin Settled
    <3>1. NoBase \in [Project -> 0 .. MaxRuns] /\ force \in BOOLEAN
      BY DockerAssumption DEF NoBase
    <3>2. CASE tx.state \in Settled
      <4>1. tx' = [state |-> "staged", new |-> FALSE, force |-> force,
                   base |-> NoBase]
        BY <1>1, <3>2 DEF Schedule
      <4> QED BY <3>1, <4>1 DEF TxType, States, Settled
    <3>3. CASE tx.state \notin Settled
      <4>1. tx' = [tx EXCEPT !.force =
                     tx.force \/ (force /\ tx.state = "staged")]
        BY <1>1, <3>3 DEF Schedule
      <4>2. tx.force \/ (force /\ tx.state = "staged") \in BOOLEAN
        OBVIOUS
      <4> QED BY <3>3, <4>1, <4>2 DEF Ranges, TxType
    <3> QED BY <3>2, <3>3
  <2>2. helper' \in HelperType /\ helper'.at = "begin" /\ helper'.done = {}
    BY <1>1 DEF Schedule, Off, HelperType, Places
  <2>3. Ranges'
    BY <1>1, <2>1, <2>2 DEF Schedule, Ranges, Places, States, Settled
  <2>4. PlacesSound'
    BY <1>1, <2>1, <2>2 DEF Schedule, PlacesSound, OneManager, Ranges,
       Places, States, Settled
  <2>5. EndsSound'
    BY <1>1, <2>1, <2>2 DEF Schedule, EndsSound, FinishedServes, PlacesSound,
       Ranges, Places, States, Settled
  <2>6. QuietSound'
    BY <1>1, <2>1, <2>2 DEF Schedule, QuietSound, Ranges, Places, States,
       Settled
  <2> QED BY <2>3, <2>4, <2>5, <2>6
<1> QED BY <1>1

(* The helper starts and closes the manager's admission.                    *)
LEMMA BeginStep ==
    ASSUME IInv, LeaseExpires \/ Begin \/ Admit
    PROVE  IInv'
<1> USE BoundAssumption DEF IInv
<1>1. CASE LeaseExpires
  <2>1. lease' \in Leases
    BY <1>1 DEF LeaseExpires, Leases
  <2>2. Ranges'
    BY <1>1, <2>1 DEF LeaseExpires, Ranges, Places, States, Settled
  <2>3. PlacesSound'
    BY <1>1, <2>1 DEF LeaseExpires, PlacesSound, OneManager, Ranges, Places,
       States, Settled
  <2>4. EndsSound'
    BY <1>1, <2>1 DEF LeaseExpires, EndsSound, FinishedServes, PlacesSound,
       Ranges, Places, States, Settled
  <2>5. QuietSound'
    BY <1>1, <2>1 DEF LeaseExpires, QuietSound, Ranges, Places, States,
       Settled
  <2> QED BY <2>2, <2>3, <2>4, <2>5
<1>2. CASE Begin
  <2>1. CASE tx.state \in Settled
    <3>1. helper' = Off
      BY <1>2, <2>1 DEF Begin
    <3>2. helper' \in HelperType /\ helper'.at = "off" /\ helper'.done = {}
      BY <3>1 DEF Off, HelperType, Places
    <3> QED BY <1>2, <3>2 DEF Begin, Ranges, PlacesSound, OneManager,
               EndsSound, FinishedServes, QuietSound
  <2>2. CASE tx.state \notin Settled
    <3>1. helper' = [helper EXCEPT
                       !.at = "admit", !.new = tx.new,
                       !.touched = tx.state \in {"starting", "rolling_back"}
                                   \/ ~old.up]
      BY <1>2, <2>2 DEF Begin
    <3>2. /\ tx.new \in BOOLEAN
          /\ (tx.state \in {"starting", "rolling_back"} \/ ~old.up) \in BOOLEAN
      BY DEF Ranges, TxType
    <3>3. helper' \in HelperType /\ helper'.at = "admit"
          /\ helper'.done = helper.done
      BY <3>1, <3>2 DEF Ranges, HelperType, Places
    <3> QED BY <1>2, <2>2, <3>3 DEF Begin, Ranges, PlacesSound, OneManager,
               EndsSound, FinishedServes, QuietSound
  <2> QED BY <2>1, <2>2
<1>3. CASE Admit
  <2>1. /\ helper' \in HelperType /\ helper'.at \in {"freeze", "ending"}
        /\ helper'.done = helper.done /\ lease' \in Leases
    <3>1. lease' \in Leases
      BY <1>3 DEF Admit, Ranges, Leases
    <3>2. CASE helper' = [helper EXCEPT !.at = "freeze", !.fresh = TRUE]
      BY <3>1, <3>2 DEF Ranges, HelperType, Places
    <3>3. CASE Finish(FALSE)
      BY <3>1, <3>3, FinishMoves DEF Ranges
    <3>4. CASE Goto("freeze")
      <4>1. "freeze" \in Places
        BY DEF Places
      <4> QED BY <3>1, <3>4, <4>1, GotoMoves DEF Ranges
    <3> QED BY <1>3, <3>2, <3>3, <3>4 DEF Admit
  <2>2. Ranges'
    BY <1>3, <2>1, GotoMoves, FinishMoves DEF Admit, Ranges, Places, States,
       Settled
  <2>3. PlacesSound'
    BY <1>3, <2>1, GotoMoves, FinishMoves DEF Admit, PlacesSound, OneManager,
       Ranges, Places, States, Settled
  <2>4. EndsSound'
    BY <1>3, <2>1, GotoMoves, FinishMoves DEF Admit, EndsSound,
       FinishedServes, PlacesSound, Ranges, Places, States, Settled
  <2>5. QuietSound'
    BY <1>3, <2>1, GotoMoves, FinishMoves DEF Admit, QuietSound, Ranges,
       Places, States, Settled
  <2> QED BY <2>2, <2>3, <2>4, <2>5
<1> QED BY <1>1, <1>2, <1>3

(* Each project is asked to close.                                          *)
LEMMA FreezeStep ==
    ASSUME IInv, NEW p \in Project,
           Freeze(p)
    PROVE  IInv'
<1> USE BoundAssumption DEF IInv
<1>1. CASE Freeze(p)
  <2>1. helper.done \subseteq Project /\ p \in Project /\ p \notin helper.done
    BY <1>1 DEF Freeze, Ranges, HelperType
  <2> DEFINE quiet == tx.force \/ ~proj[p].busy
             same  == tx.base[p] \in {0, proj[p].run}
  <2>2. proj' = [proj EXCEPT ![p].lease = IF quiet THEN "held" ELSE "none"]
    BY <1>1 DEF Freeze, MustAsk
  <2>3. proj' \in ProjType
    BY <2>2 DEF Ranges, ProjType, Leases
  <2>4. /\ \A q \in Project : q # p => proj'[q] = proj[q]
        /\ proj'[p].busy = proj[p].busy
        /\ quiet => proj'[p].lease = "held"
    BY <2>2 DEF Ranges, ProjType
  <2>5. CASE quiet /\ same
    <3>1. tx' = [tx EXCEPT !.base[p] = proj[p].run]
          /\ helper' = [helper EXCEPT !.done = helper.done \cup {p}]
      BY <1>1, <2>5, Zenon DEF Freeze, MustAsk
    <3>2. proj[p].run \in 1 .. MaxRuns
      BY DEF Ranges, ProjType
    <3>3. /\ tx' \in TxType /\ tx'.state = tx.state /\ tx'.force = tx.force
          /\ tx'.base = [tx.base EXCEPT ![p] = proj[p].run]
      BY <3>1, <3>2, BoundAssumption DEF Ranges, TxType
    <3>4. /\ tx'.base[p] # 0
          /\ \A q \in Project : q # p => tx'.base[q] = tx.base[q]
      BY <3>2, <3>3 DEF Ranges, TxType
    <3>5. /\ helper' \in HelperType /\ helper'.at = helper.at
          /\ helper'.done = helper.done \cup {p}
      <4>1. helper.done \cup {p} \in SUBSET Project
        BY <2>1
      <4> QED BY <3>1, <4>1 DEF Ranges, HelperType
    <3>6. Ranges'
      BY <1>1, <2>3, <3>3, <3>5 DEF Freeze, Ranges
    <3>7. PlacesSound' /\ EndsSound'
      BY <1>1, <3>3, <3>5 DEF Freeze, PlacesSound, OneManager, EndsSound,
         FinishedServes
    <3>8. QuietSound'
      BY <1>1, <2>1, <2>4, <2>5, <3>3, <3>4, <3>5 DEF Freeze, QuietSound
    <3> QED BY <3>6, <3>7, <3>8
  <2>6. CASE ~(quiet /\ same)
    <3>1. Finish(FALSE) /\ tx' = tx
      BY <1>1, <2>6 DEF Freeze, MustAsk
    <3>2. /\ helper' \in HelperType /\ helper'.at = "ending"
          /\ helper'.done = helper.done
      BY <3>1, FinishMoves DEF Ranges
    <3>3. Ranges'
      BY <1>1, <2>3, <3>1, <3>2 DEF Freeze, Ranges
    <3>4. PlacesSound' /\ EndsSound'
      BY <1>1, <3>1, <3>2 DEF Freeze, PlacesSound, OneManager, EndsSound,
         FinishedServes
    <3>5. QuietSound'
      BY <1>1, <2>1, <2>4, <3>1, <3>2 DEF Freeze, QuietSound
    <3> QED BY <3>3, <3>4, <3>5
  <2> QED BY <2>5, <2>6
<1> QED BY <1>1

(* All of them are closed.                                                  *)
LEMMA PrepareStep ==
    ASSUME IInv, Prepare
    PROVE  IInv'
<1> USE BoundAssumption DEF IInv
<1>1. CASE Prepare
  <2>1. /\ tx' \in TxType /\ tx'.base = tx.base /\ tx'.force = tx.force
        /\ tx'.state = IF tx.state = "staged" THEN "prepared" ELSE tx.state
    BY <1>1 DEF Prepare, Ranges, TxType, States
  <2>2. Known \in BOOLEAN
    BY DEF Known, Ranges, HelperType
  <2>3. /\ helper' \in HelperType /\ helper'.done = helper.done
        /\ helper'.at = IF tx.state = "rolling_back" THEN "check"
                        ELSE IF old.up THEN "stop" ELSE "rename"
    BY <1>1, <2>2 DEF Prepare, Ranges, HelperType, Places
  <2>4. Ranges'
    BY <1>1, <2>1, <2>2, <2>3 DEF Prepare, Known, Ranges, Places, States,
       Settled
  <2>5. PlacesSound'
    BY <1>1, <2>1, <2>2, <2>3 DEF Prepare, Known, PlacesSound, OneManager,
       Ranges, Places, States, Settled
  <2>6. EndsSound'
    BY <1>1, <2>1, <2>2, <2>3 DEF Prepare, Known, EndsSound, FinishedServes,
       PlacesSound, Ranges, Places, States, Settled
  <2>7. QuietSound'
    BY <1>1, <2>1, <2>2, <2>3 DEF Prepare, Known, QuietSound, Ranges, Places,
       States, Settled
  <2> QED BY <2>4, <2>5, <2>6, <2>7
<1> QED BY <1>1

(* The old manager is stopped and the replacement made.                     *)
LEMMA ForwardStep ==
    ASSUME IInv, Stop \/ Rename \/ Mark \/ Clone \/ Record \/ Start \/
             Answers \/ WaitTimesOut \/ Healthy
    PROVE  IInv'
<1> USE BoundAssumption DEF IInv
<1>1. CASE Stop
  <2>1. PICK up \in BOOLEAN :
           /\ old' = [old EXCEPT !.up = up]
           /\ IF Stopped(up)
              THEN /\ helper' = [helper EXCEPT !.at = "rename",
                                               !.touched = TRUE]
                   /\ UNCHANGED tx
              ELSE RollBack
    BY <1>1 DEF Stop
  <2>2. old' \in OldType /\ old'.up = up /\ old'.named = old.named
    BY <2>1 DEF Ranges, OldType
  <2>3. /\ helper' \in HelperType /\ helper'.done = helper.done
        /\ helper'.at = IF up THEN "check" ELSE "rename"
        /\ tx' \in TxType /\ tx'.base = tx.base /\ tx'.force = tx.force
        /\ tx'.state = IF up THEN "rolling_back" ELSE tx.state
    <3>1. CASE up
      BY <2>1, <3>1, RollBackMoves DEF Stopped
    <3>2. CASE ~up
      <4>1. /\ helper' = [helper EXCEPT !.at = "rename", !.touched = TRUE]
            /\ tx' = tx
        BY <2>1, <3>2 DEF Stopped
      <4>2. /\ helper' \in HelperType /\ helper'.done = helper.done
            /\ helper'.at = "rename"
        BY <4>1 DEF Ranges, HelperType, Places
      <4> QED BY <3>2, <4>1, <4>2 DEF Ranges
    <3> QED BY <3>1, <3>2
  <2>4. old.up /\ new # "up"
    BY <1>1 DEF Stop, PlacesSound, OneManager
  <2>5. Ranges'
    BY <1>1, <2>2, <2>3, <2>4 DEF Stop, Settled, Ranges
  <2>6. PlacesSound'
    BY <1>1, <2>2, <2>3, <2>4 DEF Stop, Settled, PlacesSound, OneManager
  <2>7. EndsSound'
    BY <1>1, <2>2, <2>3, <2>4 DEF Stop, Settled, EndsSound, FinishedServes
  <2>8. QuietSound'
    BY <1>1, <2>2, <2>3, <2>4 DEF Stop, Settled, QuietSound
  <2> QED BY <2>5, <2>6, <2>7, <2>8
<1>2. CASE Rename
  <2>1. old' \in OldType /\ old'.up = old.up /\ ~old'.named
    BY <1>2 DEF Rename, Ranges, OldType
  <2>2. Ranges'
    BY <1>2, <2>1, GotoMoves DEF Rename, Ranges, Places, States, Settled
  <2>3. PlacesSound'
    BY <1>2, <2>1, GotoMoves DEF Rename, PlacesSound, OneManager, Ranges,
       Places, States, Settled
  <2>4. EndsSound'
    BY <1>2, <2>1, GotoMoves DEF Rename, EndsSound, FinishedServes,
       PlacesSound, Ranges, Places, States, Settled
  <2>5. QuietSound'
    BY <1>2, <2>1, GotoMoves DEF Rename, QuietSound, Ranges, Places, States,
       Settled
  <2> QED BY <2>2, <2>3, <2>4, <2>5
<1>3. CASE Mark
  <2>1. Ranges'
    BY <1>3, GotoMoves, WriteMoves DEF Mark, Ranges, Places, States, Settled
  <2>2. PlacesSound'
    BY <1>3, GotoMoves, WriteMoves DEF Mark, PlacesSound, OneManager, Ranges,
       Places, States, Settled
  <2>3. EndsSound'
    BY <1>3, GotoMoves, WriteMoves DEF Mark, EndsSound, FinishedServes,
       PlacesSound, Ranges, Places, States, Settled
  <2>4. QuietSound'
    BY <1>3, GotoMoves, WriteMoves DEF Mark, QuietSound, Ranges, Places,
       States, Settled
  <2> QED BY <2>1, <2>2, <2>3, <2>4
<1>4. CASE Clone
  <2>1. CASE new = "absent"
    <3>1. /\ new' = "created" /\ tx' = tx
          /\ helper' = [helper EXCEPT !.at = "record", !.new = TRUE]
      BY <1>4, <2>1 DEF Clone
    <3>2. /\ helper' \in HelperType /\ helper'.at = "record"
          /\ helper'.done = helper.done
      BY <3>1 DEF Ranges, HelperType, Places
    <3> QED BY <1>4, <3>1, <3>2 DEF Clone, Ranges, PlacesSound, OneManager,
               EndsSound, FinishedServes, QuietSound
  <2>2. CASE new # "absent"
    <3>1. RollBack /\ new' = new
      BY <1>4, <2>2 DEF Clone
    <3> QED BY <1>4, <3>1, RollBackMoves DEF Clone, Ranges, PlacesSound,
               OneManager, EndsSound, FinishedServes, QuietSound, Settled
  <2> QED BY <2>1, <2>2
<1>5. CASE Record
  <2>1. Ranges'
    BY <1>5, GotoMoves, WriteMoves DEF Record, Ranges, Places, States,
       Settled
  <2>2. PlacesSound'
    BY <1>5, GotoMoves, WriteMoves DEF Record, PlacesSound, OneManager,
       Ranges, Places, States, Settled
  <2>3. EndsSound'
    BY <1>5, GotoMoves, WriteMoves DEF Record, EndsSound, FinishedServes,
       PlacesSound, Ranges, Places, States, Settled
  <2>4. QuietSound'
    BY <1>5, GotoMoves, WriteMoves DEF Record, QuietSound, Ranges, Places,
       States, Settled
  <2> QED BY <2>1, <2>2, <2>3, <2>4
<1>6. CASE Start
  <2>1. Ranges'
    BY <1>6, GotoMoves DEF Start, Ranges, Places, States, Settled
  <2>2. PlacesSound'
    BY <1>6, GotoMoves DEF Start, PlacesSound, OneManager, Ranges, Places,
       States, Settled
  <2>3. EndsSound'
    BY <1>6, GotoMoves DEF Start, EndsSound, FinishedServes, PlacesSound,
       Ranges, Places, States, Settled
  <2>4. QuietSound'
    BY <1>6, GotoMoves DEF Start, QuietSound, Ranges, Places, States, Settled
  <2> QED BY <2>1, <2>2, <2>3, <2>4
<1>7. CASE Answers
  <2>1. Ranges'
    BY <1>7, GotoMoves DEF Answers, Ranges, Places, States, Settled
  <2>2. PlacesSound'
    BY <1>7, GotoMoves DEF Answers, PlacesSound, OneManager, Ranges, Places,
       States, Settled
  <2>3. EndsSound'
    BY <1>7, GotoMoves DEF Answers, EndsSound, FinishedServes, PlacesSound,
       Ranges, Places, States, Settled
  <2>4. QuietSound'
    BY <1>7, GotoMoves DEF Answers, QuietSound, Ranges, Places, States,
       Settled
  <2> QED BY <2>1, <2>2, <2>3, <2>4
<1>8. CASE WaitTimesOut
  <2>1. Ranges'
    BY <1>8, RollBackMoves DEF WaitTimesOut, Ranges, Places, States, Settled
  <2>2. PlacesSound'
    BY <1>8, RollBackMoves DEF WaitTimesOut, PlacesSound, OneManager, Ranges,
       Places, States, Settled
  <2>3. EndsSound'
    BY <1>8, RollBackMoves DEF WaitTimesOut, EndsSound, FinishedServes,
       PlacesSound, Ranges, Places, States, Settled
  <2>4. QuietSound'
    BY <1>8, RollBackMoves DEF WaitTimesOut, QuietSound, Ranges, Places,
       States, Settled
  <2> QED BY <2>1, <2>2, <2>3, <2>4
<1>9. CASE Healthy
  <2>1. Ranges'
    BY <1>9, FinishMoves, WriteMoves DEF Healthy, Ranges, Places, States,
       Settled
  <2>2. PlacesSound'
    BY <1>9, FinishMoves, WriteMoves DEF Healthy, PlacesSound, OneManager,
       Ranges, Places, States, Settled
  <2>3. EndsSound'
    BY <1>9, FinishMoves, WriteMoves DEF Healthy, EndsSound, FinishedServes,
       PlacesSound, Ranges, Places, States, Settled
  <2>4. QuietSound'
    BY <1>9, FinishMoves, WriteMoves DEF Healthy, QuietSound, Ranges, Places,
       States, Settled
  <2> QED BY <2>1, <2>2, <2>3, <2>4
<1> QED BY <1>1, <1>2, <1>3, <1>4, <1>5, <1>6, <1>7, <1>8, <1>9

(* The rollback.                                                            *)
LEMMA BackStep ==
    ASSUME IInv, Check \/ Remove \/ RenameBack \/ StartOld \/ WaitOld \/
             RolledBack
    PROVE  IInv'
<1> USE BoundAssumption DEF IInv
<1>1. CASE Check
  <2>1. Ranges'
    BY <1>1, GotoMoves, FinishMoves DEF Check, Ranges, Places, States,
       Settled
  <2>2. PlacesSound'
    BY <1>1, GotoMoves, FinishMoves DEF Check, PlacesSound, OneManager,
       Ranges, Places, States, Settled
  <2>3. EndsSound'
    BY <1>1, GotoMoves, FinishMoves DEF Check, EndsSound, FinishedServes,
       PlacesSound, Ranges, Places, States, Settled
  <2>4. QuietSound'
    BY <1>1, GotoMoves, FinishMoves DEF Check, QuietSound, Ranges, Places,
       States, Settled
  <2> QED BY <2>1, <2>2, <2>3, <2>4
<1>2. CASE Remove
  <2>1. Ranges'
    BY <1>2, GotoMoves, FinishMoves DEF Remove, Ranges, Places, States,
       Settled
  <2>2. PlacesSound'
    BY <1>2, GotoMoves, FinishMoves DEF Remove, PlacesSound, OneManager,
       Ranges, Places, States, Settled
  <2>3. EndsSound'
    BY <1>2, GotoMoves, FinishMoves DEF Remove, EndsSound, FinishedServes,
       PlacesSound, Ranges, Places, States, Settled
  <2>4. QuietSound'
    BY <1>2, GotoMoves, FinishMoves DEF Remove, QuietSound, Ranges, Places,
       States, Settled
  <2> QED BY <2>1, <2>2, <2>3, <2>4
<1>3. CASE RenameBack
  <2>1. CASE new # "absent" /\ ~old.named
    <3>1. Finish(FALSE) /\ old' = old
      BY <1>3, <2>1 DEF RenameBack
    <3>2. /\ helper' \in HelperType /\ helper'.at = "ending"
          /\ helper'.done = helper.done
      BY <3>1, FinishMoves DEF Ranges
    <3> QED BY <1>3, <3>1, <3>2 DEF RenameBack, Ranges, PlacesSound,
               OneManager, EndsSound, FinishedServes, QuietSound
  <2>2. CASE ~(new # "absent" /\ ~old.named)
    <3>1. /\ Goto("startOld") /\ old' = [old EXCEPT !.named = TRUE]
          /\ "startOld" \in Places
      BY <1>3, <2>2 DEF RenameBack, Renamed, Places
    <3>2. old' \in OldType /\ old'.up = old.up /\ old'.named
      BY <3>1 DEF Ranges, OldType
    <3>3. /\ helper' \in HelperType /\ helper'.at = "startOld"
          /\ helper'.done = helper.done
      BY <3>1, GotoMoves DEF Ranges
    <3>4. Ranges' /\ QuietSound'
      BY <1>3, <3>2, <3>3 DEF RenameBack, Ranges, QuietSound
    <3>5. PlacesSound'
      BY <1>3, <2>2, <3>2, <3>3 DEF RenameBack, PlacesSound, OneManager
    <3>6. EndsSound'
      BY <1>3, <3>2, <3>3 DEF RenameBack, EndsSound, FinishedServes, Settled
    <3> QED BY <3>4, <3>5, <3>6
  <2> QED BY <2>1, <2>2
<1>4. CASE StartOld
  <2>1. old' \in OldType /\ old'.up /\ old'.named = old.named
    BY <1>4 DEF StartOld, Ranges, OldType
  <2>2. Ranges'
    BY <1>4, <2>1, GotoMoves DEF StartOld, Ranges, Places, States, Settled
  <2>3. PlacesSound'
    BY <1>4, <2>1, GotoMoves DEF StartOld, PlacesSound, OneManager, Ranges,
       Places, States, Settled
  <2>4. EndsSound'
    BY <1>4, <2>1, GotoMoves DEF StartOld, EndsSound, FinishedServes,
       PlacesSound, Ranges, Places, States, Settled
  <2>5. QuietSound'
    BY <1>4, <2>1, GotoMoves DEF StartOld, QuietSound, Ranges, Places,
       States, Settled
  <2> QED BY <2>2, <2>3, <2>4, <2>5
<1>5. CASE WaitOld
  <2>1. Ranges'
    BY <1>5, GotoMoves, FinishMoves DEF WaitOld, Ranges, Places, States,
       Settled
  <2>2. PlacesSound'
    BY <1>5, GotoMoves, FinishMoves DEF WaitOld, PlacesSound, OneManager,
       Ranges, Places, States, Settled
  <2>3. EndsSound'
    BY <1>5, GotoMoves, FinishMoves DEF WaitOld, EndsSound, FinishedServes,
       PlacesSound, Ranges, Places, States, Settled
  <2>4. QuietSound'
    BY <1>5, GotoMoves, FinishMoves DEF WaitOld, QuietSound, Ranges, Places,
       States, Settled
  <2> QED BY <2>1, <2>2, <2>3, <2>4
<1>6. CASE RolledBack
  <2>1. old = [up |-> TRUE, named |-> TRUE] /\ new = "absent"
    BY <1>6 DEF RolledBack, Ranges, OldType, PlacesSound
  <2>2. Ranges'
    BY <1>6, <2>1, FinishMoves, WriteMoves DEF RolledBack, Ranges, Places,
       States, Settled
  <2>3. PlacesSound'
    BY <1>6, <2>1, FinishMoves, WriteMoves DEF RolledBack, PlacesSound,
       OneManager, Ranges, Places, States, Settled
  <2>4. EndsSound'
    BY <1>6, <2>1, FinishMoves, WriteMoves DEF RolledBack, EndsSound,
       FinishedServes, PlacesSound, Ranges, Places, States, Settled
  <2>5. QuietSound'
    BY <1>6, <2>1, FinishMoves, WriteMoves DEF RolledBack, QuietSound,
       Ranges, Places, States, Settled
  <2> QED BY <2>2, <2>3, <2>4, <2>5
<1> QED BY <1>1, <1>2, <1>3, <1>4, <1>5, <1>6

(* A command fails, an attempt ends, or the helper dies.                    *)
LEMMA EndStep ==
    ASSUME IInv, CommandFails \/ End \/ Dies
    PROVE  IInv'
<1> USE BoundAssumption DEF IInv
<1>1. CASE CommandFails
  <2>1. Ranges'
    BY <1>1, RollBackMoves, FinishMoves DEF CommandFails, Ranges, Places,
       States, Settled
  <2>2. PlacesSound'
    BY <1>1, RollBackMoves, FinishMoves DEF CommandFails, PlacesSound,
       OneManager, Ranges, Places, States, Settled
  <2>3. EndsSound'
    BY <1>1, RollBackMoves, FinishMoves DEF CommandFails, EndsSound,
       FinishedServes, PlacesSound, Ranges, Places, States, Settled
  <2>4. QuietSound'
    BY <1>1, RollBackMoves, FinishMoves DEF CommandFails, QuietSound, Ranges,
       Places, States, Settled
  <2> QED BY <2>1, <2>2, <2>3, <2>4
<1>2. CASE End
  <2>1. proj' \in ProjType
    BY <1>2 DEF End, Opens, Ranges, ProjType, Leases
  <2>2. lease' \in Leases
    BY <1>2 DEF End, Opens, Ranges, Leases
  <2>3. tx' \in TxType
        /\ (tx'.state \in Settled => tx'.state = tx.state)
    <3>1. NoBase \in [Project -> 0 .. MaxRuns] /\ "staged" \in States
      BY BoundAssumption DEF NoBase, States
    <3>2. \/ tx' = tx
          \/ tx' = [tx EXCEPT !.state = "staged", !.base = NoBase]
      BY <1>2 DEF End, Untouched
    <3> QED BY <3>1, <3>2 DEF Ranges, TxType, Settled
  <2>4. /\ helper' \in HelperType /\ helper'.at \in {"off", "begin"}
        /\ helper'.done = {} /\ left' \in 0 .. Restarts
    <3>1. CASE helper.ok
      <4>1. helper' = Off /\ left' = left
        BY <1>2, <3>1 DEF End
      <4>2. Off \in HelperType /\ Off.at = "off" /\ Off.done = {}
        BY DEF Off, HelperType, Places
      <4> QED BY <4>1, <4>2 DEF Ranges
    <3>2. CASE ~helper.ok
      <4>1. StartedAgain
        BY <1>2, <3>2 DEF End
      <4> QED BY <4>1, AgainMoves
    <3> QED BY <3>1, <3>2
  <2>5. Ranges'
    BY <1>2, <2>1, <2>2, <2>3, <2>4 DEF End, Settled, Ranges
  <2>6. PlacesSound'
    BY <1>2, <2>1, <2>2, <2>3, <2>4 DEF End, Settled, PlacesSound, OneManager
  <2>7. EndsSound'
    BY <1>2, <2>1, <2>2, <2>3, <2>4 DEF End, Settled, EndsSound, FinishedServes
  <2>8. QuietSound'
    BY <1>2, <2>1, <2>2, <2>3, <2>4 DEF End, Settled, QuietSound
  <2> QED BY <2>5, <2>6, <2>7, <2>8
<1>3. CASE Dies
  <2>1. /\ helper' \in HelperType /\ helper'.at \in {"off", "begin"}
        /\ helper'.done = {} /\ left' \in 0 .. Restarts
    BY <1>3, AgainMoves DEF Dies
  <2>2. crashes' \in 0 .. Crashes
    BY <1>3 DEF Dies, Ranges
  <2>3. proj' \in ProjType
    <3>1. CASE proj' = proj
      BY <3>1 DEF Ranges
    <3>2. ASSUME NEW p \in Project,
                 proj' = [proj EXCEPT ![p].lease = "held"]
          PROVE  proj' \in ProjType
      BY <3>2 DEF Ranges, ProjType, Leases
    <3> QED BY <1>3, <3>1, <3>2 DEF Dies
  <2>4. Ranges'
    BY <1>3, <2>1, <2>2, <2>3 DEF Dies, Ranges
  <2>5. PlacesSound'
    BY <1>3, <2>1, <2>2, <2>3 DEF Dies, PlacesSound, OneManager
  <2>6. EndsSound'
    BY <1>3, <2>1, <2>2, <2>3 DEF Dies, EndsSound, FinishedServes
  <2>7. QuietSound'
    BY <1>3, <2>1, <2>2, <2>3 DEF Dies, QuietSound
  <2> QED BY <2>4, <2>5, <2>6, <2>7
<1> QED BY <1>1, <1>2, <1>3

(* Nothing else changes the state.                                          *)
LEMMA StepHolds == IInv /\ [Next]_vars => IInv'
<1> SUFFICES ASSUME IInv, [Next]_vars PROVE IInv'
    OBVIOUS
<1>1. CASE ProjectNext
  BY <1>1, ProjectStep DEF ProjectNext
<1>2. CASE LeaseExpires \/ Begin \/ Admit
  BY <1>2, BeginStep
<1>3. ASSUME NEW force \in Forces, Schedule(force) PROVE IInv'
  BY <1>3, ScheduleStep
<1>4. CASE (\E p \in Project : Freeze(p)) \/ Prepare
  BY <1>4, FreezeStep, PrepareStep
<1>5. CASE \/ Stop \/ Rename \/ Mark \/ Clone \/ Record \/ Start
           \/ Answers \/ WaitTimesOut \/ Healthy
  BY <1>5, ForwardStep
<1>6. CASE \/ Check \/ Remove \/ RenameBack \/ StartOld \/ WaitOld
           \/ RolledBack
  BY <1>6, BackStep
<1>7. CASE CommandFails \/ End \/ Dies
  BY <1>7, EndStep
<1>8. CASE UNCHANGED vars
  BY <1>8 DEF vars, IInv, Ranges, PlacesSound, OneManager, EndsSound,
     FinishedServes, QuietSound
<1> QED BY <1>1, <1>2, <1>3, <1>4, <1>5, <1>6, <1>7, <1>8
        DEF Next, HelperNext

(* The invariant holds in every state.                                      *)
LEMMA Invariant == Spec => []IInv
  BY InitHolds, StepHolds, PTL DEF Spec
-----------------------------------------------------------------------------
(* Every variable keeps to its range: one helper with what it holds in      *)
(* memory, for any number of projects and deaths (manager_linux.go:26-45).  *)
THEOREM RolloutTypeCorrect == Spec => []TypeOK
<1>1. IInv => TypeOK
  BY DEF IInv, Ranges, TypeOK, TxType, States, OldType, ProjType, Leases,
     HelperType, Places
<1> QED BY <1>1, Invariant, PTL

(* The two managers never run together, wherever the helper died and        *)
(* whatever Docker did (manager_linux.go:340-345, 390-432).                 *)
THEOREM ManagersExclude == Spec => []OneManager
<1>1. IInv => OneManager
  BY DEF IInv, PlacesSound
<1> QED BY <1>1, Invariant, PTL

(* A rollout that is called finished left the manager it names running,     *)
(* also when an earlier attempt died in the middle of the other direction   *)
(* (manager_linux.go:373-378, 412-446).                                     *)
THEOREM FinishedRolloutServes == Spec => []FinishedServes
<1>1. IInv => FinishedServes
  BY DEF IInv, EndsSound
<1> QED BY <1>1, Invariant, PTL

(* The old manager is stopped only over projects that are closed, on record *)
(* and quiet unless forced, for any number of projects and of attempts      *)
(* (manager_linux.go:313-340).                                              *)
THEOREM RolloutHandsOverQuiet == Spec => HandsOverQuiet
<1>1. IInv /\ [Next]_vars
      => [helper.at = "stop" /\ helper'.at # "stop" /\ ~old'.up /\ old.up
          => \A p \in Project :
                /\ proj[p].lease = "held" /\ tx.base[p] # 0
                /\ tx.force \/ ~proj[p].busy]_vars
  <2> SUFFICES ASSUME IInv, helper.at = "stop", NEW p \in Project
               PROVE  /\ proj[p].lease = "held" /\ tx.base[p] # 0
                      /\ tx.force \/ ~proj[p].busy
    OBVIOUS
  <2>1. p \in helper.done
    BY DEF IInv, QuietSound
  <2> QED BY <2>1 DEF IInv, QuietSound
<1> QED BY <1>1, Invariant, PTL DEF Spec, HandsOverQuiet
-----------------------------------------------------------------------------
(* What a rollout closed it opens again, as long as the helper ends by      *)
(* itself: a project that is closed is on record; an attempt that found the *)
(* old manager running and stopped nothing leaves it running; a transaction *)
(* is staged only as long as nothing was touched.                           *)
Between == {"off", "begin"}
Open    == lease # "held" /\ \A p \in Project : proj[p].lease # "held"
OpenSound ==
    /\ crashes = 0 =>
           /\ \A p \in Project : proj[p].lease = "held" => tx.base[p] # 0
           /\ helper.at \in Between /\ tx.state \in Settled \cup {"staged"}
              => Open
    /\ helper.at \notin Between =>
           /\ ~helper.touched => old.up
           /\ helper.touched => tx.state # "staged"
    /\ tx.state = "staged" =>
           old.up /\ helper.at \in Between \cup {"admit", "freeze", "ending"}

(* Nothing is closed when nothing was scheduled.                            *)
LEMMA InitOpens == Init => OpenSound
<1> SUFFICES ASSUME Init PROVE OpenSound
    OBVIOUS
<1> QED BY DEF Init, OpenSound, Open, Between, Settled, Off

(* A project never closes by itself.                                        *)
LEMMA ProjectOpens ==
    ASSUME IInv, OpenSound, ProjectNext \/ LeaseExpires
    PROVE  OpenSound'
<1>1. CASE LeaseExpires
  BY <1>1 DEF LeaseExpires, OpenSound, Open
<1>2. ASSUME NEW p \in Project,
             \/ Work(p) \/ WorkEnds(p) \/ SessionFails(p)
             \/ ProjectLeaseExpires(p)
      PROVE  OpenSound'
  <2>1. /\ UNCHANGED <<tx, old, lease, helper, crashes>>
        /\ \A q \in Project : proj'[q].lease \in {proj[q].lease, "expired"}
    <3>1. proj \in ProjType
      BY DEF IInv, Ranges
    <3>2. UNCHANGED <<tx, old, lease, helper, crashes>>
      BY <1>2 DEF Work, WorkEnds, SessionFails, ProjectLeaseExpires
    <3>3. CASE Work(p) \/ WorkEnds(p)
      BY <3>1, <3>2, <3>3 DEF Work, WorkEnds, ProjType
    <3>4. CASE SessionFails(p)
      BY <3>1, <3>2, <3>4 DEF SessionFails, ProjType
    <3>5. CASE ProjectLeaseExpires(p)
      BY <3>1, <3>2, <3>5 DEF ProjectLeaseExpires, ProjType
    <3> QED BY <1>2, <3>2, <3>3, <3>4, <3>5
  <2> QED BY <2>1 DEF OpenSound, Open
<1> QED BY <1>1, <1>2 DEF ProjectNext

(* A rollout is scheduled, and its helper starts, with everything open.     *)
LEMMA BeginOpens ==
    ASSUME IInv, OpenSound,
           Begin \/ Admit \/ \E force \in Forces : Schedule(force)
    PROVE  OpenSound'
<1> USE DEF IInv, Ranges
<1>1. ASSUME NEW force \in Forces, Schedule(force) PROVE OpenSound'
  <2>1. /\ old.up /\ helper.at = "off" /\ helper'.at = "begin"
        /\ UNCHANGED <<old, lease, proj, crashes>>
    BY <1>1 DEF Schedule, Off
  <2>2. CASE tx.state \in Settled
    <3>1. tx'.state = "staged"
      BY <1>1, <2>2 DEF Schedule
    <3>2. crashes = 0 => Open
      BY <2>1, <2>2 DEF OpenSound, Between
    <3> QED BY <2>1, <3>1, <3>2 DEF OpenSound, Open, Between
  <2>3. CASE tx.state \notin Settled
    <3>1. tx'.state = tx.state /\ tx'.base = tx.base
      BY <1>1, <2>3 DEF Schedule, TxType
    <3> QED BY <2>1, <3>1 DEF OpenSound, Open, Between
  <2> QED BY <2>2, <2>3
<1>2. CASE Begin
  <2>1. CASE tx.state \in Settled
    <3>1. helper.at = "begin" /\ helper'.at = "off"
          /\ UNCHANGED <<tx, old, lease, proj, crashes>>
      BY <1>2, <2>1 DEF Begin, Off
    <3> QED BY <3>1 DEF OpenSound, Open, Between
  <2>2. CASE tx.state \notin Settled
    <3>1. /\ helper.at = "begin" /\ helper'.at = "admit"
          /\ helper'.touched = (tx.state \in {"starting", "rolling_back"}
                                \/ ~old.up)
          /\ UNCHANGED <<tx, old, lease, proj, crashes>>
      BY <1>2, <2>2 DEF Begin, HelperType
    <3> QED BY <3>1 DEF OpenSound, Open, Between
  <2> QED BY <2>1, <2>2
<1>3. CASE Admit
  <2>1. /\ helper.at = "admit" /\ helper'.at \in {"freeze", "ending"}
        /\ helper'.touched = helper.touched
        /\ UNCHANGED <<tx, old, proj, crashes>>
    BY <1>3 DEF Admit, Goto, Finish, HelperType
  <2> QED BY <2>1 DEF OpenSound, Open, Between
<1> QED BY <1>1, <1>2, <1>3

(* Each project is put on record as it closes.                              *)
LEMMA FreezeOpens ==
    ASSUME IInv, OpenSound, NEW p \in Project, Freeze(p)
    PROVE  OpenSound'
<1> USE DEF IInv, Ranges
<1> DEFINE quiet == tx.force \/ ~proj[p].busy
           same  == tx.base[p] \in {0, proj[p].run}
<1>1. /\ helper.at = "freeze" /\ UNCHANGED <<old, lease, crashes>>
      /\ proj' = [proj EXCEPT ![p].lease = IF quiet THEN "held" ELSE "none"]
  BY DEF Freeze, MustAsk
<1>2. /\ \A q \in Project : q # p => proj'[q].lease = proj[q].lease
      /\ ~quiet => proj'[p].lease = "none"
      /\ proj[p].run # 0
  BY <1>1, BoundAssumption DEF ProjType
<1>3. CASE quiet /\ same
  <2>1. tx' = [tx EXCEPT !.base[p] = proj[p].run]
        /\ helper' = [helper EXCEPT !.done = helper.done \cup {p}]
    BY <1>3, Zenon DEF Freeze, MustAsk
  <2>2. /\ tx'.state = tx.state /\ helper'.at = helper.at
        /\ helper'.touched = helper.touched
        /\ \A q \in Project : tx.base[q] # 0 \/ q = p => tx'.base[q] # 0
    BY <1>2, <2>1 DEF TxType, HelperType
  <2> QED BY <1>1, <1>2, <2>2 DEF OpenSound, Open, Between
<1>4. CASE ~(quiet /\ same)
  <2>1. Finish(FALSE) /\ tx' = tx
    BY <1>4 DEF Freeze, MustAsk
  <2>2. helper'.at = "ending" /\ helper'.touched = helper.touched
    BY <2>1 DEF Finish, HelperType
  <2>3. quiet => tx.base[p] # 0
    BY <1>4
  <2> QED BY <1>1, <1>2, <2>1, <2>2, <2>3 DEF OpenSound, Open, Between
<1> QED BY <1>3, <1>4

(* A step past the freeze closes nothing and leaves nothing staged.         *)
Works ==
    /\ UNCHANGED <<lease, proj, crashes>>
    /\ tx'.base = tx.base /\ tx'.state # "staged"
    /\ helper'.at \notin Between /\ (~helper'.touched => old'.up)

(* It keeps what was open.                                                  *)
LEMMA WorkOpens ==
    ASSUME OpenSound, Works
    PROVE  OpenSound'
  BY DEF OpenSound, Works

(* Every step forward is such a step.                                       *)
LEMMA ForwardWorks ==
    ASSUME IInv, OpenSound,
           Prepare \/ Stop \/ Rename \/ Mark \/ Clone \/ Record \/ Start
           \/ Answers \/ WaitTimesOut \/ Healthy
    PROVE  Works
<1> USE DEF IInv, Ranges, OpenSound, Between, Works
<1>1. CASE Prepare
  <2>1. /\ tx'.base = tx.base /\ tx'.state # "staged"
    BY <1>1 DEF Prepare, TxType
  <2>2. /\ helper'.at \in {"check", "stop", "rename"}
        /\ helper'.touched = helper.touched
    BY <1>1 DEF Prepare, HelperType
  <2> QED BY <1>1, <2>1, <2>2 DEF Prepare
<1>2. CASE Stop
  <2>1. PICK up \in BOOLEAN :
           /\ old' = [old EXCEPT !.up = up]
           /\ IF Stopped(up)
              THEN /\ helper' = [helper EXCEPT !.at = "rename",
                                               !.touched = TRUE]
                   /\ UNCHANGED tx
              ELSE RollBack
    BY <1>2 DEF Stop
  <2>2. /\ tx'.base = tx.base /\ tx'.state # "staged"
    BY <1>2, <2>1, RollBackMoves DEF Stop
  <2>3. /\ helper'.at \in {"check", "rename"} /\ helper'.touched
    BY <2>1 DEF RollBack, HelperType
  <2> QED BY <1>2, <2>2, <2>3 DEF Stop
<1>3. CASE Rename
  <2>1. /\ old'.up = old.up /\ helper'.at = "mark"
        /\ helper'.touched = helper.touched
    BY <1>3 DEF Rename, OldType, Goto, HelperType
  <2> QED BY <1>3, <2>1 DEF Rename
<1>4. CASE Mark \/ Record
  <2>1. tx'.base = tx.base /\ tx'.state = "starting"
    BY <1>4 DEF Mark, Record, TxType
  <2>2. /\ helper'.at \in {"record", "clone", "start"}
        /\ helper'.touched = helper.touched
    BY <1>4 DEF Mark, Record, Goto, HelperType
  <2> QED BY <1>4, <2>1, <2>2 DEF Mark, Record
<1>5. CASE Clone
  <2>1. CASE new = "absent"
    <3>1. helper'.at = "record" /\ helper'.touched = helper.touched /\ tx' = tx
      BY <1>5, <2>1 DEF Clone, HelperType
    <3> QED BY <1>5, <3>1 DEF Clone
  <2>2. CASE new # "absent"
    <3>1. RollBack
      BY <1>5, <2>2 DEF Clone
    <3>2. helper'.touched
      BY <3>1 DEF RollBack, HelperType
    <3> QED BY <1>5, <3>1, <3>2, RollBackMoves DEF Clone
  <2> QED BY <2>1, <2>2
<1>6. CASE Start \/ Answers
  <2>1. helper'.at \in {"wait", "publish"} /\ helper'.touched = helper.touched
    BY <1>6 DEF Start, Answers, Goto, HelperType
  <2> QED BY <1>6, <2>1 DEF Start, Answers
<1>7. CASE WaitTimesOut
  <2>1. helper'.touched
    BY <1>7 DEF WaitTimesOut, RollBack, HelperType
  <2> QED BY <1>7, <2>1, RollBackMoves DEF WaitTimesOut
<1>8. CASE Healthy
  <2>1. tx'.base = tx.base /\ tx'.state = "healthy"
    BY <1>8 DEF Healthy, TxType
  <2>2. helper'.at = "ending" /\ helper'.touched = helper.touched
    BY <1>8 DEF Healthy, Finish, HelperType
  <2> QED BY <1>8, <2>1, <2>2 DEF Healthy
<1> QED BY <1>1, <1>2, <1>3, <1>4, <1>5, <1>6, <1>7, <1>8

(* So is every step back, and every command that fails.                     *)
LEMMA BackWorks ==
    ASSUME IInv, OpenSound,
           Check \/ Remove \/ RenameBack \/ StartOld \/ WaitOld \/ RolledBack
           \/ CommandFails
    PROVE  Works
<1> USE DEF IInv, Ranges, OpenSound, Between, Works
<1>1. CASE Check \/ Remove \/ WaitOld
  <2>1. /\ helper'.at \in {"remove", "renameBack", "publishOld", "ending"}
        /\ helper'.touched = helper.touched
    BY <1>1 DEF Check, Remove, WaitOld, Goto, Finish, HelperType
  <2> QED BY <1>1, <2>1 DEF Check, Remove, WaitOld
<1>2. CASE RenameBack \/ StartOld
  <2>1. /\ helper'.at \in {"startOld", "waitOld", "ending"}
        /\ helper'.touched = helper.touched
    BY <1>2 DEF RenameBack, StartOld, Goto, Finish, HelperType
  <2>2. old'.up \/ old'.up = old.up
    BY <1>2 DEF RenameBack, StartOld, OldType
  <2> QED BY <1>2, <2>1, <2>2 DEF RenameBack, StartOld
<1>3. CASE RolledBack
  <2>1. tx'.base = tx.base /\ tx'.state = "rolled_back"
    BY <1>3 DEF RolledBack, TxType
  <2>2. helper'.at = "ending" /\ helper'.touched = helper.touched
    BY <1>3 DEF RolledBack, Finish, HelperType
  <2> QED BY <1>3, <2>1, <2>2 DEF RolledBack
<1>4. CASE CommandFails
  <2>1. CASE RollBack
    <3>1. helper'.touched
      BY <2>1 DEF RollBack, HelperType
    <3> QED BY <1>4, <2>1, <3>1, RollBackMoves DEF CommandFails
  <2>2. CASE Finish(FALSE) /\ tx' = tx
    <3>1. helper'.at = "ending" /\ helper'.touched = helper.touched
      BY <2>2 DEF Finish, HelperType
    <3> QED BY <1>4, <2>2, <3>1 DEF CommandFails
  <2> QED BY <1>4, <2>1, <2>2 DEF CommandFails
<1> QED BY <1>1, <1>2, <1>3, <1>4

(* An attempt that ends opens what it may, and with it everything unless    *)
(* the manager was touched and the transaction is unfinished.               *)
LEMMA EndOpens ==
    ASSUME IInv, OpenSound, End \/ Dies
    PROVE  OpenSound'
<1> USE DEF IInv, Ranges
<1>1. ASSUME StartedAgain \/ helper' = Off
      PROVE  helper'.at \in Between
  BY <1>1 DEF StartedAgain, Off, Between
<1>2. CASE Dies
  <2>1. crashes' # 0 /\ UNCHANGED <<tx, old, lease>>
    BY <1>2 DEF Dies
  <2>2. helper'.at \in Between
    BY <1>1, <1>2 DEF Dies
  <2> QED BY <2>1, <2>2 DEF OpenSound
<1>3. CASE End
  <2>1. /\ helper.at = "ending" /\ helper'.at \in Between
        /\ UNCHANGED <<old, crashes>>
    BY <1>1, <1>3 DEF End
  <2>2. tx'.state = "staged" => ~helper.touched
    BY <1>3, <2>1 DEF End, Untouched, OpenSound, Between
  <2>3. tx'.state = "staged" => old'.up
    BY <2>1, <2>2 DEF OpenSound, Between
  <2>4. CASE Opens
    <3>1. lease' = "none"
      BY <1>3, <2>4 DEF End
    <3>2. crashes = 0 => \A p \in Project : proj'[p].lease # "held"
      <4> SUFFICES ASSUME crashes = 0, NEW p \in Project
                   PROVE  proj'[p].lease # "held"
          OBVIOUS
      <4>1. proj[p].lease = "held" => tx.base[p] # 0
        BY DEF OpenSound
      <4>2. proj'[p] = IF tx.base[p] # 0
                       THEN [proj[p] EXCEPT !.lease = "none"] ELSE proj[p]
        BY <1>3, <2>4 DEF End
      <4> QED BY <4>1, <4>2 DEF ProjType
    <3> QED BY <2>1, <2>3, <3>1, <3>2 DEF OpenSound, Open, Between
  <2>5. CASE ~Opens
    <3>1. /\ helper.touched /\ tx.state \notin Settled
          /\ tx' = tx /\ lease' = lease
      BY <1>3, <2>5 DEF End, Opens
    <3>2. \A p \in Project : proj'[p] = proj[p]
      BY <1>3, <2>5 DEF End
    <3>3. tx.state # "staged"
      BY <2>1, <3>1 DEF OpenSound, Between
    <3> QED BY <2>1, <3>1, <3>2, <3>3 DEF OpenSound
  <2> QED BY <2>4, <2>5
<1> QED BY <1>2, <1>3

(* No step closes anything for good.                                        *)
LEMMA StepOpens == IInv /\ OpenSound /\ [Next]_vars => OpenSound'
<1> SUFFICES ASSUME IInv, OpenSound, [Next]_vars PROVE OpenSound'
    OBVIOUS
<1>1. CASE ProjectNext \/ LeaseExpires
  BY <1>1, ProjectOpens
<1>2. CASE Begin \/ Admit \/ \E force \in Forces : Schedule(force)
  BY <1>2, BeginOpens
<1>3. CASE \E p \in Project : Freeze(p)
  BY <1>3, FreezeOpens
<1>4. CASE \/ Prepare \/ Stop \/ Rename \/ Mark \/ Clone \/ Record \/ Start
           \/ Answers \/ WaitTimesOut \/ Healthy
  BY <1>4, ForwardWorks, WorkOpens
<1>5. CASE \/ Check \/ Remove \/ RenameBack \/ StartOld \/ WaitOld
           \/ RolledBack \/ CommandFails
  BY <1>5, BackWorks, WorkOpens
<1>6. CASE End \/ Dies
  BY <1>6, EndOpens
<1>7. CASE UNCHANGED vars
  BY <1>7 DEF vars, OpenSound, Open
<1> QED BY <1>1, <1>2, <1>3, <1>4, <1>5, <1>6, <1>7 DEF Next, HelperNext

(* Nothing stays closed behind a rollout whose helper ended by itself, for  *)
(* any number of projects, attempts and rollouts: the deferred release is   *)
(* reached with every closed project on record (manager_linux.go:278-288).  *)
THEOREM RolloutReopens == Spec => []Reopens
<1>1. IInv /\ OpenSound => Reopens
  BY DEF OpenSound, Open, Between, Reopens
<1>2. Spec => []OpenSound
  <2>1. Init => OpenSound
    BY InitOpens
  <2>2. IInv /\ OpenSound /\ [Next]_vars => OpenSound'
    BY StepOpens
  <2> QED BY <2>1, <2>2, Invariant, PTL DEF Spec
<1> QED BY <1>1, <1>2, Invariant, PTL
=============================================================================
